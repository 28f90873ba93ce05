--------------------------- MODULE Reconnect_proofs ---------------------------
(***************************************************************************)
(* Proofs about one `pty-relay connect`, for any number of attempts side   *)
(* by side and any MAX_RECONNECT_ATTEMPTS.                                 *)
(*                                                                         *)
(* Only one closure at a time is live: the latest, while the command lists *)
(* or tries.  Every other one is done, and whatever still arrives on its   *)
(* socket cannot bring it back: its peer has answered or is gone.  From    *)
(* that follow who may listen to the keyboard, who may decide how the      *)
(* command goes on, and that the budget is charged once per attempt.       *)
(***************************************************************************)
EXTENDS Reconnect, TLAPS

-----------------------------------------------------------------------------
(* The inductive invariant.                                                *)

Live(s) == s = cur /\ program \in {"listing", "trying"}

(* A closure that is done stays without a tunnel: no `paired` can come any *)
(* more, which would make it handshake again.  A terminal belongs to an    *)
(* attempt that had its tunnel.                                            *)
Sane(r) ==
  /\ r \in Closures
  /\ r.done => /\ r.st \notin {"handshaking", "ready"}
               /\ r.peer \in {"ready", "over"}
  /\ r.term # "none" => r.use = "attach" /\ r.peer \in {"ready", "over"}

(* Who is not live is done, and keeps a terminal only as the command ends. *)
SlotsAreSane ==
  \A s \in Slots :
    /\ Sane(slot[s])
    /\ Live(s) \/ slot[s].done
    /\ slot[s].term # "none" => ~slot[s].done \/ program = "ended"

(* Who listens to the keyboard.                                            *)
ReaderIsLive ==
  /\ \A x \in tty.readers \ {Sleeper} :
       x = cur /\ program = "trying" /\ ~slot[x].done /\ slot[x].term = "attached"
  /\ Sleeper \in tty.readers <=> program = "sleeping" /\ kind = "self"
  /\ tty.raw <=> tty.readers # {}

(* An attempt is counted when it starts, a failure when it ends.           *)
BudgetIsCharged ==
  /\ attempt <= fails + 1
  /\ program = "sleeping" => attempt <= fails /\ attempt < MaxAttempts
  /\ result = "none" <=> program # "ended"
  /\ GivesUpLate

(* What each phase of the command works with.                              *)
PhaseIsKept ==
  /\ program = "listing" => slot[cur].use = "list"
  /\ program = "trying" => slot[cur].use = "attach"
  /\ spawn \/ kind = "public" => program \notin {"listing", "picking"}

(* Once a session was asked for, whoever may still become ready attaches.  *)
SpawnIsSpent ==
  /\ SpawnsOnce
  /\ spawns > 0 => /\ spawn /\ program # "start"
                   /\ \A s \in Slots : slot[s].re \/ slot[s].peer \in {"ready", "over"}

IInv == /\ TypeOK /\ SlotsAreSane /\ ReaderIsLive
        /\ BudgetIsCharged /\ PhaseIsKept /\ SpawnIsSpent

-----------------------------------------------------------------------------
USE ReconnectMax, ReconnectSleeper

(* What a handler may make of a closure.                                   *)
Follows(s, r) ==
  /\ Sane(r) /\ r.use = slot[s].use /\ r.re = slot[s].re
  /\ slot[s].peer \in {"ready", "over"} => r.peer \in {"ready", "over"}
  /\ r.done = slot[s].done

LEMMA Going ==
  ASSUME IInv, NEW s \in Slots, NEW r, NEW t,
         Goes(s, r, t), Follows(s, r),
         r.term # "none" => slot[s].term # "none" \/ ~r.done,
         \/ t = tty /\ (s \in tty.readers => r.term = "attached")
         \/ t = NoKeys /\ Live(s)
         \/ /\ t = [raw |-> TRUE, readers |-> {s}] /\ Live(s)
            /\ program = "trying" /\ ~r.done /\ r.term = "attached",
         UNCHANGED <<flow, up, spawns>>,
         token' \in BOOLEAN, row' \in {"none", "bare", "token"}
  PROVE  IInv'
<1>1. /\ slot' = [slot EXCEPT ![s] = r] /\ tty' = t
      /\ UNCHANGED <<program, result, attempt, fails, kind, spawn, again, cur,
                     urlToken, up, spawns>>
  BY DEF Goes, loop, flow
<1>2. slot \in [Slots -> Closures] /\ r \in Closures
  BY DEF IInv, TypeOK, Follows, Sane
<1>3. /\ slot'[s] = r /\ \A x \in Slots \ {s} : slot'[x] = slot[x]
      /\ slot' \in [Slots -> Closures]
  BY <1>1, <1>2
<1>4. TypeOK'
  <2>1. tty' \in [raw : BOOLEAN, readers : SUBSET (Slots \cup {Sleeper})]
    <3>1. tty \in [raw : BOOLEAN, readers : SUBSET (Slots \cup {Sleeper})]
      BY DEF IInv, TypeOK
    <3>2. NoKeys \in [raw : BOOLEAN, readers : SUBSET (Slots \cup {Sleeper})]
      BY DEF NoKeys
    <3>3. {s} \in SUBSET (Slots \cup {Sleeper})
      OBVIOUS
    <3>4. [raw |-> TRUE, readers |-> {s}]
            \in [raw : BOOLEAN, readers : SUBSET (Slots \cup {Sleeper})]
      BY <3>3
    <3>. QED  BY <1>1, <3>1, <3>2, <3>4
  <2>. QED  BY <1>1, <1>3, <2>1 DEF IInv, TypeOK
<1>5. SlotsAreSane'
  BY <1>1, <1>3 DEF IInv, SlotsAreSane, Follows, Live
<1>6. ReaderIsLive'
  BY <1>1, <1>3 DEF IInv, TypeOK, ReaderIsLive, Live, NoKeys, Follows
<1>7. BudgetIsCharged' /\ PhaseIsKept' /\ SpawnIsSpent'
  BY <1>1, <1>3 DEF IInv, TypeOK, BudgetIsCharged, GivesUpLate, PhaseIsKept, SpawnIsSpent,
     SpawnsOnce, Follows
<1>. QED  BY <1>4, <1>5, <1>6, <1>7 DEF IInv

(* A command that is over: the process exits, or connectPublic returns.     *)
LEMMA Ending ==
  ASSUME IInv, NEW s \in Slots, NEW r, NEW t,
         NEW res \in {"detached", "exited", "error", "disconnected"},
         End(res, s, r, t), program # "start" \/ spawns = 0,
         res = "disconnected" => fails' >= MaxAttempts,
         attempt' \in 0..MaxAttempts, fails' \in Nat, attempt' <= fails' + 1,
         res # "error" => /\ Sane(r) /\ r.done /\ t = NoKeys
                          /\ slot[s].re => r.re
                          /\ slot[s].peer \in {"ready", "over"} => r.peer \in {"ready", "over"},
         res # "error" => \A x \in Slots \ {s} : slot[x].done,
         UNCHANGED <<flow, hosts, up, spawns>>
  PROVE  IInv'
<1>1. /\ program' = "ended" /\ result' = res /\ res # "none"
      /\ tty' = NoKeys
      /\ UNCHANGED <<kind, spawn, again, cur, urlToken, token, row, up, spawns>>
  BY DEF End, flow, hosts
<1>2. Idle \in Closures /\ Sane(Idle) /\ Idle.peer = "over" /\ Idle.done /\ Idle.term = "none"
  BY DEF Idle, Closures, Sane
<1>3. /\ slot' \in [Slots -> Closures]
      /\ \A x \in Slots : Sane(slot'[x]) /\ slot'[x].done
      /\ \A x \in Slots : slot'[x].peer \in {"ready", "over"}
  <2>1. CASE kind = "self" \/ res = "error"
    BY <2>1, <1>2 DEF End
  <2>2. CASE ~(kind = "self" \/ res = "error")
    <3>1. slot' = [slot EXCEPT ![s] = r] /\ slot \in [Slots -> Closures] /\ r \in Closures
      BY <2>2 DEF End, IInv, TypeOK, Sane
    <3>2. slot'[s] = r /\ \A x \in Slots \ {s} : slot'[x] = slot[x]
      BY <3>1
    <3>. QED  BY <2>2, <3>1, <3>2 DEF IInv, SlotsAreSane, Sane
  <2>. QED  BY <2>1, <2>2
<1>4. TypeOK'
  <2>1. tty' \in [raw : BOOLEAN, readers : SUBSET (Slots \cup {Sleeper})]
    BY <1>1 DEF NoKeys
  <2>. QED  BY <1>1, <1>3, <2>1 DEF IInv, TypeOK
<1>5. SlotsAreSane'
  BY <1>1, <1>3 DEF SlotsAreSane
<1>6. ReaderIsLive'
  BY <1>1 DEF ReaderIsLive, NoKeys
<1>7. BudgetIsCharged' /\ PhaseIsKept'
  BY <1>1 DEF BudgetIsCharged, GivesUpLate, PhaseIsKept
<1>8. SpawnIsSpent'
  BY <1>1, <1>3 DEF IInv, SpawnIsSpent, SpawnsOnce
<1>. QED  BY <1>4, <1>5, <1>6, <1>7, <1>8 DEF IInv

LEMMA Losing ==
  ASSUME IInv, NEW s \in Slots, NEW r, NEW was \in BOOLEAN,
         Lost(s, r, was, NoKeys), Live(s),
         Sane(r), r.done, r.use = slot[s].use, r.re = slot[s].re, r.term = "none",
         slot[s].peer \in {"ready", "over"} => r.peer \in {"ready", "over"},
         UNCHANGED <<flow, hosts, up, spawns>>
  PROVE  IInv'
<1>1. /\ attempt' = IF was THEN 0 ELSE attempt
      /\ fails' = IF was THEN 0 ELSE fails + 1
  BY DEF Lost, LostSelf, LostPublic, Budget
<1>2. /\ attempt \in 0..MaxAttempts /\ fails \in Nat /\ attempt <= fails + 1
      /\ slot \in [Slots -> Closures] /\ r \in Closures
  BY DEF IInv, TypeOK, BudgetIsCharged, Sane
<1>3. /\ attempt' \in 0..MaxAttempts /\ fails' \in Nat
      /\ attempt' <= fails' /\ attempt' <= fails' + 1
  BY <1>1, <1>2
<1>4. \A x \in Slots \ {s} : slot[x].done
  BY DEF IInv, SlotsAreSane, Live
<1>5. program \in {"listing", "trying"} /\ s = cur /\ kind \in {"self", "public"}
  BY DEF Live, IInv, TypeOK
<1>. DEFINE lost == "disconnected"
<1>6. CASE attempt' >= MaxAttempts
  <2>0. /\ lost \in {"detached", "exited", "error", "disconnected"}
        /\ lost # "error" /\ program # "start"
    BY <1>5
  <2>1. fails' >= MaxAttempts
    BY <1>3, <1>6
  <2>2. CASE kind = "self"
    <3>1. End(lost, s, r, NoKeys)
      BY <1>6, <2>2 DEF Lost, LostSelf
    <3>. HIDE DEF lost
    <3>. QED  BY <1>3, <1>4, <2>0, <2>1, <3>1, Ending
  <2>3. CASE kind = "public"
    <3>1. End(lost, s, r, NoKeys)
      BY <1>6, <2>3 DEF Lost, LostPublic, End
    <3>. HIDE DEF lost
    <3>. QED  BY <1>3, <1>4, <2>0, <2>1, <3>1, Ending
  <2>. QED  BY <1>5, <2>2, <2>3
<1>7. CASE ~(attempt' >= MaxAttempts)
  <2>1. /\ program' = "sleeping" /\ result' = result
        /\ slot' = [slot EXCEPT ![s] = r]
        /\ UNCHANGED <<kind, spawn, again, cur, urlToken, token, row, up, spawns>>
    BY <1>7 DEF Lost, LostSelf, LostPublic, flow, hosts
  <2>2. /\ slot'[s] = r /\ \A x \in Slots \ {s} : slot'[x] = slot[x]
        /\ slot' \in [Slots -> Closures]
    BY <1>2, <2>1
  <2>3. tty' = IF kind = "self" THEN [raw |-> TRUE, readers |-> {Sleeper}] ELSE NoKeys
    BY <1>5, <1>7 DEF Lost, LostSelf, LostPublic, NoKeys
  <2>4. tty' \in [raw : BOOLEAN, readers : SUBSET (Slots \cup {Sleeper})]
    <3>1. NoKeys \in [raw : BOOLEAN, readers : SUBSET (Slots \cup {Sleeper})]
      BY DEF NoKeys
    <3>2. [raw |-> TRUE, readers |-> {Sleeper}]
            \in [raw : BOOLEAN, readers : SUBSET (Slots \cup {Sleeper})]
      OBVIOUS
    <3>. QED  BY <2>3, <3>1, <3>2
  <2>5. TypeOK'
    BY <1>3, <2>1, <2>2, <2>4 DEF IInv, TypeOK
  <2>6. SlotsAreSane'
    BY <1>4, <1>5, <2>1, <2>2 DEF IInv, SlotsAreSane
  <2>7. ReaderIsLive'
    BY <1>5, <2>1, <2>3 DEF ReaderIsLive, NoKeys
  <2>8. BudgetIsCharged'
    <3>1. result = "none"
      BY <1>5 DEF IInv, BudgetIsCharged
    <3>2. attempt' < MaxAttempts
      BY <1>3, <1>7
    <3>. QED  BY <1>3, <2>1, <3>1, <3>2 DEF BudgetIsCharged, GivesUpLate
  <2>9. PhaseIsKept' /\ SpawnIsSpent'
    BY <2>1, <2>2 DEF IInv, PhaseIsKept, SpawnIsSpent, SpawnsOnce
  <2>. QED  BY <2>5, <2>6, <2>7, <2>8, <2>9 DEF IInv
<1>. QED  BY <1>6, <1>7

(* done(reason), whoever calls it.                                         *)
LEMMA Finishing ==
  ASSUME IInv, NEW s \in Slots, NEW r, NEW t, NEW was \in BOOLEAN,
         NEW reason \in {"lost", "exited", "error", "detached"},
         Done(s, r, reason, was, t), Follows(s, r),
         reason # "error" => /\ r.st \notin {"handshaking", "ready"}
                             /\ r.peer \in {"ready", "over"},
         reason = "lost" => r.term = "none",
         r.term # "none" => slot[s].term # "none",
         slot[s].done => t = tty,
         ~slot[s].done /\ reason # "error" => t = NoKeys,
         UNCHANGED <<flow, hosts, up, spawns>>
  PROVE  IInv'
<1>1. CASE r.done
  <2>1. Goes(s, r, t)
    BY <1>1 DEF Done, Goes
  <2>2. slot[s].done /\ t = tty /\ s \notin tty.readers
    BY <1>1, ReconnectSleeper DEF Follows, IInv, ReaderIsLive
  <2>3. token' \in BOOLEAN /\ row' \in {"none", "bare", "token"}
    BY DEF hosts, IInv, TypeOK
  <2>. QED  BY <2>1, <2>2, <2>3, Going
<1>2. CASE ~r.done
  <2>. DEFINE r2 == [r EXCEPT !.done = TRUE, !.timer = FALSE]
  <2>1. Live(s) /\ ~slot[s].done
    BY <1>2 DEF Follows, IInv, SlotsAreSane
  <2>2. r \in Closures
    BY DEF Follows, Sane
  <2>3. /\ r2 \in Closures /\ r2.done /\ r2.use = r.use /\ r2.re = r.re
        /\ r2.term = r.term /\ r2.st = r.st /\ r2.peer = r.peer
    BY <2>2 DEF Closures
  <2>4. reason # "error" => Sane(r2)
    BY <2>3 DEF Follows, Sane
  <2>5. \A x \in Slots \ {s} : slot[x].done
    BY <2>1 DEF IInv, SlotsAreSane, Live
  <2>6. Done(s, r, reason, was, t) <=>
          IF reason = "lost" THEN Lost(s, r2, was, t)
          ELSE End(reason, s, r2, t) /\ UNCHANGED <<attempt, fails>>
    BY <1>2 DEF Done
  <2>. HIDE DEF r2
  <2>7. CASE reason = "lost"
    <3>1. Lost(s, r2, was, NoKeys)
      BY <2>1, <2>6, <2>7
    <3>. QED  BY <2>1, <2>3, <2>4, <2>7, <3>1, Losing DEF Follows
  <2>8. CASE reason # "lost"
    <3>1. End(reason, s, r2, t) /\ UNCHANGED <<attempt, fails>>
      BY <2>6, <2>8
    <3>2. attempt' \in 0..MaxAttempts /\ fails' \in Nat /\ attempt' <= fails' + 1
      BY <3>1 DEF IInv, TypeOK, BudgetIsCharged
    <3>3. reason \in {"detached", "exited", "error", "disconnected"} /\ reason # "disconnected"
      BY <2>8
    <3>4. program # "start"
      BY <2>1 DEF Live
    <3>. QED  BY <2>1, <2>3, <2>4, <2>5, <3>1, <3>2, <3>3, <3>4, Ending DEF Follows
  <2>. QED  BY <2>7, <2>8
<1>. QED  BY <1>1, <1>2

(* Terminal.cleanup gives the keyboard back, or finds it given back.       *)
LEMMA Tidying ==
  ASSUME IInv, NEW s \in Slots
  PROVE  /\ slot[s].done => Tidy(s) = tty
         /\ ~slot[s].done => Tidy(s) = NoKeys
<1>1. tty \in [raw : BOOLEAN, readers : SUBSET (Slots \cup {Sleeper})]
  BY DEF IInv, TypeOK
<1>2. ASSUME slot[s].done, slot[s].term # "none" PROVE tty = NoKeys
  <2>1. program = "ended"
    BY <1>2 DEF IInv, SlotsAreSane
  <2>2. tty.readers = {} /\ tty.raw = FALSE
    BY <1>1, <2>1 DEF IInv, ReaderIsLive
  <2>. QED  BY <1>1, <2>2 DEF NoKeys
<1>3. ASSUME ~slot[s].done
      PROVE  tty.readers \subseteq {s} /\ (slot[s].term = "none" => tty.readers = {})
  BY <1>1, <1>3 DEF IInv, SlotsAreSane, Live, ReaderIsLive
<1>4. ASSUME ~slot[s].done, slot[s].term = "none" PROVE tty = NoKeys
  <2>1. tty.readers = {} /\ tty.raw = FALSE
    BY <1>1, <1>3, <1>4 DEF IInv, ReaderIsLive
  <2>. QED  BY <1>1, <2>1 DEF NoKeys
<1>5. ASSUME ~slot[s].done, slot[s].term # "none" PROVE Tidy(s) = NoKeys
  <2>1. tty.readers \ {s} = {}
    BY <1>3, <1>5
  <2>. QED  BY <1>5, <2>1 DEF Tidy, NoKeys
<1>6. ASSUME slot[s].done, slot[s].term # "none" PROVE Tidy(s) = tty
  <2>1. tty = NoKeys /\ {} \ {s} = {}
    BY <1>2, <1>6
  <2>. QED  BY <1>6, <2>1 DEF Tidy, NoKeys
<1>. QED  BY <1>4, <1>5, <1>6 DEF Tidy

LEMMA Closing ==
  ASSUME NEW c \in Closures
  PROVE  LET r == Closed(c) IN
         /\ r \in Closures /\ r.st = "closed"
         /\ r.use = c.use /\ r.re = c.re /\ r.peer = c.peer /\ r.term = c.term
         /\ r.done = c.done
  BY DEF Closed, Closures

LEMMA ClosingFollows ==
  ASSUME NEW s \in Slots, NEW r, Follows(s, r)
  PROVE  /\ Follows(s, Closed(r)) /\ Closed(r).st = "closed"
         /\ Closed(r).peer = r.peer /\ Closed(r).term = r.term
<1>1. r \in Closures
  BY DEF Follows, Sane
<1>. QED  BY <1>1, Closing DEF Follows, Sane

LEMMA Rejecting ==
  ASSUME IInv, NEW s \in Slots, NEW r, Rejects(s, r), Follows(s, r),
         r.term # "none" => slot[s].term # "none",
         UNCHANGED <<flow, hosts, up, spawns>>
  PROVE  IInv'
<1>1. Done(s, r, "error", FALSE, tty)
  BY DEF Rejects
<1>. QED  BY <1>1, Finishing

LEMMA Quitting ==
  ASSUME IInv, NEW s \in Slots, NEW r, NEW t,
         NEW reason \in {"exited", "error", "detached"},
         Quits(s, r, reason, t), Follows(s, r),
         reason # "error" => r.peer \in {"ready", "over"},
         r.term # "none" => slot[s].term # "none",
         slot[s].done => t = tty,
         ~slot[s].done /\ reason # "error" => t = NoKeys,
         UNCHANGED <<flow, hosts, up, spawns>>
  PROVE  IInv'
<1>. DEFINE q == [Closed(r) EXCEPT !.intent = TRUE]
<1>1. Follows(s, Closed(r)) /\ Closed(r).st = "closed"
      /\ Closed(r).peer = r.peer /\ Closed(r).term = r.term
  BY ClosingFollows
<1>2. Closed(r) \in Closures
  BY <1>1 DEF Follows, Sane
<1>3. /\ q \in Closures /\ q.st = "closed" /\ q.use = Closed(r).use
      /\ q.re = Closed(r).re /\ q.peer = Closed(r).peer
      /\ q.term = Closed(r).term /\ q.done = Closed(r).done
  BY <1>1, <1>2 DEF Closures
<1>4. Done(s, q, reason, FALSE, t)
  BY DEF Quits
<1>. HIDE DEF q
<1>5. Follows(s, q)
  BY <1>1, <1>3 DEF Follows, Sane
<1>6. reason \in {"lost", "exited", "error", "detached"} /\ reason # "lost"
  OBVIOUS
<1>. QED  BY <1>1, <1>3, <1>4, <1>5, <1>6, Finishing

(* What is known of a closure.                                             *)
LEMMA Slot ==
  ASSUME IInv, NEW s \in Slots
  PROVE  /\ slot[s] \in Closures /\ Follows(s, slot[s])
         /\ Live(s) \/ slot[s].done
         /\ slot[s].done => slot[s].st \notin {"handshaking", "ready"}
                            /\ slot[s].peer \in {"ready", "over"}
         /\ slot[s].term # "none" => slot[s].peer \in {"ready", "over"}
         /\ s \in tty.readers => slot[s].term = "attached" /\ ~slot[s].done
         /\ token \in BOOLEAN /\ row \in {"none", "bare", "token"}
  BY ReconnectSleeper DEF IInv, TypeOK, SlotsAreSane, Sane, Follows, ReaderIsLive

-----------------------------------------------------------------------------
(* The socket.                                                             *)

(* A handler that changes nothing but the socket and the timers.           *)
LEMMA Touching ==
  ASSUME IInv, NEW s \in Slots, NEW r \in Closures, Goes(s, r, tty),
         r.use = slot[s].use, r.re = slot[s].re, r.done = slot[s].done,
         r.term = slot[s].term,
         slot[s].peer \in {"ready", "over"} => r.peer \in {"ready", "over"},
         r.done => r.st = slot[s].st \/ r.st \notin {"handshaking", "ready"},
         UNCHANGED <<flow, hosts, up, spawns>>
  PROVE  IInv'
<1>1. Follows(s, r)
  BY Slot DEF Follows, Sane
<1>2. token' \in BOOLEAN /\ row' \in {"none", "bare", "token"}
  BY Slot DEF hosts
<1>. QED  BY <1>1, <1>2, Slot, Going

LEMMA OpensKeeps ==
  ASSUME IInv, NEW s \in Slots, WsOpens(s) \/ RelayCloses(s) \/ PongArrives(s)
  PROVE  IInv'
<1>. DEFINE r == [slot[s] EXCEPT !.ws = "open", !.st = "waiting", !.ping = TRUE]
            q == [slot[s] EXCEPT !.ws = "dying"]
            u == [slot[s] EXCEPT !.pong = FALSE]
<1>1. slot[s] \in Closures
  BY Slot
<1>2. /\ r \in Closures /\ r.use = slot[s].use /\ r.re = slot[s].re /\ r.st = "waiting"
      /\ r.done = slot[s].done /\ r.peer = slot[s].peer /\ r.term = slot[s].term
  BY <1>1 DEF Closures
<1>3. /\ q \in Closures /\ q.use = slot[s].use /\ q.re = slot[s].re /\ q.st = slot[s].st
      /\ q.done = slot[s].done /\ q.peer = slot[s].peer /\ q.term = slot[s].term
  BY <1>1 DEF Closures
<1>4. /\ u \in Closures /\ u.use = slot[s].use /\ u.re = slot[s].re /\ u.st = slot[s].st
      /\ u.done = slot[s].done /\ u.peer = slot[s].peer /\ u.term = slot[s].term
  BY <1>1 DEF Closures
<1>5. CASE WsOpens(s)
  <2>1. Goes(s, r, tty) /\ UNCHANGED <<flow, hosts, up, spawns>>
    BY <1>5 DEF WsOpens
  <2>. HIDE DEF r
  <2>. QED  BY <1>2, <2>1, Touching
<1>6. CASE RelayCloses(s)
  <2>1. Goes(s, q, tty) /\ UNCHANGED <<flow, hosts, up, spawns>>
    BY <1>6 DEF RelayCloses
  <2>. HIDE DEF q
  <2>. QED  BY <1>3, <2>1, Touching
<1>7. CASE PongArrives(s)
  <2>1. Goes(s, u, tty) /\ UNCHANGED <<flow, hosts, up, spawns>>
    BY <1>7 DEF PongArrives
  <2>. HIDE DEF u
  <2>. QED  BY <1>4, <2>1, Touching
<1>. QED  BY <1>5, <1>6, <1>7

LEMMA FailsKeeps ==
  ASSUME IInv, NEW s \in Slots, WsFails(s)
  PROVE  IInv'
<1>. DEFINE r == [slot[s] EXCEPT !.ws = "dying"]
<1>1. slot[s] \in Closures
  BY Slot
<1>2. /\ r \in Closures /\ r.use = slot[s].use /\ r.re = slot[s].re
      /\ r.st = slot[s].st /\ r.done = slot[s].done /\ r.peer = slot[s].peer /\ r.term = slot[s].term
  BY <1>1 DEF Closures
<1>3. Follows(s, r)
  BY <1>2, Slot DEF Follows, Sane
<1>4. /\ IF r.use = "list" THEN Rejects(s, r) ELSE Goes(s, r, tty)
      /\ UNCHANGED <<flow, hosts, up, spawns>>
  BY DEF WsFails
<1>. HIDE DEF r
<1>. QED  BY <1>2, <1>3, <1>4, Touching, Rejecting

LEMMA PingKeeps ==
  ASSUME IInv, NEW s \in Slots, PingFires(s) \/ PongTimesOut(s)
  PROVE  IInv'
<1>. DEFINE r == [slot[s] EXCEPT !.ping = (@ /\ slot[s].st # "closed"),
                                 !.pong = @ \/ slot[s].ws \in {"open", "half"}]
            q == [slot[s] EXCEPT !.ping = FALSE, !.ws = "dying"]
            u == [slot[s] EXCEPT !.pong = FALSE,
                    !.ws = IF slot[s].st = "closed" THEN @ ELSE "dying"]
<1>1. slot[s] \in Closures
  BY Slot
<1>2. /\ r \in Closures /\ r.use = slot[s].use /\ r.re = slot[s].re
      /\ r.st = slot[s].st /\ r.done = slot[s].done /\ r.peer = slot[s].peer /\ r.term = slot[s].term
  BY <1>1, ZenonT(90) DEF Closures
<1>3. /\ q \in Closures /\ q.use = slot[s].use /\ q.re = slot[s].re
      /\ q.st = slot[s].st /\ q.done = slot[s].done /\ q.peer = slot[s].peer /\ q.term = slot[s].term
  BY <1>1 DEF Closures
<1>4. /\ u \in Closures /\ u.use = slot[s].use /\ u.re = slot[s].re
      /\ u.st = slot[s].st /\ u.done = slot[s].done /\ u.peer = slot[s].peer /\ u.term = slot[s].term
  BY <1>1 DEF Closures
<1>5. CASE PingFires(s)
  <2>1. (Goes(s, r, tty) \/ Goes(s, q, tty)) /\ UNCHANGED <<flow, hosts, up, spawns>>
    BY <1>5 DEF PingFires
  <2>. HIDE DEF r, q
  <2>. QED  BY <1>2, <1>3, <2>1, Touching
<1>6. CASE PongTimesOut(s)
  <2>1. Goes(s, u, tty) /\ UNCHANGED <<flow, hosts, up, spawns>>
    BY <1>6 DEF PongTimesOut
  <2>. HIDE DEF u
  <2>. QED  BY <1>4, <2>1, Touching
<1>. QED  BY <1>5, <1>6

(* onClose and onPeerDisconnected of an attempt.                           *)
LEMMA Dropping ==
  ASSUME IInv, NEW s \in Slots, NEW r, Drops(s, r, Tidy(s)), Follows(s, r),
         r.st = "closed", r.peer = "over",
         UNCHANGED <<flow, hosts, up, spawns>>
  PROVE  IInv'
<1>. DEFINE q == [r EXCEPT !.term = "none"]
<1>1. r \in Closures
  BY DEF Follows, Sane
<1>2. /\ q \in Closures /\ q.use = r.use /\ q.re = r.re /\ q.st = r.st
      /\ q.done = r.done /\ q.peer = r.peer /\ q.term = "none"
  BY <1>1 DEF Closures
<1>3. IF r.intent THEN Goes(s, q, Tidy(s))
      ELSE Done(s, q, "lost", r.term # "none", Tidy(s))
  BY DEF Drops
<1>. HIDE DEF q
<1>4. Follows(s, q)
  BY <1>2 DEF Follows, Sane
<1>5. /\ slot[s].done => Tidy(s) = tty /\ s \notin tty.readers
      /\ ~slot[s].done => Tidy(s) = NoKeys /\ Live(s)
      /\ token' \in BOOLEAN /\ row' \in {"none", "bare", "token"}
  BY Tidying, Slot DEF hosts
<1>6. CASE r.intent
  BY <1>2, <1>3, <1>4, <1>5, <1>6, Going
<1>7. CASE ~r.intent
  <2>1. (r.term # "none") \in BOOLEAN /\ "lost" \in {"lost", "exited", "error", "detached"}
    OBVIOUS
  <2>. QED  BY <1>2, <1>3, <1>4, <1>5, <1>7, <2>1, Finishing
<1>. QED  BY <1>6, <1>7

LEMMA CloseKeeps ==
  ASSUME IInv, NEW s \in Slots, CloseEvent(s)
  PROVE  IInv'
<1>. DEFINE c == Closed(slot[s])
            r == [c EXCEPT !.ws = "closed", !.peer = "over"]
<1>1. /\ c \in Closures /\ c.use = slot[s].use /\ c.re = slot[s].re
      /\ c.st = "closed" /\ c.done = slot[s].done /\ c.term = slot[s].term
  BY Slot, Closing
<1>. HIDE DEF c
<1>2. /\ r \in Closures /\ r.use = slot[s].use /\ r.re = slot[s].re
      /\ r.st = "closed" /\ r.done = slot[s].done /\ r.peer = "over"
      /\ r.term = slot[s].term
  BY <1>1 DEF Closures
<1>3. Follows(s, r)
  BY <1>2, Slot DEF Follows, Sane
<1>4. /\ IF r.use = "attach" THEN Drops(s, r, Tidy(s)) ELSE Goes(s, r, tty)
      /\ UNCHANGED <<flow, hosts, up, spawns>>
  BY DEF CloseEvent, c
<1>. HIDE DEF r
<1>. QED  BY <1>2, <1>3, <1>4, Dropping, Touching

LEMMA PeerGoneKeeps ==
  ASSUME IInv, NEW s \in Slots, PeerDisconnected(s)
  PROVE  IInv'
<1>. DEFINE r == [slot[s] EXCEPT !.peer = "over", !.st = "closed"]
<1>1. slot[s] \in Closures
  BY Slot
<1>2. /\ r \in Closures /\ r.use = slot[s].use /\ r.re = slot[s].re
      /\ r.st = "closed" /\ r.done = slot[s].done /\ r.peer = "over" /\ r.term = slot[s].term
  BY <1>1 DEF Closures
<1>3. Follows(s, r)
  BY <1>2, Slot DEF Follows, Sane
<1>4. /\ IF r.use = "attach" THEN Drops(s, r, Tidy(s)) ELSE Rejects(s, r)
      /\ UNCHANGED <<flow, hosts, up, spawns>>
  BY DEF PeerDisconnected
<1>. HIDE DEF r
<1>. QED  BY <1>2, <1>3, <1>4, Dropping, Rejecting

-----------------------------------------------------------------------------
(* What the relay says.                                                    *)

LEMMA WaitKeeps ==
  ASSUME IInv, NEW s \in Slots, WaitingForApproval(s)
  PROVE  IInv'
<1>. DEFINE r == [slot[s] EXCEPT !.peer = "waiting", !.asked = TRUE,
                    !.timer = @ \/ (slot[s].use = "attach" /\ ~slot[s].re)]
<1>1. slot[s] \in Closures
  BY Slot
<1>2. /\ r \in Closures /\ r.use = slot[s].use /\ r.re = slot[s].re
      /\ r.st = slot[s].st /\ r.done = slot[s].done /\ r.peer = "waiting" /\ r.term = slot[s].term
  BY <1>1 DEF Closures
<1>3. /\ Goes(s, r, tty) /\ slot[s].peer = "new"
      /\ UNCHANGED <<flow, hosts, up, spawns>>
  BY DEF WaitingForApproval
<1>. HIDE DEF r
<1>. QED  BY <1>2, <1>3, Touching

LEMMA PairedKeeps ==
  ASSUME IInv, NEW s \in Slots, Paired(s)
  PROVE  IInv'
<1>. DEFINE r == [slot[s] EXCEPT !.peer = "paired", !.st = "handshaking",
                                 !.hello = SendsHello(slot[s])]
<1>1. slot[s] \in Closures
  BY Slot
<1>2. /\ r \in Closures /\ r.use = slot[s].use /\ r.re = slot[s].re
      /\ r.st = "handshaking" /\ r.done = slot[s].done /\ r.peer = "paired" /\ r.term = slot[s].term
  BY <1>1 DEF Closures, SendsHello
<1>3. /\ Goes(s, r, tty) /\ slot[s].peer \in {"new", "waiting"}
      /\ UNCHANGED <<flow, hosts, up, spawns>>
  BY DEF Paired
<1>4. ~slot[s].done
  BY <1>3, Slot
<1>. HIDE DEF r
<1>. QED  BY <1>2, <1>3, <1>4, Touching

LEMMA ErrorKeeps ==
  ASSUME IInv, NEW s \in Slots, RelayErrs(s) \/ RelayErrsPublic(s)
  PROVE  IInv'
<1>. DEFINE r == [slot[s] EXCEPT !.peer = "over"]
            q == [r EXCEPT !.term = "none"]
<1>1. slot[s] \in Closures
  BY Slot
<1>2. /\ r \in Closures /\ r.use = slot[s].use /\ r.re = slot[s].re
      /\ r.st = slot[s].st /\ r.done = slot[s].done /\ r.peer = "over" /\ r.term = slot[s].term
  BY <1>1 DEF Closures
<1>3. /\ q \in Closures /\ q.use = r.use /\ q.re = r.re /\ q.st = r.st
      /\ q.done = r.done /\ q.peer = r.peer /\ q.term = "none"
  BY <1>2 DEF Closures
<1>4. Follows(s, r)
  BY <1>2, Slot DEF Follows, Sane
<1>5. \/ Rejects(s, r) \/ Goes(s, r, tty)
      \/ Quits(s, q, "error", Tidy(s))
  BY DEF RelayErrs, RelayErrsPublic, OnError
<1>6. UNCHANGED <<flow, hosts, up, spawns>>
  BY DEF RelayErrs, RelayErrsPublic
<1>. HIDE DEF r, q
<1>7. Follows(s, q)
  BY <1>3, <1>4 DEF Follows, Sane
<1>8. slot[s].done => Tidy(s) = tty
  BY Tidying
<1>9. CASE Rejects(s, r)
  BY <1>2, <1>4, <1>6, <1>9, Rejecting
<1>10. CASE Goes(s, r, tty)
  BY <1>2, <1>6, <1>10, Touching
<1>11. CASE Quits(s, q, "error", Tidy(s))
  BY <1>3, <1>6, <1>7, <1>8, <1>11, Quitting
<1>. QED  BY <1>5, <1>9, <1>10, <1>11

-----------------------------------------------------------------------------
(* What the daemon says.                                                   *)

(* The tunnel is ready: the attempt is the live one.                       *)
LEMMA ReadyIsLive ==
  ASSUME IInv, NEW s \in Slots, Ready(s)
  PROVE  Live(s) /\ ~slot[s].done /\ slot[s].peer = "ready" /\ Alive
<1>1. slot[s].st = "ready" /\ slot[s].peer = "ready" /\ Alive
  BY DEF Ready, Hears
<1>. QED  BY <1>1, Slot

LEMMA ReadyKeeps ==
  ASSUME IInv, NEW s \in Slots, ReadyToList(s) \/ ReadyToAttach(s) \/ ReadyPublic(s)
  PROVE  IInv'
<1>. DEFINE term == IF ReadyToList(s) THEN "none" ELSE "started"
            r == [slot[s] EXCEPT !.peer = "ready", !.st = "ready", !.term = term]
<1>1. slot[s] \in Closures
  BY Slot
<1>2. /\ r \in Closures /\ r.use = slot[s].use /\ r.re = slot[s].re
      /\ r.st = "ready" /\ r.done = slot[s].done /\ r.peer = "ready" /\ r.term = term
  BY <1>1, ZenonT(90) DEF Closures
<1>3. slot[s].peer = "paired" /\ ~slot[s].done /\ Live(s) /\ s \notin tty.readers
  <2>1. slot[s].peer = "paired"
    BY DEF ReadyToList, ReadyToAttach, ReadyPublic, Completes
  <2>. QED  BY <2>1, Slot
<1>4. ReadyToList(s) => ~ReadyToAttach(s) /\ ~ReadyPublic(s)
  <2>1. ReadyToList(s) => slot[s].use = "list"
    BY DEF ReadyToList, Use
  <2>2. ReadyToAttach(s) => slot[s].use = "attach"
    BY DEF ReadyToAttach, Use
  <2>3. ReadyPublic(s) => slot[s].use = "attach"
    BY <1>3 DEF ReadyPublic, Live, IInv, PhaseIsKept
  <2>. QED  BY <2>1, <2>2, <2>3
<1>5. term # "none" => r.use = "attach"
  <2>1. ReadyToAttach(s) => slot[s].use = "attach"
    BY DEF ReadyToAttach, Use
  <2>2. ReadyPublic(s) => slot[s].use = "attach"
    BY <1>3 DEF ReadyPublic, Live, IInv, PhaseIsKept
  <2>. QED  BY <1>2, <2>1, <2>2
<1>6. Goes(s, r, tty) /\ UNCHANGED <<token, flow, up>> /\ row' \in {"none", "bare", "token"}
  <2>1. Goes(s, r, tty) /\ UNCHANGED <<token, flow, up>>
    BY <1>4 DEF ReadyToList, ReadyToAttach, ReadyPublic, Completes
  <2>2. row' = row \/ row' \in {"bare", "token"}
    BY DEF ReadyToList, ReadyToAttach, ReadyPublic, RecordHost, Row
  <2>. QED  BY <2>1, <2>2, Slot
<1>. HIDE DEF r, term
<1>7. Follows(s, r)
  BY <1>2, <1>3, <1>5 DEF Follows, Sane
<1>8. CASE UNCHANGED spawns
  <2>1. token' \in BOOLEAN
    BY <1>6, Slot
  <2>. QED  BY <1>2, <1>3, <1>6, <1>7, <1>8, <2>1, Going
<1>9. CASE ~UNCHANGED spawns
  <2>1. spawns' = spawns + 1 /\ spawn /\ ~slot[s].re /\ kind = "self"
    BY <1>9 DEF ReadyToList, ReadyToAttach, ReadyPublic, Asks
  <2>2. spawns = 0
    BY <1>3, <2>1 DEF IInv, TypeOK, SpawnIsSpent
  (* The same step with nothing asked for keeps the rest. *)
  <2>3. /\ slot' = [slot EXCEPT ![s] = r] /\ tty' = tty
        /\ UNCHANGED <<program, result, attempt, fails, kind, spawn, again, cur,
                       urlToken, up>>
    BY <1>6 DEF Goes, loop, flow
  <2>4. /\ slot'[s] = r /\ \A x \in Slots \ {s} : slot'[x] = slot[x]
        /\ slot' \in [Slots -> Closures]
    BY <1>2, <2>3 DEF IInv, TypeOK
  <2>5. TypeOK'
    BY <1>6, <2>1, <2>2, <2>3, <2>4, Slot DEF IInv, TypeOK
  <2>6. SlotsAreSane'
    BY <1>3, <1>7, <2>3, <2>4 DEF IInv, SlotsAreSane, Follows, Live
  <2>7. ReaderIsLive'
    BY <1>3, <2>3, <2>4 DEF IInv, TypeOK, ReaderIsLive
  <2>8. BudgetIsCharged' /\ PhaseIsKept'
    BY <1>2, <2>3, <2>4 DEF IInv, TypeOK, BudgetIsCharged, GivesUpLate, PhaseIsKept
  <2>9. SpawnIsSpent'
    <3>1. \A x \in Slots \ {s} : slot[x].peer \in {"ready", "over"}
      BY <1>3, Slot DEF Live
    <3>. QED  BY <1>2, <1>3, <2>1, <2>2, <2>3, <2>4, <3>1 DEF SpawnIsSpent, SpawnsOnce, Live
  <2>. QED  BY <2>5, <2>6, <2>7, <2>8, <2>9 DEF IInv
<1>. QED  BY <1>8, <1>9

LEMMA BadFrameKeeps ==
  ASSUME IInv, NEW s \in Slots, BadFrame(s)
  PROVE  IInv'
<1>1. slot[s] \in Closures /\ Follows(s, slot[s])
  BY Slot
<1>2. /\ Follows(s, Closed(slot[s])) /\ Closed(slot[s]).st = "closed"
      /\ Closed(slot[s]).term = slot[s].term /\ Closed(slot[s]) \in Closures
  BY <1>1, ClosingFollows, Closing
<1>3. /\ Goes(s, Closed(slot[s]), tty) \/ Rejects(s, Closed(slot[s]))
      /\ UNCHANGED <<flow, hosts, up, spawns>>
  BY DEF BadFrame
<1>. QED  BY <1>2, <1>3, Touching, Rejecting DEF Follows

LEMMA ApprovedKeeps ==
  ASSUME IInv, NEW s \in Slots, Approved(s)
  PROVE  IInv'
<1>1. /\ token' = TRUE /\ row' \in {"none", "bare", "token"}
      /\ UNCHANGED <<loop, flow, slot, tty, up, spawns>>
  BY DEF Approved, RecordHost, Row
<1>. QED
  BY <1>1 DEF IInv, TypeOK, SlotsAreSane, ReaderIsLive, BudgetIsCharged, GivesUpLate,
     PhaseIsKept, SpawnIsSpent, SpawnsOnce, Live, loop, flow

LEMMA AttachedKeeps ==
  ASSUME IInv, NEW s \in Slots, Attached(s)
  PROVE  IInv'
<1>. DEFINE r == [slot[s] EXCEPT !.term = "attached"]
<1>1. slot[s] \in Closures
  BY Slot
<1>2. /\ r \in Closures /\ r.use = slot[s].use /\ r.re = slot[s].re
      /\ r.st = slot[s].st /\ r.done = slot[s].done /\ r.peer = slot[s].peer /\ r.term = "attached"
  BY <1>1 DEF Closures
<1>3. Live(s) /\ ~slot[s].done /\ slot[s].peer = "ready"
  BY ReadyIsLive DEF Attached
<1>4. /\ Goes(s, r, [raw |-> TRUE, readers |-> {s}]) /\ slot[s].term = "started"
      /\ UNCHANGED <<flow, hosts, up, spawns>>
  BY DEF Attached
<1>5. slot[s].use = "attach" /\ program = "trying"
  BY <1>3, <1>4 DEF IInv, SlotsAreSane, Sane, Live, PhaseIsKept
<1>. HIDE DEF r
<1>6. Follows(s, r)
  BY <1>2, <1>3, <1>5 DEF Follows, Sane
<1>7. token' \in BOOLEAN /\ row' \in {"none", "bare", "token"}
  BY <1>4, Slot DEF hosts
<1>. QED  BY <1>2, <1>3, <1>4, <1>5, <1>6, <1>7, Going

(* An answer that ends the attempt, or the user.                           *)
LEMMA QuitKeeps ==
  ASSUME IInv, NEW s \in Slots,
         DaemonErrs(s) \/ SessionExits(s) \/ ProtocolFails(s) \/ Detach(s)
  PROVE  IInv'
<1>1. slot[s] \in Closures /\ Follows(s, slot[s])
  BY Slot
<1>2. /\ Follows(s, Closed(slot[s])) /\ Closed(slot[s]).term = slot[s].term
  BY <1>1, ClosingFollows
<1>3. UNCHANGED <<flow, hosts, up, spawns>>
  BY DEF DaemonErrs, SessionExits, ProtocolFails, Detach
<1>4. /\ slot[s].done => Tidy(s) = tty
      /\ ~slot[s].done => Tidy(s) = NoKeys
  BY Tidying
<1>5. CASE DaemonErrs(s)
  <2>1. Rejects(s, Closed(slot[s])) \/ Quits(s, slot[s], "error", Tidy(s))
    BY <1>5 DEF DaemonErrs
  <2>. QED  BY <1>1, <1>2, <1>3, <1>4, <2>1, Rejecting, Quitting
<1>6. CASE SessionExits(s)
  <2>1. PICK reason \in {"exited", "error"} : Quits(s, slot[s], reason, Tidy(s))
    BY <1>6 DEF SessionExits
  <2>2. slot[s].peer = "ready" /\ ~slot[s].done
    BY <1>6, ReadyIsLive DEF SessionExits
  <2>3. reason \in {"exited", "error", "detached"}
    OBVIOUS
  <2>. QED  BY <1>1, <1>3, <1>4, <2>1, <2>2, <2>3, Quitting
<1>7. CASE ProtocolFails(s)
  <2>1. Rejects(s, Closed(slot[s])) \/ Quits(s, slot[s], "error", tty)
    BY <1>7 DEF ProtocolFails
  <2>. QED  BY <1>1, <1>2, <1>3, <2>1, Rejecting, Quitting
<1>8. CASE Detach(s)
  <2>1. Quits(s, slot[s], "detached", Tidy(s)) /\ s \in tty.readers
    BY <1>8 DEF Detach
  <2>2. slot[s].peer \in {"ready", "over"} /\ ~slot[s].done
    BY <2>1, Slot
  <2>. QED  BY <1>1, <1>3, <1>4, <2>1, <2>2, Quitting
<1>. QED  BY <1>5, <1>6, <1>7, <1>8

-----------------------------------------------------------------------------
(* The phases of the command.                                              *)

(* connect() or the loop dials: nobody else is live.                       *)
LEMMA Dialling ==
  ASSUME IInv, NEW s \in Slots, NEW use \in {"list", "attach"}, NEW re \in BOOLEAN,
         /\ cur' = s /\ slot'[s] = Fresh(use, re)
         /\ \A x \in Slots \ {s} : slot'[x] = slot[x] \/ slot'[x] = Idle,
         slot' \in [Slots -> Closures],
         program \in {"start", "picking", "sleeping"},
         program' = IF use = "list" THEN "listing" ELSE "trying",
         tty'.readers = {} /\ tty' \in [raw : BOOLEAN, readers : SUBSET (Slots \cup {Sleeper})],
         tty'.raw = FALSE,
         attempt' \in 0..MaxAttempts, attempt' <= fails + 1,
         program # "sleeping" => spawns = 0, program = "sleeping" => re,
         use = "list" => ~spawn /\ kind = "self",
         token' \in BOOLEAN, urlToken' \in BOOLEAN, again' \in BOOLEAN,
         UNCHANGED <<result, fails, kind, spawn, row, up, spawns>>
  PROVE  IInv'
<1>1. LET r == Fresh(use, re) IN
        /\ Sane(r) /\ ~r.done /\ r.term = "none" /\ r.use = use /\ r.re = re
  BY DEF Fresh, Idle, Sane, Closures
<1>2. Sane(Idle) /\ Idle.done /\ Idle.term = "none" /\ Idle.peer = "over"
  BY DEF Idle, Sane, Closures
<1>3. \A x \in Slots : slot[x].done /\ Sane(slot[x]) /\ slot[x].term = "none"
  BY Slot DEF IInv, SlotsAreSane, Live
<1>4. result' = "none"
  BY DEF IInv, BudgetIsCharged
<1>5. TypeOK'
  BY DEF IInv, TypeOK
<1>6. SlotsAreSane'
  BY <1>1, <1>2, <1>3 DEF SlotsAreSane, Live
<1>7. ReaderIsLive'
  BY DEF ReaderIsLive
<1>8. BudgetIsCharged' /\ PhaseIsKept'
  BY <1>1, <1>4 DEF BudgetIsCharged, GivesUpLate, PhaseIsKept
<1>9. SpawnIsSpent'
  BY <1>1, <1>2 DEF IInv, TypeOK, SpawnIsSpent, SpawnsOnce
<1>. QED  BY <1>5, <1>6, <1>7, <1>8, <1>9 DEF IInv

(* Nobody listens while nothing is tried, but the sleeping loop.           *)
LEMMA NoReader ==
  ASSUME IInv, program # "trying"
  PROVE  /\ tty \in [raw : BOOLEAN, readers : SUBSET (Slots \cup {Sleeper})]
         /\ tty.readers \ {Sleeper} = {}
         /\ ~(program = "sleeping" /\ kind = "self") => tty = NoKeys
<1>1. tty \in [raw : BOOLEAN, readers : SUBSET (Slots \cup {Sleeper})]
  BY DEF IInv, TypeOK
<1>2. tty.readers \ {Sleeper} = {}
  BY <1>1 DEF IInv, ReaderIsLive
<1>3. ASSUME ~(program = "sleeping" /\ kind = "self") PROVE tty = NoKeys
  <2>1. tty.readers = {} /\ tty.raw = FALSE
    BY <1>1, <1>2, <1>3 DEF IInv, ReaderIsLive
  <2>. QED  BY <1>1, <2>1 DEF NoKeys
<1>. QED  BY <1>1, <1>2, <1>3

LEMMA FreshIsClosure ==
  ASSUME NEW use \in {"list", "attach"}, NEW re \in BOOLEAN
  PROVE  Fresh(use, re) \in Closures /\ Idle \in Closures
  BY DEF Fresh, Idle, Closures

LEMMA StartKeeps ==
  ASSUME IInv, StartPublic \/ StartSelf
  PROVE  IInv'
<1>1. /\ program = "start" /\ tty = NoKeys /\ tty' = tty
      /\ tty \in [raw : BOOLEAN, readers : SUBSET (Slots \cup {Sleeper})]
  <2>1. program = "start" /\ tty' = tty
    BY DEF StartPublic, StartSelf
  <2>. QED  BY <2>1, NoReader
<1>2. PICK use \in {"list", "attach"} :
        /\ slot' = [slot EXCEPT ![cur] = Fresh(use, FALSE)] /\ cur' = cur
        /\ program' = IF use = "list" THEN "listing" ELSE "trying"
        /\ use = "list" => ~spawn /\ kind = "self"
  BY DEF StartPublic, StartSelf, Dial
<1>3. /\ token' \in BOOLEAN /\ urlToken' \in BOOLEAN
      /\ UNCHANGED <<result, attempt, fails, kind, spawn, again, row, up, spawns>>
  BY DEF StartPublic, StartSelf, hosts, IInv, TypeOK
<1>4. cur \in Slots /\ slot \in [Slots -> Closures] /\ again \in BOOLEAN
      /\ attempt \in 0..MaxAttempts /\ attempt <= fails + 1 /\ spawns = 0
  BY <1>1 DEF IInv, TypeOK, BudgetIsCharged, SpawnIsSpent
<1>5. Fresh(use, FALSE) \in Closures /\ FALSE \in BOOLEAN
  BY FreshIsClosure
<1>6. /\ slot'[cur] = Fresh(use, FALSE) /\ slot' \in [Slots -> Closures]
      /\ \A x \in Slots \ {cur} : slot'[x] = slot[x]
  BY <1>2, <1>4, <1>5
<1>7. tty'.readers = {} /\ tty'.raw = FALSE
  BY <1>1 DEF NoKeys
<1>. QED  BY <1>1, <1>2, <1>3, <1>4, <1>5, <1>6, <1>7, Dialling

LEMMA PickKeeps ==
  ASSUME IInv, NEW s \in Slots, PickSession(s)
  PROVE  IInv'
<1>1. /\ program = "picking" /\ program' = "trying" /\ cur' = s /\ urlToken' = token
      /\ slot' = [x \in Slots |-> IF x = s THEN Fresh("attach", FALSE) ELSE Idle]
      /\ UNCHANGED <<result, attempt, fails, kind, spawn, again, token, row, tty,
                     up, spawns>>
  BY DEF PickSession, hosts
<1>2. tty = NoKeys /\ tty \in [raw : BOOLEAN, readers : SUBSET (Slots \cup {Sleeper})]
  BY <1>1, NoReader
<1>3. /\ again \in BOOLEAN /\ token \in BOOLEAN /\ attempt \in 0..MaxAttempts
      /\ attempt <= fails + 1 /\ spawns = 0
  BY <1>1 DEF IInv, TypeOK, BudgetIsCharged, SpawnIsSpent, PhaseIsKept
<1>4. "attach" \in {"list", "attach"} /\ FALSE \in BOOLEAN
  OBVIOUS
<1>5. /\ slot'[s] = Fresh("attach", FALSE) /\ slot' \in [Slots -> Closures]
      /\ \A x \in Slots \ {s} : slot'[x] = Idle
  BY <1>1, <1>4, FreshIsClosure
<1>6. tty'.readers = {} /\ tty'.raw = FALSE
  BY <1>1, <1>2 DEF NoKeys
<1>. DEFINE attach == "attach"
<1>7. /\ attach \in {"list", "attach"} /\ attach # "list"
      /\ slot'[s] = Fresh(attach, FALSE)
  BY <1>5
<1>. HIDE DEF attach
<1>. QED  BY <1>1, <1>2, <1>3, <1>4, <1>5, <1>6, <1>7, Dialling

LEMMA RetryKeeps ==
  ASSUME IInv, NEW s \in Slots, SleepEnds(s) \/ SleepEndsPublic(s)
  PROVE  IInv'
<1>1. /\ program = "sleeping" /\ program' = "trying" /\ cur' = s
      /\ attempt' = attempt + 1 /\ again' = TRUE
      /\ slot' = [slot EXCEPT ![s] = Fresh("attach", TRUE)]
      /\ UNCHANGED <<result, fails, kind, spawn, urlToken, token, row, up, spawns>>
  BY DEF SleepEnds, SleepEndsPublic, TriesAgain, Dial, hosts
<1>2. /\ tty.readers \ {Sleeper} = {}
      /\ kind = "public" => tty = NoKeys
      /\ kind \in {"self", "public"}
  BY <1>1, NoReader DEF IInv, TypeOK
<1>3. tty' = NoKeys
  BY <1>2 DEF SleepEnds, SleepEndsPublic, NoKeys
<1>4. NoKeys \in [raw : BOOLEAN, readers : SUBSET (Slots \cup {Sleeper})]
      /\ NoKeys.readers = {} /\ NoKeys.raw = FALSE
  BY DEF NoKeys
<1>5. /\ attempt \in 0..MaxAttempts /\ fails \in Nat /\ attempt <= fails
      /\ slot \in [Slots -> Closures] /\ token \in BOOLEAN /\ urlToken \in BOOLEAN
  BY <1>1 DEF IInv, TypeOK, BudgetIsCharged
<1>6. attempt < MaxAttempts
  BY <1>1 DEF IInv, BudgetIsCharged
<1>7. attempt' \in 0..MaxAttempts /\ attempt' <= fails + 1
  BY <1>1, <1>5, <1>6
<1>. DEFINE attach == "attach"
<1>8. /\ attach \in {"list", "attach"} /\ attach # "list" /\ TRUE \in BOOLEAN
      /\ Fresh(attach, TRUE) \in Closures
  BY FreshIsClosure
<1>9. /\ slot'[s] = Fresh(attach, TRUE) /\ slot' \in [Slots -> Closures]
      /\ \A x \in Slots \ {s} : slot'[x] = slot[x]
  BY <1>1, <1>5, <1>8
<1>. HIDE DEF attach
<1>. QED  BY <1>1, <1>3, <1>4, <1>5, <1>7, <1>8, <1>9, Dialling

LEMMA EndsKeep ==
  ASSUME IInv, StartSsh \/ PickNothing \/ DetachAsleep
  PROVE  IInv'
<1>1. /\ cur \in Slots /\ attempt \in 0..MaxAttempts /\ fails \in Nat
      /\ attempt <= fails + 1
  BY DEF IInv, TypeOK, BudgetIsCharged
<1>2. /\ UNCHANGED <<attempt, fails, flow, hosts, up, spawns>>
      /\ program \in {"start", "picking", "sleeping"}
  BY DEF StartSsh, PickNothing, DetachAsleep
<1>3. /\ \A x \in Slots : slot[x].done /\ Sane(slot[x])
      /\ program = "start" => spawns = 0
  BY <1>2, Slot DEF Live, Follows, IInv, TypeOK, SpawnIsSpent
<1>. DEFINE awake == [raw |-> FALSE, readers |-> tty.readers \ {Sleeper}]
<1>4. /\ StartSsh \/ PickNothing => tty = NoKeys
      /\ DetachAsleep => awake = NoKeys
  <2>1. tty.readers \ {Sleeper} = {}
    BY <1>2, NoReader
  <2>2. StartSsh \/ PickNothing => tty = NoKeys
    BY NoReader DEF StartSsh, PickNothing
  <2>. QED  BY <2>1, <2>2 DEF NoKeys
<1>5. PICK res \in {"detached", "exited", "error"} : End(res, cur, slot[cur], NoKeys)
  <2>1. CASE StartSsh
    BY <1>4, <2>1 DEF StartSsh
  <2>2. CASE PickNothing
    BY <1>4, <2>2 DEF PickNothing
  <2>3. CASE DetachAsleep
    BY <1>4, <2>3 DEF DetachAsleep
  <2>. QED  BY <2>1, <2>2, <2>3
<1>6. res \in {"detached", "exited", "error", "disconnected"} /\ res # "disconnected"
  OBVIOUS
<1>. QED  BY <1>1, <1>2, <1>3, <1>5, <1>6, Ending

LEMMA InterruptKeeps ==
  ASSUME IInv, Interrupt
  PROVE  IInv'
<1>1. /\ cur \in Slots /\ attempt \in 0..MaxAttempts /\ fails \in Nat
      /\ attempt <= fails + 1
  BY DEF IInv, TypeOK, BudgetIsCharged
<1>2. /\ program # "start" /\ program' = "ended" /\ result' \in {"detached", "error"}
      /\ slot' = [x \in Slots |-> Idle] /\ tty' = NoKeys
      /\ UNCHANGED <<attempt, fails, flow, hosts, up, spawns>>
  BY DEF Interrupt
<1>3. Idle \in Closures /\ Sane(Idle) /\ Idle.done /\ Idle.term = "none" /\ Idle.peer = "over"
  BY DEF Idle, Closures, Sane
<1>4. NoKeys \in [raw : BOOLEAN, readers : SUBSET (Slots \cup {Sleeper})]
      /\ NoKeys.readers = {} /\ NoKeys.raw = FALSE
  BY DEF NoKeys
<1>5. slot' \in [Slots -> Closures] /\ \A x \in Slots : slot'[x] = Idle
  BY <1>2, <1>3
<1>6. TypeOK'
  BY <1>1, <1>2, <1>4, <1>5 DEF IInv, TypeOK, flow, hosts
<1>7. SlotsAreSane' /\ ReaderIsLive'
  BY <1>2, <1>3, <1>4, <1>5 DEF SlotsAreSane, ReaderIsLive
<1>8. BudgetIsCharged' /\ PhaseIsKept'
  BY <1>1, <1>2 DEF BudgetIsCharged, GivesUpLate, PhaseIsKept
<1>9. SpawnIsSpent'
  BY <1>2, <1>3, <1>5 DEF IInv, SpawnIsSpent, SpawnsOnce, flow
<1>. QED  BY <1>6, <1>7, <1>8, <1>9 DEF IInv

(* The list has come.                                                      *)
LEMMA SessionsKeeps ==
  ASSUME IInv, NEW s \in Slots, Sessions(s)
  PROVE  IInv'
<1>. DEFINE c == Closed(slot[s])
            r == [c EXCEPT !.timer = FALSE, !.done = TRUE]
<1>1. /\ c \in Closures /\ c.use = slot[s].use /\ c.re = slot[s].re
      /\ c.st = "closed" /\ c.peer = slot[s].peer /\ c.term = slot[s].term
  BY Slot, Closing
<1>. HIDE DEF c
<1>2. /\ r \in Closures /\ r.use = c.use /\ r.re = c.re /\ r.st = c.st
      /\ r.done /\ r.peer = c.peer /\ r.term = c.term
  BY <1>1 DEF Closures
<1>3. Live(s) /\ slot[s].peer = "ready" /\ slot[s].use = "list"
  BY ReadyIsLive DEF Sessions, Use
<1>4. program = "listing" /\ tty = NoKeys /\ slot[s].term = "none"
  <2>1. program = "listing"
    BY <1>3 DEF Live, IInv, PhaseIsKept
  <2>2. slot[s].term = "none"
    BY <1>3 DEF IInv, SlotsAreSane, Sane
  <2>. QED  BY <2>1, <2>2, NoReader
<1>5. Sane(r) /\ r.use = slot[s].use /\ r.re = slot[s].re /\ r.peer = "ready"
  BY <1>1, <1>2, <1>3, <1>4 DEF Sane
<1>6. /\ \/ End("exited", s, r, tty)
         \/ /\ program' = "picking" /\ result' = result
            /\ slot' = [slot EXCEPT ![s] = r] /\ tty' = tty
      /\ UNCHANGED <<attempt, fails, flow, hosts, up, spawns>>
  BY DEF Sessions, c
<1>. HIDE DEF r
<1>7. \A x \in Slots \ {s} : slot[x].done
  BY <1>3, Slot DEF Live
<1>8. CASE End("exited", s, r, tty)
  <2>1. /\ attempt' \in 0..MaxAttempts /\ fails' \in Nat /\ attempt' <= fails' + 1
        /\ program # "start"
    BY <1>4, <1>6 DEF IInv, TypeOK, BudgetIsCharged
  <2>. DEFINE exited == "exited"
  <2>2. /\ exited \in {"detached", "exited", "error", "disconnected"}
        /\ exited # "disconnected" /\ End(exited, s, r, NoKeys)
    BY <1>4, <1>8
  <2>. HIDE DEF exited
  <2>. QED  BY <1>2, <1>4, <1>5, <1>6, <1>7, <2>1, <2>2, Ending
<1>9. CASE ~End("exited", s, r, tty)
  <2>1. /\ program' = "picking" /\ result' = result
        /\ slot' = [slot EXCEPT ![s] = r] /\ tty' = tty
        /\ UNCHANGED <<attempt, fails, kind, spawn, again, cur, urlToken, token, row,
                       up, spawns>>
    BY <1>6, <1>9 DEF flow, hosts
  <2>2. /\ slot'[s] = r /\ slot' \in [Slots -> Closures]
        /\ \A x \in Slots \ {s} : slot'[x] = slot[x]
    BY <1>2, <2>1 DEF IInv, TypeOK
  <2>3. TypeOK'
    BY <2>1, <2>2 DEF IInv, TypeOK
  <2>4. SlotsAreSane'
    BY <1>1, <1>2, <1>4, <1>5, <1>7, <2>1, <2>2 DEF IInv, SlotsAreSane
  <2>5. ReaderIsLive'
    BY <1>4, <2>1 DEF ReaderIsLive, NoKeys
  <2>6. BudgetIsCharged' /\ PhaseIsKept'
    BY <1>4, <2>1 DEF IInv, BudgetIsCharged, GivesUpLate, PhaseIsKept
  <2>7. SpawnIsSpent'
    BY <1>5, <2>1, <2>2 DEF IInv, SpawnIsSpent, SpawnsOnce
  <2>. QED  BY <2>3, <2>4, <2>5, <2>6, <2>7 DEF IInv
<1>. QED  BY <1>8, <1>9

-----------------------------------------------------------------------------
(* The network and the timers.                                             *)

LEMMA NetworkKeeps ==
  ASSUME IInv, NetworkGoes \/ NetworkComes
  PROVE  IInv'
<1>1. /\ UNCHANGED <<loop, flow, hosts, tty, spawns>> /\ up' \in BOOLEAN
      /\ \/ UNCHANGED slot
         \/ slot' = [s \in Slots |->
              [slot[s] EXCEPT !.ws = IF @ = "open" THEN "half" ELSE @]]
  BY DEF NetworkGoes, NetworkComes
<1>2. \A s \in Slots :
        /\ slot'[s] \in Closures /\ slot'[s].use = slot[s].use
        /\ slot'[s].re = slot[s].re /\ slot'[s].st = slot[s].st
        /\ slot'[s].peer = slot[s].peer /\ slot'[s].term = slot[s].term
        /\ slot'[s].done = slot[s].done
  <2>1. TAKE s \in Slots
  <2>2. slot[s] \in Closures
    BY Slot
  <2>3. CASE UNCHANGED slot
    BY <2>2, <2>3
  <2>4. CASE ~UNCHANGED slot
    <3>1. slot'[s] = [slot[s] EXCEPT !.ws = IF @ = "open" THEN "half" ELSE @]
      BY <1>1, <2>4
    <3>. QED  BY <2>2, <3>1 DEF Closures
  <2>. QED  BY <2>3, <2>4
<1>3. slot' \in [Slots -> Closures]
  <2>1. CASE UNCHANGED slot
    BY <2>1 DEF IInv, TypeOK
  <2>2. CASE ~UNCHANGED slot
    BY <1>1, <1>2, <2>2
  <2>. QED  BY <2>1, <2>2
<1>4. TypeOK'
  BY <1>1, <1>3 DEF IInv, TypeOK, loop, flow, hosts
<1>5. SlotsAreSane'
  BY <1>1, <1>2 DEF IInv, SlotsAreSane, Sane, Live, loop, flow
<1>6. ReaderIsLive'
  BY <1>1, <1>2 DEF IInv, TypeOK, ReaderIsLive, loop, flow
<1>7. BudgetIsCharged' /\ PhaseIsKept' /\ SpawnIsSpent'
  BY <1>1, <1>2 DEF IInv, TypeOK, BudgetIsCharged, GivesUpLate, PhaseIsKept,
     SpawnIsSpent, SpawnsOnce, loop, flow
<1>. QED  BY <1>4, <1>5, <1>6, <1>7 DEF IInv

LEMMA TimeoutKeeps ==
  ASSUME IInv, NEW s \in Slots, ApprovalTimesOut(s) \/ ListTimesOut(s)
  PROVE  IInv'
<1>. DEFINE r == [slot[s] EXCEPT !.timer = FALSE]
<1>1. slot[s] \in Closures /\ Follows(s, slot[s])
  BY Slot
<1>2. /\ r \in Closures /\ r.use = slot[s].use /\ r.re = slot[s].re
      /\ r.st = slot[s].st /\ r.done = slot[s].done /\ r.peer = slot[s].peer
      /\ r.term = slot[s].term
  BY <1>1 DEF Closures
<1>3. Follows(s, r)
  BY <1>1, <1>2 DEF Follows, Sane
<1>4. /\ Follows(s, Closed(slot[s])) /\ Closed(slot[s]).term = slot[s].term
  BY <1>1, ClosingFollows
<1>5. /\ \/ Quits(s, r, "error", tty) \/ Goes(s, r, tty)
         \/ Rejects(s, Closed(slot[s]))
      /\ UNCHANGED <<flow, hosts, up, spawns>>
  BY DEF ApprovalTimesOut, ListTimesOut
<1>. HIDE DEF r
<1>. QED  BY <1>2, <1>3, <1>4, <1>5, Touching, Quitting, Rejecting

-----------------------------------------------------------------------------
(* The invariant holds initially and in every step.                        *)

LEMMA InitHolds == Init => IInv
<1>. SUFFICES ASSUME Init PROVE IInv
  OBVIOUS
<1>1. Sane(Idle) /\ Idle \in Closures /\ Idle.done /\ Idle.term = "none"
  BY DEF Idle, Sane, Closures
<1>2. NoKeys \in [raw : BOOLEAN, readers : SUBSET (Slots \cup {Sleeper})]
      /\ NoKeys.readers = {} /\ NoKeys.raw = FALSE
  BY DEF NoKeys
<1>3. TypeOK
  <2>1. slot \in [Slots -> Closures]
    BY <1>1 DEF Init
  <2>2. tty \in [raw : BOOLEAN, readers : SUBSET (Slots \cup {Sleeper})]
    BY <1>2 DEF Init
  <2>3. attempt \in 0..MaxAttempts
    BY DEF Init
  <2>. QED  BY <2>1, <2>2, <2>3 DEF Init, TypeOK
<1>4. SlotsAreSane /\ ReaderIsLive
  BY <1>1, <1>2 DEF Init, SlotsAreSane, ReaderIsLive
<1>5. BudgetIsCharged /\ PhaseIsKept /\ SpawnIsSpent
  BY DEF Init, BudgetIsCharged, GivesUpLate, PhaseIsKept, SpawnIsSpent, SpawnsOnce
<1>. QED  BY <1>3, <1>4, <1>5 DEF IInv

LEMMA StepKeeps == IInv /\ [Next]_vars => IInv'
<1>. SUFFICES ASSUME IInv, [Next]_vars PROVE IInv'
  OBVIOUS
<1>1. CASE StartSsh \/ PickNothing \/ DetachAsleep
  BY <1>1, EndsKeep
<1>2. CASE StartPublic \/ StartSelf
  BY <1>2, StartKeeps
<1>3. CASE NetworkGoes \/ NetworkComes
  BY <1>3, NetworkKeeps
<1>4. CASE Interrupt
  BY <1>4, InterruptKeeps
<1>5. ASSUME NEW s \in Slots, PickSession(s) \/ Detach(s) PROVE IInv'
  BY <1>5, PickKeeps, QuitKeeps
<1>6. ASSUME NEW s \in Slots, RelaySends(s) PROVE IInv'
  <2>1. CASE WaitingForApproval(s) \/ Paired(s) \/ PeerDisconnected(s)
    BY <2>1, WaitKeeps, PairedKeeps, PeerGoneKeeps
  <2>2. CASE RelayErrs(s) \/ RelayErrsPublic(s)
    BY <2>2, ErrorKeeps
  <2>3. CASE ReadyToList(s) \/ ReadyToAttach(s) \/ ReadyPublic(s)
    BY <2>3, ReadyKeeps
  <2>4. CASE BadFrame(s) \/ Approved(s) \/ Sessions(s) \/ Attached(s)
    BY <2>4, BadFrameKeeps, ApprovedKeeps, SessionsKeeps, AttachedKeeps
  <2>5. CASE DaemonErrs(s) \/ SessionExits(s) \/ ProtocolFails(s)
    BY <2>5, QuitKeeps
  <2>. QED  BY <1>6, <2>1, <2>2, <2>3, <2>4, <2>5 DEF RelaySends
<1>7. ASSUME NEW s \in Slots, Socket(s) PROVE IInv'
  <2>1. CASE WsOpens(s) \/ RelayCloses(s) \/ PongArrives(s)
    BY <2>1, OpensKeeps
  <2>2. CASE WsFails(s) \/ CloseEvent(s) \/ PingFires(s) \/ PongTimesOut(s)
    BY <2>2, FailsKeeps, CloseKeeps, PingKeeps
  <2>. QED  BY <1>7, <2>1, <2>2 DEF Socket
<1>8. ASSUME NEW s \in Slots, Timers(s) PROVE IInv'
  BY <1>8, RetryKeeps, TimeoutKeeps DEF Timers
<1>9. CASE UNCHANGED vars
  <2>1. UNCHANGED <<program, result, attempt, fails, kind, spawn, again, cur, urlToken,
                    token, row, slot, tty, up, spawns>>
    BY <1>9 DEF vars, loop, flow, hosts
  <2>. QED
    BY <2>1 DEF IInv, TypeOK, SlotsAreSane, ReaderIsLive, BudgetIsCharged, GivesUpLate,
       PhaseIsKept, SpawnIsSpent, SpawnsOnce, Live
<1>. QED  BY <1>1, <1>2, <1>3, <1>4, <1>5, <1>6, <1>7, <1>8, <1>9 DEF Next

LEMMA Always == Spec => []IInv
  BY InitHolds, StepKeeps, PTL DEF Spec

-----------------------------------------------------------------------------
(* The command's state keeps to its types, for any bound on attempts.      *)
THEOREM ReconnectTyped == Spec => []TypeOK
<1>1. IInv => TypeOK
  BY DEF IInv
<1>. QED  BY <1>1, Always, PTL

(* The command gives up only after MAX_RECONNECT_ATTEMPTS failures in a    *)
(* row: the budget is charged once per attempt and a connection that       *)
(* worked renews it (connectWithReconnect, connectPublicWithReconnect).    *)
THEOREM GivesUpLateHolds == Spec => []GivesUpLate
<1>1. IInv => GivesUpLate
  BY DEF IInv, BudgetIsCharged
<1>. QED  BY <1>1, Always, PTL

(* However often the link is lost, one session is asked for at most.       *)
THEOREM SpawnsOnceHolds == Spec => []SpawnsOnce
<1>1. IInv => SpawnsOnce
  BY DEF IInv, SpawnIsSpent
<1>. QED  BY <1>1, Always, PTL

(* Attempts that are over stay over, whatever arrives late on their        *)
(* sockets, for any number of them.                                        *)
THEOREM OldIsOverHolds == Spec => []OldIsOver
<1>1. IInv => OldIsOver
  BY DEF IInv, SlotsAreSane, Sane, Live, OldIsOver
<1>. QED  BY <1>1, Always, PTL

(* The keyboard has one reader, and the terminal is given back.            *)
THEOREM KeyboardHolds == Spec => []KeyboardHasOneReader
<1>1. ASSUME IInv PROVE KeyboardHasOneReader
  <2>1. /\ tty \in [raw : BOOLEAN, readers : SUBSET (Slots \cup {Sleeper})]
        /\ kind \in {"self", "public"}
    BY <1>1 DEF IInv, TypeOK
  <2>2. /\ \A x \in tty.readers \ {Sleeper} : x = cur /\ program = "trying"
        /\ Sleeper \in tty.readers <=> program = "sleeping" /\ kind = "self"
        /\ tty.raw <=> tty.readers # {}
    BY <1>1 DEF IInv, ReaderIsLive
  <2>3. \A x, y \in tty.readers : x = y
    BY <2>2
  <2>4. program = "trying" => tty.readers \subseteq {cur}
    BY <2>2
  <2>5. program = "sleeping" => tty.readers = IF kind = "self" THEN {Sleeper} ELSE {}
    BY <2>2
  <2>6. program = "ended" => tty.readers = {}
    BY <2>2
  <2>. QED  BY <2>2, <2>3, <2>4, <2>5, <2>6 DEF KeyboardHasOneReader
<1>. QED  BY <1>1, Always, PTL
=============================================================================
