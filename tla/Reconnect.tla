------------------------------ MODULE Reconnect ------------------------------
(***************************************************************************)
(* `pty-relay connect`: one client process from its start to its exit      *)
(* (commands/connect.ts and connect-public.ts), with the connections it    *)
(* makes one after the other (terminal/client-connection.ts), the Terminal *)
(* of each (terminal/terminal.ts) and the keyboard they share.             *)
(* Every attempt has its own closure: the flags `resolved` and             *)
(* `intentionalClose`, the terminal, the approval timer and a              *)
(* ClientRelayConnection.  Its socket may outlive it: the close event of   *)
(* an old one comes while the loop sleeps or tries again.                  *)
(* The relay and the daemon are free, within the order they keep.  Stdin   *)
(* is a TTY.  An ssh target ends in `ssh -t`, which is outside.            *)
(***************************************************************************)
EXTENDS Naturals

CONSTANTS
  Slots,        (* attempts whose socket may still be open: two suffice     *)
  MaxAttempts,  (* MAX_RECONNECT_ATTEMPTS                                  *)
  Sleeper       (* the stdin listener of interruptibleSleep                *)

ASSUME ReconnectMax == MaxAttempts \in Nat
ASSUME ReconnectSleeper == Sleeper \notin Slots

VARIABLES
  program,   (* where connect() or its reconnect loop is                   *)
  result,    (* how it ended                                               *)
  kind,      (* which flow: self-hosted (connect.ts) or public             *)
  spawn,     (* --spawn was given                                          *)
  attempt, again,  (* attempt and isReconnect of the loop                  *)
  cur,       (* the latest attempt                                         *)
  slot,      (* the closure of every attempt                               *)
  tty,       (* stdin: raw mode and who listens to its data                *)
  token,     (* parsed.clientToken is set                                  *)
  urlToken,  (* wsUrl, computed once, carries a client token               *)
  row,       (* the known-hosts row: none, without or with a token         *)
  up,        (* the network between client and relay                       *)
  spawns,    (* history: spawn requests sent                               *)
  fails      (* history: attempts in a row that ended without a handshake  *)

loop == <<program, result, attempt, fails>>
flow == <<kind, spawn, again, cur, urlToken>>
hosts == <<token, row>>
vars == <<loop, flow, hosts, slot, tty, up, spawns>>

Closures == [
  use : {"none", "list", "attach"},   (* fetchSessions or attemptConnect   *)
  st : {"connecting", "waiting", "handshaking", "ready", "closed"},
  ws : {"opening", "open", "half", "closing", "dying", "closed"},
  peer : {"new", "waiting", "paired", "ready", "over"},
  hello : BOOLEAN,                    (* our handshake message went out    *)
  term : {"none", "started", "attached"},
  re : BOOLEAN, intent : BOOLEAN, done : BOOLEAN,
  timer : BOOLEAN,                    (* approval, or the list's 15 s      *)
  ping : BOOLEAN, pong : BOOLEAN,
  asked : BOOLEAN]                    (* heard waiting_for_approval        *)

TypeOK ==
  /\ program \in {"start", "listing", "picking", "trying", "sleeping", "ended"}
  /\ result \in {"none", "detached", "exited", "error", "disconnected"}
  /\ kind \in {"self", "public"} /\ spawn \in BOOLEAN
  /\ attempt \in 0..MaxAttempts /\ again \in BOOLEAN /\ cur \in Slots
  /\ slot \in [Slots -> Closures]
  /\ tty \in [raw : BOOLEAN, readers : SUBSET (Slots \cup {Sleeper})]
  /\ token \in BOOLEAN /\ urlToken \in BOOLEAN
  /\ row \in {"none", "bare", "token"}
  /\ up \in BOOLEAN
  /\ spawns \in Nat /\ fails \in Nat

Idle == [use |-> "none", st |-> "closed", ws |-> "closed", peer |-> "over",
         hello |-> FALSE, term |-> "none", re |-> FALSE, intent |-> FALSE,
         done |-> TRUE, timer |-> FALSE, ping |-> FALSE, pong |-> FALSE,
         asked |-> FALSE]
NoKeys == [raw |-> FALSE, readers |-> {}]

Init ==
  /\ program = "start" /\ result = "none"
  /\ kind \in {"self", "public"} /\ spawn \in BOOLEAN
  /\ attempt = 0 /\ again = FALSE /\ fails = 0 /\ spawns = 0
  /\ cur \in Slots /\ slot = [s \in Slots |-> Idle]
  /\ tty = NoKeys
  /\ token = FALSE /\ urlToken = FALSE
  /\ row \in {"none", "bare", "token"}
  /\ up = TRUE

-----------------------------------------------------------------------------
(* Parts of the handlers.                                                  *)

(* new ClientRelayConnection(...).connect() of an attempt.                 *)
Fresh(use, re) ==
  [Idle EXCEPT !.use = use, !.st = "connecting", !.ws = "opening",
               !.peer = "new", !.done = FALSE, !.re = re,
               !.timer = (use = "list")]

(* ClientRelayConnection.close.  A socket that is not open yet, or whose   *)
(* peer no longer answers, is destroyed; on an open one frames still come. *)
Closed(r) ==
  [r EXCEPT !.st = "closed", !.ping = FALSE, !.pong = FALSE,
            !.ws = CASE r.ws = "open" -> "closing"
                     [] r.ws \in {"opening", "half"} -> "dying"
                     [] OTHER -> r.ws]

(* Mutant: the cleanup leaves the stdin listener in place.                 *)
TidyButListener(s) ==
  IF slot[s].term = "none" THEN tty
  ELSE [raw |-> FALSE, readers |-> tty.readers]

(* Terminal.cleanup of the attempt's terminal, if it has one.              *)
Tidy(s) ==
  IF slot[s].term = "none" THEN tty
  ELSE [raw |-> FALSE, readers |-> tty.readers \ {s}]

(* The loop returns.  The self-hosted flow exits the process whatever the  *)
(* result, the public one on errors; the rest returns from connectPublic.  *)
End(res, s, r, t) ==
  /\ program' = "ended" /\ result' = res
  /\ IF kind = "self" \/ res = "error"
     THEN slot' = [x \in Slots |-> Idle] /\ tty' = NoKeys
     ELSE slot' = [slot EXCEPT ![s] = r] /\ tty' = t

(* Mutant: a connection that worked does not renew the budget.             *)
BudgetNotRenewed(was) == attempt

(* The loop goes on after a lost connection: a connection that had its     *)
(* terminal renews the budget; then the loop gives up or sleeps, in raw    *)
(* mode and listening for Ctrl+\ in the self-hosted flow.                  *)
Budget(was) == IF was THEN 0 ELSE attempt
LostSelf(s, r, was, t) ==
  /\ attempt' = Budget(was)
  /\ fails' = IF was THEN 0 ELSE fails + 1
  /\ IF attempt' >= MaxAttempts
     THEN End("disconnected", s, r, t)
     ELSE /\ program' = "sleeping" /\ result' = result
          /\ slot' = [slot EXCEPT ![s] = r]
          /\ tty' = [raw |-> TRUE, readers |-> t.readers \cup {Sleeper}]

(* The loop of the public flow: a plain sleep, and no exit of the process. *)
LostPublic(s, r, was, t) ==
  /\ attempt' = Budget(was)
  /\ fails' = IF was THEN 0 ELSE fails + 1
  /\ slot' = [slot EXCEPT ![s] = r] /\ tty' = t
  /\ IF attempt' >= MaxAttempts
     THEN program' = "ended" /\ result' = "disconnected"
     ELSE program' = "sleeping" /\ result' = result

Lost(s, r, was, t) ==
  IF kind = "self" THEN LostSelf(s, r, was, t) ELSE LostPublic(s, r, was, t)

(* done(reason): only the first counts, and the loop continues with it     *)
(* before any other event.                                                 *)
Done(s, r, reason, was, t) ==
  LET r2 == [r EXCEPT !.done = TRUE, !.timer = FALSE] IN
  IF r.done
  THEN slot' = [slot EXCEPT ![s] = r] /\ tty' = t /\ UNCHANGED loop
  ELSE IF reason = "lost"
       THEN Lost(s, r2, was, t)
       ELSE End(reason, s, r2, t) /\ UNCHANGED <<attempt, fails>>

(* A handler that resolves nothing.                                        *)
Goes(s, r, t) ==
  slot' = [slot EXCEPT ![s] = r] /\ tty' = t /\ UNCHANGED loop

(* intentionalClose = true; connection.close(); done(reason).              *)
Quits(s, r, reason, t) ==
  Done(s, [Closed(r) EXCEPT !.intent = TRUE], reason, FALSE, t)

(* onPeerDisconnected and onClose of attemptConnect.                       *)
Drops(s, r, t) ==
  LET r2 == [r EXCEPT !.term = "none"] IN
  IF r.intent THEN Goes(s, r2, t)
  ELSE Done(s, r2, "lost", r.term # "none", t)

(* fetchSessions rejects: connect() throws and the process ends.           *)
Rejects(s, r) == Done(s, r, "error", FALSE, tty)

Alive == program # "ended" \/ (kind = "public" /\ result # "error")
Use(s, use) == Alive /\ slot[s].use = use
(* A frame of the relay can arrive.                                        *)
Hears(s) == Alive /\ up /\ slot[s].ws \in {"open", "closing"}
Ready(s) == Hears(s) /\ slot[s].st = "ready" /\ slot[s].peer = "ready"

-----------------------------------------------------------------------------
(* connect(): the kinds of target.                                         *)

Dial(s, use, re) ==
  /\ slot' = [slot EXCEPT ![s] = Fresh(use, re)] /\ cur' = s

(* ssh://..., or a label of an ssh peer: `ssh -t` in the foreground.       *)
StartSsh ==
  /\ program = "start" /\ kind = "self"
  /\ \E res \in {"exited", "error"} : End(res, cur, slot[cur], tty)
  /\ UNCHANGED <<attempt, fails, flow, hosts, up, spawns>>

(* A label of a public host; its session is known or was picked before.    *)
StartPublic ==
  /\ program = "start" /\ kind = "public"
  /\ program' = "trying" /\ Dial(cur, "attach", FALSE)
  /\ UNCHANGED <<result, attempt, fails, kind, spawn, again, urlToken, hosts,
                 tty, up, spawns>>

(* A token URL, or the stored URL behind a label: wsUrl is computed here,  *)
(* with the token the URL has; without a session they are listed first.    *)
StartSelf ==
  /\ program = "start" /\ kind = "self"
  /\ token' \in BOOLEAN /\ urlToken' = token'
  /\ \E use \in IF spawn THEN {"attach"} ELSE {"attach", "list"} :
       /\ Dial(cur, use, FALSE)
       /\ program' = IF use = "list" THEN "listing" ELSE "trying"
  /\ UNCHANGED <<result, attempt, fails, kind, spawn, again, row, tty, up, spawns>>

(* One session, or the one the user picks: the process runs itself again   *)
(* with a URL that names it and the token of this run.                     *)
PickSession(s) ==
  /\ program = "picking"
  /\ program' = "trying" /\ cur' = s /\ urlToken' = token
  /\ slot' = [x \in Slots |-> IF x = s THEN Fresh("attach", FALSE)
                                        ELSE Idle]
  /\ UNCHANGED <<result, attempt, fails, kind, spawn, again, hosts, tty, up,
                 spawns>>

PickNothing ==
  /\ program = "picking" /\ End("error", cur, slot[cur], tty)
  /\ UNCHANGED <<attempt, fails, flow, hosts, up, spawns>>

-----------------------------------------------------------------------------
(* The socket.                                                             *)

WsOpens(s) ==
  /\ Alive /\ up /\ slot[s].ws = "opening"
  /\ Goes(s, [slot[s] EXCEPT !.ws = "open", !.st = "waiting", !.ping = TRUE], tty)
  /\ UNCHANGED <<flow, hosts, up, spawns>>

(* The error event of a socket; its close event follows.                   *)
WsFails(s) ==
  /\ Alive /\ slot[s].ws \in {"opening", "open", "half"}
  /\ LET r == [slot[s] EXCEPT !.ws = "dying"] IN
     IF r.use = "list" THEN Rejects(s, r) ELSE Goes(s, r, tty)
  /\ UNCHANGED <<flow, hosts, up, spawns>>

(* The relay closes a socket.                                              *)
RelayCloses(s) ==
  /\ Hears(s) /\ slot[s].ws = "open"
  /\ Goes(s, [slot[s] EXCEPT !.ws = "dying"], tty)
  /\ UNCHANGED <<flow, hosts, up, spawns>>

CloseEvent(s) ==
  /\ Alive /\ slot[s].ws \in {"closing", "dying"}
  /\ LET r == [Closed(slot[s]) EXCEPT !.ws = "closed", !.peer = "over"] IN
     IF r.use = "attach" THEN Drops(s, r, Tidy(s)) ELSE Goes(s, r, tty)
  /\ UNCHANGED <<flow, hosts, up, spawns>>

(* Mutant: the pong timer is not started.                                  *)
PingUnanswered(s) ==
  /\ Alive /\ slot[s].ping
  /\ Goes(s, [slot[s] EXCEPT !.ping = (@ /\ slot[s].st # "closed")], tty)
  /\ UNCHANGED <<flow, hosts, up, spawns>>

(* schedulePing: late by more than SLEEP_DRIFT_MS, the machine was asleep. *)
PingFires(s) ==
  /\ Alive /\ slot[s].ping
  /\ LET r == [slot[s] EXCEPT !.ping = (@ /\ slot[s].st # "closed"),
                              !.pong = @ \/ slot[s].ws \in {"open", "half"}]
     IN \/ Goes(s, r, tty)
        \/ Goes(s, [slot[s] EXCEPT !.ping = FALSE, !.ws = "dying"], tty)
  /\ UNCHANGED <<flow, hosts, up, spawns>>

PongArrives(s) ==
  /\ Hears(s) /\ slot[s].pong
  /\ Goes(s, [slot[s] EXCEPT !.pong = FALSE], tty)
  /\ UNCHANGED <<flow, hosts, up, spawns>>

PongTimesOut(s) ==
  /\ Alive /\ slot[s].pong
  /\ Goes(s, [slot[s] EXCEPT !.pong = FALSE,
                !.ws = IF slot[s].st = "closed" THEN @ ELSE "dying"], tty)
  /\ UNCHANGED <<flow, hosts, up, spawns>>

(* A link that is cut leaves its sockets half open.                        *)
NetworkGoes ==
  /\ Alive /\ up /\ up' = FALSE
  /\ slot' = [s \in Slots |->
       [slot[s] EXCEPT !.ws = IF @ = "open" THEN "half" ELSE @]]
  /\ UNCHANGED <<loop, flow, hosts, tty, spawns>>

NetworkComes ==
  /\ Alive /\ ~up /\ up' = TRUE
  /\ UNCHANGED <<loop, flow, hosts, slot, tty, spawns>>

-----------------------------------------------------------------------------
(* Text frames of the relay.                                               *)

WaitingForApproval(s) ==
  /\ Hears(s) /\ slot[s].peer = "new" /\ kind = "self" /\ ~urlToken
  /\ LET r == slot[s] IN
     Goes(s, [r EXCEPT !.peer = "waiting", !.asked = TRUE,
                       !.timer = @ \/ (r.use = "attach" /\ ~r.re)], tty)
  /\ UNCHANGED <<flow, hosts, up, spawns>>

(* startHandshake: the message goes out if the socket is open, and is      *)
(* dropped once it is closing.                                             *)
SendsHello(r) == r.ws = "open"

(* paired, whatever the state.                                             *)
Paired(s) ==
  /\ Hears(s) /\ slot[s].peer \in {"new", "waiting"}
  /\ Goes(s, [slot[s] EXCEPT !.peer = "paired", !.st = "handshaking",
                             !.hello = SendsHello(slot[s])], tty)
  /\ UNCHANGED <<flow, hosts, up, spawns>>

(* Mutant: the connection is not marked closed when its peer is gone.      *)
PeerDisconnectedOpen(s) ==
  /\ Hears(s) /\ slot[s].peer \in {"paired", "ready"}
  /\ LET r == [slot[s] EXCEPT !.peer = "over"] IN
     IF r.use = "attach" THEN Drops(s, r, Tidy(s)) ELSE Rejects(s, r)
  /\ UNCHANGED <<flow, hosts, up, spawns>>


PeerDisconnected(s) ==
  /\ Hears(s) /\ slot[s].peer \in {"paired", "ready"}
  /\ LET r == [slot[s] EXCEPT !.peer = "over", !.st = "closed"] IN
     IF r.use = "attach" THEN Drops(s, r, Tidy(s)) ELSE Rejects(s, r)
  /\ UNCHANGED <<flow, hosts, up, spawns>>

(* error: "token revoked" and "not authorized" end the command, a listing  *)
(* ends with any; else the text is shown.                                  *)
OnError(s, r, fatal) ==
  IF fatal THEN Quits(s, [r EXCEPT !.term = "none"], "error", Tidy(s))
           ELSE Goes(s, r, tty)
RelayErrs(s) ==
  /\ Hears(s) /\ slot[s].peer \in {"new", "waiting"} /\ kind = "self"
  /\ LET r == [slot[s] EXCEPT !.peer = "over"] IN
     IF r.use = "list" THEN Rejects(s, r)
     ELSE \E fatal \in BOOLEAN : OnError(s, r, fatal)
  /\ UNCHANGED <<flow, hosts, up, spawns>>

(* The same of attemptConnectPublic: "not registered" and "revoked" end.   *)
RelayErrsPublic(s) ==
  /\ Hears(s) /\ slot[s].peer \in {"new", "waiting"} /\ kind = "public"
  /\ \E fatal \in BOOLEAN : OnError(s, [slot[s] EXCEPT !.peer = "over"], fatal)
  /\ UNCHANGED <<flow, hosts, up, spawns>>

-----------------------------------------------------------------------------
(* Binary frames: the handshake's answer, then encrypted ones.             *)

(* saveKnownHost: one row per host, replaced as a whole by what the token  *)
(* URL now says (recordHostFromParsed).                                    *)
Row == IF token' THEN "token" ELSE "bare"
RecordHost == row' = Row

(* The daemon's answer completes the handshake.                            *)
Completes(s, term) ==
  /\ Hears(s) /\ slot[s].peer = "paired"
  /\ slot[s].st = "handshaking" /\ slot[s].hello
  /\ Goes(s, [slot[s] EXCEPT !.peer = "ready", !.st = "ready", !.term = term], tty)
  /\ UNCHANGED <<token, flow, up>>

(* onReady of fetchSessions: the row is saved, the list asked for.         *)
ReadyToList(s) ==
  /\ Use(s, "list") /\ Completes(s, "none") /\ RecordHost
  /\ UNCHANGED spawns

(* Mutant: a reconnection spawns again.                                    *)
AsksAlways(r) == spawn

(* onReady of attemptConnect: the row is saved, the terminal made; the     *)
(* first connection of --spawn asks for the session, every other attaches. *)
Asks(r) == spawn /\ ~r.re
ReadyToAttach(s) ==
  /\ kind = "self" /\ Use(s, "attach") /\ Completes(s, "started") /\ RecordHost
  /\ spawns' = IF Asks(slot[s]) THEN spawns + 1 ELSE spawns

(* onReady of attemptConnectPublic: attaches, and saves nothing.           *)
ReadyPublic(s) ==
  /\ kind = "public" /\ Completes(s, "started") /\ UNCHANGED <<row, spawns>>

(* A handshake or a frame that does not verify: onError, then close().     *)
BadFrame(s) ==
  /\ Hears(s) /\ slot[s].peer \in {"paired", "ready"}
  /\ slot[s].st = "ready" \/ (slot[s].st = "handshaking" /\ slot[s].hello)
  /\ IF slot[s].use = "attach" THEN Goes(s, Closed(slot[s]), tty)
     ELSE Rejects(s, Closed(slot[s]))
  /\ UNCHANGED <<flow, hosts, up, spawns>>

(* approved: the daemon names the token it let the client in with.         *)
Approved(s) ==
  /\ Ready(s) /\ kind = "self" /\ (slot[s].asked \/ urlToken)
  /\ token' = TRUE /\ RecordHost
  /\ UNCHANGED <<loop, flow, slot, tty, up, spawns>>

(* sessions: listAndPick goes on; without sessions the process ends.       *)
Sessions(s) ==
  /\ Ready(s) /\ Use(s, "list") /\ ~slot[s].done
  /\ LET r == [Closed(slot[s]) EXCEPT !.timer = FALSE, !.done = TRUE] IN
     \/ End("exited", s, r, tty)
     \/ /\ program' = "picking" /\ result' = result
        /\ slot' = [slot EXCEPT ![s] = r] /\ tty' = tty
  /\ UNCHANGED <<attempt, fails, flow, hosts, up, spawns>>

(* attached: Terminal.enterRawMode takes stdin from every other listener.  *)
Attached(s) ==
  /\ Ready(s) /\ slot[s].term = "started"
  /\ Goes(s, [slot[s] EXCEPT !.term = "attached"],
          [raw |-> TRUE, readers |-> {s}])
  /\ UNCHANGED <<flow, hosts, up, spawns>>

(* error: ends a terminal that is not attached yet, and a listing.         *)
DaemonErrs(s) ==
  /\ Ready(s)
  /\ \/ Use(s, "list") /\ Rejects(s, Closed(slot[s]))
     \/ slot[s].term = "started" /\ Quits(s, slot[s], "error", Tidy(s))
  /\ UNCHANGED <<flow, hosts, up, spawns>>

(* pty packets: EXIT, and one too large for the PacketReader.              *)
SessionExits(s) ==
  /\ Ready(s) /\ slot[s].term # "none"
  /\ \E reason \in {"exited", "error"} : Quits(s, slot[s], reason, Tidy(s))
  /\ UNCHANGED <<flow, hosts, up, spawns>>

(* onFatal of the channels: the terminal is not cleaned up, the process    *)
(* exits.                                                                  *)
ProtocolFails(s) ==
  /\ Ready(s)
  /\ IF slot[s].use = "attach" THEN Quits(s, slot[s], "error", tty)
     ELSE Rejects(s, Closed(slot[s]))
  /\ UNCHANGED <<flow, hosts, up, spawns>>

-----------------------------------------------------------------------------
(* The user and the timers.                                                *)

(* Ctrl+\ at the terminal: DETACH, cleanup, onDetach.                      *)
Detach(s) ==
  /\ Alive /\ s \in tty.readers
  /\ Quits(s, slot[s], "detached", Tidy(s))
  /\ UNCHANGED <<flow, hosts, up, spawns>>

(* Ctrl+\ while the loop sleeps: cleanup and return.                       *)
DetachAsleep ==
  /\ program = "sleeping" /\ Sleeper \in tty.readers
  /\ End("detached", cur, slot[cur], [raw |-> FALSE, readers |-> tty.readers \ {Sleeper}])
  /\ UNCHANGED <<attempt, fails, flow, hosts, up, spawns>>

(* SIGINT, which a raw terminal does not make of Ctrl+C.                   *)
Interrupt ==
  /\ program \in {"listing", "picking", "trying", "sleeping"} /\ ~tty.raw
  /\ program' = "ended"
  /\ result' = IF kind = "self" /\ program \in {"trying", "sleeping"}
               THEN "detached" ELSE "error"
  /\ slot' = [x \in Slots |-> Idle] /\ tty' = NoKeys
  /\ UNCHANGED <<attempt, fails, flow, hosts, up, spawns>>

(* The sleep is over: the next attempt, always an attach.                  *)
TriesAgain(s) ==
  /\ program = "sleeping" /\ s # cur /\ slot[s].ws = "closed"
  /\ program' = "trying" /\ attempt' = attempt + 1 /\ again' = TRUE
  /\ Dial(s, "attach", TRUE)
  /\ UNCHANGED <<result, fails, kind, spawn, urlToken, hosts, up, spawns>>
SleepEnds(s) ==
  /\ kind = "self" /\ TriesAgain(s)
  /\ tty' = [raw |-> FALSE, readers |-> tty.readers \ {Sleeper}]

(* A fresh signature and a fresh URL for every attempt.                    *)
SleepEndsPublic(s) == kind = "public" /\ TriesAgain(s) /\ UNCHANGED tty

ApprovalTimesOut(s) ==
  /\ Use(s, "attach") /\ slot[s].timer
  /\ LET r == [slot[s] EXCEPT !.timer = FALSE] IN
     IF r.term = "none" THEN Quits(s, r, "error", tty) ELSE Goes(s, r, tty)
  /\ UNCHANGED <<flow, hosts, up, spawns>>

ListTimesOut(s) ==
  /\ Use(s, "list") /\ slot[s].timer /\ Rejects(s, Closed(slot[s]))
  /\ UNCHANGED <<flow, hosts, up, spawns>>

-----------------------------------------------------------------------------
RelaySends(s) ==
  \/ WaitingForApproval(s) \/ Paired(s) \/ PeerDisconnected(s)
  \/ RelayErrs(s) \/ RelayErrsPublic(s) \/ ReadyToList(s)
  \/ ReadyToAttach(s) \/ ReadyPublic(s) \/ BadFrame(s)
  \/ Approved(s) \/ Sessions(s) \/ Attached(s) \/ DaemonErrs(s)
  \/ SessionExits(s) \/ ProtocolFails(s)
Socket(s) ==
  \/ WsOpens(s) \/ WsFails(s) \/ RelayCloses(s) \/ CloseEvent(s)
  \/ PingFires(s) \/ PongArrives(s) \/ PongTimesOut(s)
Timers(s) ==
  SleepEnds(s) \/ SleepEndsPublic(s) \/ ApprovalTimesOut(s) \/ ListTimesOut(s)
Next ==
  \/ StartSsh \/ StartPublic \/ StartSelf \/ PickNothing
  \/ NetworkGoes \/ NetworkComes \/ DetachAsleep \/ Interrupt
  \/ \E s \in Slots : \/ PickSession(s) \/ Detach(s) \/ RelaySends(s)
                      \/ Socket(s) \/ Timers(s)

(* Timers fire and a socket that is lost gets its close event.  The kernel *)
(* gives up on a socket that cannot be opened, and on one left behind half *)
(* open, whose last ping it cannot deliver (the pong timeout spares a      *)
(* connection that is marked closed).                                      *)
Fairness ==
  /\ WF_vars(StartSsh \/ StartPublic \/ StartSelf)
  /\ \A s \in Slots :
       /\ WF_vars(CloseEvent(s)) /\ WF_vars(PingFires(s))
       /\ WF_vars(PongTimesOut(s)) /\ WF_vars(SleepEnds(s) \/ SleepEndsPublic(s))
       /\ WF_vars(ApprovalTimesOut(s)) /\ WF_vars(ListTimesOut(s))
       /\ WF_vars(~up /\ slot[s].ws = "opening" /\ WsFails(s))
       /\ WF_vars(slot[s].ws = "half" /\ slot[s].st = "closed" /\ WsFails(s))

Spec == Init /\ [][Next]_vars /\ Fairness

-----------------------------------------------------------------------------
(* Properties.                                                             *)

(* The keyboard has one reader at a time, which put the terminal into raw  *)
(* mode: the terminal of the running attempt, or the sleeping loop, which  *)
(* always listens in the self-hosted flow.  No attempt that is over keeps  *)
(* its listener (it would take Ctrl+\ from the next), and a command that   *)
(* is over has given the terminal back.                                    *)
KeyboardHasOneReader ==
  /\ \A x, y \in tty.readers : x = y
  /\ tty.raw <=> tty.readers # {}
  /\ program = "trying" => tty.readers \subseteq {cur}
  /\ program = "sleeping" => tty.readers = IF kind = "self" THEN {Sleeper} ELSE {}
  /\ program = "ended" => tty.readers = {}

(* The command gives up only after MAX_RECONNECT_ATTEMPTS failures in a    *)
(* row, however often the link was lost and came back before: a connection *)
(* that worked renews the budget.                                          *)
GivesUpLate == result = "disconnected" => fails >= MaxAttempts

(* However often the link is lost, `--spawn` asks for one session: a       *)
(* reconnection attaches to it and never spawns a second.                  *)
SpawnsOnce == spawns <= 1

(* Only the latest attempt can still decide how the command goes on, and   *)
(* no connection of an earlier one becomes usable again, whatever arrives  *)
(* late on its socket.                                                     *)
OldIsOver ==
  \A s \in Slots : s # cur =>
    slot[s].done /\ slot[s].st \notin {"handshaking", "ready"}

(* If the network stays away the command ends by itself (or asks for a     *)
(* session): half-open sockets are found by ping and pong, waits for an    *)
(* approval and for the list have their timers, attempts are counted.      *)
EndsWithoutNetwork ==
  (<>[]~up) => <>(program \in {"ended", "picking"})
=============================================================================
