-------------------------- MODULE Approval_proofs --------------------------
(***************************************************************************)
(* Theorems about Approval, for any clients, tokens, `clients` processes   *)
(* and caps.  What concerns who gets in holds however the processes        *)
(* overwrite each other's writes; what concerns the file needs that they   *)
(* do not (~Overlap).                                                      *)
(***************************************************************************)
EXTENDS Approval, TLAPS

(* An active token was approved, in the file and in every copy of it that  *)
(* somebody may yet write back.                                            *)
ActiveInv ==
  /\ \A t \in Tokens : store[t] = "active" => t \in approved
  /\ snap # None => \A t \in Tokens : snap[t] = "active" => t \in approved
  /\ \A o \in Operators : cli[o] # None =>
       \A t \in Tokens : cli[o].snap[t] = "active" => t \in approved

EntryInv == ActiveInv /\ OnlyApprovedEnter

-----------------------------------------------------------------------------
(* What a mutator returns is a store.                                       *)
LEMMA MutateTyped ==
  ASSUME NEW r \in Request, NEW d \in Snapshot
  PROVE  Mutate(r, d) \in Snapshot
BY DEF Mutate, Request, Snapshot, Status, MaybeToken

(* It makes no token active.                                               *)
LEMMA MutateActive ==
  ASSUME NEW r \in Request, NEW d \in Snapshot, NEW t \in Tokens,
         Mutate(r, d)[t] = "active"
  PROVE  d[t] = "active"
BY DEF Mutate, Request, Snapshot, Status, MaybeToken

(* The head of updateClients' queue is a request with the tokens its kind  *)
(* needs.                                                                  *)
LEMMA HeadTyped ==
  ASSUME TypeOK, queue # <<>>
  PROVE  Head(queue) \in Request /\ Tail(queue) \in Seq(Request)
BY DEF TypeOK

(* A new request is queued behind the others, with a token of its own.     *)
LEMMA EnrollTyped ==
  ASSUME TypeOK, NEW c \in Clients, NEW t \in Tokens, Enroll(c, t)
  PROVE  /\ issued' \subseteq Tokens
         /\ queue' \in Seq(Request) /\ queue' # <<>>
BY DEF TypeOK, Enroll, Request, MaybeToken

(* So is a request that brings no token.                                   *)
LEMMA QueuedTyped ==
  ASSUME TypeOK, NEW r \in Request, Queued(r)
  PROVE  queue' \in Seq(Request) /\ queue' # <<>>
BY DEF TypeOK, Queued

(* Clearing entries keeps a table of tokens a table of tokens.             *)
LEMMA WithoutTyped ==
  ASSUME NEW f \in [Clients -> MaybeToken], NEW S
  PROVE  Without(f, S) \in [Clients -> MaybeToken]
BY DEF Without, MaybeToken

-----------------------------------------------------------------------------
(* Every handler, continuation and command keeps the state typed.          *)
LEMMA TypeStep == TypeOK /\ [Next]_vars => TypeOK'
<1> SUFFICES ASSUME TypeOK, [Next]_vars PROVE TypeOK'
  OBVIOUS
<1> USE ApprovalNone, WithoutTyped DEF TypeOK, MaybeToken, memory, tasks
<1>1. ASSUME NEW c \in Clients, ClientRefused(c) PROVE TypeOK'
  BY <1>1 DEF ClientRefused, Rejected
<1>2. ASSUME NEW c \in Clients, ClientWaiting(c) PROVE TypeOK'
  <2>1. CASE \E t \in Tokens : Enroll(c, t) /\ UNCHANGED checking
    BY <1>2, <2>1, EnrollTyped DEF ClientWaiting
  <2>2. CASE UNCHANGED <<issued, queue>>
    BY <1>2, <2>2 DEF ClientWaiting
  <2>3. QED
    BY <1>2, <2>1, <2>2 DEF ClientWaiting, Enroll
<1>3. ASSUME NEW c \in Clients, ClientDisconnected(c) PROVE TypeOK'
  BY <1>3 DEF ClientDisconnected, Forget
<1>4. ASSUME NEW c \in Clients, CheckToken(c) PROVE TypeOK'
  <2>1. checking' \in [Clients -> Tokens \cup {None}] /\ draining' \in BOOLEAN
    BY <1>4 DEF CheckToken, StillDraining
  <2>2. /\ session' \in [Clients -> Tokens \cup {None}]
        /\ link' \in [Clients -> {"away", "here", "gone"}]
    BY <1>4 DEF CheckToken, Rejected
  <2>3. /\ issued' \subseteq Tokens
        /\ queue' \in Seq(Request) /\ (snap # None => queue' # <<>>)
    BY <1>4, EnrollTyped DEF CheckToken
  <2>4. QED
    BY <1>4, <2>1, <2>2, <2>3 DEF CheckToken
<1>5. ASSUME UpdateLoad PROVE TypeOK'
  BY <1>5 DEF UpdateLoad
<1>6. ASSUME UpdateSave PROVE TypeOK'
  BY <1>6, HeadTyped, MutateTyped DEF UpdateSave, StillDraining, Request
<1>7. ASSUME NEW c \in Clients, TimerFires(c) PROVE TypeOK'
  <2>1. [op |-> "expire", c |-> c, t |-> timer[c]] \in Request
    BY DEF Request
  <2>2. queue' \in Seq(Request) /\ queue' # <<>>
    BY <1>7, <2>1, QueuedTyped DEF TimerFires
  <2>3. QED
    BY <1>7, <2>2 DEF TimerFires, Forget, Rejected, Queued
<1>8. ASSUME NEW c \in Clients, Hello(c) PROVE TypeOK'
  BY <1>8 DEF Hello, Queued, Request
<1>9. ASSUME NEW c \in Clients, SessionEnds(c) PROVE TypeOK'
  BY <1>9 DEF SessionEnds
<1>10. ASSUME PrimaryLost PROVE TypeOK'
  BY <1>10 DEF PrimaryLost, Forget, Departed, Nobody
<1>11. ASSUME HandleSignal PROVE TypeOK'
  BY <1>11 DEF HandleSignal, Forget
<1>12. ASSUME Crash PROVE TypeOK'
  <2>1. link' \in [Clients -> {"away", "here", "gone"}]
    BY <1>12 DEF Crash, Departed
  <2>2. Nobody \in [Clients -> MaybeToken] /\ <<>> \in Seq(Request)
    BY DEF Nobody
  <2>3. QED
    BY <1>12, <2>1, <2>2 DEF Crash
<1>13. ASSUME Boot PROVE TypeOK'
  BY <1>13 DEF Boot, Queued, Purge, Request
<1>14. ASSUME NEW o \in Operators, NEW t \in Tokens,
            NEW op \in {"approve", "revoke", "invite"}, CliLoad(o, op, t)
      PROVE  TypeOK'
  BY <1>14 DEF CliLoad, OrderAllowed, Order
<1>15. ASSUME NEW o \in Operators, CliAbort(o) PROVE TypeOK'
  BY <1>15 DEF CliAbort
<1>16. ASSUME NEW o \in Operators, CliSave(o) PROVE TypeOK'
  <2>1. cli[o] \in Order
    BY <1>16 DEF CliSave
  <2>2. store' \in Snapshot /\ approved' \subseteq Tokens
    BY <1>16, <2>1 DEF CliSave, Order, Snapshot, Status
  <2>3. QED
    BY <1>16, <2>2 DEF CliSave
<1>17. ASSUME NEW o \in Operators, CliSignal(o) PROVE TypeOK'
  BY <1>17 DEF CliSignal
<1>18. ASSUME UNCHANGED vars PROVE TypeOK'
  BY <1>18 DEF vars
<1>19. QED
  BY <1>1, <1>2, <1>3, <1>4, <1>5, <1>6, <1>7, <1>8, <1>9, <1>10, <1>11,
     <1>12, <1>13, <1>14, <1>15, <1>16, <1>17, <1>18
     DEF Next, Continuation, DaemonEvent, Command

-----------------------------------------------------------------------------
(* No step makes a token active in a store or a copy without an operator,  *)
(* nor lets a client in on a token that is not active.                     *)
LEMMA EntryStep == TypeOK /\ EntryInv /\ [Next]_vars => EntryInv'
<1> SUFFICES ASSUME TypeOK, EntryInv, [Next]_vars PROVE EntryInv'
  OBVIOUS
<1> USE ApprovalNone
    DEF TypeOK, EntryInv, ActiveInv, OnlyApprovedEnter, MaybeToken, memory,
        tasks
<1>1. ASSUME NEW c \in Clients, ClientRefused(c) PROVE EntryInv'
  BY <1>1 DEF ClientRefused
<1>2. ASSUME NEW c \in Clients, ClientWaiting(c) PROVE EntryInv'
  BY <1>2 DEF ClientWaiting
<1>3. ASSUME NEW c \in Clients, ClientDisconnected(c) PROVE EntryInv'
  BY <1>3 DEF ClientDisconnected, Without
<1>4. ASSUME NEW c \in Clients, CheckToken(c) PROVE EntryInv'
  BY <1>4 DEF CheckToken
<1>5. ASSUME UpdateLoad PROVE EntryInv'
  BY <1>5 DEF UpdateLoad
<1>6. ASSUME UpdateSave PROVE EntryInv'
  <2>1. \A t \in Tokens : store'[t] = "active" => snap[t] = "active"
    BY <1>6, HeadTyped, MutateActive DEF UpdateSave
  <2>2. QED
    BY <1>6, <2>1 DEF UpdateSave
<1>7. ASSUME NEW c \in Clients, TimerFires(c) PROVE EntryInv'
  BY <1>7 DEF TimerFires, Queued
<1>8. ASSUME NEW c \in Clients, Hello(c) PROVE EntryInv'
  BY <1>8 DEF Hello, Queued
<1>9. ASSUME NEW c \in Clients, SessionEnds(c) PROVE EntryInv'
  BY <1>9 DEF SessionEnds, Without
<1>10. ASSUME PrimaryLost PROVE EntryInv'
  BY <1>10 DEF PrimaryLost, Nobody
<1>11. ASSUME HandleSignal PROVE EntryInv'
  BY <1>11 DEF HandleSignal, Admitted, Holding
<1>12. ASSUME Crash PROVE EntryInv'
  BY <1>12 DEF Crash, Nobody
<1>13. ASSUME Boot PROVE EntryInv'
  BY <1>13 DEF Boot, Queued
<1>14. ASSUME NEW o \in Operators, NEW t \in Tokens,
            NEW op \in {"approve", "revoke", "invite"}, CliLoad(o, op, t)
      PROVE  EntryInv'
  BY <1>14 DEF CliLoad, Order
<1>15. ASSUME NEW o \in Operators, CliAbort(o) PROVE EntryInv'
  BY <1>15 DEF CliAbort
<1>16. ASSUME NEW o \in Operators, CliSave(o) PROVE EntryInv'
  <2>1. /\ cli[o] \in Order /\ approved \subseteq approved'
        /\ \A t \in Tokens : store'[t] = "active" => t \in approved'
    BY <1>16 DEF CliSave, Order, Snapshot
  <2>2. QED
    BY <1>16, <2>1 DEF CliSave
<1>17. ASSUME NEW o \in Operators, CliSignal(o) PROVE EntryInv'
  BY <1>17 DEF CliSignal
<1>18. ASSUME UNCHANGED vars PROVE EntryInv'
  BY <1>18 DEF vars
<1>19. QED
  BY <1>1, <1>2, <1>3, <1>4, <1>5, <1>6, <1>7, <1>8, <1>9, <1>10, <1>11,
     <1>12, <1>13, <1>14, <1>15, <1>16, <1>17, <1>18
     DEF Next, Continuation, DaemonEvent, Command

(* The state of the daemon, the file and the commands keeps to its types.  *)
THEOREM ApprovalTyped == Spec => []TypeOK
<1>1. Init => TypeOK
  <2>1. Nobody \in [Clients -> MaybeToken] /\ <<Purge>> \in Seq(Request)
    BY DEF Nobody, MaybeToken, Purge, Request
  <2>2. QED
    BY <2>1, ApprovalNone DEF Init, TypeOK, Snapshot, Status
<1>2. QED
  BY <1>1, TypeStep, PTL DEF Spec

(* Nobody gets in without an operator's approval or invitation, however    *)
(* the daemon, the command and the TUI overwrite each other's writes of    *)
(* clients.json, and wherever the daemon crashes.                          *)
THEOREM OnlyApproved == Spec => []OnlyApprovedEnter
<1>1. Init => EntryInv
  BY ApprovalNone DEF Init, EntryInv, ActiveInv, OnlyApprovedEnter, Nobody
<1>2. TypeOK /\ EntryInv /\ [Next]_vars => EntryInv'
  BY EntryStep
<1>3. EntryInv => OnlyApprovedEnter
  BY DEF EntryInv
<1>4. QED
  BY <1>1, <1>2, <1>3, ApprovalTyped, PTL DEF Spec

-----------------------------------------------------------------------------
(* Without overlapping writes, what the daemon loaded is what is on file;  *)
(* every queued enrolment has a token of its own that is on no file yet;   *)
(* and an order of the command found its token as it had to.               *)
Enrols(k) == queue[k].op = "enroll"

QueueInv ==
  /\ \A k \in DOMAIN queue : Enrols(k) =>
       queue[k].t \in issued /\ store[queue[k].t] = "absent"
  /\ \A j, k \in DOMAIN queue :
       Enrols(j) /\ Enrols(k) /\ queue[j].t = queue[k].t => j = k

OrderInv ==
  \A o \in Operators : cli[o] # None =>
    /\ cli[o].op = "approve" => cli[o].snap[cli[o].t] = "pending"
    /\ cli[o].op = "revoke" => cli[o].snap[cli[o].t] # "absent"
    /\ cli[o].op = "invite" =>
         /\ cli[o].t \in issued /\ cli[o].snap[cli[o].t] = "absent"
         /\ \A k \in DOMAIN queue : Enrols(k) => queue[k].t # cli[o].t

FileInv ==
  /\ snap # None => snap = store
  /\ \A t \in Tokens : store[t] # "absent" => t \in issued
  /\ QueueInv
  /\ OrderInv
  /\ EveryPendingIsListed

(* One more request at the end of the queue.                               *)
LEMMA QueueAppend ==
  ASSUME TypeOK, NEW r \in Request, queue' = Append(queue, r)
  PROVE  /\ queue' \in Seq(Request)
         /\ DOMAIN queue' = DOMAIN queue \cup {Len(queue) + 1}
         /\ \A k \in DOMAIN queue : queue'[k] = queue[k] /\ k # Len(queue) + 1
         /\ queue'[Len(queue) + 1] = r
BY DEF TypeOK

(* The head of the queue is done.                                          *)
LEMMA QueueTail ==
  ASSUME TypeOK, queue # <<>>, queue' = Tail(queue)
  PROVE  /\ 1 \in DOMAIN queue /\ Head(queue) = queue[1]
         /\ \A k \in DOMAIN queue' :
              /\ k + 1 \in DOMAIN queue /\ queue'[k] = queue[k + 1]
              /\ k \in Nat /\ k + 1 # 1
BY DEF TypeOK

(* A request that enrols nobody disturbs no enrolment.                     *)
LEMMA QueuedKeeps ==
  ASSUME TypeOK, FileInv, NEW r \in Request, r.op # "enroll", Queued(r),
         UNCHANGED <<store, issued, cli>>
  PROVE  QueueInv' /\ OrderInv'
<1>1. queue' = Append(queue, r)
  BY DEF Queued
<1>2. \A k \in DOMAIN queue' : Enrols(k)' =>
        k \in DOMAIN queue /\ Enrols(k) /\ queue'[k] = queue[k]
  BY <1>1, QueueAppend DEF Enrols
<1>3. QED
  BY <1>2 DEF FileInv, QueueInv, OrderInv

(* An enrolment brings a token that nothing else names.                    *)
LEMMA EnrollKeeps ==
  ASSUME TypeOK, FileInv, NEW c \in Clients, NEW t \in Tokens, Enroll(c, t),
         UNCHANGED <<store, cli>>
  PROVE  /\ QueueInv' /\ OrderInv'
         /\ \A u \in Tokens : store'[u] # "absent" => u \in issued'
<1> DEFINE r == [op |-> "enroll", c |-> c, t |-> t]
<1>1. r \in Request /\ queue' = Append(queue, r)
  BY DEF Enroll, Request, MaybeToken
<1>2. t \notin issued /\ issued' = issued \cup {t} /\ store[t] = "absent"
  BY DEF Enroll, Fresh, FileInv
<1>3. \A k \in DOMAIN queue' :
        \/ k \in DOMAIN queue /\ queue'[k] = queue[k]
        \/ k = Len(queue) + 1 /\ queue'[k] = r
  BY <1>1, QueueAppend
<1> HIDE DEF r
<1>4. r.t = t
  BY DEF r
<1>5. QED
  BY <1>2, <1>3, <1>4 DEF FileInv, QueueInv, OrderInv, Enrols

(* The file invariant is kept by every step as long as writes do not       *)
(* overlap.                                                                *)
LEMMA FileStep ==
  ASSUME ~Overlap, TypeOK, FileInv, [Next]_vars
  PROVE  FileInv'
<1> USE ApprovalNone DEF TypeOK, MaybeToken, memory, tasks
<1>1. ASSUME NEW c \in Clients, ClientRefused(c) PROVE FileInv'
  BY <1>1
     DEF ClientRefused, FileInv, QueueInv, OrderInv, Enrols,
         EveryPendingIsListed
<1>2. ASSUME NEW c \in Clients, ClientWaiting(c) PROVE FileInv'
  <2>1. CASE \E t \in Tokens : Enroll(c, t)
    BY <1>2, <2>1, EnrollKeeps DEF ClientWaiting, FileInv, EveryPendingIsListed
  <2>2. CASE UNCHANGED <<issued, queue>>
    BY <1>2, <2>2
       DEF ClientWaiting, FileInv, QueueInv, OrderInv, Enrols,
           EveryPendingIsListed
  <2>3. QED
    BY <1>2, <2>1, <2>2 DEF ClientWaiting
<1>3. ASSUME NEW c \in Clients, ClientDisconnected(c) PROVE FileInv'
  BY <1>3
     DEF ClientDisconnected, Forget, Without, FileInv, QueueInv, OrderInv,
         Enrols, EveryPendingIsListed
<1>4. ASSUME NEW c \in Clients, CheckToken(c) PROVE FileInv'
  <2>1. CASE \E t \in Tokens : Enroll(c, t)
    BY <1>4, <2>1, EnrollKeeps DEF CheckToken, FileInv, EveryPendingIsListed
  <2>2. CASE UNCHANGED <<issued, queue>>
    BY <1>4, <2>2
       DEF CheckToken, FileInv, QueueInv, OrderInv, Enrols,
           EveryPendingIsListed
  <2>3. QED
    BY <1>4, <2>1, <2>2 DEF CheckToken
<1>5. ASSUME UpdateLoad PROVE FileInv'
  BY <1>5
     DEF UpdateLoad, FileInv, QueueInv, OrderInv, Enrols, EveryPendingIsListed
<1>6. ASSUME UpdateSave PROVE FileInv'
  <2> DEFINE r == Head(queue)
  <2>1. /\ queue # <<>> /\ snap = store /\ r \in Request
        /\ store' = Mutate(r, store) /\ queue' = Tail(queue) /\ snap' = None
    BY <1>6, HeadTyped DEF UpdateSave, FileInv
  <2>2. \A t \in Tokens : store[t] # "absent" => store'[t] # "absent"
    BY <2>1 DEF Mutate
  <2>3. \A t \in Tokens : store'[t] # store[t] /\ store[t] = "absent" =>
          r.op = "enroll" /\ t = r.t
    BY <2>1 DEF Mutate
  <2>4. r = queue[1] /\ 1 \in DOMAIN queue
    BY <2>1, QueueTail
  <2>5. \A t \in Tokens : store'[t] # "absent" => t \in issued
    BY <2>3, <2>4 DEF FileInv, QueueInv, Enrols
  <2>6. \A k \in DOMAIN queue' :
          /\ k + 1 \in DOMAIN queue /\ queue'[k] = queue[k + 1]
          /\ k \in Nat /\ k + 1 # 1
    BY <2>1, QueueTail
  <2>7. QueueInv'
    <3>1. ASSUME NEW k \in DOMAIN queue', queue'[k].op = "enroll"
          PROVE  queue'[k].t \in issued /\ store'[queue'[k].t] = "absent"
      BY <3>1, <2>3, <2>4, <2>6 DEF FileInv, QueueInv, Enrols
    <3>2. ASSUME NEW j \in DOMAIN queue', NEW k \in DOMAIN queue',
                 queue'[j].op = "enroll", queue'[k].op = "enroll",
                 queue'[j].t = queue'[k].t
          PROVE  j = k
      BY <3>2, <2>6 DEF FileInv, QueueInv, Enrols
    <3>3. QED
      BY <3>1, <3>2, <1>6 DEF QueueInv, Enrols, UpdateSave
  <2>8. OrderInv'
    BY <1>6, <2>6 DEF UpdateSave, FileInv, OrderInv, Enrols
  <2>9. EveryPendingIsListed'
    <3>1. r.op = "enroll" => r.t \in Tokens /\ store'[r.t] = "pending"
      BY <2>1, <2>4 DEF Mutate, FileInv, QueueInv, Enrols
    <3>2. \A c \in Clients : \/ pending'[c] = pending[c]
                             \/ r.op = "enroll" /\ pending'[c] = r.t
      BY <1>6 DEF UpdateSave
    <3>3. QED
      BY <3>1, <3>2, <2>2 DEF FileInv, EveryPendingIsListed
  <2>10. QED
    BY <2>1, <2>5, <2>7, <2>8, <2>9, <1>6 DEF FileInv, UpdateSave
<1>7. ASSUME NEW c \in Clients, TimerFires(c) PROVE FileInv'
  <2>1. [op |-> "expire", c |-> c, t |-> timer[c]] \in Request
    BY DEF Request
  <2>2. QueueInv' /\ OrderInv'
    BY <1>7, <2>1, QueuedKeeps DEF TimerFires
  <2>3. QED
    BY <1>7, <2>2
       DEF TimerFires, Queued, Forget, Without, FileInv, EveryPendingIsListed
<1>8. ASSUME NEW c \in Clients, Hello(c) PROVE FileInv'
  <2>1. [op |-> "label", c |-> c, t |-> session[c]] \in Request
    BY DEF Request
  <2>2. QueueInv' /\ OrderInv'
    BY <1>8, <2>1, QueuedKeeps DEF Hello
  <2>3. QED
    BY <1>8, <2>2
       DEF Hello, Queued, Forget, Without, FileInv, EveryPendingIsListed
<1>9. ASSUME NEW c \in Clients, SessionEnds(c) PROVE FileInv'
  BY <1>9
     DEF SessionEnds, FileInv, QueueInv, OrderInv, Enrols, EveryPendingIsListed
<1>10. ASSUME PrimaryLost PROVE FileInv'
  BY <1>10
     DEF PrimaryLost, Forget, Without, FileInv, QueueInv, OrderInv, Enrols,
         EveryPendingIsListed
<1>11. ASSUME HandleSignal PROVE FileInv'
  BY <1>11
     DEF HandleSignal, Forget, Without, FileInv, QueueInv, OrderInv, Enrols,
         EveryPendingIsListed
<1>12. ASSUME Crash PROVE FileInv'
  BY <1>12
     DEF Crash, Nobody, FileInv, QueueInv, OrderInv, Enrols,
         EveryPendingIsListed
<1>13. ASSUME Boot PROVE FileInv'
  <2>1. Purge \in Request
    BY DEF Request, Purge
  <2>2. QueueInv' /\ OrderInv'
    BY <1>13, <2>1, QueuedKeeps DEF Boot, Purge
  <2>3. QED
    BY <1>13, <2>2
       DEF Boot, Queued, Forget, Without, FileInv, EveryPendingIsListed
<1>14. ASSUME NEW o \in Operators, NEW t \in Tokens,
            NEW op \in {"approve", "revoke", "invite"}, CliLoad(o, op, t)
      PROVE  FileInv'
  BY <1>14
     DEF CliLoad, OrderAllowed, Fresh, Order, FileInv, QueueInv, OrderInv,
         Enrols, EveryPendingIsListed
<1>15. ASSUME NEW o \in Operators, CliAbort(o) PROVE FileInv'
  BY <1>15
     DEF CliAbort, FileInv, QueueInv, OrderInv, Enrols, EveryPendingIsListed
<1>16. ASSUME NEW o \in Operators, CliSave(o) PROVE FileInv'
  <2>1. cli[o] \in Order /\ cli[o].snap = store /\ snap = None
    BY <1>16 DEF CliSave, Alone
  <2>2. PICK to \in {"active", "revoked"} :
          store' = [store EXCEPT ![cli[o].t] = to]
    BY <1>16, <2>1 DEF CliSave
  <2>3. /\ cli[o].t \in issued
        /\ \A k \in DOMAIN queue : Enrols(k) => queue[k].t # cli[o].t
    BY <1>16, <2>1 DEF CliSave, FileInv, QueueInv, OrderInv, Order
  <2>4. QED
    BY <1>16, <2>1, <2>2, <2>3
       DEF CliSave, FileInv, QueueInv, OrderInv, Enrols, EveryPendingIsListed,
           Order, Snapshot
<1>17. ASSUME NEW o \in Operators, CliSignal(o) PROVE FileInv'
  BY <1>17
     DEF CliSignal, FileInv, QueueInv, OrderInv, Enrols, EveryPendingIsListed
<1>18. ASSUME UNCHANGED vars PROVE FileInv'
  BY <1>18 DEF vars, FileInv, QueueInv, OrderInv, Enrols, EveryPendingIsListed
<1>19. QED
  BY <1>1, <1>2, <1>3, <1>4, <1>5, <1>6, <1>7, <1>8, <1>9, <1>10, <1>11,
     <1>12, <1>13, <1>14, <1>15, <1>16, <1>17, <1>18
     DEF Next, Continuation, DaemonEvent, Command

(* Every reachable state keeps the file invariant.                         *)
LEMMA FileInvariance ==
  ASSUME ~Overlap
  PROVE  Spec => []FileInv
<1>1. Init => FileInv
  <2> SUFFICES ASSUME Init PROVE FileInv
    OBVIOUS
  <2>1. \A k \in DOMAIN queue : ~Enrols(k)
    BY DEF Init, Purge, Enrols
  <2>2. QED
    BY <2>1, ApprovalNone
       DEF Init, FileInv, QueueInv, OrderInv, EveryPendingIsListed, Nobody
<1>2. TypeOK /\ FileInv /\ [Next]_vars => FileInv'
  BY FileStep
<1>3. QED
  BY <1>1, <1>2, ApprovalTyped, PTL DEF Spec

(* Every client that waits is one the operator can see in the file, as     *)
(* long as no write comes between another's load and save.                 *)
THEOREM PendingListed ==
  ASSUME ~Overlap
  PROVE  Spec => []EveryPendingIsListed
<1>1. FileInv => EveryPendingIsListed
  BY DEF FileInv
<1>2. QED
  BY <1>1, FileInvariance, PTL

(* A step of the daemon or of the command leaves revoked tokens revoked.   *)
LEMMA RevokedStaysRevoked ==
  ASSUME ~Overlap, TypeOK, FileInv, [Next]_vars,
         NEW t \in Tokens, store[t] = "revoked"
  PROVE  store'[t] = "revoked"
<1>1. CASE UpdateSave
  <2>1. /\ queue # <<>> /\ Head(queue) \in Request
        /\ store' = Mutate(Head(queue), store)
    BY <1>1, HeadTyped DEF UpdateSave, FileInv, TypeOK
  <2>2. 1 \in DOMAIN queue /\ Head(queue) = queue[1]
    BY <2>1 DEF TypeOK
  <2>3. ~(Head(queue).op = "enroll" /\ Head(queue).t = t)
    BY <2>2 DEF FileInv, QueueInv, Enrols
  <2>4. QED
    BY <2>1, <2>3 DEF Mutate
<1>2. CASE \E o \in Operators : CliSave(o)
  <2>1. PICK o \in Operators : CliSave(o)
    BY <1>2
  <2>2. cli[o] \in Order /\ cli[o] # None /\ cli[o].snap = store
    BY <2>1 DEF CliSave, Alone, TypeOK
  <2>3. cli[o].op # "revoke" => cli[o].t # t
    BY <2>2 DEF FileInv, OrderInv, Order
  <2>4. QED
    BY <2>1, <2>2, <2>3 DEF CliSave, Order, TypeOK, Snapshot
<1>3. CASE UNCHANGED store
  BY <1>3
<1>4. UpdateSave \/ (\E o \in Operators : CliSave(o)) \/ UNCHANGED store
  BY DEF Next, Continuation, DaemonEvent, Command, vars, ClientRefused,
         ClientWaiting, ClientDisconnected, CheckToken, UpdateLoad, TimerFires,
         Hello, SessionEnds, PrimaryLost, HandleSignal, Crash, Boot, CliLoad,
         CliAbort, CliSignal
<1>5. QED
  BY <1>1, <1>2, <1>3, <1>4

(* Revocation is final as long as no write comes between another's load    *)
(* and save: the run Approval_overlap shows that it is not without that.   *)
THEOREM RevocationFinal ==
  ASSUME ~Overlap
  PROVE  Spec => RevocationIsFinal
<1>1. TypeOK /\ FileInv /\ [Next]_vars =>
        [\A t \in Tokens : store[t] = "revoked" => store'[t] = "revoked"]_vars
  BY RevokedStaysRevoked
<1>2. QED
  BY <1>1, ApprovalTyped, FileInvariance, PTL DEF Spec, RevocationIsFinal
=============================================================================
