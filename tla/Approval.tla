------------------------------ MODULE Approval ------------------------------
(***************************************************************************)
(* Operator approval in the self-hosted daemon (commands/start.ts without  *)
(* --auto-approve): clients announced on the primary connection, the       *)
(* tokens of clients.json, the pending and connected clients the daemon    *)
(* holds in memory, and the `pty-relay clients` command and TUI, which are *)
(* other processes that write the same file and send SIGUSR1.              *)
(*                                                                         *)
(* Three grains of interleaving matter.  The daemon's store is             *)
(* synchronous under its async interface, so a handler and all its         *)
(* continuations run before the next timer, signal or socket event         *)
(* (`Idle`); but several text frames of the primary that came in one read  *)
(* are handed over one after the other before any continuation runs        *)
(* (`draining`).  And another process may write the file between the       *)
(* daemon's load and its save, or the daemon between those of the command, *)
(* which may wait on a y/N prompt: `Overlap` says whether they do.         *)
(***************************************************************************)
EXTENDS Integers, Sequences, FiniteSets

CONSTANTS
  Clients,     (* client ids the relay gives out, each announced once      *)
  Tokens,      (* token ids generateTokenId may give out                   *)
  Operators,   (* `pty-relay clients` processes                            *)
  MaxClients,  (* MAX_CLIENTS                                              *)
  MaxPending,  (* MAX_PENDING_CLIENTS                                      *)
  Overlap,     (* a write of one process may come between load and save    *)
               (* of another                                               *)
  None

Status == {"absent", "pending", "active", "revoked"}
Snapshot == [Tokens -> Status]
Order == [op : {"approve", "revoke", "invite"}, t : Tokens, snap : Snapshot]

ASSUME ApprovalNone == None \notin Clients \cup Tokens \cup Snapshot \cup Order
ASSUME CapAssumption == MaxClients \in Nat /\ MaxPending \in Nat
ASSUME OverlapAssumption == Overlap \in BOOLEAN

VARIABLES
  store,     (* clients.json: the status of every token                    *)
  issued,    (* history: token ids given out                               *)
  approved,  (* history: tokens an operator approved or invited            *)
  daemon,    (* "down", "booting" until the pending tokens of an earlier   *)
             (* run are purged, then "up"                                  *)
  link,      (* what the primary was told of a client: nothing yet, that   *)
             (* it waits, that it went (or the daemon had it rejected)     *)
  session,   (* clients: the token of each ClientSession                   *)
  pending,   (* pendingClients: the token each client waits for            *)
  timer,     (* armed approval timeouts and the token they were armed for  *)
  checking,  (* onClientWaiting calls that await the store, with the token *)
             (* the client presented                                       *)
  queue,     (* clientsMutationQueue: updateClients calls not yet done     *)
  snap,      (* what the head of the queue loaded                          *)
  draining,  (* continuations have begun to run                            *)
  cli,       (* what a `clients` process loaded and is about to save       *)
  owed,      (* `clients` processes that saved and have yet to signal      *)
  signal     (* SIGUSR1 is waiting for the daemon                          *)

memory == <<session, pending, timer>>
tasks == <<checking, queue, snap, draining>>
vars == <<store, issued, approved, daemon, link, memory, tasks, cli, owed,
          signal>>

MaybeToken == Tokens \cup {None}
Request == [op : {"enroll", "expire", "label", "purge"},
            c : Clients \cup {None}, t : MaybeToken]

TypeOK ==
  /\ store \in Snapshot
  /\ approved \subseteq Tokens /\ issued \subseteq Tokens
  /\ daemon \in {"down", "booting", "up"}
  /\ link \in [Clients -> {"away", "here", "gone"}]
  /\ session \in [Clients -> MaybeToken]
  /\ pending \in [Clients -> MaybeToken]
  /\ timer \in [Clients -> MaybeToken]
  /\ checking \in [Clients -> MaybeToken]
  /\ queue \in Seq(Request)
  /\ snap \in Snapshot \cup {None}
  /\ snap # None => queue # <<>>
  /\ draining \in BOOLEAN
  /\ cli \in [Operators -> Order \cup {None}]
  /\ owed \subseteq Operators
  /\ signal \in BOOLEAN

Nobody == [c \in Clients |-> None]
Purge == [op |-> "purge", c |-> None, t |-> None]

Init ==
  /\ store = [t \in Tokens |-> "absent"]
  /\ issued = {} /\ approved = {}
  /\ daemon = "booting"
  /\ link = [c \in Clients |-> "away"]
  /\ session = Nobody /\ pending = Nobody /\ timer = Nobody
  /\ checking = Nobody
  /\ queue = <<Purge>> /\ snap = None /\ draining = TRUE
  /\ cli = [o \in Operators |-> None]
  /\ owed = {}
  /\ signal = FALSE

-----------------------------------------------------------------------------
(* Helpers *)

Holding(f) == {c \in DOMAIN f : f[c] # None}

(* No handler has a continuation left: the event loop may take its next    *)
(* timer, signal or socket.                                                *)
Idle == queue = <<>> /\ Holding(checking) = {}

Fresh(t) == t \notin issued

(* Bound: nothing that may use up an id starts unless one is left for each *)
(* presented token that may yet turn out to need a new one.                *)
IdsLeft == Cardinality(Tokens \ issued) > Cardinality(Holding(checking))

Revokes(r, t) == r.op = "purge" \/ (r.op = "expire" /\ t = r.t)

(* Mutant: an enrolment that does not load the file.                       *)
MutateUnread(r, d) ==
  [t \in Tokens |->
     IF r.op = "enroll" THEN IF t = r.t THEN "pending" ELSE "absent"
     ELSE IF d[t] = "pending" /\ Revokes(r, t) THEN "revoked"
     ELSE d[t]]

(* What each caller of updateClients does to the tokens it was given: an   *)
(* enrolment adds its own, a timeout and the purge revoke what is still    *)
(* pending, and hello's label changes no status, but saves all it loaded.  *)
Mutate(r, d) ==
  [t \in Tokens |->
     IF r.op = "enroll" /\ t = r.t THEN "pending"
     ELSE IF d[t] = "pending" /\ Revokes(r, t) THEN "revoked"
     ELSE d[t]]

Without(f, S) == [c \in DOMAIN f |-> IF c \in S THEN None ELSE f[c]]

(* clearTimeout and pendingClients.delete.                                 *)
Forget(S) == pending' = Without(pending, S) /\ timer' = Without(timer, S)

(* reject_client: the relay tells the client and forgets it.               *)
Rejected(c) == link' = [link EXCEPT ![c] = "gone"]

Enroll(c, t) ==
  /\ Fresh(t)
  /\ issued' = issued \cup {t}
  /\ queue' = Append(queue, [op |-> "enroll", c |-> c, t |-> t])

-----------------------------------------------------------------------------
(* Text frames on the primary *)

PrimaryFrame == daemon = "up" /\ ~draining

ClientRefused(c) ==
  /\ PrimaryFrame
  /\ link[c] = "away"
  /\ \/ Cardinality(Holding(session)) >= MaxClients
     \/ Cardinality(Holding(pending)) >= MaxPending
  /\ Rejected(c)
  /\ UNCHANGED <<store, issued, approved, daemon, memory, tasks, cli, owed,
                 signal>>

(* client_waiting up to its first await.  A client presents no token, one  *)
(* it was given, or one that no store of this daemon knows.                *)
ClientWaiting(c) ==
  /\ PrimaryFrame
  /\ link[c] = "away" /\ IdsLeft
  /\ Cardinality(Holding(session)) < MaxClients
  /\ Cardinality(Holding(pending)) < MaxPending
  /\ link' = [link EXCEPT ![c] = "here"]
  /\ \/ \E t \in approved \cup (Tokens \ issued) :
          checking' = [checking EXCEPT ![c] = t]
        /\ UNCHANGED <<issued, queue>>
     \/ \E t \in Tokens : Enroll(c, t) /\ UNCHANGED checking
  /\ UNCHANGED <<store, approved, daemon, memory, snap, draining, cli, owed,
                 signal>>

(* client_disconnected runs to its end at once: it finds nothing to clean  *)
(* up for a client whose client_waiting is still at its first await.       *)
ClientDisconnected(c) ==
  /\ PrimaryFrame
  /\ link[c] = "here"
  /\ link' = [link EXCEPT ![c] = "gone"]
  /\ Forget({c})
  /\ session' = Without(session, {c})
  /\ UNCHANGED <<store, issued, approved, daemon, tasks, cli, owed, signal>>

-----------------------------------------------------------------------------
(* Continuations *)

StillDraining == draining' = (queue' # <<>> \/ Holding(checking') # {})

(* The token a client presented, looked up: in, rejected, or queued.       *)
CheckToken(c) ==
  /\ checking[c] # None
  /\ LET t == checking[c]
     IN \/ /\ store[t] = "active"
           /\ session' = [session EXCEPT ![c] = t]
           /\ UNCHANGED <<link, issued, queue>>
        \/ /\ store[t] = "revoked"
           /\ Rejected(c)
           /\ UNCHANGED <<session, issued, queue>>
        \/ /\ store[t] \in {"absent", "pending"}
           /\ \E n \in Tokens : Enroll(c, n)
           /\ UNCHANGED <<session, link>>
  /\ checking' = Without(checking, {c})
  /\ StillDraining
  /\ UNCHANGED <<store, approved, daemon, pending, timer, snap, cli, owed,
                 signal>>

(* updateClients, first half: loadClients.                                 *)
UpdateLoad ==
  /\ queue # <<>> /\ snap = None
  /\ snap' = store
  /\ draining' = TRUE
  /\ UNCHANGED <<store, issued, approved, daemon, link, memory, checking,
                 queue, cli, owed, signal>>

(* updateClients, second half: the mutator and saveClients; the caller's   *)
(* continuation follows.  After an enrolment it holds the client and arms  *)
(* its timeout; after the purge the daemon connects its primary.           *)
UpdateSave ==
  /\ snap # None
  /\ LET r == Head(queue)
     IN /\ store' = Mutate(r, snap)
        /\ IF r.op = "enroll"
             THEN /\ pending' = [pending EXCEPT ![r.c] = r.t]
                  /\ timer' = [timer EXCEPT ![r.c] = r.t]
             ELSE UNCHANGED <<pending, timer>>
        /\ daemon' = IF r.op = "purge" THEN "up" ELSE daemon
  /\ queue' = Tail(queue)
  /\ snap' = None
  /\ UNCHANGED checking
  /\ StillDraining
  /\ UNCHANGED <<issued, approved, link, session, cli, owed, signal>>

-----------------------------------------------------------------------------
(* Timers, per-client sockets, the signal *)

NextTask == daemon = "up" /\ Idle

Queued(r) ==
  /\ queue' = Append(queue, r)
  /\ draining' = TRUE
  /\ UNCHANGED <<checking, snap>>

(* The approval timeout: forget, reject, and mark the token revoked.       *)
TimerFires(c) ==
  /\ NextTask
  /\ timer[c] # None
  /\ Forget({c})
  /\ Rejected(c)
  /\ Queued([op |-> "expire", c |-> c, t |-> timer[c]])
  /\ UNCHANGED <<store, issued, approved, daemon, session, cli, owed, signal>>

(* hello: backfill the token's label.                                      *)
Hello(c) ==
  /\ NextTask
  /\ session[c] # None
  /\ Queued([op |-> "label", c |-> c, t |-> session[c]])
  /\ UNCHANGED <<store, issued, approved, daemon, link, memory, cli, owed,
                 signal>>

(* The per-client socket closes or its peer leaves.                        *)
SessionEnds(c) ==
  /\ NextTask
  /\ session[c] # None
  /\ session' = Without(session, {c})
  /\ UNCHANGED <<store, issued, approved, daemon, link, pending, timer, tasks,
                 cli, owed, signal>>

Departed == [c \in Clients |-> IF link[c] = "here" THEN "gone" ELSE link[c]]

(* The primary closes: the relay drops every client, the daemon every      *)
(* session and every pending entry; it connects again in 500 ms.           *)
PrimaryLost ==
  /\ NextTask
  /\ link' = Departed
  /\ session' = Nobody
  /\ Forget(Clients)
  /\ UNCHANGED <<store, issued, approved, daemon, tasks, cli, owed, signal>>

(* Mutants: lets everybody in whose token was not revoked; does not look   *)
(* at the connected clients.                                               *)
AdmittedUnrevoked ==
  {c \in Holding(pending) : store[pending[c]] # "revoked"}
SeveredForgotten == {}

(* SIGUSR1: pending clients whose token became active, and connected       *)
(* clients whose token was revoked.  A pending client whose token was      *)
(* revoked is left to its timeout.                                         *)
Admitted == {c \in Holding(pending) : store[pending[c]] = "active"}
Severed == {c \in Holding(session) : store[session[c]] = "revoked"}

HandleSignal ==
  /\ NextTask
  /\ signal
  /\ signal' = FALSE
  /\ session' = [c \in Clients |-> IF c \in Admitted THEN pending[c]
                                   ELSE IF c \in Severed THEN None
                                   ELSE session[c]]
  /\ Forget(Admitted)
  /\ UNCHANGED <<store, issued, approved, daemon, link, tasks, cli, owed>>

-----------------------------------------------------------------------------
(* The daemon process *)

(* It stops, at whatever point it was: only the file survives.  The relay  *)
(* is part of it, so every client is gone.                                 *)
Crash ==
  /\ daemon # "down"
  /\ daemon' = "down"
  /\ link' = Departed
  /\ session' = Nobody /\ pending' = Nobody /\ timer' = Nobody
  /\ checking' = Nobody
  /\ queue' = <<>> /\ snap' = None /\ draining' = FALSE
  /\ signal' = FALSE
  /\ UNCHANGED <<store, issued, approved, cli, owed>>

Boot ==
  /\ daemon = "down"
  /\ daemon' = "booting"
  /\ Queued(Purge)
  /\ UNCHANGED <<store, issued, approved, link, memory, cli, owed, signal>>

-----------------------------------------------------------------------------
(* `pty-relay clients` and the TUI *)

(* Mutant: `clients approve` takes a token in any status.                  *)
OrderAllowedAny(op, t) ==
  \/ op = "approve" /\ store[t] # "absent"
  \/ op = "revoke" /\ store[t] \in {"pending", "active"}
  \/ op = "invite" /\ Fresh(t)

OrderAllowed(op, t) ==
  \/ op = "approve" /\ store[t] = "pending"
  \/ op = "revoke" /\ store[t] \in {"pending", "active"}
  \/ op = "invite" /\ Fresh(t)

(* Load the file and check the status of the token.                        *)
CliLoad(o, op, t) ==
  /\ cli[o] = None /\ o \notin owed
  /\ OrderAllowed(op, t) /\ (op = "invite" => IdsLeft)
  /\ cli' = [cli EXCEPT ![o] = [op |-> op, t |-> t, snap |-> store]]
  /\ issued' = IF op = "invite" THEN issued \cup {t} ELSE issued
  /\ UNCHANGED <<store, approved, daemon, link, memory, tasks, owed, signal>>

(* The operator answers N, or leaves.                                      *)
CliAbort(o) ==
  /\ cli[o] # None
  /\ cli' = [cli EXCEPT ![o] = None]
  /\ UNCHANGED <<store, issued, approved, daemon, link, memory, tasks, owed,
                 signal>>

(* No other write falls between the load and the save.                     *)
Alone(o) == cli[o].snap = store /\ snap = None

(* Mutant: only a revocation signals the daemon.                           *)
SignalsRevokeOnly(op) == op = "revoke"

(* An invite needs no signal: nobody waits for it.                         *)
Signals(op) == op \in {"approve", "revoke"}

CliSave(o) ==
  /\ cli[o] # None
  /\ Overlap \/ Alone(o)
  /\ LET order == cli[o]
         to == IF order.op = "revoke" THEN "revoked" ELSE "active"
     IN /\ store' = [order.snap EXCEPT ![order.t] = to]
        /\ approved' = IF to = "active" THEN approved \cup {order.t}
                       ELSE approved
        /\ owed' = IF Signals(order.op) THEN owed \cup {o} ELSE owed
  /\ cli' = [cli EXCEPT ![o] = None]
  /\ UNCHANGED <<issued, daemon, link, memory, tasks, signal>>

(* signalDaemon.  A daemon that is down gets nothing.  One that boots has  *)
(* its pid on file but no handler yet: Node takes the signal for itself.   *)
CliSignal(o) ==
  /\ o \in owed
  /\ owed' = owed \ {o}
  /\ signal' = (signal \/ daemon = "up")
  /\ UNCHANGED <<store, issued, approved, daemon, link, memory, tasks, cli>>

-----------------------------------------------------------------------------
Continuation == UpdateLoad \/ UpdateSave \/ \E c \in Clients : CheckToken(c)

DaemonEvent ==
  \/ \E c \in Clients :
       \/ ClientRefused(c) \/ ClientWaiting(c) \/ ClientDisconnected(c)
       \/ TimerFires(c) \/ Hello(c) \/ SessionEnds(c)
  \/ PrimaryLost \/ HandleSignal

Command ==
  \E o \in Operators :
    \/ \E op \in {"approve", "revoke", "invite"}, t \in Tokens :
         CliLoad(o, op, t)
    \/ CliAbort(o) \/ CliSave(o) \/ CliSignal(o)

Next == Continuation \/ DaemonEvent \/ Crash \/ Boot \/ Command

Spec == Init /\ [][Next]_vars

(* Continuations run before anything else does, signalDaemon follows the   *)
(* save, and the event loop takes a pending signal however busy it is      *)
(* (strong: other tasks keep interrupting its being idle).  Timeouts,      *)
(* operators and clients are under no obligation.                          *)
Fairness ==
  /\ WF_vars(Continuation)
  /\ SF_vars(HandleSignal)
  /\ \A o \in Operators : WF_vars(CliSignal(o))

FairSpec == Spec /\ Fairness

-----------------------------------------------------------------------------
(* Properties *)

(* Nobody gets a session whose token no operator approved or invited,      *)
(* whatever the daemon, the command and the TUI overwrite of each other's  *)
(* writes (onClientWaiting, approveClient, the SIGUSR1 handler).           *)
OnlyApprovedEnter ==
  \A c \in Clients : session[c] # None => session[c] \in approved

(* A client that waits can be seen: its token is in the file the operator  *)
(* lists, as long as no write comes between load and save (updateClients). *)
EveryPendingIsListed ==
  \A c \in Clients : pending[c] # None => store[pending[c]] # "absent"

(* A revoked token stays revoked (clientsRevoke, updateClients).           *)
RevocationIsFinal ==
  [][\A t \in Tokens : store[t] = "revoked" => store'[t] = "revoked"]_vars

(* A client whose token is revoked while it is connected is disconnected,  *)
(* also when it connects or is approved while the command runs.            *)
RevokedIsDisconnected ==
  \A c \in Clients, t \in Tokens :
    session[c] = t /\ store[t] = "revoked" ~> session[c] # t

(* A waiting client whose token is approved does not stay waiting: the     *)
(* signal always finds the pending entry the operator saw in the file.     *)
ApprovedIsLetIn ==
  \A c \in Clients, t \in Tokens :
    pending[c] = t /\ store[t] = "active" ~>
      pending[c] # t \/ store[t] = "revoked"

=============================================================================
