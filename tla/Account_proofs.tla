--------------------------- MODULE Account_proofs ---------------------------
(***************************************************************************)
(* Theorems about Account, for any keys and any number of mishaps: its     *)
(* types; that the record never names a role without a key the relay       *)
(* accepts, whatever is refused, lost, killed, lapses or is revoked in     *)
(* between; and that known hosts follow the daemon's key.                  *)
(***************************************************************************)
EXTENDS Account, TLAPS

(* The relay accepts the key unless somebody had it revoked.               *)
Live(k) == status[k] = "active" \/ k \in byHand

(* What the command under way may count on.                                *)
RunSound ==
  run # None =>
    /\ run.op \in Enrolments \cup {"start", "complete"} => run.key \in KeysOf(run.role)
    /\ run.op \in Enrolments \cup {"start"} =>
         /\ run.stage = "posted" => status[run.key] = "unknown"
         /\ run.stage = "applied" => Live(run.key)
    /\ run.op = "start" =>
         /\ run.stage \in {"posted", "applied"}
         /\ account[run.role] # None /\ run.signer = account[run.role].key
         /\ run.key # run.signer
    /\ run.op = "complete" =>
         IF run.stage \in {"posted", "applied"}
           THEN account[run.role] # None /\ run.key = account[run.role].pending
           ELSE run.role = "daemon"

(* What the record may count on: a key is told from its successor, the     *)
(* successor of a rotation is live, and a key that was deprecated has one, *)
(* will get one from the command under way, or its rotation was lost.      *)
OwnSound ==
  \A role \in Roles : account[role] # None =>
    /\ Own(role) \subseteq Known
    /\ account[role].key # account[role].pending
    /\ account[role].pending # None => Live(account[role].pending)
    /\ status[account[role].key] = "deprecated" =>
         \/ account[role].pending # None
         \/ account[role].key \in orphaned \cup byHand
         \/ /\ run # None /\ run.op = "start" /\ run.stage = "applied"
            /\ run.signer = account[role].key

IInv == TypeOK /\ RunSound /\ OwnSound /\ HoldsLiveKey

-----------------------------------------------------------------------------
LEMMA AccountInit == Init => IInv
<1> SUFFICES ASSUME Init PROVE IInv
  OBVIOUS
<1>1. \A role \in Roles : account[role] = None /\ Own(role) = {}
  BY DEF Init, Own
<1>2. TypeOK
  <2>1. account \in [Roles -> Identity \cup {None}]
    BY DEF Init
  <2>2. status \in [Keys -> {"unknown", "active", "deprecated", "revoked"}]
    BY DEF Init
  <2>3. mishaps \in 0..MaxMishaps
    BY MishapsAssumption DEF Init
  <2>4. QED
    BY <1>1, <2>1, <2>2, <2>3 DEF Init, TypeOK
<1>3. RunSound /\ OwnSound /\ HoldsLiveKey
  BY <1>1 DEF Init, RunSound, OwnSound, HoldsLiveKey
<1>4. QED
  BY <1>2, <1>3 DEF IInv

(* Beginning a command changes nothing but the command.                    *)
LEMMA BeginKeepsIInv == IInv /\ Begin => IInv'
<1> USE AccountNone, RolesApart DEF IInv, Post, store, relay, process, history
<1>1. ASSUME IInv, NEW k \in Keys, SigninDaemon(k) \/ SigninClient(k) \/ Join(k)
      PROVE  IInv'
  BY <1>1 DEF SigninDaemon, SigninClient, Join, Enrol, SigninAllowed, Roles,
     TypeOK, RunSound, OwnSound, HoldsLiveKey, Own, Known,
     Accepted, Live, Command, Ops, Enrolments
<1>2. ASSUME IInv, NEW role \in Roles, NEW k \in Keys, NEW age \in Age,
             RotateStart(role, k, age)
      PROVE  IInv'
  BY <1>2 DEF RotateStart, TypeOK, RunSound, OwnSound, HoldsLiveKey, Own, Known,
     Accepted, Live, Command, Ops, Enrolments, Identity
<1>3. ASSUME IInv, NEW role \in Roles, NEW age \in Age, RotateComplete(role, age)
      PROVE  IInv'
  BY <1>3 DEF RotateComplete, TypeOK, RunSound, OwnSound, HoldsLiveKey, Own, Known,
     Accepted, Live, Command, Ops, Enrolments, Identity
<1>4. ASSUME IInv, NEW k \in Keys, Revoke(k)
      PROVE  IInv'
  BY <1>4 DEF Revoke, TypeOK, RunSound, OwnSound, HoldsLiveKey, Own, Known,
     Accepted, Live, Command, Ops,
     Enrolments, Identity, Roles
<1>5. ASSUME IInv, DeleteAccount \/ MergeHosts
      PROVE  IInv'
  BY <1>5 DEF DeleteAccount, MergeHosts, ManagementKey, Enrolled, TypeOK, RunSound,
     OwnSound, HoldsLiveKey, Own, Known, Accepted, Live, Command, Ops,
     Enrolments, Identity, Roles
<1>6. QED
  BY <1>1, <1>2, <1>3, <1>4, <1>5 DEF Begin

(* The keys of one role are never those of the other, nor a new key one of *)
(* the record's.                                                           *)
LEMMA OwnApart ==
  ASSUME IInv
  PROVE  /\ \A r, s \in Roles : r # s => Own(r) \cap Own(s) = {}
         /\ \A r \in Roles : account[r] # None =>
              /\ account[r].key \in Own(r) /\ account[r].key \in Keys
              /\ account[r].pending # None =>
                   account[r].pending \in Own(r) /\ account[r].pending \in Keys
         /\ \A r \in Roles : \A k \in Own(r) : status[k] # "unknown"
<1> USE DEF IInv
<1>1. \A r \in Roles : Own(r) \subseteq KeysOf(r)
  BY DEF TypeOK
<1>2. \A r \in Roles : account[r] # None => account[r] \in Identity
  BY DEF TypeOK
<1>3. \A r, s \in Roles : r # s => KeysOf(r) \cap KeysOf(s) = {}
  BY RolesApart DEF KeysOf, Roles
<1>4. QED
  BY <1>1, <1>2, <1>3, AccountNone DEF OwnSound, Own, Known, Identity

(* What the relay does on its own account or on request.                   *)
LEMMA RelayKeepsIInv == IInv /\ Relay => IInv'
<1> USE AccountNone, RolesApart DEF IInv, Enrolments, store, relay, process, history
<1>1. ASSUME IInv, NEW k \in Keys, Lapses(k)
      PROVE  IInv'
  <2>1. TypeOK'
    BY <1>1 DEF Lapses, TypeOK, Own, Known
  <2>2. RunSound' /\ OwnSound'
    BY <1>1 DEF Lapses, TypeOK, RunSound, OwnSound, Own, Known, Live
  <2>3. HoldsLiveKey'
    BY <1>1 DEF Lapses, TypeOK, RunSound, OwnSound, HoldsLiveKey, Own, Known,
       Accepted, Live, Identity, KeysOf, Roles
  <2>4. QED
    BY <2>1, <2>2, <2>3
<1>2. ASSUME IInv, NEW ks, ks \subseteq Keys, RevokesByHand(ks),
             UNCHANGED <<store, process, orphaned, untidy>>,
             mishaps' \in 0..MaxMishaps,
             \/ run' = run /\ ks \subseteq Known
             \/ (run \in Command /\ run.op \in {"revoke", "delete"}
                            /\ run' = [run EXCEPT !.stage = "applied"])
      PROVE  IInv'
  <2>1. TypeOK'
    BY <1>2 DEF RevokesByHand, TypeOK, Own, Known, Command
  <2>5. \A role \in Roles : Own(role)' = Own(role) /\ Own(role) \subseteq Keys
    BY <1>2 DEF Own, TypeOK, KeysOf, Keys
  <2>2. RunSound'
    BY <1>2 DEF RevokesByHand, TypeOK, RunSound, Known, Live, Command
  <2>3. OwnSound'
    BY <1>2, <2>5 DEF RevokesByHand, TypeOK, OwnSound, Known, Live, Command, Identity
  <2>4. HoldsLiveKey'
    BY <1>2, <2>5 DEF RevokesByHand, HoldsLiveKey, Accepted, Keys
  <2>6. QED
    BY <2>1, <2>2, <2>3, <2>4
<1>3. ASSUME IInv, ServerReset \/ \E k \in Keys : RevokedElsewhere(k)
      PROVE  IInv'
  <2>1. mishaps' \in 0..MaxMishaps
    <3>1. mishaps \in 0..MaxMishaps
      BY <1>3 DEF TypeOK
    <3>2. Mishap
      BY <1>3 DEF ServerReset, RevokedElsewhere
    <3>3. QED
      BY <3>1, <3>2, MishapsAssumption DEF Mishap
  <2>2. PICK ks \in SUBSET Keys : ks \subseteq Known /\ RevokesByHand(ks)
    BY <1>3 DEF ServerReset, RevokedElsewhere, Known
  <2>3. run' = run /\ UNCHANGED <<store, process, orphaned, untidy>>
    BY <1>3 DEF ServerReset, RevokedElsewhere
  <2>4. QED
    BY <1>2, <1>3, <2>1, <2>2, <2>3
<1>4. ASSUME IInv, RelayApplies
      PROVE  IInv'
  <2>1. run \in Command /\ run.stage = "posted"
    BY <1>4 DEF RelayApplies, TypeOK
  <2>2. CASE run.op \in {"revoke", "delete"}
    <3>1. PICK ks \in SUBSET Keys : RevokesByHand(ks)
      BY <1>4, <2>1, <2>2 DEF RelayApplies, Command, Known
    <3>2. /\ run' = [run EXCEPT !.stage = "applied"]
          /\ UNCHANGED <<store, process, history>>
      BY <1>4 DEF RelayApplies
    <3>3. mishaps' \in 0..MaxMishaps
      BY <1>4, <3>2 DEF TypeOK
    <3>4. QED
      BY <1>2, <1>4, <2>1, <2>2, <3>1, <3>2, <3>3
  <2>3. CASE run.op = "merge"
    BY <1>4, <2>1, <2>3 DEF RelayApplies, TypeOK, RunSound, OwnSound,
       HoldsLiveKey, Own, Known, Accepted, Live, Command
  <2>4. CASE run.op \in Enrolments
    <3>1. /\ status' = [status EXCEPT ![run.key] = "active"] /\ run.key \in Keys
          /\ run' = [run EXCEPT !.stage = "applied"]
          /\ UNCHANGED <<store, byHand, process, history>>
          /\ status[run.key] = "unknown"
      BY <1>4, <2>1, <2>4 DEF RelayApplies, Registers, RunSound, Command
    <3>2. \A r \in Roles : \A k \in Own(r) : status'[k] = status[k]
      BY <1>4, <3>1, OwnApart DEF TypeOK
    <3>3. \A r \in Roles : Own(r)' = Own(r)
      BY <3>1 DEF Own
    <3>4. Known \subseteq Known'
      BY <1>4, <3>1 DEF Known, TypeOK
    <3>5. TypeOK' /\ RunSound'
      BY <1>4, <2>1, <2>4, <3>1, <3>3, <3>4 DEF TypeOK, RunSound, Live, Command
    <3>6. OwnSound' /\ HoldsLiveKey'
      BY <1>4, <2>1, <2>4, <3>1, <3>2, <3>3, <3>4, OwnApart
         DEF OwnSound, HoldsLiveKey, Live, Accepted
    <3>7. QED
      BY <3>5, <3>6
  <2>5. CASE run.op = "start"
    <3> USE <1>4, <2>1, <2>5 DEF RelayApplies, Deprecates, Live
    <3> USE OwnApart
    <3>1. TypeOK'
      BY DEF TypeOK, RunSound, Own, Known, Accepted, Command, Identity
    <3>2. RunSound'
      BY DEF TypeOK, RunSound, Own, Known, Accepted, Command, Identity
    <3>3. OwnSound'
      <4>1. run.role \in Roles /\ account[run.role] # None /\ run.signer = account[run.role].key
        BY DEF RunSound, Command
      <4>2. \A r \in Roles : Own(r)' = Own(r) /\ account'[r] = account[r]
        BY DEF Own
      <4>3. \A r \in Roles : account[r] # None => Own(r) \subseteq Known'
        BY DEF OwnSound, Known, TypeOK
      <4>4. \A r \in Roles : account[r] # None /\ account[r].pending # None =>
              status'[account[r].pending] = status[account[r].pending]
        BY <4>1 DEF OwnSound, RunSound, TypeOK
      <4>6. \A r \in Roles : account[r] # None /\ r # run.role =>
              status'[account[r].key] = status[account[r].key]
        <5> SUFFICES ASSUME NEW r \in Roles, account[r] # None, r # run.role
                     PROVE  status'[account[r].key] = status[account[r].key]
          OBVIOUS
        <5>1. /\ status' = [status EXCEPT ![run.signer] = "deprecated",
                                         ![run.key] = "active"]
              /\ status[run.key] = "unknown"
          BY DEF RunSound
        <5>2. account[r].key # run.signer
          BY <4>1
        <5>3. account[r].key # run.key
          BY <5>1
        <5>4. QED
          BY <5>1, <5>2, <5>3 DEF TypeOK
      <4>7. run' = [run EXCEPT !.stage = "applied"] /\ UNCHANGED <<byHand, orphaned>>
        OBVIOUS
      <4>8. \A r \in Roles : account[r] # None =>
              (status[account[r].key] = "deprecated" =>
                 \/ account[r].pending # None \/ account[r].key \in orphaned \cup byHand
                 \/ run.signer = account[r].key)
        BY DEF OwnSound
      <4>9. \A r \in Roles : account[r] # None =>
              (status'[account[r].key] = "deprecated" =>
                 \/ account[r].pending # None \/ account[r].key \in orphaned' \cup byHand'
                 \/ /\ run' # None /\ run'.op = "start" /\ run'.stage = "applied"
                    /\ run'.signer = account[r].key)
        BY <4>1, <4>6, <4>7, <4>8, AccountNone DEF Command
      <4>10. \A r \in Roles : account[r] # None =>
              /\ account[r].key # account[r].pending
              /\ account[r].pending # None =>
                   status'[account[r].pending] = "active" \/ account[r].pending \in byHand'
        BY <4>4, <4>7 DEF OwnSound
      <4>5. QED
        BY <4>2, <4>3, <4>9, <4>10 DEF OwnSound
    <3>4. HoldsLiveKey'
      BY DEF TypeOK, RunSound, OwnSound, HoldsLiveKey, Own, Known, Accepted,
         Command, Identity
    <3>5. QED
      BY <3>1, <3>2, <3>3, <3>4
  <2>6. CASE run.op = "complete"
    <3> USE <1>4, <2>1, <2>6 DEF RelayApplies, Replaces, Live
    <3> USE OwnApart
    <3>1. TypeOK'
      BY DEF TypeOK, RunSound, Own, Known, Accepted, Command, Identity
    <3>2. RunSound'
      BY DEF TypeOK, RunSound, Own, Known, Accepted, Command, Identity
    <3>3. OwnSound'
      <4>1. run.role \in Roles /\ account[run.role] # None /\ run.key = account[run.role].pending
        BY DEF RunSound, Command
      <4>2. \A r \in Roles : Own(r)' = Own(r) /\ account'[r] = account[r]
        BY DEF Own
      <4>3. \A r \in Roles : account[r] # None => Own(r) \subseteq Known'
        BY DEF OwnSound, Known, TypeOK
      <4>4. \A r \in Roles : account[r] # None /\ account[r].pending # None =>
              status'[account[r].pending] = status[account[r].pending]
        BY <4>1 DEF OwnSound, RunSound, TypeOK
      <4>5. QED
        BY <4>1, <4>2, <4>3, <4>4 DEF OwnSound, TypeOK, Command
    <3>4. HoldsLiveKey'
      <4>1. run.role \in Roles /\ account[run.role] # None
            /\ run.key = account[run.role].pending /\ run.key \in Keys
            /\ run.key # account[run.role].key
        BY DEF RunSound, OwnSound, Command
      <4>2. \A r \in Roles : Own(r)' = Own(r) /\ account'[r] = account[r]
        BY DEF Own
      <4>3. run.key \in Own(run.role) /\ Accepted(run.key)'
        BY <4>1, AccountNone DEF Accepted, TypeOK
      <4>6. status' = [status EXCEPT ![account[run.role].key] = "revoked"]
        OBVIOUS
      <4>7. account[run.role].key \in Own(run.role)
        BY <4>1
      <4>4. \A r \in Roles : \A k \in Own(r) : r # run.role => status'[k] = status[k]
        <5> SUFFICES ASSUME NEW r \in Roles, NEW k \in Own(r), r # run.role
                     PROVE  status'[k] = status[k]
          OBVIOUS
        <5>1. k # account[run.role].key
          BY <4>1, <4>7
        <5>2. QED
          BY <4>6, <5>1 DEF TypeOK
      <4>5. QED
        BY <4>1, <4>2, <4>3, <4>4 DEF HoldsLiveKey, Accepted
    <3>5. QED
      BY <3>1, <3>2, <3>3, <3>4
  <2>7. QED
    BY <2>1, <2>2, <2>3, <2>4, <2>5, <2>6 DEF Command, Ops, Enrolments
<1>5. QED
  BY <1>1, <1>3, <1>4 DEF Relay
(* A command that only writes known hosts, or ends, leaves the record and  *)
(* the relay alone.                                                        *)
LEMMA HostStepKeepsIInv ==
  ASSUME IInv, UNCHANGED <<account, relay, process, orphaned>>,
         hosts' \subseteq DaemonKeys, named' \in hosts' \cup {None},
         untidy' \in BOOLEAN, mishaps' \in 0..MaxMishaps,
         \/ run' = None /\ ~(run # None /\ run.op = "start")
         \/ run' = [run EXCEPT !.stage = "removed"] /\ AtStage("saved", {"complete"})
  PROVE  IInv'
<1> USE DEF IInv, relay, process, AtStage, Enrolments
<1>1. TypeOK'
  BY AccountNone DEF TypeOK, Own, Known, Command
<1>2. RunSound'
  BY DEF RunSound, TypeOK, Command, Live
<1>3. OwnSound' /\ HoldsLiveKey'
  BY DEF OwnSound, HoldsLiveKey, Own, Known, Live, Accepted, TypeOK, Command
<1>4. QED
  BY <1>1, <1>2, <1>3

(* Saving the record: the role gets a live key, or keeps its own with a    *)
(* live successor.                                                         *)
LEMMA SaveKeepsIInv == IInv /\ SaveAccount => IInv'
<1> SUFFICES ASSUME IInv, SaveAccount PROVE IInv'
  OBVIOUS
<1> USE DEF IInv, AtStage, Enrolments, TouchesHosts, store, relay, process, history
<1> DEFINE id == Saved(run.role)
<1>1. /\ run \in Command /\ run # None /\ run.stage = "applied"
      /\ run.op \in Enrolments \cup {"start", "complete"}
      /\ run.role \in Roles /\ run.key \in KeysOf(run.role) /\ run.key \in Keys
  BY DEF SaveAccount, TypeOK, RunSound, Command
<1>2. account' = [account EXCEPT ![run.role] = id]
  BY DEF SaveAccount, WithRoleKey
<1>3. Live(run.key) /\ run.key \in Known
  BY <1>1, AccountNone DEF RunSound, OwnSound, TypeOK, Live, Known
<1>4. \/ id = [key |-> run.key, pending |-> None]
      \/ /\ run.op = "start" /\ account[run.role] # None
         /\ account[run.role] \in Identity
         /\ id = [key |-> account[run.role].key, pending |-> run.key]
         /\ status[account[run.role].key] # "unknown"
         /\ account[run.role].key \in Keys /\ account[run.role].key \in KeysOf(run.role)
         /\ account[run.role].key # run.key
  <2>1. CASE run.op = "start"
    <3>1. account[run.role] \in Identity /\ account[run.role] # None
      BY <1>1, <2>1 DEF RunSound, TypeOK
    <3>2. id = [key |-> account[run.role].key, pending |-> run.key]
      BY <2>1, <3>1 DEF Saved, Identity
    <3>3. QED
      BY <1>1, <2>1, <3>1, <3>2, OwnApart DEF RunSound, TypeOK
  <2>2. QED
    BY <1>1, <2>1 DEF Saved
<1>5. /\ id \in Identity /\ id # None /\ id.key # id.pending
      /\ {id.key, id.pending} \ {None} \subseteq KeysOf(run.role) \cap Known
      /\ id.pending # None => Live(id.pending)
      /\ Accepted(id.key) \/ id.key \in byHand \/ id.pending # None
      /\ status[id.key] = "deprecated" => id.pending # None \/ Live(id.key)
  BY <1>1, <1>3, <1>4, AccountNone DEF Identity, Accepted, Live, Known
<1>6. \A r \in Roles :
        /\ account'[r] = IF r = run.role THEN id ELSE account[r]
        /\ Own(r)' = IF r = run.role THEN {id.key, id.pending} \ {None} ELSE Own(r)
  BY <1>1, <1>2, <1>5 DEF TypeOK, Own
<1>7. run' \in Command \cup {None} /\ UNCHANGED <<relay, orphaned>>
  BY <1>1 DEF SaveAccount, Command
<1>8. TypeOK'
  BY <1>1, <1>2, <1>5, <1>6, <1>7 DEF SaveAccount, TypeOK, Known
<1>9. RunSound'
  BY <1>1, AccountNone DEF SaveAccount, RunSound, Command
<1>10. OwnSound'
  <2> SUFFICES ASSUME NEW r \in Roles, account'[r] # None
               PROVE  /\ Own(r)' \subseteq Known'
                      /\ account'[r].key # account'[r].pending
                      /\ (account[r].pending # None => Live(account[r].pending))'
                      /\ status'[account'[r].key] = "deprecated" =>
                           \/ account'[r].pending # None
                           \/ account'[r].key \in orphaned' \cup byHand'
    BY DEF OwnSound
  <2>1. CASE r = run.role
    BY <1>1, <1>5, <1>6, <1>7, <2>1 DEF Known, Live
  <2>2. CASE r # run.role
    <3>1. account'[r] = account[r] /\ Own(r)' = Own(r)
      BY <1>6, <2>2
    <3>2. run.op = "start" => run.signer # account[r].key
      BY <1>1, <2>2, <3>1, OwnApart DEF RunSound
    <3>3. QED
      BY <1>7, <3>1, <3>2 DEF OwnSound, Known, Live
  <2>3. QED
    BY <2>1, <2>2
<1>11. HoldsLiveKey'
  BY <1>1, <1>5, <1>6, <1>7, AccountNone DEF HoldsLiveKey, Accepted, Live
<1>12. QED
  BY <1>8, <1>9, <1>10, <1>11

(* So does every other step of a command.                                  *)
LEMMA ContinueKeepsIInv == IInv /\ Continue => IInv'
<1> SUFFICES ASSUME IInv, Continue PROVE IInv'
  OBVIOUS
<1> USE DEF AtStage, Enrolments, store, relay, process, history
<1>0. /\ hosts \subseteq DaemonKeys /\ named \in hosts \cup {None}
      /\ untidy \in BOOLEAN /\ mishaps \in 0..MaxMishaps
  BY DEF IInv, TypeOK
<1>1. CASE SaveAccount
  BY <1>1, SaveKeepsIInv
<1>2. CASE RemoveNamed
  BY <1>0, <1>2, HostStepKeepsIInv DEF RemoveNamed, Drop
<1>3. CASE SaveHost
  <2>1. run.key \in DaemonKeys
    BY <1>3 DEF SaveHost, IInv, RunSound, KeysOf
  <2>2. hosts' \subseteq DaemonKeys /\ named' \in hosts' \cup {None}
    BY <1>0, <1>3, <2>1 DEF SaveHost
  <2>3. QED
    BY <1>0, <1>3, <2>2, HostStepKeepsIInv DEF SaveHost
<1>4. CASE Merge
  <2>1. hosts' \subseteq DaemonKeys /\ named' \in hosts' \cup {None}
    BY <1>4 DEF Merge, Merged
  <2>2. QED
    BY <1>0, <1>4, <2>1, HostStepKeepsIInv DEF Merge
<1>5. CASE DropRevoked
  BY <1>0, <1>5, HostStepKeepsIInv DEF DropRevoked, Drop
<1>6. CASE ClearAccount
  <2>1. run \in Command /\ run' = [run EXCEPT !.stage = "saved"] /\ run.op = "delete"
    BY <1>6 DEF ClearAccount, IInv, TypeOK
  <2>2. \A r \in Roles : account'[r] = None /\ Own(r)' = {}
    BY <1>6 DEF ClearAccount, Own
  <2>3. account' \in [Roles -> Identity \cup {None}]
    BY <1>6 DEF ClearAccount
  <2>4. QED
    BY <1>6, <2>1, <2>2, <2>3 DEF ClearAccount, IInv, TypeOK, RunSound,
       OwnSound, HoldsLiveKey, Known, Command
<1>7. CASE ClearHosts
  BY <1>0, <1>7, HostStepKeepsIInv DEF ClearHosts, Drop
<1>8. CASE NoMerge
  BY <1>0, <1>8, HostStepKeepsIInv DEF NoMerge
<1>9. CASE Refused \/ CutShort
  <2>1. /\ run # None /\ run' = None /\ UNCHANGED <<store, relay, process>>
        /\ orphaned \subseteq orphaned'
        /\ orphaned' \subseteq Keys
        /\ untidy' \in BOOLEAN /\ mishaps' \in 0..MaxMishaps
    <3>1. run \in Command /\ orphaned \subseteq Keys /\ run.signer \in Keys
      BY <1>9 DEF Refused, CutShort, IInv, TypeOK, Command
    <3>2. CASE Refused
      BY <1>0, <3>1, <3>2 DEF Refused
    <3>3. CASE CutShort
      <4>1. mishaps' \in 0..MaxMishaps
        BY <1>0, <3>3, MishapsAssumption DEF CutShort, Mishap
      <4>2. QED
        BY <3>1, <3>3, <4>1 DEF CutShort
    <3>4. QED
      BY <1>9, <3>2, <3>3
  <2>2. run.op = "start" /\ run.stage # "posted" => run.signer \in orphaned'
    BY <1>9 DEF Refused, CutShort
  <2>3. TypeOK' /\ RunSound'
    BY <2>1 DEF IInv, TypeOK, RunSound, Own, Known
  <2>4. OwnSound'
    BY <2>1, <2>2 DEF IInv, OwnSound, RunSound, Own, Known, Live
  <2>5. HoldsLiveKey'
    BY <2>1 DEF IInv, HoldsLiveKey, Own, Accepted
  <2>6. QED
    BY <2>3, <2>4, <2>5 DEF IInv
<1>10. QED
  BY <1>1, <1>2, <1>3, <1>4, <1>5, <1>6, <1>7, <1>8, <1>9 DEF Continue

LEMMA ResetKeepsIInv == IInv /\ LocalReset => IInv'
<1> SUFFICES ASSUME IInv, LocalReset PROVE IInv'
  OBVIOUS
<1> USE DEF LocalReset, relay, process
<1>1. \A r \in Roles : account'[r] = None /\ Own(r)' = {}
  BY DEF Own
<1>2. account' \in [Roles -> Identity \cup {None}] /\ mishaps' \in 0..MaxMishaps
  BY MishapsAssumption DEF Mishap, IInv, TypeOK
<1>3. QED
  BY <1>1, <1>2 DEF IInv, TypeOK, RunSound, OwnSound, HoldsLiveKey, Known

(* The daemon only ever reads the record.                                  *)
LEMMA DaemonKeepsIInv == IInv /\ DaemonSteps => IInv'
<1> SUFFICES ASSUME IInv, DaemonSteps PROVE IInv'
  OBVIOUS
<1>1. UNCHANGED <<store, relay, run, history>>
  BY DEF DaemonSteps, DaemonStarts, DialAccepted, DialRejected, PrimaryBreaks,
     Redial, RevokedFrame, DaemonStops
<1>2. account["daemon"] # None => account["daemon"].key \in DaemonKeys
                                 /\ account["daemon"].key # None
  BY AccountNone DEF IInv, TypeOK, Own, KeysOf, Roles, Identity
<1>3. /\ daemon' \in {"off", "dialling", "up", "waiting", "exited"}
      /\ signs' \in DaemonKeys \cup {None}
      /\ signs' = None <=> daemon' \in {"off", "exited"}
  BY <1>2 DEF DaemonSteps, DaemonStarts, DialAccepted, DialRejected, PrimaryBreaks,
     Redial, Reloaded, RevokedFrame, DaemonStops, IInv, TypeOK
<1>4. QED
  BY <1>1, <1>3 DEF store, relay, history, IInv, TypeOK, RunSound, OwnSound,
     HoldsLiveKey, Own, Known, Accepted, Live

THEOREM AccountInvariance == Spec => []IInv
<1>1. IInv /\ UNCHANGED vars => IInv'
  BY DEF vars, store, relay, process, history, IInv, TypeOK, RunSound, OwnSound,
     HoldsLiveKey, Own, Known, Accepted, Live
<1>2. IInv /\ [Next]_vars => IInv'
  BY <1>1, BeginKeepsIInv, ContinueKeepsIInv, RelayKeepsIInv, ResetKeepsIInv,
     DaemonKeepsIInv DEF Next
<1>3. QED
  BY AccountInit, <1>2, PTL DEF Spec

(* The variables keep their types; in particular each role only ever holds *)
(* keys generated for it.                                                  *)
THEOREM AccountTyped == Spec => []TypeOK
<1>1. IInv => TypeOK
  BY DEF IInv
<1>2. QED
  BY AccountInvariance, <1>1, PTL

(* No sequence of commands, refusals, losses, crashes, lapses and          *)
(* revocations leaves a role with keys that are all dead, other than by    *)
(* hand or by losing the answer to `rotate`.                               *)
THEOREM AlwaysHoldsLiveKey == Spec => []HoldsLiveKey
<1>1. IInv => HoldsLiveKey
  BY DEF IInv
<1>2. QED
  BY AccountInvariance, <1>1, PTL

(***************************************************************************)
(* Known hosts                                                             *)
(***************************************************************************)

(* The command under way has saved a daemon key and still owes its row.    *)
Settling ==
  /\ run # None /\ run.role = "daemon" /\ run.op \in {"signin", "complete"}
  /\ run.stage \in {"saved", "removed"}

(* What a command that will write known hosts may count on.                *)
RunHosts ==
  run # None =>
    /\ run.op = "join" => run.role = "client"
    /\ run.op \in Enrolments /\ run.stage \in {"posted", "applied"} =>
         account[run.role] = None
    /\ run.op = "signin" => run.stage # "removed"
    /\ run.op = "complete" /\ run.stage = "applied" =>
         status[account[run.role].key] = "revoked"
    /\ run.op = "revoke" /\ run.stage = "applied" => status[run.key] = "revoked"
    /\ run.op = "delete" /\ run.stage = "applied" =>
         \A k \in Known : status[k] = "revoked" /\ k \in byHand
    /\ run.op = "delete" /\ run.stage = "saved" => account["daemon"] = None
    /\ Settling => account["daemon"] # None /\ account["daemon"].key = run.key

(* Without a daemon role there is no accepted daemon key but one that is   *)
(* being enrolled, and no row has the label.                               *)
Unenrolled ==
  account["daemon"] = None =>
    /\ \A k \in DaemonKeys : Accepted(k) =>
         run # None /\ run.op = "signin" /\ run.stage = "applied" /\ run.key = k
    /\ ~(run # None /\ run.op = "delete" /\ run.stage = "saved") => named = None

(* The row with the label is the daemon key's, unless the relay or a       *)
(* command has taken it; a new row finds the label free.                   *)
Labelled ==
  IF Settling THEN run.op = "signin" \/ run.stage = "removed" => named = None
  ELSE account["daemon"] # None =>
         /\ Accepted(account["daemon"].key) => named = account["daemon"].key
         /\ account["daemon"].key \in hosts =>
              named = account["daemon"].key \/ account["daemon"].key \in byHand

(* A daemon key that the relay let go of in favour of another is the key   *)
(* of the record, or has lost its row, or is about to.                     *)
Superseded ==
  /\ \A k \in DaemonKeys : status[k] = "deprecated" =>
       account["daemon"] # None /\ account["daemon"].key = k
  /\ \A k \in hosts : status[k] = "revoked" =>
       \/ k \in byHand \cup Own("daemon")
       \/ /\ run # None /\ run.op = "complete" /\ run.role = "daemon"
          /\ run.stage = "saved" /\ named = k

HostsInv == RunHosts /\ (~untidy => Unenrolled /\ Labelled /\ Superseded)

LEMMA HostsInit == Init => HostsInv
BY DEF Init, HostsInv, RunHosts, Unenrolled, Labelled, Superseded, Settling, Accepted,
   Roles, Keys

(* A command that has just begun has done nothing yet.                     *)
LEMMA BeginKeepsHosts == IInv /\ HostsInv /\ Begin => HostsInv'
<1> SUFFICES ASSUME IInv, HostsInv, Begin PROVE HostsInv'
  OBVIOUS
<1>1. /\ run = None /\ run'.stage = "posted"
      /\ run'.op = "join" => run'.role = "client"
      /\ run'.op \in Enrolments => account[run'.role] = None
      /\ UNCHANGED <<store, relay, process, history>>
  BY DEF Begin, SigninDaemon, SigninClient, Join, Enrol, SigninAllowed, RotateStart,
         RotateComplete, Revoke, DeleteAccount, MergeHosts, Post, Enrolments
<1>2. RunHosts' /\ ~Settling' /\ ~Settling
  BY <1>1 DEF RunHosts, Settling, store
<1>3. ASSUME ~untidy' PROVE Unenrolled' /\ Labelled' /\ Superseded'
  <2>1. Unenrolled /\ Labelled /\ Superseded
    BY <1>1, <1>3 DEF HostsInv, history
  <2>2. Unenrolled'
    BY <1>1, <2>1 DEF Unenrolled, Accepted, store, relay
  <2>3. Labelled'
    BY <1>1, <1>2, <2>1 DEF Labelled, Accepted, store, relay
  <2>4. Superseded'
    BY <1>1, <2>1 DEF Superseded, Own, store, relay
  <2>5. QED
    BY <2>2, <2>3, <2>4
<1>4. QED
  BY <1>2, <1>3 DEF HostsInv
(* The relay's side of a step: nothing is accepted again, but for the key  *)
(* of the request; what is deprecated or revoked otherwise than by hand is *)
(* the record's own daemon key.                                            *)
LEMMA StatusStepKeepsHosts ==
  ASSUME IInv, HostsInv, UNCHANGED <<store, untidy>>, RunHosts',
         byHand \subseteq byHand',
         \/ run' = run
         \/ /\ run # None /\ run.stage = "posted" /\ run'.stage = "applied"
            /\ run'.op = run.op /\ run'.key = run.key /\ run' # None,
         NEW fresh \in Keys \cup {None}, NEW old \in Keys \cup {None},
         fresh \in DaemonKeys =>
           \/ /\ account["daemon"] # None /\ fresh # account["daemon"].key
           \/ /\ run' # None /\ run'.op = "signin" /\ run'.stage = "applied" /\ run'.key = fresh,
         fresh \in Keys => status[fresh] = "unknown" /\ status'[fresh] = "active",
         old \in DaemonKeys =>
           account["daemon"] # None /\ account["daemon"].key = old,
         \A k \in Keys \ {fresh, old} :
           status'[k] = status[k] \/ (status'[k] = "revoked" /\ k \in byHand'),
         old \in Keys => \/ status'[old] = "revoked"
                         \/ (Accepted(old) /\ status'[old] = "deprecated")
  PROVE  HostsInv'
<1>1. hosts \subseteq DaemonKeys /\ DaemonKeys \subseteq Keys
  BY DEF IInv, TypeOK, Keys
<1>2. (~Settling' /\ ~Settling) \/ (Settling' /\ Settling /\ run' = run)
  BY DEF Settling
<1>3. ASSUME ~untidy' PROVE Unenrolled' /\ Labelled' /\ Superseded'
  <2>1. Unenrolled /\ Labelled /\ Superseded
    BY <1>3 DEF HostsInv
  <2>2. \A k \in DaemonKeys : Accepted(k)' => Accepted(k) \/ k = fresh
    BY <1>1 DEF Accepted
  <2>3. Unenrolled'
    BY <1>1, <2>1, <2>2 DEF Unenrolled, store
  <2>4. account["daemon"] # None =>
          account["daemon"].key \in DaemonKeys /\ account["daemon"].key \in Own("daemon")
    BY OwnApart DEF Roles, KeysOf, IInv, TypeOK
  <2>5. account["daemon"] # None /\ account["daemon"].key = fresh =>
          FALSE
    BY OwnApart, <2>4, <1>1 DEF Roles
  <2>6. Labelled'
    BY <1>2, <2>1, <2>2, <2>4, <2>5 DEF Labelled, store
  <2>7. Superseded'
    BY <1>1, <1>2, <2>1, <2>4 DEF Superseded, Own, store
  <2>8. QED
    BY <2>3, <2>6, <2>7
<1>4. QED
  BY <1>3 DEF HostsInv

LEMMA RelayKeepsHosts == IInv /\ HostsInv /\ Relay => HostsInv'
<1> SUFFICES ASSUME IInv, HostsInv, Relay PROVE HostsInv'
  OBVIOUS
<1> USE DEF store, relay, process, history
<1>1. ASSUME NEW k \in Keys, Lapses(k) PROVE HostsInv'
  <2>1. RunHosts'
    BY <1>1 DEF Lapses, HostsInv, RunHosts, Known, Settling, IInv, TypeOK
  <2>2. CASE untidy
    BY <1>1, <2>1, <2>2 DEF Lapses, HostsInv
  <2>3. CASE ~untidy
    <3>1. k \in DaemonKeys => account["daemon"] # None /\ account["daemon"].key = k
      BY <1>1, <2>3 DEF Lapses, HostsInv, Superseded
    <3>2. \A j \in Keys \ {None, k} : status'[j] = status[j]
      BY <1>1 DEF Lapses, IInv, TypeOK
    <3>3. status'[k] = "revoked" /\ None \notin Keys /\ None \notin DaemonKeys
      BY <1>1, AccountNone DEF Lapses, IInv, TypeOK, Keys
    <3>4. QED
      BY <1>1, <2>1, <3>1, <3>2, <3>3, StatusStepKeepsHosts DEF Lapses
  <2>4. QED
    BY <2>2, <2>3
<1>2. ASSUME NEW ks \in SUBSET Keys, RevokesByHand(ks), UNCHANGED <<store, untidy>>,
             \/ run' = run
             \/ /\ run # None /\ run.stage = "posted" /\ run.op = "revoke"
                /\ ks = {run.key} /\ run' = [run EXCEPT !.stage = "applied"]
             \/ /\ run # None /\ run.stage = "posted" /\ run.op = "delete"
                /\ ks = Known /\ run' = [run EXCEPT !.stage = "applied"]
      PROVE  HostsInv'
  <2>1. \A k \in Keys : status'[k] = status[k] \/ (status'[k] = "revoked" /\ k \in byHand')
    BY <1>2 DEF RevokesByHand
  <2>2. byHand \subseteq byHand' /\ Known' = Known \cup ks
    BY <1>2 DEF RevokesByHand, Known
  <2>3. run # None => run \in Command
    BY DEF IInv, TypeOK
  <2>4. Settling' => Settling /\ run' = run
    BY <1>2, <2>3 DEF Settling, Command
  <2>10. /\ run # None /\ run.op = "complete" => account[run.role].key \in Keys
                                \/ run.stage \notin {"posted", "applied"}
         /\ run # None => run.key \in Keys
    BY <2>3, OwnApart DEF IInv, RunSound, Command
  <2>5. RunHosts'
    <3>1. CASE run' = run
      BY <1>2, <2>1, <2>2, <2>3, <2>4, <2>10, <3>1 DEF HostsInv, RunHosts, Known
    <3>2. CASE run' # run
      BY <1>2, <2>2, <2>3, <2>4, <2>10, <3>2 DEF RunHosts, RevokesByHand, Command, Enrolments,
         Known
    <3>3. QED
      BY <3>1, <3>2
  <2>6. run' # run => run' \in Command
    BY <1>2, <2>3 DEF Command
  <2>7. None \notin Keys /\ None \notin Command
    BY AccountNone
  <2>8. \/ run' = run
        \/ /\ run # None /\ run.stage = "posted" /\ run'.stage = "applied"
           /\ run'.op = run.op /\ run'.key = run.key /\ run' # None
    BY <1>2, <2>3, <2>6, <2>7 DEF Command
  <2>9. QED
    BY <1>2, <2>1, <2>2, <2>5, <2>7, <2>8, StatusStepKeepsHosts DEF Keys
<1>3. ASSUME ServerReset \/ \E k \in Keys : RevokedElsewhere(k) PROVE HostsInv'
  <2>1. PICK ks \in SUBSET Keys : RevokesByHand(ks)
    BY <1>3 DEF ServerReset, RevokedElsewhere, Known
  <2>2. QED
    BY <1>2, <1>3, <2>1 DEF ServerReset, RevokedElsewhere
<1>4. ASSUME RelayApplies PROVE HostsInv'
  <2>1. run \in Command /\ run # None /\ run.stage = "posted"
    BY <1>4 DEF RelayApplies, IInv, TypeOK
  <2>2. /\ run' = [run EXCEPT !.stage = "applied"]
        /\ UNCHANGED <<store, process, history>>
    BY <1>4 DEF RelayApplies
  <2>3. run' \in Command /\ run' # None /\ run'.stage = "applied"
        /\ run'.op = run.op /\ run'.key = run.key /\ run'.role = run.role
    BY <2>1, <2>2, AccountNone DEF Command
  <2>4. ~Settling' /\ ~Settling
    BY <2>1, <2>3 DEF Settling
  <2>5. None \notin Keys /\ DaemonKeys \subseteq Keys
    BY AccountNone DEF Keys
  <2>6. CASE run.op = "revoke"
    BY <1>2, <1>4, <2>1, <2>2, <2>6 DEF RelayApplies, Command
  <2>7. CASE run.op = "delete"
    BY <1>2, <1>4, <2>1, <2>2, <2>7 DEF RelayApplies, Known
  <2>8. CASE run.op \in Enrolments \cup {"start", "complete", "merge"}
    <3>7. run.op = "complete" => status'[account[run.role].key] = "revoked"
      BY <1>4, <2>1, OwnApart DEF RelayApplies, Replaces, IInv, RunSound, TypeOK, Command,
         Enrolments
    <3>1. RunHosts'
      BY <2>1, <2>2, <2>3, <2>4, <2>8, <3>7 DEF HostsInv, RunHosts, Enrolments
    <3>2. CASE run.op = "merge"
      BY <1>4, <2>1, <2>2, <2>3, <2>5, <3>1, <3>2, StatusStepKeepsHosts
         DEF RelayApplies
    <3>3. CASE run.op \in Enrolments
      <4>1. /\ run.key \in Keys /\ run.key \in KeysOf(run.role) /\ status[run.key] = "unknown"
            /\ run.op = "join" => run.role = "client"
        BY <2>1, <3>3 DEF IInv, RunSound, Command, HostsInv, RunHosts, Enrolments
      <4>2. status' = [status EXCEPT ![run.key] = "active"] /\ byHand' = byHand
        BY <1>4, <3>3 DEF RelayApplies, Registers, Enrolments
      <4>3. run.key \in DaemonKeys => run.op = "signin"
        BY <3>3, <4>1, RolesApart DEF KeysOf, Enrolments
      <4>4. /\ status'[run.key] = "active"
            /\ \A k \in Keys \ {run.key, None} : status'[k] = status[k]
        BY <4>1, <4>2 DEF IInv, TypeOK
      <4>5. QED
        BY <2>1, <2>2, <2>3, <2>5, <3>1, <4>1, <4>2, <4>3, <4>4, StatusStepKeepsHosts
    <3>4. CASE run.op = "start"
      <4>1. /\ run.key \in Keys /\ run.key \in KeysOf(run.role) /\ status[run.key] = "unknown"
            /\ run.role \in Roles /\ account[run.role] # None
            /\ run.signer = account[run.role].key /\ run.key # run.signer /\ run.signer \in Keys
        BY <2>1, <3>4 DEF IInv, RunSound, Command
      <4>2. /\ status' = [status EXCEPT ![run.signer] = "deprecated", ![run.key] = "active"]
            /\ byHand' = byHand /\ Accepted(run.signer)
        BY <1>4, <3>4 DEF RelayApplies, Deprecates, Enrolments
      <4>3. /\ run.signer \in KeysOf(run.role)
            /\ run.signer \in DaemonKeys => run.role = "daemon"
            /\ run.key \in DaemonKeys => run.role = "daemon"
        BY <4>1, OwnApart, RolesApart DEF KeysOf, IInv, TypeOK, Roles
      <4>4. /\ status'[run.key] = "active" /\ status'[run.signer] = "deprecated"
            /\ \A k \in Keys \ {run.key, run.signer} : status'[k] = status[k]
        BY <4>1, <4>2 DEF IInv, TypeOK
      <4> DEFINE fresh == run.key
                 old == run.signer
      <4>5. /\ fresh \in DaemonKeys =>
                 account["daemon"] # None /\ fresh # account["daemon"].key
            /\ old \in DaemonKeys => account["daemon"] # None /\ account["daemon"].key = old
            /\ fresh \in Keys /\ old \in Keys
        BY <4>1, <4>3
      <4>6. /\ status[fresh] = "unknown" /\ status'[fresh] = "active"
            /\ Accepted(old) /\ status'[old] = "deprecated"
            /\ \A k \in Keys \ {fresh, old} : status'[k] = status[k]
        BY <4>1, <4>2, <4>4
      <4> HIDE DEF fresh, old
      <4>7. /\ \/ run' = run
               \/ /\ run # None /\ run.stage = "posted" /\ run'.stage = "applied"
                  /\ run'.op = run.op /\ run'.key = run.key /\ run' # None
            /\ UNCHANGED <<store, untidy>> /\ byHand \subseteq byHand'
        BY <2>1, <2>2, <2>3, <4>2
      <4>8. QED
        BY <3>1, <4>5, <4>6, <4>7, StatusStepKeepsHosts
    <3>5. CASE run.op = "complete"
      <4> DEFINE old == account[run.role].key
      <4>1. run.role \in Roles /\ account[run.role] # None
        BY <2>1, <3>5 DEF IInv, RunSound, Command
      <4>2. status' = [status EXCEPT ![old] = "revoked"] /\ byHand' = byHand
        BY <1>4, <3>5 DEF RelayApplies, Replaces, Enrolments
      <4>3. old \in Keys /\ old \in KeysOf(run.role) /\ (old \in DaemonKeys => run.role = "daemon")
        BY <4>1, OwnApart, RolesApart DEF KeysOf, IInv, TypeOK, Roles
      <4>4. status'[old] = "revoked" /\ \A k \in Keys \ {None, old} : status'[k] = status[k]
        BY <4>2, <4>3 DEF IInv, TypeOK
      <4>5. QED
        BY <2>1, <2>2, <2>3, <2>5, <3>1, <4>1, <4>2, <4>3, <4>4, StatusStepKeepsHosts
    <3>6. QED
      BY <2>8, <3>2, <3>3, <3>4, <3>5
  <2>9. QED
    BY <2>1, <2>6, <2>7, <2>8 DEF Command, Ops
<1>5. QED
  BY <1>1, <1>3, <1>4 DEF Relay

(* Saving the record: a new daemon key settles what named the old one.     *)
LEMMA SaveKeepsHosts == IInv /\ HostsInv /\ SaveAccount => HostsInv'
<1> SUFFICES ASSUME IInv, HostsInv, SaveAccount PROVE HostsInv'
  OBVIOUS
<1> DEFINE id == Saved(run.role)
<1>1. /\ run \in Command /\ run # None /\ run.stage = "applied" /\ run.role \in Roles
      /\ run.op \in Enrolments \cup {"start", "complete"}
      /\ run.key \in KeysOf(run.role) /\ run.key \in Keys
  BY DEF SaveAccount, AtStage, IInv, TypeOK, RunSound, Command
<1>2. /\ UNCHANGED <<hosts, named, status, byHand, untidy>>
      /\ account' = [account EXCEPT ![run.role] = id]
      /\ run' = IF TouchesHosts THEN [run EXCEPT !.stage = "saved"] ELSE None
  BY DEF SaveAccount, WithRoleKey, relay, process, history
<1>3. ~Settling
  BY <1>1 DEF Settling
<1>4. CASE run.role = "client"
  <2>1. account'["daemon"] = account["daemon"] /\ Own("daemon")' = Own("daemon")
    BY <1>2, <1>4 DEF Own
  <2>2. ~Settling' /\ RunHosts'
    BY <1>1, <1>2, <1>4 DEF RunHosts, Settling, Command, Enrolments, TouchesHosts
  <2>3. run.key \notin DaemonKeys
    BY <1>1, <1>4, RolesApart DEF KeysOf
  <2>4. ASSUME ~untidy PROVE Unenrolled' /\ Labelled' /\ Superseded'
    <3>1. Unenrolled /\ Labelled /\ Superseded
      BY <2>4 DEF HostsInv
    <3>2. Unenrolled' /\ Labelled'
      BY <1>1, <1>2, <1>3, <2>1, <2>2, <2>3, <3>1
         DEF Unenrolled, Labelled, Accepted, Enrolments
    <3>3. Superseded'
      BY <1>1, <1>2, <2>1, <3>1 DEF Superseded
    <3>4. QED
      BY <3>2, <3>3
  <2>5. QED
    BY <1>2, <2>2, <2>4 DEF HostsInv
<1>5. CASE run.role = "daemon"
  <2>1. account'["daemon"] = id /\ run.op # "join"
    BY <1>1, <1>2, <1>5 DEF IInv, TypeOK, HostsInv, RunHosts
  <2>2. CASE run.op = "signin"
    <3>1. account["daemon"] = None /\ id = [key |-> run.key, pending |-> None]
      BY <1>1, <1>5, <2>2 DEF HostsInv, RunHosts, Saved, Enrolments
    <3>2. /\ run' = [run EXCEPT !.stage = "saved"] /\ run' # None
          /\ id \in Identity /\ id # None /\ run.key \in Own("daemon")'
      BY <1>1, <1>2, <2>1, <2>2, <3>1, AccountNone
         DEF TouchesHosts, Command, Identity, Own
    <3>3. Settling' /\ RunHosts'
      BY <1>1, <1>2, <1>5, <2>1, <2>2, <3>1, <3>2 DEF Settling, RunHosts, Command, Enrolments
    <3>4. ASSUME ~untidy PROVE Unenrolled' /\ Labelled' /\ Superseded'
      <4>1. Unenrolled /\ Superseded /\ named = None
        BY <1>1, <2>2, <3>1, <3>4 DEF HostsInv, Unenrolled
      <4>2. Unenrolled' /\ Labelled'
        BY <1>2, <2>1, <3>2, <3>3, <4>1 DEF Unenrolled, Labelled
      <4>3. Superseded'
        BY <1>1, <1>2, <2>1, <3>1, <4>1 DEF Superseded, Own
      <4>4. QED
        BY <4>2, <4>3
    <3>5. QED
      BY <1>2, <3>3, <3>4 DEF HostsInv
  <2>3. CASE run.op = "start"
    <3>1. /\ account["daemon"] # None /\ account["daemon"] \in Identity
          /\ id = [key |-> account["daemon"].key, pending |-> run.key]
      BY <1>1, <1>5, <2>3 DEF IInv, RunSound, TypeOK, Saved, Identity, Enrolments
    <3>2. run' = None /\ ~Settling' /\ RunHosts' /\ id # None
      BY <1>2, <2>3, <3>1, <1>1, AccountNone DEF TouchesHosts, Settling, RunHosts, Identity
    <3>3. ASSUME ~untidy PROVE Unenrolled' /\ Labelled' /\ Superseded'
      <4>1. Unenrolled /\ Labelled /\ Superseded
        BY <3>3 DEF HostsInv
      <4>2. Unenrolled' /\ Labelled'
        BY <1>2, <1>3, <2>1, <3>1, <3>2, <4>1 DEF Unenrolled, Labelled, Accepted
      <4>3. \A k \in Own("daemon") : k \in Own("daemon")' \/ Live(k)
        BY <2>1, <3>1, <3>2 DEF Own, IInv, OwnSound, Roles
      <4>4. Superseded'
        BY <1>2, <2>1, <2>3, <3>1, <3>2, <4>1, <4>3 DEF Superseded, Live
      <4>5. QED
        BY <4>2, <4>4
    <3>4. QED
      BY <1>2, <3>2, <3>3 DEF HostsInv
  <2>4. CASE run.op = "complete"
    <3>1. /\ account["daemon"] # None /\ run.key = account["daemon"].pending
          /\ status[account["daemon"].key] = "revoked"
          /\ id = [key |-> run.key, pending |-> None]
      BY <1>1, <1>5, <2>4 DEF IInv, RunSound, HostsInv, RunHosts, Saved, Enrolments
    <3>2. /\ run' = [run EXCEPT !.stage = "saved"] /\ run' # None
          /\ id \in Identity /\ id # None /\ Own("daemon")' = {run.key} \ {None}
      BY <1>1, <1>2, <1>5, <2>1, <2>4, <3>1, AccountNone
         DEF TouchesHosts, Command, Identity, Own
    <3>3. Settling' /\ RunHosts'
      BY <1>1, <1>2, <1>5, <2>1, <2>4, <3>1, <3>2 DEF Settling, RunHosts, Command, Enrolments
    <3>4. ASSUME ~untidy PROVE Unenrolled' /\ Labelled' /\ Superseded'
      <4>1. Labelled /\ Superseded
        BY <3>4 DEF HostsInv
      <4>2. Unenrolled' /\ Labelled'
        BY <1>1, <1>2, <2>1, <2>4, <3>2, <3>3 DEF Unenrolled, Labelled, Command
      <4>3. \A k \in DaemonKeys : status[k] # "deprecated"
        BY <3>1, <4>1 DEF Superseded
      <4>4. \A k \in hosts \cap Own("daemon") :
              k = run.key \/ k \in byHand \/ named = k
        BY <1>3, <3>1, <4>1 DEF Labelled, Own
      <4>5. \A k \in hosts : status[k] = "revoked" => k \in byHand \cup Own("daemon")
        BY <1>1, <4>1 DEF Superseded
      <4>6. \A k \in hosts : k \in Keys /\ k # None
        BY AccountNone DEF IInv, TypeOK, Keys
      <4>7. Superseded'
        BY <1>1, <1>2, <1>5, <2>4, <3>2, <4>3, <4>4, <4>5, <4>6 DEF Superseded, Command
      <4>8. QED
        BY <4>2, <4>7
    <3>5. QED
      BY <1>2, <3>3, <3>4 DEF HostsInv
  <2>5. QED
    BY <1>1, <2>1, <2>2, <2>3, <2>4 DEF Enrolments
<1>6. QED
  BY <1>1, <1>4, <1>5 DEF Roles

LEMMA ContinueKeepsHosts == IInv /\ HostsInv /\ Continue => HostsInv'
<1> SUFFICES ASSUME IInv, HostsInv, Continue PROVE HostsInv'
  OBVIOUS
<1> USE DEF AtStage, store, relay, process, history
<1>0. /\ hosts \subseteq DaemonKeys /\ named \in hosts \cup {None}
      /\ run # None => run \in Command
      /\ None \notin DaemonKeys /\ DaemonKeys \subseteq Keys
      /\ account["daemon"] # None =>
           /\ account["daemon"].key \in Own("daemon") /\ account["daemon"].key \in DaemonKeys
      /\ Own("daemon") \subseteq Known
  BY AccountNone, OwnApart DEF IInv, TypeOK, Keys, Roles, KeysOf, Known
<1>1. CASE SaveAccount
  BY <1>1, SaveKeepsHosts
<1>2. CASE RemoveNamed
  <2>1. /\ run' = [run EXCEPT !.stage = "removed"] /\ run' \in Command /\ run' # None
        /\ run # None /\ run.role = "daemon" /\ run.op = "complete" /\ run.stage = "saved"
    BY <1>0, <1>2, AccountNone DEF RemoveNamed, IInv, RunSound, Command
  <2>2. Settling /\ Settling' /\ RunHosts'
    BY <1>0, <1>2, <2>1 DEF RemoveNamed, HostsInv, RunHosts, Settling, Command, Enrolments
  <2>3. hosts' = hosts \ {named} /\ named' = None
    BY <1>2 DEF RemoveNamed, Drop
  <2>4. ASSUME ~untidy PROVE Unenrolled' /\ Labelled' /\ Superseded'
    BY <1>0, <1>2, <2>1, <2>2, <2>3, <2>4
       DEF RemoveNamed, HostsInv, RunHosts, Unenrolled, Labelled, Superseded, Own, Command
  <2>5. QED
    BY <1>2, <2>2, <2>4 DEF RemoveNamed, HostsInv
<1>3. CASE SaveHost
  <2>1. /\ Settling /\ run' = None /\ ~Settling' /\ RunHosts'
        /\ account["daemon"] # None /\ account["daemon"].key = run.key
        /\ run.op = "signin" \/ run.stage = "removed"
    BY <1>3 DEF SaveHost, HostsInv, RunHosts, Settling, IInv, RunSound
  <2>2. hosts' = hosts \cup {run.key} /\ (~untidy => named' = run.key)
    BY <1>3, <2>1 DEF SaveHost, HostsInv, Labelled
  <2>3. ASSUME ~untidy PROVE Unenrolled' /\ Labelled' /\ Superseded'
    BY <1>0, <1>3, <2>1, <2>2, <2>3
       DEF SaveHost, HostsInv, Unenrolled, Labelled, Superseded, Own
  <2>4. QED
    BY <1>3, <2>1, <2>3 DEF SaveHost, HostsInv
<1>4. CASE Merge
  <2> DEFINE listed == {k \in DaemonKeys : Accepted(k)}
  <2>1. /\ run # None /\ run' = None /\ ~Settling /\ ~Settling' /\ RunHosts'
        /\ run.op = "merge" \/ (run.op = "signin" /\ run.stage = "saved")
    BY <1>4 DEF Merge, Settling, RunHosts
  <2>2. /\ hosts' = listed
        /\ named \in listed => named' = named
        /\ named' \in listed \cup {None}
    BY <1>4 DEF Merge, Merged
  <2>3. ASSUME ~untidy PROVE Unenrolled' /\ Labelled' /\ Superseded'
    <3>1. Unenrolled /\ Labelled /\ Superseded
      BY <2>3 DEF HostsInv
    <3>2. Unenrolled'
      BY <1>4, <2>1, <2>2, <3>1 DEF Merge, Unenrolled, Accepted
    <3>3. Labelled'
      BY <1>0, <1>4, <2>1, <2>2, <3>1 DEF Merge, Labelled, Accepted
    <3>4. Superseded'
      BY <1>4, <2>1, <2>2, <3>1 DEF Merge, Superseded, Accepted
    <3>5. QED
      BY <3>2, <3>3, <3>4
  <2>4. QED
    BY <1>4, <2>1, <2>3 DEF Merge, HostsInv
<1>5. CASE DropRevoked
  <2>1. /\ run # None /\ run' = None /\ ~Settling /\ ~Settling' /\ RunHosts'
        /\ status[run.key] = "revoked" /\ run.op = "revoke"
    BY <1>5 DEF DropRevoked, HostsInv, Settling, RunHosts
  <2>2. ASSUME ~untidy PROVE Unenrolled' /\ Labelled' /\ Superseded'
    <3>1. Unenrolled /\ Labelled /\ Superseded
      BY <2>2 DEF HostsInv
    <3>2. /\ hosts' = hosts \ {run.key}
          /\ named' = IF named = run.key THEN None ELSE named
      BY <1>5 DEF DropRevoked, Drop
    <3>3. Unenrolled'
      BY <1>5, <2>1, <3>1, <3>2 DEF DropRevoked, Unenrolled, Accepted
    <3>4. Labelled'
      BY <1>5, <2>1, <3>1, <3>2 DEF DropRevoked, Labelled, Accepted
    <3>5. Superseded'
      BY <1>5, <2>1, <3>1, <3>2 DEF DropRevoked, Superseded, Own
    <3>6. QED
      BY <3>3, <3>4, <3>5
  <2>3. QED
    BY <1>5, <2>1, <2>2 DEF DropRevoked, HostsInv
<1>6. CASE ClearAccount
  <2>1. /\ run \in Command /\ run.op = "delete" /\ run' = [run EXCEPT !.stage = "saved"]
        /\ run' \in Command /\ run' # None /\ ~Settling'
        /\ \A k \in Known : status[k] = "revoked" /\ k \in byHand
    BY <1>0, <1>6, AccountNone DEF ClearAccount, HostsInv, RunHosts, Settling, Command
  <2>2. account'["daemon"] = None
    BY <1>6 DEF ClearAccount, Roles
  <2>3. RunHosts'
    BY <2>1, <2>2 DEF RunHosts, Command, Enrolments
  <2>4. ASSUME ~untidy PROVE Unenrolled' /\ Labelled' /\ Superseded'
    <3>1. Superseded
      BY <2>4 DEF HostsInv
    <3>2. \A k \in DaemonKeys : status[k] \notin {"active", "deprecated"}
      BY <1>0, <2>1 DEF Known
    <3>3. Unenrolled' /\ Labelled'
      BY <1>6, <2>1, <2>2, <3>2 DEF ClearAccount, Unenrolled, Labelled, Accepted, Command
    <3>4. Superseded'
      BY <1>0, <1>6, <2>1, <3>1, <3>2 DEF ClearAccount, Superseded
    <3>5. QED
      BY <3>3, <3>4
  <2>5. QED
    BY <1>6, <2>3, <2>4 DEF ClearAccount, HostsInv
<1>7. CASE ClearHosts
  <2>1. /\ run # None /\ run' = None /\ ~Settling /\ ~Settling' /\ RunHosts'
        /\ account["daemon"] = None /\ run.op = "delete"
    BY <1>7 DEF ClearHosts, HostsInv, Settling, RunHosts
  <2>2. hosts' = {} /\ named' = None
    BY <1>0, <1>7 DEF ClearHosts, Drop
  <2>3. ASSUME ~untidy PROVE Unenrolled' /\ Labelled' /\ Superseded'
    BY <1>7, <2>1, <2>2, <2>3
       DEF ClearHosts, HostsInv, Unenrolled, Labelled, Superseded, Accepted
  <2>4. QED
    BY <1>7, <2>1, <2>3 DEF ClearHosts, HostsInv
<1>8. CASE Refused \/ NoMerge
  <2>1. /\ run # None /\ run' = None /\ ~Settling /\ ~Settling' /\ RunHosts'
        /\ UNCHANGED <<account, hosts, named, status, byHand, untidy>>
        /\ ~(run.op = "delete" /\ run.stage = "saved")
        /\ ~(run.op = "signin" /\ run.stage = "applied")
        /\ ~(run.op = "complete" /\ run.stage = "saved")
    BY <1>8 DEF Refused, NoMerge, Settling, RunHosts
  <2>2. ASSUME ~untidy PROVE Unenrolled' /\ Labelled' /\ Superseded'
    BY <2>1, <2>2 DEF HostsInv, Unenrolled, Labelled, Superseded, Accepted, Own
  <2>3. QED
    BY <2>1, <2>2 DEF HostsInv
<1>9. CASE CutShort
  BY <1>9 DEF CutShort, HostsInv, RunHosts
<1>10. QED
  BY <1>1, <1>2, <1>3, <1>4, <1>5, <1>6, <1>7, <1>8, <1>9 DEF Continue

THEOREM HostsInvariance == Spec => []HostsInv
<1>1. HostsInv /\ (LocalReset \/ DaemonSteps \/ UNCHANGED vars) => HostsInv'
  <2>1. LocalReset => RunHosts' /\ untidy'
    BY DEF LocalReset, RunHosts
  <2>2. DaemonSteps \/ UNCHANGED vars =>
          UNCHANGED <<account, hosts, named, status, byHand, run, untidy>>
    BY DEF vars, store, relay, process, history, DaemonSteps, DaemonStarts, DialAccepted,
       DialRejected, PrimaryBreaks, Redial, RevokedFrame, DaemonStops
  <2>3. HostsInv /\ UNCHANGED <<account, hosts, named, status, byHand, run, untidy>>
          => HostsInv'
    BY DEF HostsInv, RunHosts, Unenrolled, Labelled, Superseded, Settling, Accepted, Own,
       Known
  <2>4. QED
    BY <2>1, <2>2, <2>3 DEF HostsInv
<1>2. IInv /\ HostsInv /\ [Next]_vars => HostsInv'
  BY <1>1, BeginKeepsHosts, RelayKeepsHosts, ContinueKeepsHosts DEF Next
<1>3. QED
  BY HostsInit, AccountInvariance, <1>2, PTL DEF Spec

(* Whatever rotations, expiries, lapses, revocations and merges there      *)
(* were: after commands that all ran to their end the label is on the row  *)
(* of the accepted daemon key, and no superseded key keeps a row           *)
(* (rotate.ts, revoke.ts, hosts.ts).                                       *)
THEOREM HostsFollowKey == Spec => []HostsFollow
<1>1. HostsInv => HostsFollow
  BY DEF HostsInv, HostsFollow, Labelled, Superseded, Settling
<1>2. QED
  BY HostsInvariance, <1>1, PTL
=============================================================================
