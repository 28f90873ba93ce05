------------------------------ MODULE Account ------------------------------
(***************************************************************************)
(* One device's enrolment on the public relay: the account record and the  *)
(* known-hosts rows in its store, the commands that register, rotate,      *)
(* revoke and forget its keys (commands/server/signin.ts, rotate.ts,       *)
(* revoke.ts, delete-account.ts, hosts.ts, reset.ts, client/signin.ts,     *)
(* client/join.ts, commands/reset.ts), the public daemon that signs with   *)
(* the daemon key of the record (server/start.ts), and what the relay      *)
(* makes of every key.                                                     *)
(*                                                                         *)
(* A command posts one request and then writes the store in several steps; *)
(* it may be refused, time out after the relay has acted, or be killed     *)
(* between any two steps.  One command runs at a time; the daemon and the  *)
(* relay run beside it.  The clock of the device is not to be trusted: how *)
(* old a pending rotation looks is a free choice whenever it is asked.     *)
(* The hosts rows of other devices, e-mail and TOTP codes are left out.    *)
(***************************************************************************)
EXTENDS Naturals

CONSTANTS
  DaemonKeys,  (* keypairs this device may generate for its daemon role    *)
  ClientKeys,  (* and for its client role                                  *)
  MaxMishaps,  (* bound on what befalls the device: commands cut short     *)
               (* after the relay acted, resets, revocations by others     *)
  None

Keys == DaemonKeys \cup ClientKeys
Roles == {"daemon", "client"}
KeysOf(role) == IF role = "daemon" THEN DaemonKeys ELSE ClientKeys
Identity == [key : Keys, pending : Keys \cup {None}]

Enrolments == {"signin", "join"}
Ops == Enrolments \cup {"start", "complete", "revoke", "delete", "merge"}
Command == [op : Ops, role : Roles, signer : Keys, key : Keys,
            stage : {"posted", "applied", "saved", "removed"}]

ASSUME AccountNone == None \notin Keys \cup Identity \cup Command
ASSUME MishapsAssumption == MaxMishaps \in Nat
ASSUME RolesApart == DaemonKeys \cap ClientKeys = {}

VARIABLES
  account,   (* the PublicAccount record: the KeyIdentity of each role     *)
  hosts,     (* the daemon keys of this device with a row in known_hosts   *)
  named,     (* the key whose row carries account.label                    *)
  status,    (* the relay: the state of every key                          *)
  run,       (* the command under way                                      *)
  daemon,    (* the public daemon's process and primary connection         *)
  signs,     (* the key it holds in memory                                 *)
  byHand,    (* history: keys revoked because somebody asked for it        *)
  orphaned,  (* history: keys whose rotation began at the relay without    *)
             (* the device learning of it                                  *)
  untidy,    (* history: a command was cut short after the relay acted, or *)
             (* the device was reset                                       *)
  mishaps    (* how many of MaxMishaps have happened                       *)

relay == <<status, byHand>>
store == <<account, hosts, named>>
process == <<daemon, signs>>
history == <<orphaned, untidy, mishaps>>
vars == <<store, relay, run, process, history>>

(* The record with another identity in one role (withRoleKey).             *)
WithRoleKey(role, id) == [account EXCEPT ![role] = id]

Own(role) ==
  IF account[role] = None THEN {}
  ELSE {account[role].key, account[role].pending} \ {None}

Accepted(k) == status[k] \in {"active", "deprecated"}
Known == {k \in Keys : status[k] # "unknown"}

(* The key a management command signs with: the daemon's, else the         *)
(* client's.                                                               *)
Enrolled == \E role \in Roles : account[role] # None
ManagementKey ==
  IF account["daemon"] # None THEN account["daemon"].key
  ELSE account["client"].key

Mishap == mishaps < MaxMishaps /\ mishaps' = mishaps + 1

Init ==
  /\ account = [role \in Roles |-> None]
  /\ hosts = {} /\ named = None
  /\ status = [k \in Keys |-> "unknown"]
  /\ run = None
  /\ daemon = "off" /\ signs = None
  /\ byHand = {} /\ orphaned = {} /\ untidy = FALSE
  /\ mishaps = 0
-----------------------------------------------------------------------------
(* Commands: guards and the request.                                       *)

Post(op, role, signer, key) ==
  /\ run = None
  /\ run' = [op |-> op, role |-> role, signer |-> signer, key |-> key,
             stage |-> "posted"]
  /\ UNCHANGED <<store, relay, process, history>>

(* A role that has a key, accepted or not, is not enrolled again.          *)
SigninAllowed(role) == account[role] = None

Enrol(op, role, k) ==
  /\ SigninAllowed(role) /\ k \in KeysOf(role) /\ status[k] = "unknown"
  /\ Post(op, role, k, k)

(* By e-mail code and TOTP, or by a preauth that a daemon minted.          *)
SigninDaemon(k) == Enrol("signin", "daemon", k)
SigninClient(k) == Enrol("signin", "client", k)
Join(k) == Enrol("join", "client", k)

(* How classifyPending may judge a pending rotation.                       *)
Age == {"valid", "expired", "skew"}

RotateStart(role, k, age) ==
  /\ account[role] # None
  /\ account[role].pending = None \/ age = "expired"
  /\ k \in KeysOf(role) /\ status[k] = "unknown"
  /\ Post("start", role, account[role].key, k)

RotateComplete(role, age) ==
  /\ account[role] # None /\ account[role].pending # None /\ age = "valid"
  /\ Post("complete", role, account[role].pending, account[role].pending)

Revoke(k) ==
  /\ account["daemon"] # None /\ k \in Known
  /\ Post("revoke", "daemon", account["daemon"].key, k)

DeleteAccount ==
  /\ Enrolled
  /\ Post("delete", "daemon", ManagementKey, ManagementKey)

MergeHosts ==
  /\ Enrolled
  /\ Post("merge", "daemon", ManagementKey, ManagementKey)
-----------------------------------------------------------------------------
(* The relay acts on the request of the running command.                   *)

Registers(k) == status' = [status EXCEPT ![k] = "active"] /\ UNCHANGED byHand

Deprecates(old, new) ==
  /\ Accepted(old)
  /\ status' = [status EXCEPT ![old] = "deprecated", ![new] = "active"]
  /\ UNCHANGED byHand

Replaces(old, new) ==
  /\ Accepted(new)
  /\ status' = [status EXCEPT ![old] = "revoked"]
  /\ UNCHANGED byHand

RevokesByHand(ks) ==
  /\ status' = [k \in Keys |-> IF k \in ks THEN "revoked" ELSE status[k]]
  /\ byHand' = byHand \cup ks

RelayApplies ==
  /\ run # None /\ run.stage = "posted"
  /\ CASE run.op \in Enrolments -> Registers(run.key)
       [] run.op = "start" -> Deprecates(run.signer, run.key)
       [] run.op = "complete" -> Replaces(account[run.role].key, run.key)
       [] run.op = "revoke" -> Accepted(run.signer) /\ RevokesByHand({run.key})
       [] run.op = "delete" -> Accepted(run.signer) /\ RevokesByHand(Known)
       [] run.op = "merge" -> Accepted(run.signer) /\ UNCHANGED relay
  /\ run' = [run EXCEPT !.stage = "applied"]
  /\ UNCHANGED <<store, process, history>>

(* The window in which the relay still accepts a deprecated key is over;   *)
(* at a day it is longer than the request that opened it takes.            *)
Lapses(k) ==
  /\ status[k] = "deprecated"
  /\ ~(run # None /\ run.op = "start" /\ run.signer = k)
  /\ status' = [status EXCEPT ![k] = "revoked"]
  /\ UNCHANGED <<store, byHand, run, process, history>>

(* `server reset`: whoever holds the e-mail and the TOTP has every key     *)
(* revoked.                                                                *)
ServerReset ==
  /\ Known # {} /\ RevokesByHand(Known) /\ Mishap
  /\ UNCHANGED <<store, run, process, orphaned, untidy>>

(* Another device of the account revokes one of these keys.                *)
RevokedElsewhere(k) ==
  /\ k \in Known /\ RevokesByHand({k}) /\ Mishap
  /\ UNCHANGED <<store, run, process, orphaned, untidy>>
-----------------------------------------------------------------------------
(* What a command does with the answer.                                    *)

AtStage(stage, ops) == run # None /\ run.stage = stage /\ run.op \in ops

(* Mutant: --complete drops the pending record without taking its key.     *)
SavedOldKey(role) ==
  CASE run.op \in Enrolments -> [key |-> run.key, pending |-> None]
    [] run.op = "start" -> [account[role] EXCEPT !.pending = run.key]
    [] run.op = "complete" -> [account[role] EXCEPT !.pending = None]

(* The identity that the command saves.                                    *)
Saved(role) ==
  CASE run.op \in Enrolments -> [key |-> run.key, pending |-> None]
    [] run.op = "start" -> [account[role] EXCEPT !.pending = run.key]
    [] run.op = "complete" -> [key |-> run.key, pending |-> None]

(* signin goes on to known_hosts, and so does the rotation of a daemon's   *)
(* key.  join adds the row of the daemon it is pinned to, another device.  *)
TouchesHosts ==
  run.op = "signin" \/ (run.op = "complete" /\ run.role = "daemon")

SaveAccount ==
  /\ AtStage("applied", Enrolments \cup {"start", "complete"})
  /\ account' = WithRoleKey(run.role, Saved(run.role))
  /\ run' = IF TouchesHosts THEN [run EXCEPT !.stage = "saved"] ELSE None
  /\ UNCHANGED <<hosts, named, relay, process, history>>

Drop(ks) ==
  /\ hosts' = hosts \ ks
  /\ named' = IF named \in ks THEN None ELSE named

(* Mutant: the row of the old key stays.                                   *)
RemoveNothing ==
  /\ AtStage("saved", {"complete"})
  /\ run' = [run EXCEPT !.stage = "removed"]
  /\ UNCHANGED <<store, relay, process, history>>

(* removeKnownHost(account.label), on the way to the row of the new key.   *)
RemoveNamed ==
  /\ AtStage("saved", {"complete"})
  /\ Drop({named})
  /\ run' = [run EXCEPT !.stage = "removed"]
  /\ UNCHANGED <<account, relay, process, history>>

(* savePublicKnownHost: the row takes the label if no other row has it.    *)
SaveHost ==
  /\ \/ AtStage("removed", {"complete"})
     \/ AtStage("saved", {"signin"}) /\ run.role = "daemon"
  /\ hosts' = hosts \cup {run.key}
  /\ named' = IF named \in {None, run.key} THEN run.key ELSE named
  /\ run' = None
  /\ UNCHANGED <<account, relay, process, history>>

(* mergeAccountDaemons: rows follow the relay's listing; one of the added  *)
(* rows takes the label if it is free.                                     *)
Merged ==
  LET listed == {k \in DaemonKeys : Accepted(k)} IN
  /\ hosts' = listed
  /\ IF named \in listed THEN named' = named
     ELSE \/ named' \in listed \ hosts
          \/ listed \subseteq hosts /\ named' = None

Merge ==
  /\ \/ AtStage("applied", {"merge"})
     \/ AtStage("saved", {"signin"}) /\ run.role = "client"
  /\ Merged
  /\ run' = None
  /\ UNCHANGED <<account, relay, process, history>>

DropRevoked ==
  /\ AtStage("applied", {"revoke"})
  /\ Drop({run.key})
  /\ run' = None
  /\ UNCHANGED <<account, relay, process, history>>

ClearAccount ==
  /\ AtStage("applied", {"delete"})
  /\ account' = [role \in Roles |-> None]
  /\ run' = [run EXCEPT !.stage = "saved"]
  /\ UNCHANGED <<hosts, named, relay, process, history>>

ClearHosts ==
  /\ AtStage("saved", {"delete"})
  /\ Drop(hosts)
  /\ run' = None
  /\ UNCHANGED <<account, relay, process, history>>

(* Refused, or not to be reached; nothing was done.                        *)
Refused ==
  /\ run # None /\ run.stage = "posted"
  /\ run' = None
  /\ UNCHANGED <<store, relay, process, history>>

(* A merge that fails changes nothing; after a client's signin that is not *)
(* a failure of the signin.                                                *)
NoMerge ==
  /\ \/ AtStage("applied", {"merge"})
     \/ AtStage("saved", {"signin"}) /\ run.role = "client"
  /\ run' = None
  /\ UNCHANGED <<store, relay, process, history>>

(* The answer is lost, or times out, or the process is killed.             *)
CutShort ==
  /\ run # None /\ run.stage # "posted" /\ run.op # "merge"
  /\ ~(run.op = "signin" /\ run.role = "client" /\ run.stage = "saved")
  /\ run' = None
  /\ orphaned' = IF run.op = "start" THEN orphaned \cup {run.signer} ELSE orphaned
  /\ untidy' = TRUE /\ Mishap
  /\ UNCHANGED <<store, relay, process>>

(* `pty-relay reset` wipes the config directory and tells nobody.          *)
LocalReset ==
  /\ run = None
  /\ account' = [role \in Roles |-> None]
  /\ hosts' = {} /\ named' = None
  /\ untidy' = TRUE /\ Mishap
  /\ UNCHANGED <<relay, run, process, orphaned>>
-----------------------------------------------------------------------------
(* The public daemon.                                                      *)

DaemonStarts ==
  /\ daemon \in {"off", "exited"} /\ account["daemon"] # None
  /\ daemon' = "dialling" /\ signs' = account["daemon"].key
  /\ UNCHANGED <<store, relay, run, history>>

DialAccepted ==
  /\ daemon = "dialling" /\ Accepted(signs)
  /\ daemon' = "up"
  /\ UNCHANGED <<store, relay, run, signs, history>>

DialRejected ==
  /\ daemon = "dialling" /\ ~Accepted(signs)
  /\ daemon' = "waiting"
  /\ UNCHANGED <<store, relay, run, signs, history>>

PrimaryBreaks ==
  /\ daemon \in {"dialling", "up"}
  /\ daemon' = "waiting"
  /\ UNCHANGED <<store, relay, run, signs, history>>

(* Mutant: the daemon dials again with the key it started with.            *)
NotReloaded == signs

(* reloadState, which keeps the last key when the record has none now.     *)
Reloaded == IF account["daemon"] = None THEN signs ELSE account["daemon"].key

Redial ==
  /\ daemon = "waiting"
  /\ daemon' = "dialling" /\ signs' = Reloaded
  /\ UNCHANGED <<store, relay, run, history>>

(* The revoked frame and close code 4001: the process exits.               *)
RevokedFrame ==
  /\ daemon = "up" /\ status[signs] = "revoked"
  /\ daemon' = "exited" /\ signs' = None
  /\ UNCHANGED <<store, relay, run, history>>

DaemonStops ==
  /\ daemon \in {"dialling", "up", "waiting"}
  /\ daemon' = "off" /\ signs' = None
  /\ UNCHANGED <<store, relay, run, history>>
-----------------------------------------------------------------------------
Begin ==
  \/ \E k \in Keys : SigninDaemon(k) \/ SigninClient(k) \/ Join(k)
  \/ \E role \in Roles, k \in Keys, age \in Age : RotateStart(role, k, age)
  \/ \E role \in Roles, age \in Age : RotateComplete(role, age)
  \/ \E k \in Keys : Revoke(k)
  \/ DeleteAccount
  \/ MergeHosts

Continue ==
  \/ SaveAccount \/ RemoveNamed \/ SaveHost \/ Merge \/ DropRevoked
  \/ ClearAccount \/ ClearHosts
  \/ Refused \/ NoMerge \/ CutShort

Relay ==
  \/ RelayApplies \/ ServerReset
  \/ \E k \in Keys : Lapses(k) \/ RevokedElsewhere(k)

DaemonSteps ==
  \/ DaemonStarts \/ DialAccepted \/ DialRejected \/ PrimaryBreaks \/ Redial
  \/ RevokedFrame \/ DaemonStops

Next == Begin \/ Continue \/ Relay \/ LocalReset \/ DaemonSteps

Spec == Init /\ [][Next]_vars

(* The timer of onClose fires, the relay answers a dial it refuses, and a  *)
(* dial it would accept gets through if it is tried for ever.              *)
Fairness == WF_vars(Redial) /\ WF_vars(DialRejected) /\ SF_vars(DialAccepted)
FairSpec == Spec /\ Fairness
-----------------------------------------------------------------------------
TypeOK ==
  /\ account \in [Roles -> Identity \cup {None}]
  /\ \A role \in Roles : Own(role) \subseteq KeysOf(role)
  /\ hosts \subseteq DaemonKeys /\ named \in hosts \cup {None}
  /\ status \in [Keys -> {"unknown", "active", "deprecated", "revoked"}]
  /\ run \in Command \cup {None}
  /\ daemon \in {"off", "dialling", "up", "waiting", "exited"}
  /\ signs \in DaemonKeys \cup {None}
  /\ signs = None <=> daemon \in {"off", "exited"}
  /\ byHand \subseteq Known /\ orphaned \subseteq Keys
  /\ untidy \in BOOLEAN /\ mishaps \in 0..MaxMishaps

(* At every moment, between any two writes and after any crash, each role  *)
(* the record names holds a key the relay accepts, as its key or as the    *)
(* new key of a pending rotation, unless one of them was revoked by hand   *)
(* or the device never heard that its rotation had begun (rotate.ts).      *)
HoldsLiveKey ==
  \A role \in Roles :
    account[role] # None =>
      \/ \E k \in Own(role) : Accepted(k)
      \/ Own(role) \cap (byHand \cup orphaned) # {}

(* Known hosts follow the daemon's key: after every command that was not   *)
(* cut short the row with the account's label is the one of the accepted   *)
(* daemon key, and no row is left of a key the relay revoked in favour of  *)
(* another (rotate.ts, revoke.ts, hosts.ts).                               *)
HostsFollow ==
  run = None /\ ~untidy =>
    /\ account["daemon"] # None /\ Accepted(account["daemon"].key)
         => named = account["daemon"].key
    /\ \A k \in hosts :
         status[k] = "revoked" => k \in byHand \cup Own("daemon")

(* A daemon that lost its primary comes back while the record holds a key  *)
(* the relay accepts, although the key it held in memory was replaced by a *)
(* rotation in the meantime (server/start.ts:309-316).                     *)
DaemonComesBack ==
  []<>~(/\ daemon \in {"waiting", "dialling"}
        /\ account["daemon"] # None
        /\ Accepted(account["daemon"].key))
=============================================================================
