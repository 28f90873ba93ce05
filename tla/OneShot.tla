------------------------------- MODULE OneShot -------------------------------
(***************************************************************************)
(* The commands that ask one question of a session host and end: ls, peek, *)
(* send, tag and kill (commands/*.ts).  Each resolves its host, then makes *)
(* one request: to a self-hosted daemon through one tunnel, to a daemon on *)
(* a public relay through up to MaxAttempts tunnels, one after the other   *)
(* (relay-client.ts), or through a child `ssh` (transport-ssh.ts).  `ls`   *)
(* asks all known hosts at once.  At the other end a daemon carries the    *)
(* request out (start-shared.ts), whether or not the client is still there.*)
(***************************************************************************)
EXTENDS Naturals, FiniteSets

CONSTANTS
  Hosts,        (* the known hosts                                         *)
  MaxAttempts   (* maxAttempts of sendPublicRemoteCommand                  *)

ASSUME OneShotAttempts == MaxAttempts \in Nat \ {0}

Attempts == 1..MaxAttempts
Errors == {"unresolved", "unsupported", "refused", "rejected4xx",
           "rejected5xx", "connection", "closed", "handshake", "timeout",
           "decrypt", "remote", "response", "ssh"}

VARIABLES
  op,        (* the command                                                *)
  access,    (* how each host is reached, as resolveHost finds it          *)
  stage,     (* what the call to each host is doing                        *)
  outcome,   (* how it ended                                               *)
  attempt,   (* the attempt it is at                                       *)
  tun,       (* the tunnel of that attempt                                 *)
  job,       (* the request of every attempt, at the host                  *)
  heard,     (* history: attempts whose answer reached the client          *)
  carried    (* history: attempts the host began to carry out              *)

call == <<stage, outcome, attempt>>
vars == <<op, access, call, tun, job, heard, carried>>

Tunnels == [ws : {"opening", "open", "closing", "closed"},
            noise : {"none", "hello", "transport"},
            timer : BOOLEAN]

TypeOK ==
  /\ op \in {"none", "ls", "peek", "send", "tag", "kill", "events"}
  /\ access \in [Hosts -> {"self", "public", "ssh", "none"}]
  /\ stage \in [Hosts -> {"idle", "tunnel", "backoff", "ssh", "done"}]
  /\ outcome \in [Hosts -> Errors \cup {"none", "ok"}]
  /\ attempt \in [Hosts -> Attempts]
  /\ tun \in [Hosts -> Tunnels]
  /\ job \in [Hosts -> [Attempts -> {"none", "sent", "running", "answered",
                                     "failed", "odd", "over"}]]
  /\ heard \in [Hosts -> SUBSET Attempts]
  /\ carried \in [Hosts -> SUBSET Attempts]

NoTunnel == [ws |-> "closed", noise |-> "none", timer |-> FALSE]

Init ==
  /\ op = "none"
  /\ access \in [Hosts -> {"self", "public", "ssh", "none"}]
  /\ stage = [h \in Hosts |-> "idle"] /\ outcome = [h \in Hosts |-> "none"]
  /\ attempt = [h \in Hosts |-> 1] /\ tun = [h \in Hosts |-> NoTunnel]
  /\ job = [h \in Hosts |-> [k \in Attempts |-> "none"]]
  /\ heard = [h \in Hosts |-> {}] /\ carried = [h \in Hosts |-> {}]

-----------------------------------------------------------------------------
(* The start of a command.                                                 *)

(* new WebSocket and the timer of sendOverTunnel.                          *)
Fresh == [ws |-> "opening", noise |-> "none", timer |-> TRUE]

(* resolveHost: an unknown label, or a public host without the client key  *)
(* or on another relay, throws; kill exists for ssh only.                  *)
Unable(o, h) ==
  IF access[h] = "none" THEN "unresolved"
  ELSE IF o = "kill" /\ access[h] # "ssh" THEN "unsupported" ELSE "none"

(* The calls of a command, to all its hosts at once.                       *)
Starts(o, targets) ==
  /\ op = "none" /\ op' = o
  /\ outcome' = [h \in Hosts |-> IF h \in targets THEN Unable(o, h) ELSE "none"]
  /\ stage' = [h \in Hosts |->
       IF h \notin targets \/ outcome'[h] # "none" THEN "done"
       ELSE IF access[h] = "ssh" THEN "ssh" ELSE "tunnel"]
  /\ tun' = [h \in Hosts |-> IF stage'[h] = "tunnel" THEN Fresh ELSE NoTunnel]
  /\ job' = [h \in Hosts |-> IF stage'[h] = "ssh"
                             THEN [job[h] EXCEPT ![1] = "sent"] ELSE job[h]]
  /\ UNCHANGED <<access, attempt, heard, carried>>

(* ls asks every known host; one that cannot be asked has its row anyway.  *)
Ls == Starts("ls", Hosts)
Peek == \E h \in Hosts : Starts("peek", {h})
Send == \E h \in Hosts : Starts("send", {h})
Tag == \E h \in Hosts : Starts("tag", {h})
Kill == \E h \in Hosts : Starts("kill", {h})

Ended == op # "none" /\ \A h \in Hosts : stage[h] = "done"

-----------------------------------------------------------------------------
(* One call, at its present attempt.                                       *)

(* The failures that sendPublicRemoteCommand tries again.                  *)
Transient == {"connection", "closed", "handshake", "timeout", "rejected5xx"}

(* Mutant: an error of the daemon counts as a failed transport.            *)
TriesAgainAlways(h, err) == access[h] = "public" /\ attempt[h] < MaxAttempts

TriesAgain(h, err) ==
  access[h] = "public" /\ err \in Transient /\ attempt[h] < MaxAttempts

(* reject(err).  The row of ls has the error; any other command exits.     *)
Rejects(h, err) ==
  /\ IF TriesAgain(h, err)
     THEN stage' = [stage EXCEPT ![h] = "backoff"] /\ UNCHANGED outcome
     ELSE /\ stage' = [stage EXCEPT ![h] = "done"]
          /\ outcome' = [outcome EXCEPT ![h] = err]
  /\ UNCHANGED attempt

(* ws.close() and clearTimeout.                                            *)
Shut(t) == [t EXCEPT !.timer = FALSE,
                     !.ws = IF @ = "closed" THEN @ ELSE "closing"]
Tunnel(h, t) == tun' = [tun EXCEPT ![h] = t]

Calling(h) == stage[h] = "tunnel"
Hears(h) == Calling(h) /\ tun[h].ws = "open"
AtHost == <<op, access, job, heard, carried>>

WsOpens(h) ==
  /\ Calling(h) /\ tun[h].ws = "opening"
  /\ Tunnel(h, [tun[h] EXCEPT !.ws = "open"])
  /\ UNCHANGED <<call, AtHost>>

(* unexpected-response: the relay answers the upgrade with a status.       *)
UpgradeRejected(h) ==
  /\ Calling(h) /\ tun[h].ws = "opening"
  /\ Tunnel(h, [tun[h] EXCEPT !.ws = "closed", !.timer = FALSE])
  /\ \E err \in {"rejected4xx", "rejected5xx"} : Rejects(h, err)
  /\ UNCHANGED AtHost

(* onerror, at any time.                                                   *)
WsFails(h) ==
  /\ Calling(h) /\ tun[h].ws \in {"opening", "open"}
  /\ Tunnel(h, [tun[h] EXCEPT !.ws = "closed", !.timer = FALSE])
  /\ Rejects(h, "connection")
  /\ UNCHANGED AtHost

(* Mutant: every close stops the timer, and only an early one rejects.     *)
CloseStopsTimer(h) ==
  /\ Calling(h) /\ tun[h].ws = "open"
  /\ Tunnel(h, [tun[h] EXCEPT !.ws = "closed", !.timer = FALSE])
  /\ IF tun[h].noise = "none" THEN Rejects(h, "closed") ELSE UNCHANGED call
  /\ UNCHANGED AtHost

(* onclose without an error.  After `paired` nobody is told: the timer is  *)
(* what ends the call.                                                     *)
WsCloses(h) ==
  /\ Calling(h) /\ tun[h].ws = "open"
  /\ IF tun[h].noise = "none"
     THEN Tunnel(h, [tun[h] EXCEPT !.ws = "closed", !.timer = FALSE]) /\ Rejects(h, "closed")
     ELSE Tunnel(h, [tun[h] EXCEPT !.ws = "closed"]) /\ UNCHANGED call
  /\ UNCHANGED AtHost

TimesOut(h) ==
  /\ Calling(h) /\ tun[h].timer
  /\ Tunnel(h, Shut(tun[h])) /\ Rejects(h, "timeout")
  /\ UNCHANGED AtHost

(* Text frames.  `paired` starts a handshake, whatever came before.        *)
Paired(h) ==
  /\ Hears(h) /\ tun[h].noise = "none"
  /\ Tunnel(h, [tun[h] EXCEPT !.noise = "hello"])
  /\ UNCHANGED <<call, AtHost>>

(* waiting_for_approval, error, revoked: at any time, also after `paired`. *)
Refused(h) ==
  /\ Hears(h)
  /\ Tunnel(h, Shut(tun[h])) /\ Rejects(h, "refused")
  /\ UNCHANGED AtHost

(* The first binary frame completes the handshake; the request goes out.   *)
Welcome(h) ==
  /\ Hears(h) /\ tun[h].noise = "hello"
  /\ Tunnel(h, [tun[h] EXCEPT !.noise = "transport"])
  /\ job' = [job EXCEPT ![h][attempt[h]] = "sent"]
  /\ UNCHANGED <<call, op, access, heard, carried>>

BadWelcome(h) ==
  /\ Hears(h) /\ tun[h].noise = "hello"
  /\ Tunnel(h, Shut(tun[h])) /\ Rejects(h, "handshake")
  /\ UNCHANGED AtHost

BadFrame(h) ==
  /\ Hears(h) /\ tun[h].noise = "transport"
  /\ Tunnel(h, Shut(tun[h])) /\ Rejects(h, "decrypt")
  /\ UNCHANGED AtHost

(* Mutant: any first reply, `approved` too, resolves the call.             *)
AnyReply(h) == job[h][attempt[h]] # "none"

(* `approved` is let pass; the first other reply is the answer.            *)
Reply(h) == job[h][attempt[h]] \in {"answered", "failed", "odd"}

(* What the wrappers make of it: its type is checked.                      *)
Verdict(h) == CASE job[h][attempt[h]] = "failed" -> "remote"
                [] job[h][attempt[h]] = "odd" -> "response"
                [] OTHER -> "ok"
Resolves(h) ==
  /\ stage' = [stage EXCEPT ![h] = "done"]
  /\ outcome' = [outcome EXCEPT ![h] = "ok"] /\ UNCHANGED attempt

Answer(h) ==
  /\ Hears(h) /\ tun[h].noise = "transport" /\ Reply(h)
  /\ heard' = [heard EXCEPT ![h] = @ \cup {attempt[h]}]
  /\ Tunnel(h, Shut(tun[h]))
  /\ IF Verdict(h) = "ok" THEN Resolves(h) ELSE Rejects(h, Verdict(h))
  /\ UNCHANGED <<op, access, job, carried>>
AnswerSelf(h) == access[h] = "self" /\ Answer(h)
AnswerPublic(h) == access[h] = "public" /\ Answer(h)

(* After the backoff: a fresh URL and a fresh tunnel.                      *)
Retries(h) ==
  /\ stage[h] = "backoff"
  /\ stage' = [stage EXCEPT ![h] = "tunnel"]
  /\ attempt' = [attempt EXCEPT ![h] = @ + 1] /\ Tunnel(h, Fresh)
  /\ UNCHANGED <<outcome, AtHost>>

-----------------------------------------------------------------------------
(* ssh: one child process, killed after its timeout.                       *)

SshEnds(h, res) ==
  /\ stage[h] = "ssh"
  /\ stage' = [stage EXCEPT ![h] = "done"]
  /\ outcome' = [outcome EXCEPT ![h] = res]
  /\ UNCHANGED <<op, access, attempt, tun, job, carried>>

(* The remote pty exits with 0, and its output can be parsed; or not.      *)
SshAnswers(h) ==
  /\ job[h][1] \in {"answered", "failed", "odd"}
  /\ heard' = [heard EXCEPT ![h] = {1}]
  /\ SshEnds(h, IF job[h][1] = "answered" THEN "ok" ELSE "ssh")

(* No connection, no pty on the other side, or the 15 s are over.          *)
SshFails(h) == SshEnds(h, "ssh") /\ UNCHANGED heard

-----------------------------------------------------------------------------
(* The host: handleSessionControlMessage, or `pty` under sshd.             *)

AtClient == <<op, access, call, tun, heard>>
Job(h, k, j) == job' = [job EXCEPT ![h][k] = j]

(* The request arrives, even if the client has given up by then.           *)
Carries(h, k) ==
  /\ job[h][k] = "sent" /\ Job(h, k, "running")
  /\ carried' = [carried EXCEPT ![h] = @ \cup {k}]
  /\ UNCHANGED AtClient

(* The request is lost with its tunnel, or is not valid for the host.      *)
Lost(h, k) == job[h][k] = "sent" /\ Job(h, k, "over") /\ UNCHANGED <<AtClient, carried>>
Invalid(h, k) == job[h][k] = "sent" /\ Job(h, k, "failed") /\ UNCHANGED <<AtClient, carried>>

(* The session list, the screen (a --wait polls for it), the keys or the   *)
(* tags: done, or an error.                                                *)
Finishes(h, k) ==
  /\ job[h][k] = "running"
  /\ \E j \in {"answered", "failed", "odd"} : Job(h, k, j)
  /\ UNCHANGED <<AtClient, carried>>

(* reply() for a client that is gone: swallowed.                           *)
ReplyLost(h, k) ==
  /\ job[h][k] \in {"answered", "failed", "odd"} /\ Job(h, k, "over")
  /\ UNCHANGED <<AtClient, carried>>

-----------------------------------------------------------------------------
Client(h) ==
  \/ WsOpens(h) \/ UpgradeRejected(h) \/ WsFails(h) \/ WsCloses(h)
  \/ TimesOut(h) \/ Paired(h) \/ Refused(h) \/ Welcome(h) \/ BadWelcome(h)
  \/ BadFrame(h) \/ AnswerSelf(h) \/ AnswerPublic(h) \/ Retries(h)
  \/ SshAnswers(h) \/ SshFails(h)
Host(h) ==
  \E k \in Attempts : Carries(h, k) \/ Lost(h, k) \/ Invalid(h, k)
                      \/ Finishes(h, k) \/ ReplyLost(h, k)
Next ==
  \/ Ls \/ Peek \/ Send \/ Tag \/ Kill
  \/ \E h \in Hosts : Client(h) \/ Host(h)

(* The timers fire: of the tunnel, of the backoff, of execFile.            *)
Fairness ==
  /\ WF_vars(Ls \/ Peek \/ Send \/ Tag \/ Kill)
  /\ \A h \in Hosts : WF_vars(TimesOut(h)) /\ WF_vars(Retries(h)) /\ WF_vars(SshFails(h))

Spec == Init /\ [][Next]_vars /\ Fairness

-----------------------------------------------------------------------------
(* Properties.                                                             *)

(* A request goes out again only when no answer to it reached the client,  *)
(* not even one that says no; and only through a public relay.  So a send  *)
(* or a tag is carried out once over ssh and for a self-hosted daemon.     *)
RepeatsOnlyUnheard ==
  \A h \in Hosts :
    /\ \A k \in heard[h] : attempt[h] <= k /\ stage[h] = "done"
    /\ access[h] # "public" => carried[h] \subseteq {1}

(* A success that is shown was carried out by the host, in the attempt     *)
(* that was answered: never the leftover of an earlier one.                *)
SuccessIsReal ==
  \A h \in Hosts : outcome[h] = "ok" =>
    attempt[h] \in heard[h] /\ attempt[h] \in carried[h]

(* Every command ends, whatever the network and the host do.               *)
EveryCallEnds == <>Ended
=============================================================================
