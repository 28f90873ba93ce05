-------------------------- MODULE EventsFeed_proofs --------------------------
(***************************************************************************)
(* Theorems about the client commands that ask one question (OneShot) and  *)
(* about the events feed (EventsFeed), for any hosts, connections and      *)
(* bounds on attempts: what is asked again, what a success means, and what *)
(* a feed keeps open here and at the daemon.                               *)
(***************************************************************************)
EXTENDS EventsFeed, TLAPS

Jobs == {"none", "sent", "running", "answered", "failed", "odd", "over"}

(* What becomes of one host's call: nothing is known of attempts to come,  *)
(* an answer that was made was carried out, and an answer that was heard   *)
(* ended the call, which had no outcome before its end.                    *)
CallInv(h) ==
  /\ \A k \in Attempts : k > attempt[h] => job[h][k] = "none"
  /\ \A k \in Attempts : job[h][k] = "none" => k \notin carried[h]
  /\ \A k \in Attempts : job[h][k] \in {"running", "answered", "odd"}
                           => k \in carried[h]
  /\ heard[h] \subseteq {attempt[h]}
  /\ stage[h] # "done" => heard[h] = {} /\ outcome[h] = "none"
  /\ access[h] # "public" => attempt[h] = 1
  /\ stage[h] = "ssh" => access[h] = "ssh"
  /\ stage[h] = "backoff" => access[h] = "public" /\ attempt[h] < MaxAttempts
  /\ outcome[h] = "ok" => attempt[h] \in heard[h] /\ attempt[h] \in carried[h]

(* Before the command starts.                                              *)
NotYet ==
  op = "none" => \A h \in Hosts : stage[h] = "idle" /\ heard[h] = {}

CallsInv == TypeOK /\ NotYet /\ \A h \in Hosts : CallInv(h)

-----------------------------------------------------------------------------
LEMMA AttemptOne == 1 \in Attempts /\ Attempts \subseteq Nat /\ MaxAttempts \in Attempts
BY OneShotAttempts DEF Attempts

LEMMA CallsBegin == Init => CallsInv
BY AttemptOne DEF Init, CallsInv, TypeOK, NotYet, CallInv, NoTunnel, Tunnels, Attempts

(* A command starts its calls.                                             *)
LEMMA CallsStart ==
  ASSUME CallsInv, NEW o \in {"ls", "peek", "send", "tag", "kill"},
         NEW targets, Starts(o, targets)
  PROVE  CallsInv'
<1>1. \A h \in Hosts : /\ outcome'[h] \in {"none", "unresolved", "unsupported"}
                       /\ stage'[h] \in {"done", "ssh", "tunnel"}
                       /\ stage'[h] # "done" => outcome'[h] = "none"
                       /\ stage'[h] = "ssh" => access[h] = "ssh"
  BY DEF Starts, Unable
<1>2. NoTunnel \in Tunnels /\ Fresh \in Tunnels
  BY DEF NoTunnel, Fresh, Tunnels
<1>3. job \in [Hosts -> [Attempts -> Jobs]] /\ job' \in [Hosts -> [Attempts -> Jobs]]
  BY AttemptOne DEF Starts, CallsInv, TypeOK, Jobs
<1>4. TypeOK'
  BY <1>1, <1>2, <1>3 DEF Starts, CallsInv, TypeOK, Errors, Jobs
<1>5. NotYet'
  BY DEF Starts, NotYet
<1>6. ASSUME NEW h \in Hosts PROVE CallInv(h)'
  <2>1. /\ heard[h] = {} /\ heard' = heard /\ carried' = carried
        /\ attempt' = attempt /\ access' = access /\ attempt[h] \in Attempts
    BY DEF Starts, CallsInv, NotYet, TypeOK
  <2>2. \A k \in Attempts : /\ job'[h][k] \in {"running", "answered", "odd"}
                                 => job'[h][k] = job[h][k]
                            /\ job'[h][k] = "none" => job[h][k] = "none"
                            /\ k > attempt[h] => job'[h][k] = job[h][k]
    BY <1>3, <2>1, AttemptOne DEF Starts, Jobs, Attempts
  <2>. QED  BY <1>1, <2>1, <2>2 DEF CallsInv, CallInv
<1>. QED  BY <1>4, <1>5, <1>6 DEF CallsInv

-----------------------------------------------------------------------------
(* What a handler of a call may make of the types of its variables.         *)
LEMMA CallTypes ==
  ASSUME CallsInv, NEW h \in Hosts,
         NEW st \in {"idle", "tunnel", "backoff", "ssh", "done"},
         NEW res \in Errors \cup {"none", "ok"}, NEW n \in Attempts, NEW t \in Tunnels,
         stage' = stage \/ stage' = [stage EXCEPT ![h] = st],
         outcome' = outcome \/ outcome' = [outcome EXCEPT ![h] = res],
         attempt' = attempt \/ attempt' = [attempt EXCEPT ![h] = n],
         tun' = tun \/ tun' = [tun EXCEPT ![h] = t],
         job' \in [Hosts -> [Attempts -> Jobs]],
         heard' \in [Hosts -> SUBSET Attempts], carried' \in [Hosts -> SUBSET Attempts],
         UNCHANGED <<op, access>>
  PROVE  TypeOK'
<1>1. stage' \in [Hosts -> {"idle", "tunnel", "backoff", "ssh", "done"}]
  BY DEF CallsInv, TypeOK
<1>2. outcome' \in [Hosts -> Errors \cup {"none", "ok"}]
  BY DEF CallsInv, TypeOK
<1>3. attempt' \in [Hosts -> Attempts]
  BY DEF CallsInv, TypeOK
<1>4. tun' \in [Hosts -> Tunnels]
  BY SMTT(30) DEF CallsInv, TypeOK
<1>5. op' = op /\ access' = access /\ TypeOK
  BY DEF CallsInv
<1>. QED  BY <1>1, <1>2, <1>3, <1>4, <1>5 DEF TypeOK, Jobs

LEMMA HistoryTypes ==
  ASSUME CallsInv
  PROVE  /\ job \in [Hosts -> [Attempts -> Jobs]]
         /\ heard \in [Hosts -> SUBSET Attempts] /\ carried \in [Hosts -> SUBSET Attempts]
         /\ \A h \in Hosts : attempt[h] \in Attempts /\ tun[h] \in Tunnels
BY DEF CallsInv, TypeOK, Jobs

(* A call that fails: it is tried again, or it is over with its error.     *)
LEMMA CallFails ==
  ASSUME CallsInv, NEW h \in Hosts, NEW err \in Errors, NEW t \in Tunnels,
         Calling(h), Rejects(h, err), Tunnel(h, t), UNCHANGED AtHost
  PROVE  CallsInv'
<1>1. /\ stage[h] = "tunnel" /\ attempt' = attempt
      /\ \/ /\ stage' = [stage EXCEPT ![h] = "backoff"] /\ outcome' = outcome
            /\ access[h] = "public" /\ attempt[h] < MaxAttempts
         \/ stage' = [stage EXCEPT ![h] = "done"]
            /\ outcome' = [outcome EXCEPT ![h] = err]
  BY DEF Calling, Rejects, TriesAgain
<1>2. TypeOK'
  BY <1>1, HistoryTypes, CallTypes DEF Tunnel, AtHost
<1>3. NotYet'
  BY <1>1 DEF CallsInv, NotYet, AtHost
<1>4. err # "ok"
  BY DEF Errors
<1>5. ASSUME NEW g \in Hosts PROVE CallInv(g)'
  BY <1>1, <1>4 DEF CallsInv, TypeOK, CallInv, AtHost
<1>. QED  BY <1>2, <1>3, <1>5 DEF CallsInv

(* A step of the tunnel that moves only the tunnel.                        *)
LEMMA TunnelMoves ==
  ASSUME CallsInv, NEW h \in Hosts, NEW t \in Tunnels, Tunnel(h, t),
         UNCHANGED <<call, AtHost>>
  PROVE  CallsInv'
BY DEF CallsInv, TypeOK, NotYet, CallInv, Tunnel, AtHost, call

LEMMA TunnelTyped ==
  ASSUME CallsInv, NEW h \in Hosts
  PROVE  /\ tun[h] \in Tunnels /\ Shut(tun[h]) \in Tunnels /\ Fresh \in Tunnels
         /\ \A s \in {"opening", "open", "closing", "closed"} :
              [tun[h] EXCEPT !.ws = s] \in Tunnels
         /\ \A n \in {"none", "hello", "transport"} :
              [tun[h] EXCEPT !.noise = n] \in Tunnels
         /\ [tun[h] EXCEPT !.ws = "closed", !.timer = FALSE] \in Tunnels
<1>1. tun[h] \in Tunnels
  BY DEF CallsInv, TypeOK
<1>2. \A t \in Tunnels :
        /\ \A s \in {"opening", "open", "closing", "closed"} : [t EXCEPT !.ws = s] \in Tunnels
        /\ \A n \in {"none", "hello", "transport"} : [t EXCEPT !.noise = n] \in Tunnels
        /\ [t EXCEPT !.ws = "closed", !.timer = FALSE] \in Tunnels
        /\ Shut(t) \in Tunnels
  BY DEF Tunnels, Shut
<1>3. Fresh \in Tunnels
  BY DEF Fresh, Tunnels
<1>. QED  BY <1>1, <1>2, <1>3

(* The events of a tunnel.                                                 *)
LEMMA ClientKeeps ==
  ASSUME CallsInv, NEW h \in Hosts, Client(h)
  PROVE  CallsInv'
<1>1. ASSUME WsOpens(h) \/ Paired(h) PROVE CallsInv'
  BY <1>1, TunnelTyped, TunnelMoves DEF WsOpens, Paired
<1>2. ASSUME UpgradeRejected(h) PROVE CallsInv'
  BY <1>2, TunnelTyped, CallFails DEF UpgradeRejected, Errors
<1>3. ASSUME WsFails(h) PROVE CallsInv'
  BY <1>3, TunnelTyped, CallFails DEF WsFails, Errors
<1>4. ASSUME WsCloses(h) PROVE CallsInv'
  <2>1. CASE tun[h].noise = "none"
    BY <1>4, <2>1, TunnelTyped, CallFails DEF WsCloses, Errors
  <2>2. CASE tun[h].noise # "none"
    BY <1>4, <2>2, TunnelTyped, TunnelMoves DEF WsCloses
  <2>. QED  BY <2>1, <2>2
<1>5. ASSUME TimesOut(h) PROVE CallsInv'
  BY <1>5, TunnelTyped, CallFails DEF TimesOut, Errors
<1>6. ASSUME Refused(h) \/ BadWelcome(h) \/ BadFrame(h) PROVE CallsInv'
  BY <1>6, TunnelTyped, CallFails DEF Refused, BadWelcome, BadFrame, Hears, Errors
<1>7. ASSUME Welcome(h) PROVE CallsInv'
  <2>1. /\ Tunnel(h, [tun[h] EXCEPT !.noise = "transport"])
        /\ job' = [job EXCEPT ![h][attempt[h]] = "sent"]
        /\ UNCHANGED <<op, access, stage, outcome, attempt, heard, carried>>
    BY <1>7 DEF Welcome, call
  <2>2. job \in [Hosts -> [Attempts -> Jobs]] /\ attempt[h] \in Attempts
    BY DEF CallsInv, TypeOK, Jobs
  <2>3. /\ job' \in [Hosts -> [Attempts -> Jobs]]
        /\ \A g \in Hosts, k \in Attempts :
             job'[g][k] = IF g = h /\ k = attempt[h] THEN "sent" ELSE job[g][k]
    BY <2>1, <2>2 DEF Jobs
  <2>4. TypeOK'
    BY <2>1, <2>3, HistoryTypes, TunnelTyped, CallTypes DEF Tunnel
  <2>5. NotYet'
    BY <2>1 DEF CallsInv, NotYet
  <2>6. ASSUME NEW g \in Hosts PROVE CallInv(g)'
    BY <2>1, <2>2, <2>3, AttemptOne DEF CallsInv, CallInv
  <2>. QED  BY <2>4, <2>5, <2>6 DEF CallsInv
<1>8. ASSUME AnswerSelf(h) \/ AnswerPublic(h) PROVE CallsInv'
  <2>1. /\ stage[h] = "tunnel" /\ Reply(h) /\ Tunnel(h, Shut(tun[h]))
        /\ heard' = [heard EXCEPT ![h] = @ \cup {attempt[h]}]
        /\ UNCHANGED <<op, access, job, carried>>
        /\ IF Verdict(h) = "ok" THEN Resolves(h) ELSE Rejects(h, Verdict(h))
    BY <1>8 DEF AnswerSelf, AnswerPublic, Answer, Hears, Calling
  <2>2. /\ stage' = [stage EXCEPT ![h] = "done"] /\ attempt' = attempt
        /\ \E res \in {"ok", "remote", "response"} :
             /\ outcome' = [outcome EXCEPT ![h] = res]
             /\ res = "ok" => job[h][attempt[h]] = "answered"
    BY <2>1 DEF Verdict, Reply, Resolves, Rejects, TriesAgain, Transient
  <2>3. attempt[h] \in Attempts
    BY DEF CallsInv, TypeOK
  <2>4. heard[h] = {} /\ heard'[h] = {attempt[h]} /\ heard' \in [Hosts -> SUBSET Attempts]
    BY <2>1, <2>3 DEF CallsInv, CallInv, TypeOK
  <2>5. TypeOK'
    <3>1. "done" \in {"idle", "tunnel", "backoff", "ssh", "done"}
          /\ {"ok", "remote", "response"} \subseteq Errors \cup {"none", "ok"}
      BY DEF Errors
    <3>. QED  BY <2>1, <2>2, <2>4, <3>1, HistoryTypes, TunnelTyped, CallTypes DEF Tunnel
  <2>6. op # "none" /\ NotYet'
    BY <2>1 DEF CallsInv, NotYet
  <2>7. ASSUME NEW g \in Hosts PROVE CallInv(g)'
    <3>1. CASE g = h
      BY <2>1, <2>2, <2>3, <2>4, <3>1 DEF CallsInv, TypeOK, CallInv
    <3>2. CASE g # h
      BY <2>1, <2>2, <3>2 DEF CallsInv, TypeOK, CallInv
    <3>. QED  BY <3>1, <3>2
  <2>. QED  BY <2>5, <2>6, <2>7 DEF CallsInv
<1>9. ASSUME Retries(h) PROVE CallsInv'
  <2>1. /\ stage[h] = "backoff" /\ stage' = [stage EXCEPT ![h] = "tunnel"]
        /\ attempt' = [attempt EXCEPT ![h] = @ + 1] /\ Tunnel(h, Fresh)
        /\ UNCHANGED <<outcome, op, access, job, heard, carried>>
    BY <1>9 DEF Retries, AtHost
  <2>2. attempt[h] + 1 \in Attempts /\ attempt[h] \in Attempts
    BY <2>1, OneShotAttempts DEF CallsInv, TypeOK, CallInv, Attempts
  <2>3. TypeOK'
    BY <2>1, <2>2, HistoryTypes, TunnelTyped, CallTypes DEF Tunnel
  <2>4. NotYet'
    BY <2>1 DEF CallsInv, NotYet
  <2>5. ASSUME NEW g \in Hosts PROVE CallInv(g)'
    <3>1. CASE g = h
      <4>1. /\ attempt'[h] = attempt[h] + 1 /\ stage'[h] = "tunnel" /\ heard[h] = {}
            /\ access[h] = "public" /\ outcome[h] = "none"
        BY <2>1 DEF CallsInv, TypeOK, CallInv
      <4>2. attempt[h] \in Nat /\ Attempts \subseteq Nat
        BY <2>2, AttemptOne
      <4>3. CallInv(h)
        BY DEF CallsInv
      <4>4. \A k \in Attempts : k > attempt'[h] => job'[h][k] = "none"
        BY <2>1, <4>1, <4>2, <4>3 DEF CallInv
      <4>. QED  BY <2>1, <3>1, <4>1, <4>3, <4>4 DEF CallInv
    <3>2. CASE g # h
      BY <2>1, <3>2 DEF CallsInv, TypeOK, CallInv
    <3>. QED  BY <3>1, <3>2
  <2>. QED  BY <2>3, <2>4, <2>5 DEF CallsInv
<1>10. ASSUME SshAnswers(h) \/ SshFails(h) PROVE CallsInv'
  <2>1. /\ stage[h] = "ssh" /\ stage' = [stage EXCEPT ![h] = "done"]
        /\ UNCHANGED <<op, access, attempt, tun, job, carried>>
        /\ \/ /\ heard' = [heard EXCEPT ![h] = {1}]
              /\ \E res \in {"ok", "ssh"} :
                   /\ outcome' = [outcome EXCEPT ![h] = res]
                   /\ res = "ok" => job[h][1] = "answered"
           \/ heard' = heard /\ outcome' = [outcome EXCEPT ![h] = "ssh"]
    BY <1>10 DEF SshAnswers, SshFails, SshEnds
  <2>2. attempt[h] = 1
    BY <2>1 DEF CallsInv, CallInv
  <2>3. TypeOK'
    <3>1. heard' \in [Hosts -> SUBSET Attempts]
      BY <2>1, HistoryTypes, AttemptOne
    <3>2. {"ok", "ssh"} \subseteq Errors \cup {"none", "ok"}
      BY DEF Errors
    <3>. QED  BY <2>1, <3>1, <3>2, HistoryTypes, CallTypes
  <2>4. NotYet'
    BY <2>1 DEF CallsInv, NotYet
  <2>5. ASSUME NEW g \in Hosts PROVE CallInv(g)'
    <3>1. CASE g = h
      BY <2>1, <2>2, <3>1, AttemptOne DEF CallsInv, TypeOK, CallInv
    <3>2. CASE g # h
      BY <2>1, <3>2 DEF CallsInv, TypeOK, CallInv
    <3>. QED  BY <3>1, <3>2
  <2>. QED  BY <2>3, <2>4, <2>5 DEF CallsInv
<1>. QED
  BY <1>1, <1>2, <1>3, <1>4, <1>5, <1>6, <1>7, <1>8, <1>9, <1>10 DEF Client

(* What happens to a request at its host.                                  *)
LEMMA HostKeeps ==
  ASSUME CallsInv, NEW h \in Hosts, Host(h)
  PROVE  CallsInv'
<1>1. PICK k \in Attempts : Carries(h, k) \/ Lost(h, k) \/ Invalid(h, k)
                            \/ Finishes(h, k) \/ ReplyLost(h, k)
  BY DEF Host
<1>2. /\ job[h][k] # "none"
      /\ \E j \in Jobs \ {"none"} :
           /\ job' = [job EXCEPT ![h][k] = j]
           /\ j \in {"running", "answered", "odd"} => k \in carried'[h]
      /\ carried' = carried \/ carried' = [carried EXCEPT ![h] = @ \cup {k}]
      /\ UNCHANGED <<op, access, stage, outcome, attempt, tun, heard>>
  <2>1. /\ UNCHANGED <<op, access, stage, outcome, attempt, tun, heard>> /\ job[h][k] # "none"
        /\ \/ carried' = carried
           \/ carried' = [carried EXCEPT ![h] = @ \cup {k}]
              /\ job' = [job EXCEPT ![h][k] = "running"]
    BY <1>1 DEF Carries, Lost, Invalid, Finishes, ReplyLost, Job, AtClient, call
  <2>2. carried' = carried =>
          \E j \in Jobs \ {"none"} :
             /\ job' = [job EXCEPT ![h][k] = j]
             /\ j \in {"running", "answered", "odd"} => k \in carried[h]
    <3>1. ASSUME Carries(h, k), carried' = carried
          PROVE  job' = [job EXCEPT ![h][k] = "running"] /\ k \in carried[h]
      BY <3>1, HistoryTypes DEF Carries, Job
    <3>2. Lost(h, k) \/ Invalid(h, k) \/ ReplyLost(h, k) =>
            \E j \in {"over", "failed"} : job' = [job EXCEPT ![h][k] = j]
      BY DEF Lost, Invalid, ReplyLost, Job
    <3>3. Finishes(h, k) => /\ k \in carried[h]
                            /\ \E j \in {"answered", "failed", "odd"} :
                                 job' = [job EXCEPT ![h][k] = j]
      BY DEF Finishes, Job, CallsInv, CallInv
    <3>. QED  BY <1>1, <3>1, <3>2, <3>3 DEF Jobs
  <2>3. carried' # carried => k \in carried'[h]
    BY <2>1, HistoryTypes
  <2>4. CASE carried' = carried
    <3>1. PICK j \in Jobs \ {"none"} :
            /\ job' = [job EXCEPT ![h][k] = j]
            /\ j \in {"running", "answered", "odd"} => k \in carried[h]
      BY <2>2, <2>4
    <3>2. j \in {"running", "answered", "odd"} => k \in carried'[h]
      BY <2>4, <3>1
    <3>. QED  BY <2>1, <2>4, <3>1, <3>2
  <2>5. CASE carried' # carried
    <3>1. "running" \in Jobs \ {"none"} /\ job' = [job EXCEPT ![h][k] = "running"]
      BY <2>1, <2>5 DEF Jobs
    <3>. QED  BY <2>1, <2>3, <2>5, <3>1
  <2>. QED  BY <2>4, <2>5
<1>3. /\ job \in [Hosts -> [Attempts -> Jobs]] /\ carried \in [Hosts -> SUBSET Attempts]
  BY DEF CallsInv, TypeOK, Jobs
<1>4. job' \in [Hosts -> [Attempts -> Jobs]] /\ carried' \in [Hosts -> SUBSET Attempts]
  BY <1>2, <1>3
<1>5. TypeOK'
  BY <1>2, <1>4 DEF CallsInv, TypeOK, Jobs
<1>6. NotYet'
  BY <1>2 DEF CallsInv, NotYet
<1>7. ASSUME NEW g \in Hosts PROVE CallInv(g)'
  <2>1. CASE g = h
    BY <1>2, <1>3, <2>1 DEF CallsInv, CallInv
  <2>2. CASE g # h
    BY <1>2, <1>3, <2>2 DEF CallsInv, CallInv
  <2>. QED  BY <2>1, <2>2
<1>. QED  BY <1>5, <1>6, <1>7 DEF CallsInv

LEMMA CallsStep == CallsInv /\ [Next]_vars => CallsInv'
<1> SUFFICES ASSUME CallsInv, [Next]_vars PROVE CallsInv'
  OBVIOUS
<1>1. CASE Ls \/ Peek \/ Send \/ Tag \/ Kill
  BY <1>1, CallsStart DEF Ls, Peek, Send, Tag, Kill
<1>2. ASSUME NEW h \in Hosts, Client(h) \/ Host(h) PROVE CallsInv'
  BY <1>2, ClientKeeps, HostKeeps
<1>3. CASE UNCHANGED vars
  BY <1>3 DEF CallsInv, TypeOK, NotYet, CallInv, vars, call
<1>. QED  BY <1>1, <1>2, <1>3 DEF Next

-----------------------------------------------------------------------------
(* A feed's connections: a closed socket is a blank one, only a feed that  *)
(* is in its tunnel has another, and the daemon's side of a connection     *)
(* that has heard nothing yet is blank.                                    *)
SocketsInv ==
  /\ \A c \in Conns : sock[c].ws = "closed" => sock[c] = NoSock
  /\ \A c \in Conns : sock[c].ws # "closed" => feed = "tunnel"
  /\ \A c, d \in Conns : sock[c].ws # "closed" /\ sock[d].ws # "closed" => c = d
  /\ \A c \in Conns : sock[c].ws # "closed" /\ sock[c].noise = "none"
                        => cs[c] = NoSession

(* The budget: failures in a row are counted, a handshake renews it.       *)
Answered == \E c \in Conns : sock[c].noise = "transport"
BudgetInv ==
  /\ tries <= misses + 1
  /\ Answered => tries = 0
  /\ feed # "gaveup" => misses <= MaxTries
  /\ Following /\ ~Answered => misses <= tries
  /\ feed = "gaveup" => misses >= MaxTries

FeedInv ==
  /\ CallsInv /\ FeedTypeOK /\ SocketsInv /\ BudgetInv /\ FollowersEnd
  /\ op = "none" => feed = "none" /\ misses = 0 /\ tries = 0

-----------------------------------------------------------------------------
LEMMA FeedBegins == CliInit => FeedInv
<1> SUFFICES ASSUME CliInit PROVE FeedInv
  OBVIOUS
<1>1. CallsInv
  BY CallsBegin DEF CliInit
<1>2. NoSock \in Socks /\ NoSession \in Sessions
  BY DEF NoSock, Socks, NoSession, Sessions
<1>3. FeedTypeOK
  BY <1>2, FeedTries DEF CliInit, FeedInit, FeedTypeOK
<1>4. SocketsInv /\ FollowersEnd
  BY DEF CliInit, FeedInit, SocketsInv, FollowersEnd, NoSock, NoSession
<1>5. BudgetInv
  BY FeedTries DEF CliInit, FeedInit, BudgetInv, Answered, NoSock, Following
<1>. QED  BY <1>1, <1>3, <1>4, <1>5 DEF FeedInv, CliInit, Init, FeedInit

(* The daemon's side of a connection may change once a frame was heard on  *)
(* it, as long as a follower that runs has its client or came late.        *)
Served(c, r) ==
  /\ cs' = [cs EXCEPT ![c] = r] /\ r \in Sessions
  /\ r.runs => r.open \/ r.late
  /\ cs[c] # NoSession

LEMMA DaemonMoves ==
  ASSUME FeedInv, NEW c \in Conns, NEW r, Served(c, r),
         UNCHANGED <<vars, net, feed, tries, sock, misses>>
  PROVE  FeedInv'
<1>1. CallsInv'
  BY CallsStep DEF FeedInv
<1>2. FeedTypeOK'
  BY DEF FeedInv, FeedTypeOK, Served
<1>3. SocketsInv'
  BY DEF FeedInv, FeedTypeOK, SocketsInv, Served
<1>4. BudgetInv'
  BY DEF FeedInv, BudgetInv, Answered, Following
<1>5. FollowersEnd'
  BY DEF FeedInv, FeedTypeOK, FollowersEnd, Served
<1>. QED  BY <1>1, <1>2, <1>3, <1>4, <1>5 DEF FeedInv, vars

(* A frame or a timer of the one socket there is, which may close it.      *)
LEMMA SocketMoves ==
  ASSUME FeedInv, NEW c \in Conns, NEW r \in Socks, sock[c].ws # "closed",
         Sock(c, r), r.ws # "closed", r.noise = sock[c].noise, Keeps,
         UNCHANGED <<feed, tries, misses>>
  PROVE  FeedInv'
<1>1. CallsInv'
  BY CallsStep DEF FeedInv, Keeps
<1>2. sock' = [sock EXCEPT ![c] = r] /\ sock \in [Conns -> Socks]
  BY DEF Sock, FeedInv, FeedTypeOK
<1>3. FeedTypeOK'
  BY <1>2 DEF FeedInv, FeedTypeOK, Keeps
<1>4. SocketsInv'
  BY <1>2 DEF FeedInv, SocketsInv, Keeps
<1>5. Answered' <=> Answered
  BY <1>2 DEF Answered
<1>6. BudgetInv'
  BY <1>5 DEF FeedInv, BudgetInv, Following
<1>7. FollowersEnd'
  BY DEF FeedInv, FollowersEnd, Keeps
<1>. QED  BY <1>1, <1>3, <1>4, <1>6, <1>7 DEF FeedInv, Keeps, vars

LEMMA SocketTyped ==
  ASSUME FeedInv, NEW c \in Conns
  PROVE  /\ sock[c] \in Socks /\ cs[c] \in Sessions /\ Heard(c) \in Socks
         /\ Heard(c).ws = sock[c].ws /\ Heard(c).noise = sock[c].noise
         /\ NoSock \in Socks /\ NoSession \in Sessions
         /\ \A r \in Socks :
              /\ Fatal(r) \in Socks /\ Fatal(r).noise = r.noise
              /\ Fatal(r).ws = "closed" <=> r.ws = "closed"
<1>1. sock[c] \in Socks /\ cs[c] \in Sessions
  BY DEF FeedInv, FeedTypeOK
<1>2. /\ Heard(c) \in Socks /\ Heard(c).ws = sock[c].ws
      /\ Heard(c).noise = sock[c].noise
  BY <1>1 DEF Heard, Socks
<1>3. NoSock \in Socks /\ NoSession \in Sessions
  BY DEF NoSock, Socks, NoSession, Sessions
<1>4. \A r \in Socks : /\ Fatal(r) \in Socks /\ Fatal(r).noise = r.noise
                       /\ Fatal(r).ws = "closed" <=> r.ws = "closed"
  BY DEF Fatal, Socks
<1>. QED  BY <1>1, <1>2, <1>3, <1>4

(* All sockets are dropped at once: the program ends.                      *)
LEMMA SocketsDrop ==
  ASSUME FeedInv, feed \notin {"none", "gaveup"}, feed' \in {"stopped", "crashed"},
         sock' = [x \in Conns |-> NoSock], Keeps, UNCHANGED <<tries, misses>>
  PROVE  FeedInv'
<1>1. CallsInv'
  BY CallsStep DEF FeedInv, Keeps
<1>2. NoSock \in Socks /\ NoSock.ws = "closed" /\ NoSock.noise = "none"
  BY DEF NoSock, Socks
<1>3. FeedTypeOK'
  BY <1>2 DEF FeedInv, FeedTypeOK, Keeps
<1>4. SocketsInv' /\ ~Answered'
  BY <1>2 DEF SocketsInv, Answered
<1>5. BudgetInv'
  BY <1>4 DEF FeedInv, BudgetInv, Following
<1>6. FollowersEnd' /\ op' # "none"
  BY DEF FeedInv, FollowersEnd, Keeps, vars
<1>. QED  BY <1>1, <1>3, <1>4, <1>5, <1>6 DEF FeedInv

-----------------------------------------------------------------------------
(* The events of a feed's connection, at the client.                       *)
LEMMA FeedClientKeeps ==
  ASSUME FeedInv, NEW c \in Conns, FeedClient(c)
  PROVE  FeedInv'
<1>1. CASE FeedOpens(c) \/ FeedFails(c)
  <2>1. PICK s \in {"open", "closing"} :
          /\ sock[c].ws # "closed" /\ Sock(c, [sock[c] EXCEPT !.ws = s])
          /\ Keeps /\ UNCHANGED <<feed, tries, misses>>
    BY <1>1 DEF FeedOpens, FeedFails
  <2> DEFINE r == [sock[c] EXCEPT !.ws = s]
  <2>2. r \in Socks /\ r.ws # "closed" /\ r.noise = sock[c].noise
    BY SocketTyped DEF Socks
  <2>. QED  BY <2>1, <2>2, SocketMoves
<1>2. CASE IdleFires(c)
  <2> DEFINE r == [Fatal(sock[c]) EXCEPT !.idle = FALSE]
  <2>1. sock[c].ws # "closed"
    BY <1>2 DEF IdleFires, FeedInv, SocketsInv, NoSock
  <2>2. r \in Socks /\ r.ws # "closed" /\ r.noise = sock[c].noise
    <3> DEFINE f == Fatal(sock[c])
    <3>1. f \in Socks /\ f.ws # "closed" /\ f.noise = sock[c].noise
      BY <2>1, SocketTyped
    <3> HIDE DEF f
    <3>2. [f EXCEPT !.idle = FALSE] \in Socks /\ [f EXCEPT !.idle = FALSE].ws = f.ws
          /\ [f EXCEPT !.idle = FALSE].noise = f.noise
      BY <3>1 DEF Socks
    <3>. QED  BY <3>1, <3>2 DEF f
  <2>3. Sock(c, r) /\ Keeps /\ UNCHANGED <<feed, tries, misses>>
    BY <1>2 DEF IdleFires
  <2>. QED  BY <2>1, <2>2, <2>3, SocketMoves
<1>3. CASE FeedRefused(c) \/ Streams(c) \/ StreamBreaks(c)
  <2>1. /\ sock[c].ws # "closed" /\ Keeps /\ UNCHANGED <<feed, tries, misses>>
        /\ Sock(c, Heard(c)) \/ Sock(c, Fatal(Heard(c)))
    BY <1>3 DEF FeedRefused, Streams, StreamBreaks, FeedHears
  <2>2. /\ Heard(c) \in Socks /\ Heard(c).ws # "closed" /\ Heard(c).noise = sock[c].noise
        /\ Fatal(Heard(c)) \in Socks /\ Fatal(Heard(c)).ws # "closed"
        /\ Fatal(Heard(c)).noise = sock[c].noise
    BY <2>1, SocketTyped
  <2>. QED  BY <2>1, <2>2, SocketMoves
<1>4. CASE ConnectOnce(c)
  <2> DEFINE r == [NoSock EXCEPT !.ws = "opening"]
  <2>1. r \in Socks /\ r.ws = "opening" /\ r.noise = "none"
        /\ NoSock.noise = "none" /\ NoSession \in Sessions /\ ~NoSession.runs
    BY DEF NoSock, Socks, NoSession, Sessions
  <2>2. /\ feed = "preparing" /\ feed' = "tunnel" /\ sock[c] = NoSock
        /\ sock' = [sock EXCEPT ![c] = r] /\ cs' = [cs EXCEPT ![c] = NoSession]
        /\ UNCHANGED <<vars, net, tries, misses>>
    BY <1>4 DEF ConnectOnce, Sock
  <2> HIDE DEF r
  <2>3. CallsInv'
    BY <2>2, CallsStep DEF FeedInv
  <2>4. FeedTypeOK'
    BY <2>1, <2>2 DEF FeedInv, FeedTypeOK
  <2>5. \A x \in Conns : sock[x].ws = "closed"
    BY <2>2 DEF FeedInv, SocketsInv
  <2>6. SocketsInv'
    BY <2>1, <2>2, <2>5 DEF FeedInv, FeedTypeOK, SocketsInv
  <2>7. ~Answered /\ ~Answered'
    BY <2>1, <2>2, <2>5 DEF FeedInv, FeedTypeOK, SocketsInv, Answered
  <2>8. BudgetInv'
    BY <2>2, <2>7 DEF FeedInv, BudgetInv, Following
  <2>9. FollowersEnd'
    BY <2>1, <2>2 DEF FeedInv, FeedTypeOK, FollowersEnd
  <2>10. op' # "none"
    BY <2>2 DEF FeedInv, vars
  <2>. QED  BY <2>3, <2>4, <2>6, <2>8, <2>9, <2>10 DEF FeedInv
<1>5. CASE FeedCloses(c)
  <2>1. /\ sock[c].ws = "closing" /\ sock' = [sock EXCEPT ![c] = NoSock]
        /\ ScheduleReconnect
        /\ misses' = IF sock[c].noise = "transport" THEN 0 ELSE misses + 1
        /\ UNCHANGED <<vars, net, cs>>
    BY <1>5 DEF FeedCloses, Sock, Keeps
  <2>2. CallsInv'
    BY <2>1, CallsStep DEF FeedInv
  <2>3. feed = "tunnel" /\ \A x \in Conns : sock[x].ws # "closed" => x = c
    BY <2>1 DEF FeedInv, SocketsInv
  <2>4. /\ NoSock \in Socks /\ NoSock.ws = "closed" /\ NoSock.noise = "none"
        /\ sock \in [Conns -> Socks]
    BY DEF NoSock, Socks, FeedInv, FeedTypeOK
  <2>5. /\ tries \in 0..MaxTries /\ misses \in 0..MaxTries /\ tries <= misses + 1
        /\ sock[c].noise = "transport" => tries = 0
        /\ sock[c].noise # "transport" => ~Answered /\ misses <= tries
    BY <2>3, <2>4, FeedTries DEF FeedInv, FeedTypeOK, BudgetInv, SocketsInv, Answered,
       Following
  <2>6. \/ feed' = "gaveup" /\ tries' = tries /\ tries >= MaxTries
        \/ feed' = "backoff" /\ tries' = tries + 1 /\ tries < MaxTries
    BY <2>1, <2>5, FeedTries DEF ScheduleReconnect
  <2>7. tries' \in 0..MaxTries /\ misses' \in 0..MaxTries + 1
    BY <2>1, <2>5, <2>6, FeedTries
  <2>8. FeedTypeOK'
    BY <2>1, <2>4, <2>6, <2>7 DEF FeedInv, FeedTypeOK
  <2>9. \A x \in Conns : sock'[x].ws = "closed"
    BY <2>1, <2>3, <2>4
  <2>10. \A x \in Conns : sock'[x] = NoSock
    BY <2>1, <2>3, <2>4 DEF FeedInv, SocketsInv
  <2>11. SocketsInv' /\ ~Answered'
    BY <2>4, <2>9, <2>10 DEF SocketsInv, Answered
  <2>12. BudgetInv'
    BY <2>1, <2>5, <2>6, <2>11, FeedTries DEF BudgetInv, Following
  <2>13. FollowersEnd' /\ op' # "none"
    BY <2>1, <2>3 DEF FeedInv, FollowersEnd, vars
  <2>. QED  BY <2>2, <2>8, <2>11, <2>12, <2>13 DEF FeedInv
<1>6. CASE FeedBadWelcome(c)
  BY <1>6, SocketsDrop DEF FeedBadWelcome, FeedHears
<1>7. CASE FeedPaired(c) \/ FeedWelcome(c)
  <2>1. PICK n \in {"hello", "transport"}, s \in Sessions :
          /\ feed = "tunnel" /\ sock[c].ws # "closed"
          /\ sock' = [sock EXCEPT ![c] = [Heard(c) EXCEPT !.noise = n]]
          /\ cs' = [cs EXCEPT ![c] = s]
          /\ s.runs => s.open \/ s.late
          /\ UNCHANGED <<vars, net, feed, misses>>
          /\ n = "hello" => sock[c].noise = "none" /\ tries' = tries
          /\ n = "transport" => tries' = 0
    <3>1. CASE FeedPaired(c)
      <4> DEFINE s == [cs[c] EXCEPT !.open = (sock[c].ws = "open")]
      <4>1. sock[c].ws # "closed" /\ sock[c].noise = "none" /\ feed = "tunnel"
        BY <3>1 DEF FeedPaired, FeedHears
      <4>2. cs[c] = NoSession
        BY <4>1 DEF FeedInv, SocketsInv
      <4>3. s \in Sessions /\ ~s.runs
        <5>1. \A b \in BOOLEAN : /\ [NoSession EXCEPT !.open = b] \in Sessions
                                 /\ ~[NoSession EXCEPT !.open = b].runs
          BY DEF NoSession, Sessions
        <5>2. (sock[c].ws = "open") \in BOOLEAN
          OBVIOUS
        <5>. QED  BY <4>2, <5>1, <5>2
      <4>4. cs' = [cs EXCEPT ![c] = s]
        BY <3>1 DEF FeedPaired
      <4>. QED  BY <3>1, <4>1, <4>3, <4>4 DEF FeedPaired, Sock
    <3>2. CASE FeedWelcome(c)
      <4> DEFINE s == [cs[c] EXCEPT !.asked = (sock[c].ws = "open")]
      <4>1. sock[c].ws # "closed" /\ cs[c].open /\ feed = "tunnel"
        BY <3>2 DEF FeedWelcome, FeedHears
      <4>2. s \in Sessions /\ s.open
        BY <4>1, SocketTyped DEF Sessions
      <4>3. cs' = [cs EXCEPT ![c] = s]
        BY <3>2 DEF FeedWelcome
      <4>. QED  BY <3>2, <4>1, <4>2, <4>3 DEF FeedWelcome, Sock
    <3>. QED  BY <1>7, <3>1, <3>2
  <2> DEFINE r == [Heard(c) EXCEPT !.noise = n]
  <2>2. r \in Socks /\ r.ws = sock[c].ws /\ r.noise = n
    <3> DEFINE f == Heard(c)
    <3>1. f \in Socks /\ f.ws = sock[c].ws
      BY SocketTyped
    <3> HIDE DEF f
    <3>2. [f EXCEPT !.noise = n] \in Socks /\ [f EXCEPT !.noise = n].ws = f.ws
          /\ [f EXCEPT !.noise = n].noise = n
      BY <3>1 DEF Socks
    <3>. QED  BY <3>1, <3>2 DEF f
  <2>3. sock' = [sock EXCEPT ![c] = r] /\ sock \in [Conns -> Socks]
    BY <2>1 DEF FeedInv, FeedTypeOK
  <2> HIDE DEF r
  <2>4. CallsInv'
    BY <2>1, CallsStep DEF FeedInv
  <2>5. FeedTypeOK'
    BY <2>1, <2>2, <2>3, FeedTries DEF FeedInv, FeedTypeOK
  <2>6. SocketsInv'
    <3>1. \A x \in Conns \ {c} : /\ sock'[x] = sock[x] /\ sock[x].ws = "closed"
                                /\ sock'[x] = NoSock
      BY <2>1, <2>3 DEF FeedInv, SocketsInv
    <3>2. sock'[c] = r /\ r.ws # "closed" /\ r.noise # "none" /\ feed' = "tunnel"
      BY <2>1, <2>2, <2>3
    <3>. QED  BY <3>1, <3>2 DEF SocketsInv
  <2>7. /\ \A x \in Conns \ {c} : sock'[x] = sock[x] /\ sock[x].noise # "transport"
        /\ n = "hello" => ~Answered /\ ~Answered'
        /\ n = "transport" => Answered'
    <3>1. \A x \in Conns \ {c} : sock'[x] = sock[x] /\ sock[x] = NoSock
      BY <2>1, <2>3 DEF FeedInv, SocketsInv
    <3>2. NoSock.noise = "none"
      BY DEF NoSock
    <3>. QED  BY <2>1, <2>2, <2>3, <3>1, <3>2 DEF Answered
  <2>8. BudgetInv'
    BY <2>1, <2>7, FeedTries DEF FeedInv, FeedTypeOK, BudgetInv, Following
  <2>9. FollowersEnd'
    BY <2>1 DEF FeedInv, FeedTypeOK, FollowersEnd
  <2>10. op' # "none"
    BY <2>1 DEF FeedInv, vars
  <2>. QED  BY <2>4, <2>5, <2>6, <2>8, <2>9, <2>10 DEF FeedInv
<1>. QED  BY <1>1, <1>2, <1>3, <1>4, <1>5, <1>6, <1>7 DEF FeedClient

(* The daemon's session of a connection.                                   *)
LEMMA FeedDaemonKeeps ==
  ASSUME FeedInv, NEW c \in Conns, FeedDaemon(c)
  PROVE  FeedInv'
<1>1. cs[c] \in Sessions
  BY SocketTyped
<1>2. ~NoSession.open /\ ~NoSession.listing /\ ~NoSession.runs
  BY DEF NoSession
<1>3. Teardown(cs[c]) \in Sessions /\ ~Teardown(cs[c]).runs
  BY <1>1 DEF Teardown, Sessions
<1>4. CASE Subscribes(c) \/ Listed(c) \/ ListFails(c) \/ SessionGone(c)
  <2>1. PICK r \in Sessions :
          /\ cs' = [cs EXCEPT ![c] = r] /\ (cs[c].open \/ cs[c].listing)
          /\ UNCHANGED <<vars, net, feed, tries, sock, misses>>
          /\ r.runs => r.open \/ r.late
    <3>1. CASE Subscribes(c)
      <4> DEFINE r == [cs[c] EXCEPT !.asked = FALSE, !.listing = TRUE]
      <4>1. /\ r \in Sessions /\ r.open = cs[c].open
        BY <1>1 DEF Sessions
      <4>. QED  BY <3>1, <4>1 DEF Subscribes, Serves
    <3>2. CASE Listed(c)
      <4> DEFINE r == [cs[c] EXCEPT !.listing = FALSE, !.runs = TRUE, !.late = ~cs[c].open]
      <4>1. /\ r \in Sessions /\ r.open = cs[c].open /\ r.late = ~cs[c].open
        BY <1>1 DEF Sessions
      <4>. QED  BY <3>2, <4>1 DEF Listed, Serves
    <3>3. CASE ListFails(c)
      <4> DEFINE r == [cs[c] EXCEPT !.listing = FALSE]
      <4>1. /\ r \in Sessions /\ r.open = cs[c].open /\ r.late = cs[c].late
            /\ r.runs = cs[c].runs
        BY <1>1 DEF Sessions
      <4>2. cs[c].runs => cs[c].open \/ cs[c].late
        BY DEF FeedInv, FollowersEnd
      <4>. QED  BY <3>3, <4>1, <4>2 DEF ListFails, Serves
    <3>4. CASE SessionGone(c)
      BY <3>4, <1>3 DEF SessionGone, Serves
    <3>. QED  BY <1>4, <3>1, <3>2, <3>3, <3>4
  <2>2. Served(c, r)
    BY <2>1, <1>2 DEF Served
  <2>. QED  BY <2>1, <2>2, DaemonMoves
<1>5. CASE SessionDropped(c)
  <2> DEFINE r == [sock[c] EXCEPT !.ws = "closing"]
             s == Teardown(cs[c])
  <2>1. /\ cs[c].open /\ sock[c].ws = "open" /\ cs' = [cs EXCEPT ![c] = s]
        /\ sock' = [sock EXCEPT ![c] = r]
        /\ UNCHANGED <<vars, net, feed, tries, misses>>
    BY <1>5 DEF SessionDropped, Sock
  <2>2. r \in Socks /\ r.ws = "closing" /\ r.noise = sock[c].noise
    BY SocketTyped DEF Socks
  <2>3. sock[c].noise # "none"
    BY <1>2, <2>1 DEF FeedInv, SocketsInv
  <2>4. s \in Sessions /\ ~s.runs
    BY <1>3
  <2>5. sock \in [Conns -> Socks] /\ cs \in [Conns -> Sessions]
    BY DEF FeedInv, FeedTypeOK
  <2> HIDE DEF r, s
  <2>6. CallsInv'
    BY <2>1, CallsStep DEF FeedInv
  <2>7. FeedTypeOK'
    BY <2>1, <2>2, <2>4 DEF FeedInv, FeedTypeOK
  <2>8. SocketsInv'
    <3>1. \A x \in Conns \ {c} : sock'[x] = sock[x] /\ cs'[x] = cs[x]
      BY <2>1, <2>5
    <3>2. sock'[c] = r
      BY <2>1, <2>5
    <3>. QED  BY <2>1, <2>2, <2>3, <3>1, <3>2 DEF FeedInv, SocketsInv
  <2>9. Answered' <=> Answered
    BY <2>1, <2>2, <2>5 DEF Answered
  <2>10. BudgetInv'
    BY <2>1, <2>9 DEF FeedInv, BudgetInv, Following
  <2>11. FollowersEnd'
    BY <2>1, <2>4, <2>5 DEF FeedInv, FollowersEnd
  <2>. QED  BY <2>1, <2>6, <2>7, <2>8, <2>10, <2>11 DEF FeedInv, vars
<1>. QED  BY <1>4, <1>5 DEF FeedDaemon

LEMMA FeedStep == FeedInv /\ [CliNext]_<<vars, feedVars>> => FeedInv'
<1> SUFFICES ASSUME FeedInv, [CliNext]_<<vars, feedVars>> PROVE FeedInv'
  OBVIOUS
<1>1. CASE (Next /\ UNCHANGED feedVars) \/ UNCHANGED <<vars, feedVars>>
  <2>1. CallsInv' /\ UNCHANGED feedVars
    BY <1>1, CallsStep DEF FeedInv
  <2>2. op' = "none" => op = "none"
    <3>1. ASSUME NEW h \in Hosts, Client(h) PROVE op' = op
      BY <3>1 DEF Client, WsOpens, UpgradeRejected, WsFails, WsCloses, TimesOut, Paired,
         Refused, Welcome, BadWelcome, BadFrame, AnswerSelf, AnswerPublic, Answer, Retries,
         SshAnswers, SshFails, SshEnds, AtHost
    <3>2. ASSUME NEW h \in Hosts, Host(h) PROVE op' = op
      BY <3>2 DEF Host, Carries, Lost, Invalid, Finishes, ReplyLost, AtClient
    <3>3. CASE Ls \/ Peek \/ Send \/ Tag \/ Kill
      BY <3>3 DEF Ls, Peek, Send, Tag, Kill, Starts
    <3>4. CASE UNCHANGED vars
      BY <3>4 DEF vars
    <3>. QED  BY <1>1, <3>1, <3>2, <3>3, <3>4 DEF Next
  <2>. QED
    BY <2>1, <2>2 DEF FeedInv, FeedTypeOK, SocketsInv, BudgetInv, Answered, Following,
       FollowersEnd, feedVars
<1>2. CASE Follow
  <2>1. /\ op = "none" /\ op' = "events" /\ stage' = [h \in Hosts |-> "done"]
        /\ feed' \in {"stopped", "ssh", "preparing"}
        /\ UNCHANGED <<access, outcome, attempt, tun, job, heard, carried, tries, sock, cs,
                       net, misses>>
    BY <1>2 DEF Follow
  <2>2. TypeOK'
    BY <2>1 DEF FeedInv, CallsInv, TypeOK
  <2>3. CallsInv'
    <3>1. \A h \in Hosts : stage[h] = "idle" /\ heard[h] = {} /\ outcome[h] = "none"
      BY <2>1 DEF FeedInv, CallsInv, NotYet, CallInv
    <3>2. NotYet'
      BY <2>1 DEF NotYet
    <3>3. \A h \in Hosts : CallInv(h)'
      BY <2>1, <3>1 DEF FeedInv, CallsInv, CallInv
    <3>. QED  BY <2>2, <3>2, <3>3 DEF CallsInv
  <2>4. feed = "none" /\ misses = 0 /\ tries = 0
    BY <2>1 DEF FeedInv
  <2>5. FeedTypeOK' /\ FollowersEnd'
    BY <2>1 DEF FeedInv, FeedTypeOK, FollowersEnd
  <2>6. SocketsInv'
    BY <2>1, <2>4 DEF FeedInv, SocketsInv
  <2>7. BudgetInv'
    BY <2>1, <2>4, FeedTries DEF FeedInv, BudgetInv, Answered, Following
  <2>. QED  BY <2>1, <2>3, <2>5, <2>6, <2>7 DEF FeedInv
<1>3. CASE SshStreamEnds \/ BackoffEnds
  <2>1. /\ UNCHANGED <<vars, net, tries, sock, cs, misses>>
        /\ \/ feed = "ssh" /\ feed' = "stopped"
           \/ feed = "backoff" /\ feed' = "preparing"
    BY <1>3 DEF SshStreamEnds, BackoffEnds
  <2>2. CallsInv'
    BY <2>1, CallsStep DEF FeedInv
  <2>3. FeedTypeOK' /\ FollowersEnd' /\ op' # "none"
    BY <2>1 DEF FeedInv, FeedTypeOK, FollowersEnd, vars
  <2>4. SocketsInv'
    BY <2>1 DEF FeedInv, SocketsInv
  <2>5. BudgetInv'
    BY <2>1 DEF FeedInv, BudgetInv, Answered, Following
  <2>. QED  BY <2>2, <2>3, <2>4, <2>5 DEF FeedInv
<1>4. CASE StopFollowing
  BY <1>4, SocketsDrop DEF StopFollowing, Following
<1>5. CASE FeedNetGoes
  <2>1. /\ UNCHANGED <<vars, feed, tries, cs, misses>> /\ net' = FALSE
        /\ sock' = [c \in Conns |-> [sock[c] EXCEPT !.ws = IF @ = "open" THEN "half" ELSE @]]
        /\ feed # "none"
    BY <1>5 DEF FeedNetGoes, Following
  <2>2. \A c \in Conns : /\ sock'[c] \in Socks /\ sock'[c].noise = sock[c].noise
                         /\ sock'[c].ws = "closed" <=> sock[c].ws = "closed"
                         /\ sock[c].ws = "closed" => sock'[c] = sock[c]
    BY <2>1 DEF FeedInv, FeedTypeOK, Socks
  <2>3. CallsInv'
    BY <2>1, CallsStep DEF FeedInv
  <2>4. FeedTypeOK' /\ FollowersEnd' /\ op' # "none"
    BY <2>1, <2>2 DEF FeedInv, FeedTypeOK, FollowersEnd, vars
  <2>5. SocketsInv'
    BY <2>1, <2>2 DEF FeedInv, SocketsInv
  <2>6. Answered' <=> Answered
    BY <2>2 DEF Answered
  <2>7. BudgetInv'
    BY <2>1, <2>6 DEF FeedInv, BudgetInv, Following
  <2>. QED  BY <2>3, <2>4, <2>5, <2>7 DEF FeedInv
<1>6. CASE FeedNetComes
  <2>1. UNCHANGED <<vars, feed, tries, sock, cs, misses>> /\ net' = TRUE
    BY <1>6 DEF FeedNetComes
  <2>2. CallsInv'
    BY <2>1, CallsStep DEF FeedInv
  <2>. QED
    BY <2>1, <2>2 DEF FeedInv, FeedTypeOK, SocketsInv, BudgetInv, Answered, Following,
       FollowersEnd, vars
<1>7. ASSUME NEW c \in Conns, FeedClient(c) \/ FeedDaemon(c) PROVE FeedInv'
  BY <1>7, FeedClientKeeps, FeedDaemonKeeps
<1>8. CASE ConnectFails
  <2>1. /\ feed = "preparing" /\ ScheduleReconnect /\ misses' = misses + 1
        /\ UNCHANGED <<vars, net, cs, sock>>
    BY <1>8 DEF ConnectFails, Keeps
  <2>2. CallsInv'
    BY <2>1, CallsStep DEF FeedInv
  <2>3. \A x \in Conns : sock[x].ws = "closed" /\ sock[x].noise = "none"
    BY <2>1 DEF FeedInv, SocketsInv, NoSock
  <2>4. ~Answered /\ ~Answered'
    BY <2>1, <2>3 DEF Answered
  <2>5. /\ tries \in 0..MaxTries /\ misses \in 0..MaxTries
        /\ tries <= misses + 1 /\ misses <= tries
    BY <2>1, <2>4, FeedTries DEF FeedInv, FeedTypeOK, BudgetInv, Following
  <2>6. \/ feed' = "gaveup" /\ tries' = tries /\ tries >= MaxTries
        \/ feed' = "backoff" /\ tries' = tries + 1 /\ tries < MaxTries
    BY <2>1, <2>5, FeedTries DEF ScheduleReconnect
  <2>7. tries' \in 0..MaxTries /\ misses' \in 0..MaxTries + 1
    BY <2>1, <2>5, <2>6, FeedTries
  <2>8. FeedTypeOK'
    BY <2>1, <2>6, <2>7 DEF FeedInv, FeedTypeOK
  <2>9. SocketsInv' /\ FollowersEnd' /\ op' # "none"
    BY <2>1, <2>3 DEF FeedInv, SocketsInv, FollowersEnd, vars
  <2>10. BudgetInv'
    BY <2>1, <2>4, <2>5, <2>6, FeedTries DEF BudgetInv, Following
  <2>. QED  BY <2>2, <2>8, <2>9, <2>10 DEF FeedInv
<1>. QED
  BY <1>1, <1>2, <1>3, <1>4, <1>5, <1>6, <1>7, <1>8 DEF CliNext, FeedNext

LEMMA Always == CliSpec => []FeedInv
  BY FeedBegins, FeedStep, PTL DEF CliSpec

-----------------------------------------------------------------------------
(* The state of every client command keeps to its types, for any number of *)
(* hosts, connections and attempts.                                        *)
THEOREM ClientTyped == CliSpec => [](TypeOK /\ FeedTypeOK)
<1>1. FeedInv => TypeOK /\ FeedTypeOK
  BY DEF FeedInv, CallsInv
<1>. QED  BY <1>1, Always, PTL

(* A request is repeated only through a public relay, and only when no     *)
(* answer to it was heard (sendPublicRemoteCommand).                       *)
THEOREM RepeatsUnheard == CliSpec => []RepeatsOnlyUnheard
<1>1. ASSUME FeedInv PROVE RepeatsOnlyUnheard
  <2> SUFFICES ASSUME NEW h \in Hosts
               PROVE  /\ \A k \in heard[h] : attempt[h] <= k /\ stage[h] = "done"
                      /\ access[h] # "public" => carried[h] \subseteq {1}
    BY DEF RepeatsOnlyUnheard
  <2>1. /\ CallInv(h) /\ attempt[h] \in Nat
        /\ carried[h] \subseteq Attempts /\ Attempts \subseteq Nat \ {0}
    BY <1>1 DEF FeedInv, CallsInv, TypeOK, Attempts
  <2>2. \A k \in heard[h] : attempt[h] <= k /\ stage[h] = "done"
    BY <2>1 DEF CallInv
  <2>3. access[h] # "public" => \A k \in carried[h] : ~(k > 1)
    BY <2>1 DEF CallInv
  <2>4. \A k \in carried[h] : k \in Nat /\ k # 0
    BY <2>1
  <2>. QED  BY <2>2, <2>3, <2>4
<1>. QED  BY <1>1, Always, PTL

(* A success the user is shown was carried out, in the attempt that was    *)
(* answered (sendOverTunnel, handleSessionControlMessage).                 *)
THEOREM SuccessReal == CliSpec => []SuccessIsReal
<1>1. FeedInv => SuccessIsReal
  BY DEF FeedInv, CallsInv, CallInv, SuccessIsReal
<1>. QED  BY <1>1, Always, PTL

(* A feed has one connection at a time, and gives up only after            *)
(* MAX_RECONNECT_ATTEMPTS connections in a row without a handshake.        *)
THEOREM OneConnection == CliSpec => []OneFeed
<1>1. FeedInv => OneFeed
  BY DEF FeedInv, SocketsInv, BudgetInv, OneFeed
<1>. QED  BY <1>1, Always, PTL

(* No follower outlives its client at the daemon, unless it was started    *)
(* after the teardown (teardownSharedClient, events_subscribe).            *)
THEOREM FollowersStop == CliSpec => []FollowersEnd
<1>1. FeedInv => FollowersEnd
  BY DEF FeedInv
<1>. QED  BY <1>1, Always, PTL
=============================================================================
