------------------------------ MODULE EventsFeed ------------------------------
(***************************************************************************)
(* `pty-relay client events`: the command that does not end with its first *)
(* answer (commands/events.ts).  It keeps one subscription to a host and   *)
(* connects again when it is lost (events-client.ts), or follows a child   *)
(* `ssh` while that lives.  At the other end every connection is a client  *)
(* session of the daemon, with a follower of the session events and a      *)
(* heartbeat (start-shared.ts).  A process runs this command or one of     *)
(* those of OneShot.                                                       *)
(***************************************************************************)
EXTENDS OneShot

CONSTANTS
  Conns,      (* connections, with the daemon's session for each           *)
  MaxTries    (* MAX_RECONNECT_ATTEMPTS                                    *)

ASSUME FeedTries == MaxTries \in Nat

VARIABLES
  feed,    (* what the subscription is doing                               *)
  tries,   (* attempts                                                     *)
  sock,    (* client's end of every connection                             *)
  cs,      (* daemon's end: SharedClientSession                            *)
  net,     (* the network between client and relay                         *)
  misses   (* history: attempts in a row that ended without a handshake    *)

feedVars == <<feed, tries, sock, cs, net, misses>>

Socks == [ws : {"opening", "open", "half", "closing", "closed"},
          noise : {"none", "hello", "transport"},
          idle : BOOLEAN]
Sessions == [open : BOOLEAN,       (* the daemon has the client            *)
             asked : BOOLEAN,      (* events_subscribe is on its way       *)
             listing : BOOLEAN,    (* it awaits listSessions()             *)
             runs : BOOLEAN,       (* follower and heartbeat run           *)
             late : BOOLEAN]       (* they were started after the teardown *)

FeedTypeOK ==
  /\ feed \in {"none", "preparing", "tunnel", "backoff", "ssh", "gaveup",
               "stopped", "crashed"}
  /\ tries \in 0..MaxTries
  /\ sock \in [Conns -> Socks] /\ cs \in [Conns -> Sessions]
  /\ net \in BOOLEAN /\ misses \in 0..MaxTries + 1

NoSock == [ws |-> "closed", noise |-> "none", idle |-> FALSE]
NoSession == [open |-> FALSE, asked |-> FALSE, listing |-> FALSE,
              runs |-> FALSE, late |-> FALSE]

FeedInit ==
  /\ feed = "none" /\ tries = 0
  /\ sock = [c \in Conns |-> NoSock] /\ cs = [c \in Conns |-> NoSession]
  /\ net = TRUE /\ misses = 0

Following == feed \in {"preparing", "tunnel", "backoff"}

-----------------------------------------------------------------------------
(* follow(): the host is resolved, the subscription starts.                *)

Follow ==
  /\ op = "none" /\ op' = "events"
  /\ stage' = [h \in Hosts |-> "done"]
  /\ \E h \in Hosts : feed' = CASE access[h] = "none" -> "stopped"
                                [] access[h] = "ssh" -> "ssh"
                                [] OTHER -> "preparing"
  /\ UNCHANGED <<access, outcome, attempt, tun, job, heard, carried, tries, sock,
                 cs, net, misses>>

(* ssh: every line is an event or an error; its exit ends the command.     *)
SshStreamEnds ==
  /\ feed = "ssh" /\ feed' = "stopped"
  /\ UNCHANGED <<vars, net, tries, sock, cs, misses>>

-----------------------------------------------------------------------------
(* subscribeRemoteEvents and its public twin.                              *)

Sock(c, r) == sock' = [sock EXCEPT ![c] = r]
Keeps == UNCHANGED <<vars, net, cs>>

(* A session that is over is forgotten with what it left running.          *)
Busy(r) == r.open \/ r.asked \/ r.listing

(* connectOnce: a new socket (a public one after its keys are derived).    *)
ConnectOnce(c) ==
  /\ feed = "preparing" /\ feed' = "tunnel"
  /\ sock[c] = NoSock /\ ~Busy(cs[c])
  /\ Sock(c, [NoSock EXCEPT !.ws = "opening"])
  /\ cs' = [cs EXCEPT ![c] = NoSession]
  /\ UNCHANGED <<vars, net, tries, misses>>

(* scheduleReconnect.                                                      *)
ScheduleReconnect ==
  IF tries >= MaxTries THEN feed' = "gaveup" /\ UNCHANGED tries
                       ELSE feed' = "backoff" /\ tries' = tries + 1

(* Mutant: no frame starts the idle timer.                                 *)
HeardWithoutTimer(c) == sock[c]

(* connectOnce throws before it has a socket (a token or a URL that cannot *)
(* be used, a key that cannot be derived): its catch plans the next one.   *)
ConnectFails ==
  /\ feed = "preparing" /\ ScheduleReconnect
  /\ misses' = misses + 1
  /\ Keeps /\ UNCHANGED sock

(* A frame of the relay can arrive; whatever it is, it restarts the idle   *)
(* timer.                                                                  *)
FeedHears(c) == feed = "tunnel" /\ net /\ sock[c].ws \in {"open", "closing"}
Heard(c) == [sock[c] EXCEPT !.idle = TRUE]

(* fatalError: onError, and close() of this socket.                        *)
Fatal(r) == [r EXCEPT !.ws = IF @ = "closed" THEN @ ELSE "closing"]

FeedOpens(c) ==
  /\ feed = "tunnel" /\ net /\ sock[c].ws = "opening"
  /\ Sock(c, [sock[c] EXCEPT !.ws = "open"])
  /\ Keeps /\ UNCHANGED <<feed, tries, misses>>

(* onerror only tells; onclose follows.                                    *)
FeedFails(c) ==
  /\ feed = "tunnel" /\ sock[c].ws \in {"opening", "open", "half"}
  /\ Sock(c, [sock[c] EXCEPT !.ws = "closing"])
  /\ Keeps /\ UNCHANGED <<feed, tries, misses>>

(* onclose: the timers are cleared and the next attempt is planned.        *)
FeedCloses(c) ==
  /\ feed \in {"tunnel", "backoff", "preparing"} /\ sock[c].ws = "closing"
  /\ Sock(c, NoSock)
  /\ ScheduleReconnect
  /\ misses' = IF sock[c].noise = "transport" THEN 0 ELSE misses + 1
  /\ Keeps

(* Mutant: an idle feed plans its next attempt without waiting for the     *)
(* close event.                                                            *)
IdleReconnects(c) ==
  /\ feed = "tunnel" /\ sock[c].idle
  /\ Sock(c, [Fatal(sock[c]) EXCEPT !.idle = FALSE])
  /\ ScheduleReconnect
  /\ Keeps /\ UNCHANGED misses

(* The idle timer: 75 s without a frame, more than two heartbeats.         *)
IdleFires(c) ==
  /\ feed = "tunnel" /\ sock[c].idle
  /\ Sock(c, [Fatal(sock[c]) EXCEPT !.idle = FALSE])
  /\ Keeps /\ UNCHANGED <<feed, tries, misses>>

BackoffEnds ==
  /\ feed = "backoff" /\ feed' = "preparing"
  /\ UNCHANGED <<vars, net, tries, sock, cs, misses>>

FeedPaired(c) ==
  /\ FeedHears(c) /\ sock[c].noise = "none"
  /\ Sock(c, [Heard(c) EXCEPT !.noise = "hello"])
  /\ cs' = [cs EXCEPT ![c].open = (sock[c].ws = "open")]
  /\ UNCHANGED <<vars, net, feed, tries, misses>>

(* waiting_for_approval and error of the relay, at any time: tried again   *)
(* later.                                                                  *)
FeedRefused(c) ==
  /\ FeedHears(c)
  /\ Sock(c, Fatal(Heard(c)))
  /\ Keeps /\ UNCHANGED <<feed, tries, misses>>

(* The daemon's answer completes the handshake: attempts = 0, and the      *)
(* request goes out.                                                       *)
FeedWelcome(c) ==
  /\ FeedHears(c) /\ sock[c].noise = "hello" /\ cs[c].open
  /\ Sock(c, [Heard(c) EXCEPT !.noise = "transport"]) /\ tries' = 0
  /\ cs' = [cs EXCEPT ![c].asked = (sock[c].ws = "open")]
  /\ UNCHANGED <<vars, net, feed, misses>>

(* readMessage throws out of onmessage: an uncaught exception.             *)
FeedBadWelcome(c) ==
  /\ FeedHears(c) /\ sock[c].noise = "hello" /\ feed' = "crashed"
  /\ sock' = [x \in Conns |-> NoSock]
  /\ Keeps /\ UNCHANGED <<tries, misses>>

(* Frames of the stream: snapshot, event, ping.                            *)
Streams(c) ==
  /\ FeedHears(c) /\ sock[c].noise = "transport" /\ cs[c].runs
  /\ Sock(c, Heard(c))
  /\ Keeps /\ UNCHANGED <<feed, tries, misses>>

(* A frame that does not decrypt, or an error of the daemon.               *)
StreamBreaks(c) ==
  /\ FeedHears(c) /\ sock[c].noise = "transport"
  /\ Sock(c, Fatal(Heard(c)))
  /\ Keeps /\ UNCHANGED <<feed, tries, misses>>

(* SIGINT: close() and exit.                                               *)
StopFollowing ==
  /\ Following \/ feed = "ssh"
  /\ feed' = "stopped" /\ sock' = [x \in Conns |-> NoSock]
  /\ Keeps /\ UNCHANGED <<tries, misses>>

FeedNetGoes ==
  /\ Following /\ net /\ net' = FALSE
  /\ sock' = [c \in Conns |-> [sock[c] EXCEPT !.ws = IF @ = "open" THEN "half" ELSE @]]
  /\ UNCHANGED <<vars, feed, tries, cs, misses>>
FeedNetComes ==
  /\ Following /\ ~net /\ net' = TRUE
  /\ UNCHANGED <<vars, feed, tries, sock, cs, misses>>

-----------------------------------------------------------------------------
(* The daemon's session of a connection.                                   *)

Serves(c, r) ==
  cs' = [cs EXCEPT ![c] = r] /\ UNCHANGED <<vars, net, feed, tries, sock, misses>>

(* events_subscribe: listSessions() is awaited.                            *)
Subscribes(c) ==
  /\ cs[c].open /\ cs[c].asked
  /\ Serves(c, [cs[c] EXCEPT !.asked = FALSE, !.listing = TRUE])

(* Its continuation starts the follower and the heartbeat, whether or not  *)
(* the client is still there: reply() swallows what cannot be sent.        *)
Listed(c) ==
  /\ cs[c].listing
  /\ Serves(c, [cs[c] EXCEPT !.listing = FALSE, !.runs = TRUE, !.late = ~cs[c].open])

(* listSessions() or the follower fails: replyError.                       *)
ListFails(c) == cs[c].listing /\ Serves(c, [cs[c] EXCEPT !.listing = FALSE])

(* Mutant: the follower is not stopped.                                    *)
TeardownKeepsFollower(r) == [r EXCEPT !.open = FALSE, !.asked = FALSE]

(* teardownSharedClient, when the client or the relay is gone.             *)
Teardown(r) == [r EXCEPT !.open = FALSE, !.asked = FALSE, !.runs = FALSE]
SessionGone(c) ==
  /\ cs[c].open /\ sock[c].ws # "open"
  /\ Serves(c, Teardown(cs[c]))
(* The relay or the daemon drops a client that is there.                   *)
SessionDropped(c) ==
  /\ cs[c].open /\ sock[c].ws = "open"
  /\ cs' = [cs EXCEPT ![c] = Teardown(cs[c])]
  /\ Sock(c, [sock[c] EXCEPT !.ws = "closing"])
  /\ UNCHANGED <<vars, net, feed, tries, misses>>

-----------------------------------------------------------------------------
FeedClient(c) ==
  \/ ConnectOnce(c) \/ FeedOpens(c) \/ FeedFails(c) \/ FeedCloses(c)
  \/ IdleFires(c) \/ FeedPaired(c) \/ FeedRefused(c) \/ FeedWelcome(c)
  \/ FeedBadWelcome(c) \/ Streams(c) \/ StreamBreaks(c)
FeedDaemon(c) ==
  \/ Subscribes(c) \/ Listed(c) \/ ListFails(c) \/ SessionGone(c)
  \/ SessionDropped(c)
FeedNext ==
  \/ Follow \/ SshStreamEnds \/ ConnectFails \/ BackoffEnds \/ StopFollowing
  \/ FeedNetGoes \/ FeedNetComes
  \/ \E c \in Conns : FeedClient(c) \/ FeedDaemon(c)

(* Timers fire, a socket that closes gets its close event (ws waits 30 s   *)
(* for the other side), and the kernel gives up opening a socket without   *)
(* a network.                                                              *)
FeedFairness ==
  /\ WF_feedVars(BackoffEnds) /\ WF_feedVars(\E c \in Conns : ConnectOnce(c))
  /\ \A c \in Conns :
       /\ WF_feedVars(FeedCloses(c)) /\ WF_feedVars(IdleFires(c))
       /\ WF_feedVars(~net /\ sock[c].ws = "opening" /\ FeedFails(c))
       /\ WF_feedVars(SessionGone(c)) /\ WF_feedVars(Listed(c))

CliInit == Init /\ FeedInit
CliNext == (Next /\ UNCHANGED feedVars) \/ FeedNext

CliSpec ==
  /\ CliInit /\ [][CliNext]_<<vars, feedVars>>
  /\ WF_vars(Ls \/ Peek \/ Send \/ Tag \/ Kill \/ Follow)
  /\ \A h \in Hosts : WF_vars(TimesOut(h)) /\ WF_vars(Retries(h)) /\ WF_vars(SshFails(h))
  /\ FeedFairness

-----------------------------------------------------------------------------
(* Properties.                                                             *)

(* One connection at a time: no frame of an old one can mix with those of  *)
(* the next, whose snapshot replaces everything shown before; and nothing  *)
(* is open while the reconnect timer runs.                                 *)
OneFeed ==
  /\ \A c, d \in Conns : sock[c].ws # "closed" =>
       feed = "tunnel" /\ (sock[d].ws # "closed" => c = d)
  /\ feed = "gaveup" => misses >= MaxTries

(* A feed whose network stays away ends by itself, for the idle timer      *)
(* finds a half-open tunnel, except on a connection that never carried a   *)
(* frame: the timer is first started by one.                               *)
Silent == \E c \in Conns : sock[c].ws \in {"open", "half"} /\ sock[c].noise = "none"
FeedEnds ==
  (<>[]~net) => <>(feed \in {"gaveup", "stopped", "crashed"}) \/ <>[]Silent

(* A follower and a heartbeat run for a client that is there; what is left *)
(* behind was started by a subscribe that its teardown overtook.           *)
FollowersEnd == \A c \in Conns : cs[c].runs => cs[c].open \/ cs[c].late
=============================================================================
