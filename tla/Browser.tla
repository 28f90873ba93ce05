------------------------------- MODULE Browser -------------------------------
(***************************************************************************)
(* The web client (browser/src/main.ts): one page, its sockets and its     *)
(* timers, the URL and history it keeps in step with the session on        *)
(* display, the credential in localStorage, and the user.  At the other    *)
(* end, per socket, what the relay and the daemon do for it                *)
(* (serve/pairing.ts, commands/start.ts, start-shared.ts): a bridge to one *)
(* session, with answers to `list` and `spawn` that may come late.         *)
(*                                                                         *)
(* Everything in the page runs on one thread: an action is one event       *)
(* handler.  A socket the page has closed delivers no more messages but    *)
(* still fires its close event, later.  Terminal contents, key bars and    *)
(* telemetry are left out.                                                 *)
(***************************************************************************)
EXTENDS Integers, Sequences, SequencesExt

CONSTANTS
  Sessions,        (* names                                                *)
  Socks,           (* sockets; one that is closed is used again            *)
  Tabs,            (* histories of a tab, on its first entry, at the start *)
  FromFragment,    (* the URL's fragment carries a client token            *)
  MaxRevokes,      (* bound: revocations                                   *)
  MaxFaults,       (* bound: sockets that break, daemon connections and    *)
                   (* sessions that end, revocations                       *)
  MaxActs,         (* bound: what the user does, but for typing: one key is *)
                   (* under way at a time                                   *)
  None

ASSUME BrowserNone == None \notin Sessions \cup Socks \cup Nat
ASSUME BrowserBounds == \A n \in {MaxRevokes, MaxFaults, MaxActs} : n \in Nat
ASSUME BrowserTabs ==
  Tabs \subseteq Seq(Sessions \cup {None}) /\ \A tab \in Tabs : 1 \in DOMAIN tab
ASSUME BrowserFragment == FromFragment \in BOOLEAN

VARIABLES
  ws,           (* the global ws                                           *)
  sock,         (* every socket, as the page holds it                      *)
  transport,    (* the socket whose handshake gave the current keys        *)
  page,         (* the other globals of the page                           *)
  shown,        (* currentSession, view, history                           *)
  token,        (* token.clientToken, localStorage, token.session          *)
  up, down,     (* messages under way, per socket                          *)
  srv,          (* relay and daemon, per socket                            *)
  live,         (* sessions that run                                       *)
  epoch,        (* revocations so far: a token is good in its own epoch    *)
  left          (* what is left of the bounds; history: gone, whether a    *)
                (* daemon connection has ended on its own                  *)

vars == <<ws, sock, transport, page, shown, token, up, down, srv, live, epoch, left>>

Creds == {None} \cup 0..MaxRevokes
Names == Sessions \cup {None}

SockStates == [st : {"closed", "connecting", "open", "closing"},
               done : BOOLEAN]                     (* handshakeComplete    *)
PageStates == [resolving : BOOLEAN,                (* sha256hex() pending  *)
               timer : BOOLEAN,                    (* reconnectTimer       *)
               intentional : BOOLEAN,              (* intentionalDisconnect*)
               attached : BOOLEAN,                 (* sessionAttached      *)
               popTimer : BOOLEAN,
               reloading : BOOLEAN]                (* the 800 ms to reload *)
ShownStates == [cur : Names, view : {"loading", "sessions", "terminal"},
                hist : Seq(Names), pos : Nat]
TokenStates == [held : Creds, stored : Creds, home : Names]
SrvStates == [st : {"new", "waiting", "paired", "up", "gone"},
              cred : Creds,                        (* tokenId              *)
              bridge : Names, pend : Names,        (* attached, connecting *)
              born : BOOLEAN,                      (* ... for a spawn      *)
              listing : BOOLEAN, spawning : Names,
              stray : BOOLEAN]     (* history: the page attached elsewhere,*)
                                   (* or spawned again, while its spawn    *)
                                   (* was unanswered                       *)

Msg(t) == [type |-> t, name |-> None, cred |-> None]
About(t, n) == [type |-> t, name |-> n, cred |-> None]
Approved(e) == [type |-> "approved", name |-> None, cred |-> e]
Ups == [type : {"noise", "attach", "list", "key", "detach", "spawn"}, name : Names,
        cred : {None}]
Downs == [type : {"waiting", "paired", "gone", "revoked", "close", "welcome",
                  "approved", "attached", "spawned", "sessions", "error", "exit"},
          name : Names, cred : Creds]

TypeOK ==
  /\ ws \in Socks \cup {None} /\ transport \in Socks \cup {None}
  /\ sock \in [Socks -> SockStates]
  /\ page \in PageStates /\ shown \in ShownStates /\ token \in TokenStates
  /\ up \in [Socks -> Seq(Ups)] /\ down \in [Socks -> Seq(Downs)]
  /\ srv \in [Socks -> SrvStates] /\ live \subseteq Sessions
  /\ epoch \in 0..MaxRevokes
  /\ left \in [faults : 0..MaxFaults, acts : 0..MaxActs, gone : BOOLEAN]

Closed == [st |-> "closed", done |-> FALSE]
Fresh == [st |-> "new", cred |-> None, bridge |-> None, pend |-> None,
          born |-> FALSE, listing |-> FALSE, spawning |-> None, stray |-> FALSE]

(* A page that has just loaded: main() parses the URL and connects.        *)
Loaded == [resolving |-> TRUE, timer |-> FALSE, intentional |-> FALSE,
           attached |-> FALSE, popTimer |-> FALSE, reloading |-> FALSE]

Init ==
  /\ ws = None /\ transport = None /\ page = Loaded
  /\ sock = [s \in Socks |-> Closed]
  /\ \E tab \in Tabs :
       /\ shown = [cur |-> None, view |-> "loading", hist |-> tab, pos |-> 1]
       /\ token = [held |-> 0, stored |-> IF FromFragment THEN None ELSE 0,
                   home |-> tab[1]]
  /\ up = [s \in Socks |-> <<>>] /\ down = [s \in Socks |-> <<>>]
  /\ srv = [s \in Socks |-> Fresh] /\ live = Sessions /\ epoch = 0
  /\ left = [faults |-> MaxFaults, acts |-> MaxActs, gone |-> FALSE]

Spend(what) == left[what] > 0 /\ left' = [left EXCEPT ![what] = @ - 1]

-----------------------------------------------------------------------------
(* The page: helpers.                                                      *)

ScheduleAlways(p) == [p EXCEPT !.timer = TRUE]                   (* mutant *)
ScheduleReconnect(p) == [p EXCEPT !.timer = @ \/ ~p.intentional]

(* showStatus, called with every retry the gate lets through.              *)
StatusOf(p) == IF p.intentional THEN shown ELSE [shown EXCEPT !.view = "loading"]

(* sendEncrypted: dropped unless there are keys and the socket is open.    *)
CanSend == transport # None /\ ws # None /\ sock[ws].st = "open"
Sent(s, msgs) == [up EXCEPT ![s] = @ \o msgs]
Sends(msgs) == up' = IF CanSend THEN Sent(ws, msgs) ELSE up

Push(h, name) ==
  IF h.hist[h.pos] = name THEN h
  ELSE [h EXCEPT !.hist = Append(SubSeq(@, 1, h.pos), name), !.pos = @ + 1]
Replace(h, name) == [h EXCEPT !.hist[h.pos] = name]

(* attachToSession and the handler of `spawned`: the page shows a session. *)
Shows(name) == Push([shown EXCEPT !.cur = name, !.view = "terminal"], name)

Strays(s) == [srv EXCEPT ![s].stray = @ \/ srv[s].spawning # None \/ srv[s].born
                             \/ \E m \in ToSet(up[s] \o down[s]) :
                                  m.type \in {"spawn", "spawned"}]

AttachOnce(name) ==                                              (* mutant *)
  /\ shown' = Shows(name)
  /\ Sends(IF page.attached THEN <<>> ELSE <<About("attach", name)>>)
  /\ srv' = IF CanSend THEN Strays(ws) ELSE srv
AttachToSession(name) ==
  /\ shown' = Shows(name)
  /\ Sends(<<About("attach", name)>>)
  /\ srv' = IF CanSend THEN Strays(ws) ELSE srv

(* The detach button's handler.                                            *)
Detach(p) ==
  /\ Sends((IF p.attached THEN <<Msg("detach")>> ELSE <<>>) \o <<Msg("list")>>)
  /\ page' = [p EXCEPT !.attached = FALSE]
  /\ shown' = Replace([shown EXCEPT !.cur = None, !.view = "loading"], None)

(* ws.close(): a socket that is not closed yet will say so later.          *)
ForgetWs(d) ==                                                   (* mutant *)
  ws' = None /\ transport' = None /\ sock' = sock /\ down' = d
CloseWs(d) ==
  /\ ws' = None /\ transport' = None
  /\ IF ws # None /\ sock[ws].st \in {"connecting", "open"}
     THEN /\ sock' = [sock EXCEPT ![ws].st = "closing"]
          /\ down' = [d EXCEPT ![ws] = <<>>]
     ELSE sock' = sock /\ down' = d

ConnectToRelay ==
  /\ CloseWs(down)
  /\ page' = [page EXCEPT !.timer = FALSE, !.attached = FALSE, !.resolving = TRUE]
  /\ shown' = [shown EXCEPT !.view = "loading"]

(* A document is replaced: its sockets and timers are gone with it.        *)
Load ==
  /\ ws' = None /\ transport' = None /\ page' = Loaded
  /\ sock' = [s \in Socks |-> Closed]
  /\ up' = [s \in Socks |-> <<>>] /\ down' = [s \in Socks |-> <<>>]
  /\ srv' = [s \in Socks |-> Fresh]
  /\ shown' = [shown EXCEPT !.cur = None, !.view = "loading"]
  /\ token' = [token EXCEPT !.held = IF FromFragment THEN 0 ELSE token.stored,
                            !.home = shown.hist[shown.pos]]

-----------------------------------------------------------------------------
(* The page: timers and promises.                                          *)

(* The secret is hashed: the socket is made.                               *)
Resolves ==
  /\ page.resolving /\ page' = [page EXCEPT !.resolving = FALSE]
  /\ LET free == {c \in Socks : sock[c].st = "closed"}
         s == CHOOSE c \in free : TRUE IN
       /\ free # {}
       /\ ws' = s /\ sock' = [sock EXCEPT ![s] = [Closed EXCEPT !.st = "connecting"]]
       /\ srv' = [srv EXCEPT ![s] = [Fresh EXCEPT !.cred = token.held]]
  /\ UNCHANGED <<transport, shown, token, up, down, live, epoch, left>>

(* The delay is 500 ms at least: hashing is over by then.                  *)
TimerFires ==
  /\ page.timer /\ ~page.resolving /\ ConnectToRelay
  /\ UNCHANGED <<token, up, srv, live, epoch, left>>

(* syncViewToUrl, 50 ms after the last step through the history.           *)
PopFires ==
  /\ page.popTimer
  /\ LET path == shown.hist[shown.pos]
         rest == [page EXCEPT !.popTimer = FALSE] IN
     \/ /\ path # None /\ shown.cur # path
        /\ AttachToSession(path) /\ page' = rest
     \/ /\ path = None /\ page.attached
        /\ Detach(rest) /\ srv' = srv
     \/ /\ IF path # None THEN shown.cur = path ELSE ~page.attached
        /\ page' = rest /\ UNCHANGED <<shown, up, srv>>
  /\ UNCHANGED <<ws, sock, transport, token, down, live, epoch, left>>

ReloadFires ==
  /\ page.reloading /\ Load
  /\ UNCHANGED <<live, epoch, left>>

-----------------------------------------------------------------------------
(* The page: events of a socket.                                           *)

Opens(s) ==
  /\ sock[s].st = "connecting" /\ sock' = [sock EXCEPT ![s].st = "open"]
  /\ shown' = [shown EXCEPT !.view = "loading"]
  /\ UNCHANGED <<ws, transport, page, token, up, down, srv, live, epoch, left>>

(* onclose, which does not ask whether the socket is still the page's own. *)
OnCloseIfDone(s) ==                                              (* mutant *)
  /\ sock' = [sock EXCEPT ![s] = Closed]
  /\ up' = [up EXCEPT ![s] = <<>>] /\ down' = [down EXCEPT ![s] = <<>>]
  /\ srv' = [srv EXCEPT ![s] = Fresh]
  /\ page' = (IF sock[s].done THEN ScheduleReconnect(page) ELSE page)
  /\ shown' = StatusOf(page)
  /\ UNCHANGED <<ws, transport, token, live, epoch>>
OnClose(s) ==
  /\ sock' = [sock EXCEPT ![s] = Closed]
  /\ up' = [up EXCEPT ![s] = <<>>] /\ down' = [down EXCEPT ![s] = <<>>]
  /\ srv' = [srv EXCEPT ![s] = Fresh]
  /\ page' = ScheduleReconnect(page) /\ shown' = StatusOf(page)
  /\ UNCHANGED <<ws, transport, token, live, epoch>>

Breaks(s) == sock[s].st \in {"connecting", "open"} /\ Spend("faults") /\ OnClose(s)
CloseArrives(s) == sock[s].st = "closing" /\ OnClose(s) /\ left' = left

(* Messages go to an open socket only, in order.                           *)
Next1(s, t) == sock[s].st = "open" /\ down[s] # <<>> /\ Head(down[s]).type = t
Took(s) == down' = [down EXCEPT ![s] = Tail(@)]

RefusedClose(s) == Next1(s, "close") /\ OnClose(s) /\ left' = left

Waiting(s) ==
  /\ Next1(s, "waiting") /\ Took(s) /\ shown' = [shown EXCEPT !.view = "loading"]
  /\ UNCHANGED <<ws, sock, transport, page, token, up, srv, live, epoch, left>>

(* The hello goes out on the global ws, whatever socket was paired.        *)
Paired(s) ==
  /\ Next1(s, "paired") /\ Took(s) /\ shown' = [shown EXCEPT !.view = "loading"]
  /\ up' = IF ws # None /\ sock[ws].st = "open" THEN Sent(ws, <<Msg("noise")>>) ELSE up
  /\ UNCHANGED <<ws, sock, transport, page, token, srv, live, epoch, left>>

PeerDisconnected(s) ==
  /\ Next1(s, "gone") /\ Took(s)
  /\ page' = ScheduleReconnect(page) /\ shown' = [shown EXCEPT !.view = "loading"]
  /\ UNCHANGED <<ws, sock, transport, token, up, srv, live, epoch, left>>

(* error "token revoked": the stored token goes, the page loads again.     *)
RevokedKeepsToken(s) ==                                          (* mutant *)
  /\ Next1(s, "revoked") /\ Took(s) /\ shown' = [shown EXCEPT !.view = "loading"]
  /\ page' = [page EXCEPT !.reloading = TRUE]
  /\ UNCHANGED <<ws, sock, transport, token, up, srv, live, epoch, left>>
Revoked(s) ==
  /\ Next1(s, "revoked") /\ Took(s) /\ shown' = [shown EXCEPT !.view = "loading"]
  /\ IF token.held # None
     THEN /\ token' = [token EXCEPT !.stored = None]
          /\ page' = [page EXCEPT !.reloading = TRUE]
     ELSE UNCHANGED <<token, page>>
  /\ UNCHANGED <<ws, sock, transport, up, srv, live, epoch, left>>

(* The first binary frame ends the handshake; the page attaches again to   *)
(* what it showed, or to what its URL named when it was loaded.            *)
Welcome(s) ==
  /\ Next1(s, "welcome") /\ ~sock[s].done /\ Took(s)
  /\ transport' = s /\ sock' = [sock EXCEPT ![s].done = TRUE]
  /\ LET target == IF shown.cur # None THEN shown.cur ELSE token.home
         out == IF target # None THEN About("attach", target) ELSE Msg("list") IN
     /\ shown' = IF target # None THEN Shows(target)
                 ELSE [shown EXCEPT !.view = "loading"]
     /\ up' = IF ws # None /\ sock[ws].st = "open" THEN Sent(ws, <<out>>) ELSE up
  /\ UNCHANGED <<ws, page, token, srv, live, epoch, left>>

(* Later ones are read with the global keys: those of another socket would *)
(* not do (OnlyCurrentSpeaks: this never happens).                         *)
Reads(s, t) == Next1(s, t) /\ sock[s].done /\ transport = s /\ Took(s)

ApprovedMsg(s) ==
  /\ Reads(s, "approved")
  /\ token' = IF page.attached THEN token
              ELSE [token EXCEPT !.held = Head(down[s]).cred, !.stored = Head(down[s]).cred]
  /\ UNCHANGED <<ws, sock, transport, page, shown, up, srv, live, epoch, left>>

Attached(s) ==
  /\ Reads(s, "attached") /\ page' = [page EXCEPT !.attached = TRUE]
  /\ UNCHANGED <<ws, sock, transport, shown, token, up, srv, live, epoch, left>>

(* An attached page takes no notice of `spawned`.                          *)
Spawned(s) ==
  /\ Reads(s, "spawned")
  /\ shown' = IF page.attached THEN shown ELSE Shows(Head(down[s]).name)
  /\ UNCHANGED <<ws, sock, transport, page, token, up, srv, live, epoch, left>>

Listed(s) ==
  /\ Reads(s, "sessions") /\ shown' = [shown EXCEPT !.view = "sessions"]
  /\ UNCHANGED <<ws, sock, transport, page, token, up, srv, live, epoch, left>>

Errs(s) ==
  /\ Reads(s, "error") /\ shown' = [shown EXCEPT !.view = "loading"]
  /\ UNCHANGED <<ws, sock, transport, page, token, up, srv, live, epoch, left>>

(* MSG_EXIT: the URL is cleared and the page disconnects for good,         *)
(* whatever session it shows by now.                                       *)
Exits(s) ==
  /\ Next1(s, "exit") /\ sock[s].done /\ transport = s
  /\ CloseWs([down EXCEPT ![s] = Tail(@)])
  /\ page' = [page EXCEPT !.intentional = TRUE, !.timer = FALSE, !.attached = FALSE]
  /\ shown' = Replace([shown EXCEPT !.cur = None, !.view = "loading"], None)
  /\ UNCHANGED <<token, up, srv, live, epoch, left>>

PageTakes(s) ==
  \/ Waiting(s) \/ Paired(s) \/ PeerDisconnected(s) \/ Revoked(s) \/ Welcome(s)
  \/ ApprovedMsg(s) \/ Attached(s) \/ Spawned(s) \/ Listed(s) \/ Errs(s)
  \/ Exits(s) \/ RefusedClose(s)

-----------------------------------------------------------------------------
(* The user.                                                               *)

Click(name) ==
  /\ shown.view = "sessions" /\ Spend("acts") /\ AttachToSession(name)
  /\ UNCHANGED <<ws, sock, transport, page, token, down, live, epoch>>

ClickNew(name) ==
  /\ shown.view = "sessions" /\ Spend("acts")
  /\ shown' = [shown EXCEPT !.view = "loading"] /\ Sends(<<About("spawn", name)>>)
  /\ srv' = IF CanSend THEN Strays(ws) ELSE srv
  /\ UNCHANGED <<ws, sock, transport, page, token, down, live, epoch>>

ClickDetach ==
  /\ shown.view = "terminal" /\ Spend("acts") /\ Detach(page)
  /\ UNCHANGED <<ws, sock, transport, token, down, srv, live, epoch>>

Types ==
  /\ shown.view = "terminal" /\ page.attached /\ CanSend
  /\ \A m \in ToSet(up[ws]) : m.type # "key"
  /\ Sends(<<About("key", shown.cur)>>)
  /\ UNCHANGED <<ws, sock, transport, page, shown, token, down, srv, live, epoch, left>>

Steps(d) ==
  /\ shown.pos + d \in DOMAIN shown.hist /\ Spend("acts")
  /\ shown' = [shown EXCEPT !.pos = @ + d]
  /\ page' = [page EXCEPT !.popTimer = TRUE]
  /\ UNCHANGED <<ws, sock, transport, token, up, down, srv, live, epoch>>

Refresh == Spend("acts") /\ Load
           /\ UNCHANGED <<live, epoch>>

-----------------------------------------------------------------------------
(* Relay and daemon.                                                       *)

Srv(s, r) == srv' = [srv EXCEPT ![s] = r]
Answers(s, msgs) == down' = [down EXCEPT ![s] = @ \o msgs]
Elsewhere == UNCHANGED <<ws, sock, transport, page, shown, token>>

(* A client with a good token is paired, one without waits, one whose      *)
(* token is revoked is refused.                                            *)
Admits(s) ==
  /\ sock[s].st = "open" /\ srv[s].st = "new"
  /\ \/ srv[s].cred = epoch /\ Srv(s, [srv[s] EXCEPT !.st = "paired"])
        /\ Answers(s, <<Msg("paired")>>)
     \/ srv[s].cred = None /\ Srv(s, [srv[s] EXCEPT !.st = "waiting"])
        /\ Answers(s, <<Msg("waiting")>>)
     \/ srv[s].cred \notin {None, epoch} /\ Srv(s, [srv[s] EXCEPT !.st = "gone"])
        /\ Answers(s, <<Msg("revoked"), Msg("close")>>)
  /\ Elsewhere /\ UNCHANGED <<up, live, epoch, left>>

(* The operator approves: a new token goes with the pairing.               *)
Approves(s) ==
  /\ sock[s].st = "open" /\ srv[s].st = "waiting"
  /\ Srv(s, [srv[s] EXCEPT !.st = "paired", !.cred = epoch])
  /\ Answers(s, <<Msg("paired")>>)
  /\ Elsewhere /\ UNCHANGED <<up, live, epoch, left>>

Head1(s, t) ==
  /\ sock[s].st = "open" /\ up[s] # <<>> /\ Head(up[s]).type = t
  /\ up' = [up EXCEPT ![s] = Tail(@)] /\ Elsewhere
  /\ UNCHANGED <<live, epoch, left>>

(* onHandshakeComplete: the token is confirmed inside the tunnel.          *)
TakesNoise(s) ==
  /\ Head1(s, "noise") /\ srv[s].st = "paired" /\ Srv(s, [srv[s] EXCEPT !.st = "up"])
  /\ Answers(s, <<Msg("welcome"), Approved(srv[s].cred)>>)

Unbridged(r) == [r EXCEPT !.bridge = None, !.pend = None, !.born = FALSE]

(* attach, list, spawn: an old bridge is closed first (spawn: later).      *)
TakesAttach(s) ==
  /\ Head1(s, "attach") /\ srv[s].st = "up"
  /\ Srv(s, [Unbridged(srv[s]) EXCEPT !.pend = Head(up[s]).name]) /\ down' = down

TakesList(s) ==
  /\ Head1(s, "list") /\ srv[s].st = "up"
  /\ Srv(s, [Unbridged(srv[s]) EXCEPT !.listing = TRUE]) /\ down' = down

TakesSpawn(s) ==
  /\ Head1(s, "spawn") /\ srv[s].st = "up"
  /\ Srv(s, [srv[s] EXCEPT !.spawning = Head(up[s]).name]) /\ down' = down

(* Packets for the bridge: a key, or MSG_DETACH, upon which the session    *)
(* ends the bridge.                                                        *)
TakesPacket(s) ==
  /\ \/ Head1(s, "key") /\ srv' = srv
     \/ Head1(s, "detach") /\ Srv(s, Unbridged(srv[s]))
  /\ srv[s].st = "up" /\ down' = down

(* What is sent to a daemon that is gone is dropped by the relay.          *)
Dropped(s) ==
  /\ sock[s].st = "open" /\ srv[s].st = "gone" /\ up[s] # <<>>
  /\ up' = [up EXCEPT ![s] = <<>>] /\ Elsewhere
  /\ UNCHANGED <<down, srv, live, epoch, left>>

(* SessionBridge.attach ends.                                              *)
BridgeConnects(s) ==
  /\ sock[s].st = "open" /\ srv[s].pend # None
  /\ LET name == srv[s].pend IN
     IF name \in live
     THEN /\ Srv(s, [Unbridged(srv[s]) EXCEPT !.bridge = name])
          /\ Answers(s, (IF srv[s].born THEN <<About("spawned", name)>> ELSE <<>>)
                         \o <<Msg("attached")>>)
     ELSE Srv(s, Unbridged(srv[s])) /\ Answers(s, <<Msg("error")>>)
  /\ Elsewhere /\ UNCHANGED <<up, live, epoch, left>>

(* listSessions() resolves.                                                *)
ListReplies(s) ==
  /\ sock[s].st = "open" /\ srv[s].listing
  /\ Srv(s, [srv[s] EXCEPT !.listing = FALSE]) /\ Answers(s, <<Msg("sessions")>>)
  /\ Elsewhere /\ UNCHANGED <<up, live, epoch, left>>

(* getSession() resolves: the session is started and bridged, in place of  *)
(* what is bridged by now.                                                 *)
SpawnRuns(s) ==
  /\ sock[s].st = "open" /\ srv[s].spawning # None
  /\ LET name == srv[s].spawning
         rest == [srv[s] EXCEPT !.spawning = None] IN
     IF name \in live
     THEN Srv(s, rest) /\ Answers(s, <<Msg("error")>>) /\ live' = live
     ELSE /\ live' = live \cup {name} /\ down' = down
          /\ Srv(s, [Unbridged(rest) EXCEPT !.pend = name, !.born = TRUE])
  /\ Elsewhere /\ UNCHANGED <<up, epoch, left>>

ServerTakes(s) ==
  \/ Admits(s) \/ TakesNoise(s) \/ TakesAttach(s) \/ TakesList(s) \/ TakesSpawn(s)
  \/ TakesPacket(s) \/ Dropped(s) \/ BridgeConnects(s) \/ ListReplies(s) \/ SpawnRuns(s)

(* A session ends: every bridge to it passes on MSG_EXIT and closes.       *)
SessionEnds(name) ==
  /\ name \in live /\ live' = live \ {name} /\ Spend("faults")
  /\ srv' = [s \in Socks |-> IF srv[s].bridge = name
                             THEN [srv[s] EXCEPT !.bridge = None] ELSE srv[s]]
  /\ down' = [s \in Socks |-> IF srv[s].bridge = name /\ sock[s].st = "open"
                              THEN Append(down[s], Msg("exit")) ELSE down[s]]
  /\ Elsewhere /\ UNCHANGED <<up, epoch>>

(* The daemon's connection for a client ends: the relay says so and keeps  *)
(* the client's socket open.                                               *)
Left(r) == [Fresh EXCEPT !.st = "gone"]
PeerGoes(s) ==
  /\ sock[s].st = "open" /\ srv[s].st \in {"paired", "up"} /\ left.faults > 0
  /\ left' = [left EXCEPT !.faults = @ - 1, !.gone = TRUE]
  /\ Srv(s, Left(srv[s])) /\ Answers(s, <<Msg("gone")>>)
  /\ Elsewhere /\ UNCHANGED <<up, live, epoch>>

(* The operator revokes the token: clients it let in are disconnected.     *)
Revokes ==
  /\ epoch < MaxRevokes /\ epoch' = epoch + 1 /\ Spend("faults")
  /\ LET out == {s \in Socks : sock[s].st = "open" /\ srv[s].st \in {"paired", "up"}} IN
     /\ srv' = [s \in Socks |-> IF s \in out THEN Left(srv[s]) ELSE srv[s]]
     /\ down' = [s \in Socks |-> IF s \in out THEN Append(down[s], Msg("gone"))
                                 ELSE down[s]]
  /\ Elsewhere /\ UNCHANGED <<up, live>>

-----------------------------------------------------------------------------
Page ==
  \/ Resolves \/ TimerFires \/ PopFires \/ ReloadFires
  \/ \E s \in Socks : Opens(s) \/ CloseArrives(s) \/ PageTakes(s)
User ==
  \/ \E n \in Sessions : Click(n) \/ ClickNew(n)
  \/ ClickDetach \/ Types \/ Refresh \/ Steps(-1) \/ Steps(1)
World ==
  \/ \E s \in Socks : ServerTakes(s) \/ Approves(s) \/ Breaks(s) \/ PeerGoes(s)
  \/ \E n \in Sessions : SessionEnds(n)
  \/ Revokes

Next == Page \/ User \/ World
Spec == Init /\ [][Next]_vars

(* Handlers and timers run.  A reconnect waits half a second or more: it   *)
(* does not beat every answer of the network for ever (SF).  Nobody has to *)
(* approve, break, revoke or type.                                         *)
FairSpec ==
  /\ Spec /\ WF_vars(Resolves) /\ WF_vars(TimerFires) /\ WF_vars(ReloadFires)
  /\ WF_vars(\E s \in Socks : CloseArrives(s))
  /\ SF_vars(\E s \in Socks : Opens(s)) /\ SF_vars(\E s \in Socks : PageTakes(s))
  /\ SF_vars(\E s \in Socks : ServerTakes(s))

-----------------------------------------------------------------------------
(* At most one socket can speak to the page, the global ws, and once its   *)
(* handshake is over the global keys are its own: nothing is sent to or    *)
(* read from a socket with the keys of another (connectToRelay closes the  *)
(* old socket before it makes one; browsers mute a closing socket).        *)
OnlyCurrentSpeaks ==
  \A s \in Socks : sock[s].st \in {"connecting", "open"} =>
                     s = ws /\ (sock[s].done => transport = s)

(* After a session has exited nothing brings the page back: no socket, no  *)
(* timer, no half-made connection (disconnect, and the gate of             *)
(* scheduleReconnect against the close event that is still to come).       *)
StaysAway == page.intentional => ws = None /\ ~page.timer /\ ~page.resolving

(* A key arrives at the session that was on display when it was typed, or  *)
(* nowhere, through switches by click and by history, reconnects and late  *)
(* answers.  The exception is a page that moved to another session, or     *)
(* asked for one more, while its `spawn` was unanswered: the daemon then   *)
(* replaces the bridge.                                                    *)
Reaches(r) == IF r.bridge # None THEN r.bridge ELSE r.pend
KeysGoToShown ==
  \A s \in Socks : up[s] # <<>> /\ Head(up[s]).type = "key" /\ ~srv[s].stray =>
                     Reaches(srv[s]) \in {None, Head(up[s]).name}

(* Sockets that break, also while they connect, do not keep the page away: *)
(* unless the daemon's side alone has gone, it ends up served, or waiting  *)
(* for the operator, or disconnected for good.                             *)
Settled == \/ page.intentional
           \/ ws # None /\ sock[ws].st = "open" /\ srv[ws].st \in {"waiting", "up"}
ComesBack == <>left.gone \/ <>[]Settled

(* The same without the exception.                                         *)
Reconnects == <>[]Settled

(* "reload so we start fresh": once the page has been told that its token  *)
(* is revoked, it gets rid of it.                                          *)
StartsAfresh == page.reloading ~> token.held \in {None, epoch}
=============================================================================
