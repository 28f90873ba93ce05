----------------------------- MODULE ChannelMux -----------------------------
(***************************************************************************)
(* One client connection as the daemon sees it once the Noise handshake is *)
(* done: the ChannelConnection (registry, dispatcher), its exec and pty    *)
(* bridges, the child processes and pty sockets behind them, and the       *)
(* ClientSession that owns the lot.                                        *)
(*                                                                         *)
(* The client is the environment: any frame may arrive at any moment the   *)
(* RelayConnection is ready.  Children, pty sockets, the relay and promise *)
(* continuations are the other sources of events; Node runs one handler at *)
(* a time, so each action is a whole handler.                              *)
(*                                                                         *)
(* Outgoing frames travel a FIFO tunnel, so what the client can conclude   *)
(* from them is a function of the order in which they are sent: `out`      *)
(* holds the frames of the latest step and `view` the channel ledger a     *)
(* client keeps while reading them.                                        *)
(***************************************************************************)
EXTENDS Integers, Sequences, FiniteSets

CONSTANTS
  Bridges,          (* identities of ExecBridge and SessionBridge objects  *)
  ChanIds,          (* data channel ids the client uses                    *)
  PtyChan,          (* DEFAULT_PTY_CHANNEL_ID                              *)
  MaxChannels,      (* MAX_CHANNELS                                        *)
  MaxFrameBytes,    (* MAX_FRAME_BYTES                                     *)
  ChunkSizes,       (* sizes of the chunks children and ptys write         *)
  MaxSpawns,        (* bound: `spawn` requests waiting for getSession      *)
  TearsDownOnError, (* onError of the daemon: server/start.ts tears the    *)
                    (* client down, start.ts only logs                     *)
  None

ASSUME NoneAssumption == None \notin Bridges
ASSUME ChanAssumption ==
  PtyChan \in ChanIds /\ ChanIds \subseteq Nat \ {0} /\ IsFiniteSet(ChanIds)
ASSUME BoundAssumption ==
  MaxChannels \in Nat \ {0} /\ MaxFrameBytes \in Nat /\ MaxSpawns \in Nat
ASSUME ChunkAssumption == ChunkSizes \subseteq Nat
ASSUME VariantAssumption == TearsDownOnError \in BOOLEAN

VARIABLES
  conn,        (* RelayConnection.state: "ready" or "closed"               *)
  hasSession,  (* the daemon's clients map holds this ClientSession        *)
  registry,    (* ChannelRegistry.handlers                                 *)
  csBridge,    (* ClientSession.bridge                                     *)
  kind,        (* which class each bridge object is, "unused" before new   *)
  chan,        (* the channel id a bridge was constructed for              *)
  child,       (* the child process of an exec bridge                      *)
  finalized,   (* ExecBridge.finalized                                     *)
  termed,      (* exec bridges whose close() sent SIGTERM                  *)
  stdin,       (* "ended" is ExecBridge.stdinClosed; "broken" when the     *)
               (* child closed its end first                               *)
  socket,      (* SessionBridge.socket                                     *)
  spawning,    (* spawn requests whose getSession promise is pending       *)
  crash,       (* what uncaught exception ended the daemon, "no" if none   *)
  out,         (* history: frames sent by the latest step                  *)
  view         (* history: the bridge each channel stands for at the peer  *)

bridgeVars == <<kind, chan, child, finalized, termed, stdin, socket>>
vars == <<conn, hasSession, registry, csBridge, bridgeVars, spawning, crash,
          out, view>>

Handler == Bridges \cup {None}
Frame == [t : {"ack", "error", "data", "exit", "close", "attached"},
          id : ChanIds, b : Handler]

TypeOK ==
  /\ conn \in {"ready", "closed"}
  /\ hasSession \in BOOLEAN
  /\ registry \in [ChanIds -> Handler]
  /\ csBridge \in Handler
  /\ kind \in [Bridges -> {"unused", "exec", "pty"}]
  /\ chan \in [Bridges -> ChanIds]
  /\ child \in [Bridges ->
                 {"none", "failing", "running", "dead", "exited", "ended"}]
  /\ finalized \subseteq Bridges
  /\ termed \subseteq Bridges
  /\ stdin \in [Bridges -> {"open", "broken", "ended"}]
  /\ socket \in [Bridges -> {"null", "connecting", "open"}]
  /\ spawning \in 0 .. MaxSpawns
  /\ crash \in {"no", "stdin", "control"}
  /\ out \in Seq(Frame)
  /\ view \in [ChanIds -> Handler]

Init ==
  /\ conn = "ready"
  /\ hasSession = TRUE
  /\ registry = [i \in ChanIds |-> None]
  /\ csBridge = None
  /\ kind = [b \in Bridges |-> "unused"]
  /\ chan = [b \in Bridges |-> PtyChan]
  /\ child = [b \in Bridges |-> "none"]
  /\ finalized = {}
  /\ termed = {}
  /\ stdin = [b \in Bridges |-> "open"]
  /\ socket = [b \in Bridges |-> "null"]
  /\ spawning = 0
  /\ crash = "no"
  /\ out = <<>>
  /\ view = [i \in ChanIds |-> None]

-----------------------------------------------------------------------------
(* Helpers *)

Msg(t, i, b) == [t |-> t, id |-> i, b |-> b]

Occupied == {i \in ChanIds : registry[i] # None}

(* Mutants: a teardown from before connections had channels; the cap       *)
(* compared with >.                                                        *)
RegisteredForgotten == {}
AtLimitOffByOne == Cardinality(Occupied) > MaxChannels

Registered == {registry[i] : i \in Occupied}
AtLimit == Cardinality(Occupied) >= MaxChannels

(* encodeFrame accepts a payload of n bytes behind the 5-byte header.      *)
HeaderBytes == 5
FrameFits(n) == HeaderBytes + n <= MaxFrameBytes

(* RelayConnection.send with a frame of n payload bytes does not throw.    *)
CanSend(n) == conn = "ready" /\ FrameFits(n)

ExecIn(S) == {b \in S : kind[b] = "exec"}

(* Mutant: close() forgets the socket.                                     *)
SocketsKept(S) == socket

SocketsWithout(S) == [b \in Bridges |-> IF b \in S THEN "null" ELSE socket[b]]

(* Mutants: close() signals but does not mark the bridge finalized;        *)
(* close() has no early return for a finalized bridge.                     *)
CloseExecUnmarked(S) ==
  /\ finalized' = finalized
  /\ termed' = termed \cup {b \in ExecIn(S) \ finalized : child[b] # "none"}
CloseExecAgain(S) ==
  /\ finalized' = finalized \cup ExecIn(S)
  /\ termed' = termed \cup {b \in ExecIn(S) : child[b] # "none"}

(* ExecBridge.close: finalize once and send SIGTERM if there is a child.   *)
CloseExec(S) ==
  /\ finalized' = finalized \cup ExecIn(S)
  /\ termed' = termed \cup {b \in ExecIn(S) \ finalized : child[b] # "none"}

(* handler.close(reason) on every bridge of S; a pty socket is destroyed.  *)
CloseBridges(S) == CloseExec(S) /\ socket' = SocketsWithout(S)

(* teardownClient: the bridge, every registered channel, the raw           *)
(* connection and the clients entry go in one step.                        *)
TeardownClient ==
  /\ CloseBridges((Registered \cup {csBridge}) \ {None})
  /\ registry' = [i \in ChanIds |-> None]
  /\ csBridge' = None
  /\ conn' = "closed"
  /\ hasSession' = FALSE
  /\ view' = [i \in ChanIds |-> None]

-----------------------------------------------------------------------------
(* channel_open, channel_close and data frames from the client *)

(* A mode, flag or allow-list refusal, or ChannelRegistry.open throwing    *)
(* id_collision or channel_limit: nothing happens but the reply.  The      *)
(* policy may refuse any request, so the two are one action.               *)
OpenRefused(i) ==
  /\ conn = "ready"
  /\ out' = <<Msg("error", i, None)>>
  /\ UNCHANGED <<conn, hasSession, registry, csBridge, bridgeVars, spawning,
                 crash, view>>

(* Mutant: open() without the id_collision check.                          *)
RegistryOverwrites(i) == ~AtLimit

RegistryAccepts(i) == registry[i] = None /\ ~AtLimit

(* spawn throws in start(): the registration is rolled back.               *)
OpenSpawnFails(i, b) ==
  /\ conn = "ready"
  /\ kind[b] = "unused" /\ RegistryAccepts(i)
  /\ kind' = [kind EXCEPT ![b] = "exec"]
  /\ chan' = [chan EXCEPT ![b] = i]
  /\ finalized' = finalized \cup {b}
  /\ out' = <<Msg("error", i, None)>>
  /\ UNCHANGED <<conn, hasSession, registry, csBridge, child, termed, stdin,
                 socket, spawning, crash, view>>

(* The bridge is registered, the child started and the open acknowledged.  *)
(* A missing binary shows up only later, as an `error` event.              *)
OpenExecChannel(i, b) ==
  /\ conn = "ready"
  /\ kind[b] = "unused" /\ RegistryAccepts(i)
  /\ registry' = [registry EXCEPT ![i] = b]
  /\ kind' = [kind EXCEPT ![b] = "exec"]
  /\ chan' = [chan EXCEPT ![b] = i]
  /\ \E c \in {"running", "failing"} : child' = [child EXCEPT ![b] = c]
  /\ out' = <<Msg("ack", i, b)>>
  /\ view' = [view EXCEPT ![i] = b]
  /\ UNCHANGED <<conn, hasSession, csBridge, finalized, termed, stdin, socket,
                 spawning, crash>>

(* channel_close from the client: ChannelRegistry.close.                   *)
CloseChannel(i) ==
  /\ conn = "ready"
  /\ CloseBridges({registry[i]} \ {None})
  /\ registry' = [registry EXCEPT ![i] = None]
  /\ out' = <<>>
  /\ view' = [view EXCEPT ![i] = None]
  /\ UNCHANGED <<conn, hasSession, csBridge, kind, chan, child, stdin,
                 spawning, crash>>

(* The dispatcher routes a data frame to exec bridge b, which listens.     *)
ExecHears(i, b) ==
  /\ conn = "ready"
  /\ registry[i] = b
  /\ kind[b] = "exec" /\ child[b] # "none" /\ b \notin finalized

(* The empty STDIN frame: end the child's stdin.                           *)
StdinEof(i, b) ==
  /\ ExecHears(i, b) /\ stdin[b] # "ended"
  /\ stdin' = [stdin EXCEPT ![b] = "ended"]
  /\ out' = <<>>
  /\ UNCHANGED <<conn, hasSession, registry, csBridge, kind, chan, child,
                 finalized, termed, socket, spawning, crash, view>>

(* STDIN bytes for a child that has stopped reading: the write fails with  *)
(* EPIPE and child.stdin, which has no `error` listener, throws it.  (A    *)
(* write that succeeds changes nothing here.)                              *)
StdinWriteFails(i, b) ==
  /\ ExecHears(i, b) /\ stdin[b] # "ended"
  /\ stdin[b] = "broken" \/ child[b] = "dead"
  /\ crash' = "stdin"
  /\ out' = <<>>
  /\ UNCHANGED <<conn, hasSession, registry, csBridge, bridgeVars, spawning, view>>

(* A frame the mode forbids (unknown type, wrong or missing sub-stream),   *)
(* or STDIN after EOF: channel_close goes out and the child is signalled;  *)
(* the registry keeps the bridge.                                          *)
ProtocolError(i, b) ==
  /\ ExecHears(i, b)
  /\ CloseBridges({b})
  /\ out' = <<Msg("close", i, b)>>
  /\ view' = [view EXCEPT ![i] = None]
  /\ UNCHANGED <<conn, hasSession, registry, csBridge, kind, chan, child,
                 stdin, spawning, crash>>

-----------------------------------------------------------------------------
(* Events of a child process *)

(* The child closes its end of stdin and lives on (of no consequence once  *)
(* nobody writes to it).                                                   *)
ChildClosesStdin(b) ==
  /\ child[b] = "running" /\ stdin[b] = "open" /\ b \notin finalized
  /\ stdin' = [stdin EXCEPT ![b] = "broken"]
  /\ out' = <<>>
  /\ UNCHANGED <<conn, hasSession, registry, csBridge, kind, chan, child,
                 finalized, termed, socket, spawning, crash, view>>

(* The process is gone; its exit event is still queued.                    *)
ChildDies(b) ==
  /\ child[b] = "running"
  /\ child' = [child EXCEPT ![b] = "dead"]
  /\ out' = <<>>
  /\ UNCHANGED <<conn, hasSession, registry, csBridge, kind, chan, finalized,
                 termed, stdin, socket, spawning, crash, view>>

(* The `exit` and `error` listeners: unless the bridge is finalized, send  *)
(* channel_exit and channel_close.  A send the connection refuses throws   *)
(* out of the listener.  The registry keeps the bridge either way.         *)
Announce(b) ==
  /\ finalized' = finalized \cup {b}
  /\ IF b \in finalized
       THEN out' = <<>> /\ UNCHANGED <<crash, view>>
       ELSE IF conn = "ready"
       THEN /\ out' = <<Msg("exit", chan[b], b), Msg("close", chan[b], b)>>
            /\ view' = [view EXCEPT ![chan[b]] = None]
            /\ UNCHANGED crash
       ELSE out' = <<>> /\ crash' = "control" /\ UNCHANGED view
  /\ UNCHANGED <<conn, hasSession, registry, csBridge, kind, chan, termed,
                 stdin, socket, spawning>>

ChildExit(b) ==
  /\ child[b] = "dead"
  /\ child' = [child EXCEPT ![b] = "exited"]
  /\ Announce(b)

ChildError(b) ==
  /\ child[b] = "failing"
  /\ child' = [child EXCEPT ![b] = "ended"]
  /\ Announce(b)

(* A chunk of n bytes read from stdout or stderr, which stay readable      *)
(* after `exit`: one DATA frame with a sub-stream byte, or, when the send  *)
(* throws, a line in the log.                                              *)
ChildOutput(b, n) ==
  /\ child[b] \in {"running", "dead", "exited"}
  /\ out' = IF CanSend(n + 1) THEN <<Msg("data", chan[b], b)>> ELSE <<>>
  /\ UNCHANGED <<conn, hasSession, registry, csBridge, bridgeVars, spawning,
                 crash, view>>

(* stdout and stderr reach their end.                                      *)
ChildDrained(b) ==
  /\ child[b] = "exited"
  /\ child' = [child EXCEPT ![b] = "ended"]
  /\ out' = <<>>
  /\ UNCHANGED <<conn, hasSession, registry, csBridge, kind, chan, finalized,
                 termed, stdin, socket, spawning, crash, view>>

-----------------------------------------------------------------------------
(* Session RPCs that move the pty bridge *)

(* `list` closes the bridge's socket and leaves the bridge registered.     *)
List ==
  /\ conn = "ready"
  /\ CloseBridges({csBridge} \ {None})
  /\ out' = <<>>
  /\ UNCHANGED <<conn, hasSession, registry, csBridge, kind, chan, child,
                 stdin, spawning, crash, view>>

(* ChannelConnection.attachBridge closes whatever holds the pty channel    *)
(* before it registers the new bridge, and throws channel_limit when the   *)
(* channel was free and the registry is full.                              *)
AttachThrows == registry[PtyChan] = None /\ AtLimit

(* cs.bridge.close; cs.bridge = new SessionBridge; attachBridge; connect.  *)
BridgeSession(b) ==
  LET displaced == {csBridge, registry[PtyChan]} \ {None}
  IN /\ kind[b] = "unused"
     /\ ~AttachThrows
     /\ CloseExec(displaced)
     /\ socket' = [SocketsWithout(displaced) EXCEPT ![b] = "connecting"]
     /\ registry' = [registry EXCEPT ![PtyChan] = b]
     /\ csBridge' = b
     /\ kind' = [kind EXCEPT ![b] = "pty"]
     /\ chan' = [chan EXCEPT ![b] = PtyChan]
     /\ UNCHANGED <<child, stdin>>

Attach(b) ==
  /\ conn = "ready"
  /\ BridgeSession(b)
  /\ out' = <<>>
  /\ UNCHANGED <<conn, hasSession, spawning, crash, view>>

(* The throw leaves `attach` and handlePlaintext, and handleBinaryMessage  *)
(* treats it like a decryption failure: onError, then close().             *)
AttachAtLimit(b) ==
  /\ conn = "ready"
  /\ kind[b] = "unused" /\ AttachThrows
  /\ kind' = [kind EXCEPT ![b] = "pty"]
  /\ conn' = "closed"
  /\ out' = <<>>
  /\ LET cascade == IF TearsDownOnError THEN Registered ELSE {}
     IN CloseBridges(({csBridge} \cup cascade) \ {None})
  /\ IF TearsDownOnError
       THEN /\ registry' = [i \in ChanIds |-> None]
            /\ csBridge' = None
            /\ hasSession' = FALSE
       ELSE csBridge' = b /\ UNCHANGED <<registry, hasSession>>
  /\ UNCHANGED <<chan, child, stdin, spawning, crash, view>>

(* `spawn` starts with a getSession promise; the rest runs when it         *)
(* settles, whatever has become of the client by then.                     *)
Spawn ==
  /\ conn = "ready"
  /\ spawning < MaxSpawns
  /\ spawning' = spawning + 1
  /\ out' = <<>>
  /\ UNCHANGED <<conn, hasSession, registry, csBridge, bridgeVars, crash, view>>

(* The name is taken or `pty run` fails: only an error reply.              *)
SpawnFails ==
  /\ spawning > 0
  /\ spawning' = spawning - 1
  /\ out' = <<>>
  /\ UNCHANGED <<conn, hasSession, registry, csBridge, bridgeVars, crash, view>>

SpawnBridges(b) ==
  /\ spawning > 0
  /\ spawning' = spawning - 1
  /\ BridgeSession(b)
  /\ out' = <<>>
  /\ UNCHANGED <<conn, hasSession, crash, view>>

(* attachBridge throws inside the continuation's try: the old bridge is    *)
(* closed, the new one never registered, and the client gets an error.     *)
SpawnAtLimit(b) ==
  /\ spawning > 0
  /\ kind[b] = "unused" /\ AttachThrows
  /\ spawning' = spawning - 1
  /\ CloseBridges({csBridge} \ {None})
  /\ csBridge' = b
  /\ kind' = [kind EXCEPT ![b] = "pty"]
  /\ out' = <<>>
  /\ UNCHANGED <<conn, hasSession, registry, chan, child, stdin, crash, view>>

-----------------------------------------------------------------------------
(* Events of a pty socket *)

(* connect: ATTACH is written and the promise's reply goes out (reply()    *)
(* swallows a refused send).                                               *)
PtyConnected(b) ==
  /\ socket[b] = "connecting"
  /\ socket' = [socket EXCEPT ![b] = "open"]
  /\ IF conn = "ready"
       THEN /\ out' = <<Msg("attached", PtyChan, b)>>
            /\ view' = [view EXCEPT ![PtyChan] = b]
       ELSE out' = <<>> /\ UNCHANGED view
  /\ UNCHANGED <<conn, hasSession, registry, csBridge, kind, chan, child,
                 finalized, termed, stdin, spawning, crash>>

(* error or close: the socket is forgotten, the client is not told that    *)
(* the channel ended.                                                      *)
PtyGone(b) ==
  /\ socket[b] # "null"
  /\ socket' = [socket EXCEPT ![b] = "null"]
  /\ out' = <<>>
  /\ UNCHANGED <<conn, hasSession, registry, csBridge, kind, chan, child,
                 finalized, termed, stdin, spawning, crash, view>>

(* Mutant: a send that throws is only logged, as for exec channels.        *)
PtyDataLogged(b, n) ==
  /\ socket[b] = "open"
  /\ out' = IF CanSend(n) THEN <<Msg("data", PtyChan, b)>> ELSE <<>>
  /\ UNCHANGED <<conn, hasSession, registry, csBridge, bridgeVars, spawning,
                 crash, view>>

(* data: one DATA frame, or close("send_failed") when the send throws.     *)
PtyData(b, n) ==
  /\ socket[b] = "open"
  /\ IF CanSend(n)
       THEN out' = <<Msg("data", PtyChan, b)>> /\ UNCHANGED socket
       ELSE /\ out' = <<>>
            /\ socket' = [socket EXCEPT ![b] = "null"]
  /\ UNCHANGED <<conn, hasSession, registry, csBridge, kind, chan, child,
                 finalized, termed, stdin, spawning, crash, view>>

-----------------------------------------------------------------------------
(* The end of the connection *)

(* A frame that cannot be decoded (onFatal), peer_disconnected or the      *)
(* close of the websocket (onPeerDisconnected, onClose), client_           *)
(* disconnected on the primary or the loss of the primary, SIGUSR1 after   *)
(* a revocation: all end in teardownClient.                                *)
Disconnect ==
  /\ hasSession
  /\ TeardownClient
  /\ out' = <<>>
  /\ UNCHANGED <<kind, chan, child, stdin, spawning, crash>>

(* A ciphertext that does not decrypt: onError, then close().  After       *)
(* close() the websocket's own close event is ignored.                     *)
DecryptFails ==
  /\ conn = "ready"
  /\ out' = <<>>
  /\ IF TearsDownOnError
       THEN TeardownClient
       ELSE /\ conn' = "closed"
            /\ UNCHANGED <<hasSession, registry, csBridge, finalized, termed,
                           socket, view>>
  /\ UNCHANGED <<kind, chan, child, stdin, spawning, crash>>

-----------------------------------------------------------------------------
ClientFrame ==
  \/ \E i \in ChanIds : OpenRefused(i) \/ CloseChannel(i)
  \/ \E i \in ChanIds, b \in Bridges :
       \/ OpenSpawnFails(i, b) \/ OpenExecChannel(i, b)
       \/ StdinEof(i, b) \/ StdinWriteFails(i, b) \/ ProtocolError(i, b)
  \/ List \/ Spawn
  \/ \E b \in Bridges : Attach(b) \/ AttachAtLimit(b)

ChildEvent ==
  \E b \in Bridges :
    \/ ChildClosesStdin(b) \/ ChildDies(b) \/ ChildExit(b) \/ ChildError(b)
    \/ ChildDrained(b) \/ \E n \in ChunkSizes : ChildOutput(b, n)

PtyEvent ==
  \/ SpawnFails
  \/ \E b \in Bridges :
       \/ SpawnBridges(b) \/ SpawnAtLimit(b) \/ PtyConnected(b) \/ PtyGone(b)
       \/ \E n \in ChunkSizes : PtyData(b, n)

Next ==
  /\ crash = "no"
  /\ ClientFrame \/ ChildEvent \/ PtyEvent \/ Disconnect \/ DecryptFails

Spec == Init /\ [][Next]_vars

(* Fairness of what answers on its own: a Unix-socket connect resolves or  *)
(* fails, and a pty server repaints the screen after ATTACH.  An open pty  *)
(* socket need never end, and nothing is assumed of clients, of children   *)
(* or of the relay.                                                        *)
Fairness ==
  \A b \in Bridges :
    /\ WF_vars(/\ crash = "no" /\ socket[b] = "connecting"
               /\ PtyConnected(b) \/ PtyGone(b))
    /\ WF_vars(crash = "no" /\ \E n \in ChunkSizes : PtyData(b, n))

FairSpec == Spec /\ Fairness

-----------------------------------------------------------------------------
(* Properties *)

(* A child that runs and was never told to stop is one that a live         *)
(* ClientSession can still reach: its bridge is registered, under the id   *)
(* it was opened with, so the cascade close of the connection will find    *)
(* it (ChannelRegistry.close/closeAll, ChannelConnection.attachBridge,     *)
(* teardownClient).                                                        *)
NoOrphanChild ==
  \A b \in Bridges :
    child[b] = "running" /\ b \notin termed =>
      hasSession /\ registry[chan[b]] = b

(* However attach, list, spawn continuations, channel_close and exec       *)
(* channels on id 1 interleave, a pty socket that is still up belongs to   *)
(* the bridge that both cs.bridge and the registry hold: there is at most  *)
(* one, and every path that closes the session closes it.                  *)
LivePtyIsReachable ==
  \A b \in Bridges :
    socket[b] # "null" => csBridge = b /\ registry[PtyChan] = b

(* Pty output is never shown under another session: every DATA frame of a  *)
(* pty bridge follows the `attached` reply of that bridge, and no other    *)
(* channel was opened on the id since (start-shared.ts attach and spawn,   *)
(* SessionBridge.attach).                                                  *)
PtyDataFollowsAttached ==
  \A k \in DOMAIN out :
    out[k].t = "data" /\ kind[out[k].b] = "pty" => view[out[k].id] = out[k].b

(* Output of an exec channel the daemon still holds open carries the id    *)
(* under which the client was acknowledged that very channel, also when    *)
(* the id is reused (openExecChannel).                                     *)
LiveExecDataFollowsAck ==
  \A k \in DOMAIN out :
    (/\ out[k].t = "data" /\ kind[out[k].b] = "exec"
     /\ out[k].b \notin finalized) => view[out[k].id] = out[k].b

(* The registry closes every channel when the Noise session ends for any   *)
(* reason (channel-registry.ts:114-116), so the exit or error event of a   *)
(* child whose connection is over finds its bridge finalized and sends     *)
(* nothing.  Otherwise sendControl throws out of the listener              *)
(* (ExecBridge.start), and the daemon is gone for all its clients.  The    *)
(* public daemon, whose onError tears the client down, keeps this          *)
(* (TearsDownOnError); the self-hosted one, whose onError only logs, does  *)
(* not, and a run of its own shows the crash.                              *)
ExitNeverThrows == crash # "control"

(* The cap holds on every path that registers a bridge, attachBridge's     *)
(* replacement of the pty channel included (ChannelRegistry.open).         *)
WithinLimit == Cardinality(Occupied) <= MaxChannels

(* A pty socket that a late spawn continuation opened for a client that    *)
(* was torn down meanwhile does not stay: the first output it cannot send  *)
(* closes it (SessionBridge.attach's send_failed).                         *)
LateAttachEnds ==
  \A b \in Bridges : ~hasSession /\ socket[b] # "null" ~> socket[b] = "null"

(* Every exec channel behaves as ExecContract says: accepted or refused    *)
(* once, concluded once, its exit reported only for a child that is gone,  *)
(* and no child left running unsignalled after its channel ended           *)
(* (ExecBridge.start, close, tearDown; openExecChannel).                   *)
execPhase ==
  [b \in Bridges |->
     IF kind[b] # "exec" THEN "fresh"
     ELSE IF b \notin finalized THEN "open"
     ELSE IF b \in termed \/ child[b] = "none" THEN "closed"
     ELSE "exited"]
execRunning == {b \in Bridges : child[b] = "running" /\ b \notin termed}

Contract == INSTANCE ExecContract
  WITH Channels <- Bridges, phase <- execPhase, running <- execRunning

KeepsExecContract == Contract!Spec
=============================================================================
