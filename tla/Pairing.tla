------------------------------- MODULE Pairing -------------------------------
(***************************************************************************)
(* The self-hosted relay (serve/pairing.ts, serve/server.ts) between the   *)
(* daemon that runs it and its clients, for one secret_hash: the primary   *)
(* socket, on which clients are announced, held, rejected and reported     *)
(* gone; one socket per client; and one data socket that the daemon dials  *)
(* for each client it lets in.  The daemon's part is commands/start.ts     *)
(* with its PrimaryRelayConnection and RelayConnections, the client's is   *)
(* ClientRelayConnection.  Who is let in is Approval's subject and free    *)
(* here; of what paired sockets carry only their end matters.              *)
(* Relay and daemon share one process: a handler of either runs between    *)
(* two returns to its event loop.                                          *)
(***************************************************************************)
EXTENDS Naturals, FiniteSets, Sockets

CONSTANTS
  Clients,     (* client sockets, and the client ids they are given        *)
  Primaries,   (* primary sockets; a socket that is over is dialled again  *)
  MaxClients,  (* MAX_CLIENTS                                              *)
  MaxBreaks,   (* bound: how many sockets break                            *)
  None

ASSUME PairingNone == None \notin Clients \cup Primaries
ASSUME PairingFinite == IsFiniteSet(Clients) /\ IsFiniteSet(Primaries)
ASSUME PairingBounds == MaxClients \in Nat /\ MaxBreaks \in Nat

VARIABLES
  primary,   (* the sockets: primaries, clients, data sockets              *)
  client,
  data,
  entry,     (* relay: PrimaryEntry.primary, None when there is no entry   *)
  member,    (* relay: PrimaryEntry.clients; "waiting" has daemon = null   *)
  control,   (* daemon: PrimaryRelayConnection.ws until its close          *)
  checking,  (* daemon: onClientWaiting calls behind their first await     *)
  held,      (* daemon: pendingClients                                     *)
  sessions,  (* daemon: clients                                            *)
  linked,    (* daemon: sessions whose data socket has heard `paired`      *)
  told,      (* clients: what the relay told the client last               *)
  breaks

sockets == <<primary, client, data>>
relay == <<entry, member>>
daemon == <<control, checking, held, sessions, linked>>
vars == <<sockets, relay, daemon, told, breaks>>

Messages(T) == [t : T, c : Clients \cup Primaries]
PeerState == {"idle", "open", "closing", "closed"}
Wire == [peer : PeerState, relay : PeerState,
         up : Seq(Messages({"end", "reject_client", "hold_client"})),
         down : Seq(Messages({"end", "client_waiting", "client_disconnected",
                              "paired", "peer_disconnected", "error",
                              "waiting_for_approval"}))]

TypeOK ==
  /\ primary \in [Primaries -> Wire]
  /\ client \in [Clients -> Wire] /\ data \in [Clients -> Wire]
  /\ entry \in Primaries \cup {None}
  /\ member \in [Clients -> {"out", "waiting", "paired"}]
  /\ control \in Primaries \cup {None}
  /\ checking \subseteq Clients /\ held \subseteq Clients
  /\ sessions \subseteq Clients /\ linked \subseteq sessions
  /\ checking \cap (held \cup sessions) = {} /\ held \cap sessions = {}
  /\ told \in [Clients -> {"nothing", "held", "paired", "ended"}]
  /\ breaks \in 0..MaxBreaks

Init ==
  /\ primary = [p \in Primaries |-> NoSocket]
  /\ client = [c \in Clients |-> NoSocket]
  /\ data = [c \in Clients |-> NoSocket]
  /\ entry = None /\ member = [c \in Clients |-> "out"]
  /\ control = None /\ checking = {} /\ held = {}
  /\ sessions = {} /\ linked = {}
  /\ told = [c \in Clients |-> "nothing"]
  /\ breaks = 0

Members == {c \in Clients : member[c] # "out"}
Paired == {c \in Clients : member[c] = "paired"}

(* The next message on the way to the peer or to the relay.                *)
Down(w, t) == w.peer \in {"open", "closing"} /\ w.down # <<>>
              /\ Head(w.down).t = t
Up(w, t) == w.relay \in {"open", "closing"} /\ w.up # <<>> /\ Head(w.up).t = t

(* entry.primary.send                                                      *)
Tell(ps, t, c) ==
  IF entry = None THEN ps ELSE [ps EXCEPT ![entry] = ToPeer(@, Msg(t, c))]
(* primary.sendText                                                        *)
Order(ps, t, c) ==
  IF control = None THEN ps
  ELSE [ps EXCEPT ![control] = ToRelay(@, Msg(t, c))]

(* ce.client.send("peer_disconnected"), and close where `closes` says so.  *)
Lost(w, c) == ToPeer(w, Msg("peer_disconnected", c))

-----------------------------------------------------------------------------
(* The relay: new connections *)

(* role=daemon without client_id: registerDaemon, one primary at a time.   *)
AcceptPrimary(p) ==
  /\ primary[p].peer = "open" /\ primary[p].relay = "idle"
  /\ IF entry = None
       THEN entry' = p /\ primary' = [primary EXCEPT ![p] = Accept(@)]
       ELSE /\ primary' = [primary EXCEPT
                 ![p] = RelayCloses(ToPeer(Accept(@), Msg("error", p)), p)]
            /\ UNCHANGED entry
  /\ UNCHANGED <<client, data, member, daemon, told, breaks>>

(* role=client: registerClient announces it, whatever has become of the    *)
(* primary's other end.                                                    *)
AcceptClient(c) ==
  /\ client[c].peer = "open" /\ client[c].relay = "idle"
  /\ IF entry = None
       THEN /\ client' = [client EXCEPT
                 ![c] = RelayCloses(ToPeer(Accept(@), Msg("error", c)), c)]
            /\ UNCHANGED <<primary, member>>
       ELSE /\ client' = [client EXCEPT ![c] = Accept(@)]
            /\ member' = [member EXCEPT ![c] = "waiting"]
            /\ primary' = Tell(primary, "client_waiting", c)
  /\ UNCHANGED <<data, entry, daemon, told, breaks>>

(* role=daemon with client_id: registerDaemonForClient pairs it with the   *)
(* client, who may be gone by now.                                         *)
AcceptData(c) ==
  /\ data[c].peer = "open" /\ data[c].relay = "idle"
  /\ IF c \in Members
       THEN /\ data' = [data EXCEPT
                 ![c] = ToPeer(Accept(@), Msg("paired", c))]
            /\ client' = [client EXCEPT ![c] = ToPeer(@, Msg("paired", c))]
            /\ member' = [member EXCEPT ![c] = "paired"]
       ELSE /\ data' = [data EXCEPT
                 ![c] = RelayCloses(ToPeer(Accept(@), Msg("error", c)), c)]
            /\ UNCHANGED <<client, member>>
  /\ UNCHANGED <<primary, entry, daemon, told, breaks>>

-----------------------------------------------------------------------------
(* The relay: frames and ends *)

(* reject_client: the client is closed and forgotten at once, so that its  *)
(* own close event reports nothing.                                        *)
RelayRejects(p) ==
  /\ Up(primary[p], "reject_client")
  /\ LET c == Head(primary[p].up).c
     IN IF entry = p /\ c \in Members
          THEN /\ client' = [client EXCEPT
                    ![c] = RelayCloses(ToPeer(@, Msg("error", c)), c)]
               /\ member' = [member EXCEPT ![c] = "out"]
          ELSE UNCHANGED <<client, member>>
  /\ primary' = [primary EXCEPT ![p] = RelayTakes(@)]
  /\ UNCHANGED <<data, entry, daemon, told, breaks>>

RelayHolds(p) ==
  /\ Up(primary[p], "hold_client")
  /\ LET c == Head(primary[p].up).c
     IN IF entry = p /\ c \in Members
          THEN client' = [client EXCEPT
                 ![c] = ToPeer(@, Msg("waiting_for_approval", c))]
          ELSE UNCHANGED client
  /\ primary' = [primary EXCEPT ![p] = RelayTakes(@)]
  /\ UNCHANGED <<data, relay, daemon, told, breaks>>

(* Mutant: only clients that have a data socket are told.                  *)
SendAwayPaired ==
  [c \in Clients |->
     IF c \in Paired THEN RelayCloses(Lost(client[c], c), c) ELSE client[c]]

SendAway ==
  [c \in Clients |->
     IF c \in Members THEN RelayCloses(Lost(client[c], c), c) ELSE client[c]]

(* Mutant: the entry outlives its primary.                                 *)
EntryKept == entry
EntryDeleted == None

(* The primary is gone: its clients are told and closed, their data        *)
(* sockets closed, the entry deleted.  A refused primary has no entry.     *)
PrimaryGone(p) ==
  /\ Up(primary[p], "end")
  /\ primary' = [primary EXCEPT ![p] = RelayEnds(@, p)]
  /\ IF entry = p
       THEN /\ client' = SendAway
            /\ data' = [c \in Clients |->
                 IF c \in Paired THEN RelayCloses(data[c], c) ELSE data[c]]
            /\ member' = [c \in Clients |-> "out"]
            /\ entry' = EntryDeleted
       ELSE UNCHANGED <<client, data, relay>>
  /\ UNCHANGED <<daemon, told, breaks>>

(* Mutant: the daemon hears of a client's end on the data socket if there  *)
(* is one, and on the primary only otherwise.                              *)
ReportGoneOnce(c) ==
  IF c \in Paired THEN primary ELSE Tell(primary, "client_disconnected", c)

(* current.primary.send("client_disconnected")                             *)
ReportGone(c) == Tell(primary, "client_disconnected", c)

(* Mutant: the data socket is told, and left to the daemon to close.       *)
UnpairOpen(c) ==
  IF c \in Paired THEN [data EXCEPT ![c] = Lost(@, c)] ELSE data

(* ce.daemon.send("peer_disconnected"); ce.daemon.close()                  *)
Unpair(c) ==
  IF c \in Paired THEN [data EXCEPT ![c] = RelayCloses(Lost(@, c), c)]
  ELSE data

ClientGone(c) ==
  /\ Up(client[c], "end")
  /\ client' = [client EXCEPT ![c] = RelayEnds(@, c)]
  /\ IF c \in Members
       THEN /\ data' = Unpair(c)
            /\ member' = [member EXCEPT ![c] = "out"]
            /\ primary' = ReportGone(c)
       ELSE UNCHANGED <<data, member, primary>>
  /\ UNCHANGED <<entry, daemon, told, breaks>>

(* The client is told, and waits again with daemon = null.                 *)
DataGone(c) ==
  /\ Up(data[c], "end")
  /\ data' = [data EXCEPT ![c] = RelayEnds(@, c)]
  /\ IF c \in Paired
       THEN /\ client' = [client EXCEPT ![c] = Lost(@, c)]
            /\ member' = [member EXCEPT ![c] = "waiting"]
       ELSE UNCHANGED <<client, member>>
  /\ UNCHANGED <<primary, entry, daemon, told, breaks>>

-----------------------------------------------------------------------------
(* The daemon *)

(* primary.connect(), at the start and 500 ms after each close.            *)
DialPrimary(p) ==
  /\ control = None
  /\ primary[p] = NoSocket \/ Over(primary[p])
  /\ primary' = [primary EXCEPT ![p] = Dialled]
  /\ control' = p
  /\ UNCHANGED <<client, data, relay, checking, held, sessions, linked,
                 told, breaks>>

(* openClientConnection                                                    *)
OpenClient(c) ==
  /\ sessions' = sessions \cup {c}
  /\ data' = [data EXCEPT ![c] = Dialled]

(* teardownClient: the session is forgotten, its data socket closed.       *)
CloseData(C) == [c \in Clients |->
  IF c \in C \cap sessions THEN PeerCloses(data[c], c) ELSE data[c]]
Forgotten(C) == sessions' = sessions \ C /\ linked' = linked \ C
Teardown(C) == data' = CloseData(C) /\ Forgotten(C)

Taken == [primary EXCEPT ![control] = PeerTakes(@)]

Announced(c) ==
  /\ control # None
  /\ Down(primary[control], "client_waiting")
  /\ c = Head(primary[control].down).c

RejectAtCap(c) ==
  /\ Announced(c)
  /\ Cardinality(sessions) >= MaxClients
  /\ primary' = Order(Taken, "reject_client", c)
  /\ UNCHANGED <<client, data, relay, daemon, told, breaks>>

(* Either its token is looked up or it is enrolled, and both are awaited;  *)
(* the frames of the same read are handled before the call goes on.        *)
Check(c) ==
  /\ Announced(c)
  /\ Cardinality(sessions) < MaxClients
  /\ checking' = checking \cup {c}
  /\ primary' = Taken
  /\ UNCHANGED <<client, data, relay, control, held, sessions, linked, told,
                 breaks>>

(* A revoked token; the cap on pending clients rejects in the same way.    *)
Reject(c) ==
  /\ c \in checking
  /\ checking' = checking \ {c}
  /\ primary' = Order(primary, "reject_client", c)
  /\ UNCHANGED <<client, data, relay, control, held, sessions, linked, told,
                 breaks>>

Hold(c) ==
  /\ c \in checking
  /\ checking' = checking \ {c}
  /\ held' = held \cup {c}
  /\ primary' = Order(primary, "hold_client", c)
  /\ UNCHANGED <<client, data, relay, control, sessions, linked, told, breaks>>

(* An active token, or auto-approve.                                       *)
Admit(c) ==
  /\ c \in checking
  /\ checking' = checking \ {c}
  /\ OpenClient(c)
  /\ UNCHANGED <<primary, client, relay, control, held, linked, told, breaks>>

(* Mutant: approveClient leaves the entry of pendingClients.               *)
StillHeld(c) == held
HeldWithout(c) == held \ {c}

(* SIGUSR1 finds the client's token active (no MAX_CLIENTS here).          *)
ApproveHeld(c) ==
  /\ c \in held
  /\ held' = HeldWithout(c)
  /\ OpenClient(c)
  /\ UNCHANGED <<primary, client, relay, control, checking, linked, told,
                 breaks>>

HeldTimeout(c) ==
  /\ c \in held
  /\ held' = HeldWithout(c)
  /\ primary' = Order(primary, "reject_client", c)
  /\ UNCHANGED <<client, data, relay, control, checking, sessions, linked,
                 told, breaks>>

(* Mutant: onClientDisconnected leaves connected clients to their own      *)
(* sockets.                                                                *)
ForgetPending(c) ==
  held' = HeldWithout(c) /\ UNCHANGED <<data, sessions, linked>>
Forget(c) == held' = HeldWithout(c) /\ Teardown({c})

ClientDisconnected(c) ==
  /\ control # None
  /\ Down(primary[control], "client_disconnected")
  /\ c = Head(primary[control].down).c
  /\ Forget(c)
  /\ primary' = Taken
  /\ UNCHANGED <<client, relay, control, checking, told, breaks>>

(* onError only logs.                                                      *)
PrimaryError ==
  /\ control # None
  /\ Down(primary[control], "error")
  /\ primary' = Taken
  /\ UNCHANGED <<client, data, relay, daemon, told, breaks>>

(* onClose of the primary: everything goes, and it is dialled again.       *)
PrimaryClosed ==
  /\ control # None
  /\ Down(primary[control], "end")
  /\ primary' = [primary EXCEPT ![control] = PeerEnds(@, control)]
  /\ Teardown(Clients)
  /\ held' = {}
  /\ control' = None
  /\ UNCHANGED <<client, relay, checking, told, breaks>>

(* A revocation or a frame that cannot be decoded (onFatal).               *)
Sever(c) ==
  /\ c \in sessions
  /\ Teardown({c})
  /\ UNCHANGED <<primary, client, relay, control, checking, held, told, breaks>>

(* `paired` begins the handshake, `error` is only logged.                  *)
DataHears(c) ==
  /\ Down(data[c], "paired") \/ Down(data[c], "error")
  /\ data' = [data EXCEPT ![c] = PeerTakes(@)]
  /\ linked' = IF Down(data[c], "paired") THEN linked \cup ({c} \cap sessions)
               ELSE linked
  /\ UNCHANGED <<primary, client, relay, control, checking, held, sessions,
                 told, breaks>>

(* The handshake is refused or fails, or later a frame does not decrypt:   *)
(* RelayConnection.close(), after which its close event is not reported.   *)
DataFails(c) ==
  /\ c \in linked /\ data[c].peer = "open"
  /\ data' = [data EXCEPT ![c] = PeerCloses(@, c)]
  /\ UNCHANGED <<primary, client, relay, daemon, told, breaks>>

(* peer_disconnected is heard even by a RelayConnection that is closing.   *)
PeerLost(c) ==
  /\ Down(data[c], "peer_disconnected")
  /\ data' = [CloseData({c}) EXCEPT ![c] = PeerTakes(@)]
  /\ Forgotten({c})
  /\ UNCHANGED <<primary, client, relay, control, checking, held, told, breaks>>

(* The close event of a data socket that was not closed by this side.      *)
DataClosed(c) ==
  /\ Down(data[c], "end")
  /\ data' = [data EXCEPT ![c] = PeerEnds(@, c)]
  /\ IF data[c].peer = "open" THEN Forgotten({c})
     ELSE UNCHANGED <<sessions, linked>>
  /\ UNCHANGED <<primary, client, relay, control, checking, held, told, breaks>>

-----------------------------------------------------------------------------
(* Clients and the network *)

Dial(c) ==
  /\ client[c] = NoSocket
  /\ client' = [client EXCEPT ![c] = Dialled]
  /\ UNCHANGED <<primary, data, relay, daemon, told, breaks>>

ClientHears(c) ==
  /\ \E t \in {"paired", "peer_disconnected", "error",
               "waiting_for_approval"} :
       /\ Down(client[c], t)
       /\ told' = [told EXCEPT ![c] =
            CASE t = "paired" -> "paired"
              [] t = "waiting_for_approval" -> "held"
              [] t \in {"peer_disconnected", "error"} -> "ended"]
  /\ client' = [client EXCEPT ![c] = PeerTakes(@)]
  /\ UNCHANGED <<primary, data, relay, daemon, breaks>>

ClientClosed(c) ==
  /\ Down(client[c], "end")
  /\ client' = [client EXCEPT ![c] = PeerEnds(@, c)]
  /\ told' = [told EXCEPT ![c] = "ended"]
  /\ UNCHANGED <<primary, data, relay, daemon, breaks>>

(* The user detaches, the command is done, a timeout, a failed handshake.  *)
ClientLeaves(c) ==
  /\ client[c].peer = "open"
  /\ client' = [client EXCEPT ![c] = PeerCloses(@, c)]
  /\ told' = [told EXCEPT ![c] = "ended"]
  /\ UNCHANGED <<primary, data, relay, daemon, breaks>>

ClientBreaks(c) ==
  /\ Breakable(client[c]) /\ breaks < MaxBreaks
  /\ client' = [client EXCEPT ![c] = Broken(@, c)]
  /\ breaks' = breaks + 1
  /\ UNCHANGED <<primary, data, relay, daemon, told>>

PrimaryBreaks(p) ==
  /\ Breakable(primary[p]) /\ breaks < MaxBreaks
  /\ primary' = [primary EXCEPT ![p] = Broken(@, p)]
  /\ breaks' = breaks + 1
  /\ UNCHANGED <<client, data, relay, daemon, told>>

-----------------------------------------------------------------------------
(* No onClientWaiting call is between its parts.                           *)
Settled == checking = {}

RelayPrimary(p) ==
  /\ Settled
  /\ AcceptPrimary(p) \/ RelayRejects(p) \/ RelayHolds(p) \/ PrimaryGone(p)

(* Frames of the primary, the calls they began, and its other events.      *)
DaemonPrimary ==
  \/ \E c \in Clients :
       \/ RejectAtCap(c) \/ Check(c) \/ ClientDisconnected(c)
       \/ Reject(c) \/ Hold(c) \/ Admit(c)
  \/ PrimaryError
  \/ Settled /\ (PrimaryClosed \/ \E p \in Primaries : DialPrimary(p))

Delivery ==
  \E c \in Clients :
    \/ ClientHears(c) \/ ClientClosed(c)
    \/ /\ Settled
       /\ \/ AcceptClient(c) \/ AcceptData(c) \/ ClientGone(c) \/ DataGone(c)
          \/ DataHears(c) \/ PeerLost(c) \/ DataClosed(c)

Timeout == Settled /\ \E c \in Clients : HeldTimeout(c)

Choice ==
  \/ \E c \in Clients :
       \/ Settled /\ (ApproveHeld(c) \/ Sever(c) \/ DataFails(c))
       \/ Dial(c) \/ ClientLeaves(c) \/ ClientBreaks(c)
  \/ \E p \in Primaries : PrimaryBreaks(p)

Next ==
  \/ \E p \in Primaries : RelayPrimary(p)
  \/ DaemonPrimary \/ Delivery \/ Timeout \/ Choice

Spec == Init /\ [][Next]_vars

(* Sockets deliver, continuations and timers run, and the daemon dials     *)
(* again: nothing else is owed.                                            *)
Fairness ==
  /\ \A p \in Primaries : WF_vars(RelayPrimary(p))
  /\ WF_vars(DaemonPrimary)
  /\ WF_vars(Delivery)
  /\ WF_vars(Timeout)

FairSpec == Spec /\ Fairness

-----------------------------------------------------------------------------
(* Properties *)

(* An open data socket at the relay always has its client at the other     *)
(* side: however rejections, ends of clients, of primaries and of data     *)
(* sockets cross, none is left open that no client can use and nobody will *)
(* close (PairingRegistry).                                                *)
NoStrandedData ==
  \A c \in Clients :
    data[c].relay = "open" => member[c] = "paired" /\ client[c].relay = "open"

OnTheWay(w, t, c) == \E k \in DOMAIN w.down : w.down[k] = Msg(t, c)

(* The daemon never keeps a session of whose end nobody will tell it: the  *)
(* relay still has the client in the entry of the primary that is up, or   *)
(* the news is on its way, or the data socket has its end coming           *)
(* (client_disconnected and the close handlers of pairing.ts against every *)
(* handler of start.ts).                                                   *)
DaemonWillHear ==
  \A c \in sessions :
    \/ c \in Members /\ entry = control
    \/ control # None /\ OnTheWay(primary[control], "client_disconnected", c)
    \/ control # None /\ OnTheWay(primary[control], "end", control)
    \/ data[c].peer = "open" /\ data[c].relay = "idle"
    \/ data[c].peer = "open" /\ OnTheWay(data[c], "end", c)

(* A client that is gone is forgotten by the daemon, so that its slot of   *)
(* MAX_CLIENTS or MAX_PENDING_CLIENTS is free again.                       *)
GoneIsForgotten ==
  \A c \in Clients :
    client[c].peer = "closed" ~> c \notin sessions \cup held

(* Every client that dials hears something: it is paired, held, refused    *)
(* or closed, whatever happens to the primary meanwhile.  The exception is *)
(* a client let in and revoked while its data socket is being dialled:     *)
(* teardownClient closes that socket, and nothing tells the relay.         *)
CutOff(c) == c \in Members /\ Over(data[c])
EveryClientIsAnswered ==
  \A c \in Clients :
    client[c].peer = "open" ~> told[c] # "nothing" \/ CutOff(c)

(* The daemon gets its primary back after every loss, though the relay     *)
(* refuses it for as long as it has not noticed the end of the old one.    *)
PrimaryComesBack == []<>(entry # None /\ entry = control)
=============================================================================
