-------------------------------- MODULE Tunnel --------------------------------
(***************************************************************************)
(* One client and one data socket of a daemon, from the pairing to the end *)
(* of the encrypted tunnel: RelayConnection, the responder, with the       *)
(* callbacks start.ts and server/start.ts give it, and the initiators: the *)
(* ClientRelayConnection of `connect` (NK or NKpsk2, KK over a public      *)
(* relay), the browser page (NK), and `client join`, which asks a daemon   *)
(* of its account to sign for a new device.  How the client was let in is  *)
(* Pairing's subject, what the tunnel carries ChannelMux's; here it is     *)
(* whether the two ends agree on the tunnel, and what they say on it.      *)
(* The log line of a PSK attempt is left out.                              *)
(* The public relay is not in the repository: it is taken to behave like   *)
(* serve/pairing.ts, with the `paired` frame relay-connection.ts describes.*)
(***************************************************************************)
EXTENDS Noise, Sockets, FiniteSets

CONSTANTS
  Files, Envs,  (* what --psk-file and PTY_RELAY_PSK may hold              *)
  Kinds,        (* the kinds of client                                     *)
  MaxSays,      (* bound: messages of each end on its own account          *)
  MaxBreaks     (* bound: sockets that break                               *)

ASSUME TunnelBounds == MaxSays \in Nat /\ MaxBreaks \in Nat
ASSUME TunnelKinds == Kinds \subseteq {"connect", "public", "page", "join"}

VARIABLES
  cfg,       (* the two ends' configuration, which never changes           *)
  cl,        (* client: state, handshake, transport, outcome of a join     *)
  dm,        (* daemon: RelayConnection's state, handshake and transport   *)
  entry,     (* daemon: the session is in the map of clients               *)
  client,    (* the client's socket                                        *)
  data,      (* the daemon's                                               *)
  member,    (* relay: the client's entry                                  *)
  says, breaks, calm

vars == <<cfg, cl, dm, entry, client, data, member, says, breaks, calm>>

Loaded == {LoadPsk(f, e) : f \in Files, e \in Envs} \ {"throws"}

(* pin: the static key the client takes for the daemon's, "D".  reg: the   *)
(* key the public relay reports for the client, whose own is "C"; one that *)
(* does not convert is "none".  token: the client was approved.            *)
Config(k, pin, cpsk, dpsk, reg, token) ==
  [kind |-> k, pin |-> pin, cpsk |-> cpsk, dpsk |-> dpsk, reg |-> reg,
   token |-> token]
Pins == {"D", "X"}
Configs ==
  {c \in {Config("connect", pin, cp, dp, None, tok) : pin \in Pins,
            cp \in Loaded, dp \in Loaded, tok \in BOOLEAN}
         \cup {Config("page", pin, None, dp, None, tok) : pin \in Pins,
                 dp \in Loaded, tok \in BOOLEAN}
         \cup {Config("public", pin, None, None, reg, FALSE) : pin \in Pins,
                 reg \in {"C", "C'", "none"}}
         \cup {Config("join", pin, None, None, None, FALSE) : pin \in Pins} :
     c.kind \in Kinds}
Public == cfg.kind \in {"public", "join"}

(* The pattern of the client, and of a join that has no answer yet.        *)
PatternOf(c) ==
  CASE c.kind = "public" -> KK
    [] c.kind = "connect" /\ c.cpsk # None -> NKpsk2
    [] OTHER -> NK

NoHandshake == [ss |-> Start("none")]
NoTunnel == [send |-> NoCipher, recv |-> NoCipher]

Init ==
  /\ cfg \in Configs
  /\ cl = [st |-> "waiting", hs |-> NoHandshake, tr |-> NoTunnel,
           join |-> "open"]
  /\ dm = [st |-> "connecting", hs |-> NoHandshake, tr |-> NoTunnel]
  /\ entry = TRUE
  /\ client = Accept(Dialled) /\ data = Dialled
  /\ member = "waiting"
  /\ says = [client |-> 0, daemon |-> 0] /\ breaks = 0 /\ calm = TRUE

App(f, m) == [framed |-> f, m |-> m]
Hears(w, t) == w.peer \in {"open", "closing"} /\ w.down # <<>>
               /\ Head(w.down).t = t
Gets(w, t) == w.relay \in {"open", "closing"} /\ w.up # <<>>
              /\ Head(w.up).t = t
Bin(m) == Msg("bin", m)

-----------------------------------------------------------------------------
(* The relay *)

Text(t) == Msg(t, None)

(* registerDaemonForClient, or "client not found".  The daemon's `open`    *)
(* event comes before the first frame.                                     *)
Pair ==
  /\ data.peer = "open" /\ data.relay = "idle"
  /\ IF member = "waiting"
       THEN /\ data' = ToPeer(Accept(data), Text("paired"))
            /\ client' = ToPeer(client, Text("paired"))
            /\ member' = "paired"
       ELSE /\ data' = RelayCloses(ToPeer(Accept(data), Text("error")), None)
            /\ UNCHANGED <<client, member>>
  /\ dm' = [dm EXCEPT !.st = "waiting"]
  /\ UNCHANGED <<cfg, cl, entry, says, breaks, calm>>

(* Binary frames go to a paired socket that is open, and nowhere else.     *)
ForwardUp ==
  /\ Gets(client, "bin")
  /\ client' = RelayTakes(client)
  /\ data' = IF member = "paired" THEN ToPeer(data, Head(client.up)) ELSE data
  /\ UNCHANGED <<cfg, cl, dm, entry, member, says, breaks, calm>>

ForwardDown ==
  /\ Gets(data, "bin")
  /\ data' = RelayTakes(data)
  /\ client' = ToPeer(client, Head(data.up))
  /\ UNCHANGED <<cfg, cl, dm, entry, member, says, breaks, calm>>

ClientGone ==
  /\ Gets(client, "end")
  /\ client' = RelayEnds(client, None)
  /\ data' = IF member = "paired"
               THEN RelayCloses(ToPeer(data, Text("peer_disconnected")), None)
             ELSE data
  /\ member' = "out"
  /\ UNCHANGED <<cfg, cl, dm, entry, says, breaks, calm>>

DataGone ==
  /\ Gets(data, "end")
  /\ data' = RelayEnds(data, None)
  /\ IF member = "paired"
       THEN /\ client' = ToPeer(client, Text("peer_disconnected"))
            /\ member' = "waiting"
       ELSE UNCHANGED <<client, member>>
  /\ UNCHANGED <<cfg, cl, dm, entry, says, breaks, calm>>

-----------------------------------------------------------------------------
(* The daemon *)

(* close() *)
Close(d) == [d EXCEPT !.st = "closed"]

(* teardownClient, which closes the connection once.                       *)
Teardown(d) == IF entry THEN Close(d) ELSE d

(* onError of the self-hosted daemon only logs.                            *)
AfterError == entry /\ ~Public

(* beginHandshake's choice, the two refusals and the key that does not     *)
(* convert, which is an exception too.                                     *)
Choice ==
  CASE cfg.kind = "public" -> IF cfg.reg = "none" THEN "bad key" ELSE "KK"
    [] PatternOf(cfg) = NKpsk2 -> IF cfg.dpsk = None THEN "refused"
                                  ELSE "NKpsk2"
    [] OTHER -> IF cfg.dpsk # None THEN "refused" ELSE "NK"

Responder ==
  CASE Choice = "KK" -> NewHandshake(KK, FALSE, "D", cfg.reg, None)
    [] Choice = "NKpsk2" -> NewHandshake(NKpsk2, FALSE, "D", None, cfg.dpsk)
    [] Choice = "NK" -> NewHandshake(NK, FALSE, "D", None, None)

(* A `paired` frame that finds the connection closed already begins all    *)
(* the same.                                                               *)
Begins ==
  /\ Hears(data, "paired")
  /\ IF Choice \in {"refused", "bad key"}
       THEN /\ dm' = Close(dm)
            /\ data' = PeerCloses(PeerTakes(data), None)
            /\ entry' = AfterError
       ELSE /\ dm' = [dm EXCEPT !.st = "handshaking", !.hs = Responder]
            /\ data' = PeerTakes(data)
            /\ UNCHANGED entry
  /\ UNCHANGED <<cfg, cl, client, member, says, breaks, calm>>

(* The hello: welcome and transport in one go; onHandshakeComplete sends   *)
(* `approved` if the session is still there.                               *)
Hello ==
  /\ Hears(data, "bin") /\ dm.st = "handshaking"
  /\ \E in \in {ReadMessage(dm.hs, Head(data.down).c)} :
     \E out \in {WriteMessage(in.hs, "eD")} :
     \E tr \in {Split(out.hs)} :
     LET welcomed == ToRelay(PeerTakes(data), Bin(out.msg))
         approves == entry /\ cfg.token
     IN IF in.ok
          THEN /\ dm' = [st |-> "ready", hs |-> NoHandshake,
                         tr |-> IF approves THEN Sent(tr) ELSE tr]
               /\ data' = IF approves
                            THEN ToRelay(welcomed,
                              Bin(Encrypted(tr, App(TRUE, "approved"))))
                          ELSE welcomed
               /\ UNCHANGED entry
          ELSE /\ dm' = Close(dm)
               /\ data' = PeerCloses(PeerTakes(data), None)
               /\ entry' = AfterError
  /\ UNCHANGED <<cfg, cl, client, member, says, breaks, calm>>

(* The only thing a join is answered, and only what comes framed on        *)
(* channel 0 is heard (ChannelDispatcher.handlePlaintext).                 *)
Signs(m) == Public /\ entry /\ m = App(TRUE, "mint_request")

(* A frame that does not decrypt ends the connection.                      *)
DaemonReads ==
  /\ Hears(data, "bin") /\ dm.st = "ready"
  /\ LET msg == Head(data.down).c
         tr == Received(dm.tr)
     IN IF Decrypts(dm.tr, msg)
          THEN /\ dm' = [dm EXCEPT !.tr =
                    IF Signs(msg.ct.body) THEN Sent(tr) ELSE tr]
               /\ data' = IF Signs(msg.ct.body)
                            THEN ToRelay(PeerTakes(data),
                              Bin(Encrypted(tr, App(TRUE, "mint_ready"))))
                          ELSE PeerTakes(data)
               /\ UNCHANGED entry
          ELSE /\ dm' = Close(dm)
               /\ data' = PeerCloses(PeerTakes(data), None)
               /\ entry' = AfterError
  /\ UNCHANGED <<cfg, cl, client, member, says, breaks, calm>>

(* In any other state a binary frame is dropped without a word.            *)
DaemonDrops ==
  /\ Hears(data, "bin") /\ dm.st \notin {"handshaking", "ready"}
  /\ data' = PeerTakes(data)
  /\ UNCHANGED <<cfg, cl, dm, entry, client, member, says, breaks, calm>>

(* Back to waiting, and then torn down.                                    *)
PeerLost ==
  /\ Hears(data, "peer_disconnected")
  /\ dm' = Teardown([dm EXCEPT !.st = "waiting", !.hs = NoHandshake,
                               !.tr = NoTunnel])
  /\ data' = IF entry THEN PeerCloses(PeerTakes(data), None)
             ELSE PeerTakes(data)
  /\ entry' = FALSE
  /\ UNCHANGED <<cfg, cl, client, member, says, breaks, calm>>

(* "client not found"                                                      *)
DataError ==
  /\ Hears(data, "error")
  /\ IF entry /\ Public
       THEN dm' = Close(dm) /\ data' = PeerCloses(PeerTakes(data), None)
       ELSE data' = PeerTakes(data) /\ UNCHANGED dm
  /\ entry' = AfterError
  /\ UNCHANGED <<cfg, cl, client, member, says, breaks, calm>>

(* `close` of a socket this side did not close.                            *)
DataEnds ==
  /\ Hears(data, "end")
  /\ data' = PeerEnds(data, None)
  /\ dm' = Close(dm)
  /\ entry' = IF dm.st = "closed" THEN entry ELSE FALSE
  /\ UNCHANGED <<cfg, cl, client, member, says, breaks, calm>>

(* A revocation, a fatal frame: teardownClient at any time.                *)
Severs ==
  /\ entry
  /\ dm' = Close(dm) /\ data' = PeerCloses(data, None)
  /\ entry' = FALSE /\ calm' = FALSE
  /\ UNCHANGED <<cfg, cl, client, member, says, breaks>>

(* send(): output, answers, heartbeats, none of which a join asks for.     *)
DaemonSays ==
  /\ cfg.kind # "join" /\ entry
  /\ dm.st = "ready" /\ says.daemon < MaxSays
  /\ data' = ToRelay(data, Bin(Encrypted(dm.tr, App(TRUE, "output"))))
  /\ dm' = [dm EXCEPT !.tr = Sent(@)]
  /\ says' = [says EXCEPT !.daemon = @ + 1]
  /\ UNCHANGED <<cfg, cl, entry, client, member, breaks, calm>>

-----------------------------------------------------------------------------
(* The client *)

(* A page hears nothing more on a socket it closes.                        *)
Listens == cfg.kind = "page" => client.peer = "open"

Initiator ==
  NewHandshake(PatternOf(cfg), TRUE, IF cfg.kind = "public" THEN "C" ELSE None,
               cfg.pin, cfg.cpsk)

(* The hello goes out; a `connect` that was closed meanwhile comes back to *)
(* life, on a socket that drops it.                                        *)
Greets ==
  /\ Hears(client, "paired") /\ Listens
  /\ \E out \in {IF cfg.kind = "page" THEN PageHello(cfg.pin, "eC")
                 ELSE WriteMessage(Initiator, "eC")} :
        /\ cl' = [cl EXCEPT !.st = "handshaking", !.hs = out.hs]
        /\ client' = ToRelay(PeerTakes(client), Bin(out.msg))
  /\ UNCHANGED <<cfg, dm, entry, data, member, says, breaks, calm>>

(* The client gives up and closes; a join rejects once.                    *)
GivesUp(c) ==
  [c EXCEPT !.st = "closed",
            !.join = IF cfg.kind = "join" /\ @ = "open" THEN "failed" ELSE @]

(* What each kind says first: pairAndExchange sends its request without a  *)
(* frame.                                                                  *)
First ==
  IF cfg.kind = "join" THEN App(FALSE, "mint_request") ELSE App(TRUE, "hello")

Welcome ==
  /\ Hears(client, "bin") /\ Listens /\ cl.st = "handshaking"
  /\ \E in \in {IF cfg.kind = "page"
                  THEN ReadWelcome(cl.hs, Head(client.down).c)
                ELSE ReadMessage(cl.hs, Head(client.down).c)} :
     \E tr \in {IF cfg.kind = "page" THEN PageSplit(in.hs)
                ELSE Split(in.hs)} :
        IF in.ok
          THEN /\ cl' = [cl EXCEPT !.st = "ready", !.hs = NoHandshake,
                                   !.tr = Sent(tr)]
               /\ client' = ToRelay(PeerTakes(client),
                                    Bin(Encrypted(tr, First)))
          ELSE /\ cl' = [GivesUp(cl) EXCEPT !.hs = NoHandshake]
               /\ client' = PeerCloses(PeerTakes(client), None)
  /\ UNCHANGED <<cfg, dm, entry, data, member, says, breaks, calm>>

(* A join parses what it decrypts as JSON: a framed message is not.        *)
Understood(m) == cfg.kind = "join" => ~m.framed
Settles(c, m) ==
  [c EXCEPT !.join = IF @ = "open" /\ m.m = "mint_ready" THEN "done" ELSE @]

ClientReads ==
  /\ Hears(client, "bin") /\ Listens /\ cl.st = "ready"
  /\ LET msg == Head(client.down).c
     IN IF Decrypts(cl.tr, msg) /\ Understood(msg.ct.body)
          THEN /\ cl' = Settles([cl EXCEPT !.tr = Received(@)], msg.ct.body)
               /\ client' = PeerTakes(client)
          ELSE /\ cl' = GivesUp(cl)
               /\ client' = PeerCloses(PeerTakes(client), None)
  /\ UNCHANGED <<cfg, dm, entry, data, member, says, breaks, calm>>

ClientDrops ==
  /\ Hears(client, "bin")
  /\ ~Listens \/ cl.st \notin {"handshaking", "ready"}
  /\ client' = PeerTakes(client)
  /\ UNCHANGED <<cfg, cl, dm, entry, data, member, says, breaks, calm>>

(* A page closes the socket when it reconnects, a join has no such case.   *)
ClientTold ==
  /\ Hears(client, "peer_disconnected")
  /\ IF cfg.kind = "join" \/ ~Listens THEN UNCHANGED cl
     ELSE cl' = [cl EXCEPT !.st = "closed", !.tr = NoTunnel]
  /\ client' = IF cfg.kind = "page" THEN PeerCloses(PeerTakes(client), None)
               ELSE PeerTakes(client)
  /\ UNCHANGED <<cfg, dm, entry, data, member, says, breaks, calm>>

ClientEnds ==
  /\ Hears(client, "end")
  /\ cl' = GivesUp(cl) /\ client' = PeerEnds(client, None)
  /\ UNCHANGED <<cfg, dm, entry, data, member, says, breaks, calm>>

(* The page that closes hears no `paired` any more.                        *)
Unheard ==
  /\ Hears(client, "paired") /\ ~Listens
  /\ client' = PeerTakes(client)
  /\ UNCHANGED <<cfg, cl, dm, entry, data, member, says, breaks, calm>>

(* close(): the user leaves, a timeout.                                    *)
ClientLeaves ==
  /\ client.peer = "open" /\ cl.st # "closed"
  /\ cl' = GivesUp(cl) /\ client' = PeerCloses(client, None)
  /\ calm' = FALSE
  /\ UNCHANGED <<cfg, dm, entry, data, member, says, breaks>>

ClientSays ==
  /\ cfg.kind # "join" /\ cl.st = "ready" /\ says.client < MaxSays
  /\ client' = ToRelay(client, Bin(Encrypted(cl.tr, App(TRUE, "input"))))
  /\ cl' = [cl EXCEPT !.tr = Sent(@)]
  /\ says' = [says EXCEPT !.client = @ + 1]
  /\ UNCHANGED <<cfg, dm, entry, data, member, breaks, calm>>

-----------------------------------------------------------------------------
(* The network *)

ClientBreaks ==
  /\ Breakable(client) /\ breaks < MaxBreaks
  /\ client' = Broken(client, None)
  /\ breaks' = breaks + 1 /\ calm' = FALSE
  /\ UNCHANGED <<cfg, cl, dm, entry, data, member, says>>

DataBreaks ==
  /\ Breakable(data) /\ breaks < MaxBreaks
  /\ data' = Broken(data, None)
  /\ breaks' = breaks + 1 /\ calm' = FALSE
  /\ UNCHANGED <<cfg, cl, dm, entry, client, member, says>>

Handled ==
  \/ Pair \/ ForwardUp \/ ForwardDown \/ ClientGone \/ DataGone
  \/ Begins \/ Hello \/ DaemonReads \/ DaemonDrops \/ PeerLost
  \/ DataError \/ DataEnds
  \/ Greets \/ Welcome \/ ClientReads \/ ClientDrops \/ ClientTold
  \/ ClientEnds \/ Unheard

Next ==
  \/ Handled
  \/ Severs \/ DaemonSays \/ ClientLeaves \/ ClientSays
  \/ ClientBreaks \/ DataBreaks

Spec == Init /\ [][Next]_vars

(* A frame on the way is delivered and a returned handler's successor      *)
(* runs; nobody has to speak, to leave or to break.                        *)
FairSpec == Spec /\ WF_vars(Handled)

-----------------------------------------------------------------------------
(* Properties *)

(* What follows the end of a socket is never taken.                        *)
Arrives(s, i) == s[i].t = "bin" /\ \A j \in 1..i : s[j].t # "end"
Turn(s, i) == Cardinality({j \in 1..(i - 1) : s[j].t = "bin"})
Bound(s, c) ==
  \A i \in DOMAIN s :
    Arrives(s, i) => Opens([c EXCEPT !.n = @ + Turn(s, i)], <<>>, s[i].c.ct)

(* Nonces are counted and never sent, and one that is off ends the tunnel: *)
(* once both ends are ready, whatever is lost or cut off at an end, each   *)
(* frame under way opens with the receiver's key at the nonce its turn     *)
(* will bring.                                                             *)
InStep ==
  cl.st = "ready" /\ dm.st = "ready" =>
    /\ Bound(data.down \o client.up, dm.tr.recv)
    /\ Bound(client.down \o data.up, cl.tr.recv)

Matched(c) ==
  /\ c.pin = "D" /\ c.cpsk = c.dpsk
  /\ c.kind = "public" => c.reg = "C"

(* The client is ready only with the daemon whose key it holds, the same   *)
(* PSK on both ends or on none, and the static key the relay reports for   *)
(* it.  The daemon is ready on the same terms, but for the value of the    *)
(* PSK, which only the client's reading of the welcome brings to light.    *)
ReadyAgree ==
  /\ cl.st = "ready" => Matched(cfg)
  /\ dm.st = "ready" =>
       Matched([cfg EXCEPT !.cpsk = IF @ = None THEN None ELSE cfg.dpsk])

(* Undisturbed, a client that matches its daemon gets its tunnel, and one  *)
(* that does not is not left waiting.  (A join that does not match is.)    *)
TunnelComes ==
  <>[](calm => IF Matched(cfg) THEN cl.st = "ready" /\ dm.st = "ready"
               ELSE cfg.kind # "join" => cl.st = "closed")

(* Undisturbed, a device that joins gets the minter's answer.              *)
JoinIsAnswered ==
  cfg.kind = "join" /\ cfg.pin = "D" => <>(~calm \/ cl.join = "done")
=============================================================================
