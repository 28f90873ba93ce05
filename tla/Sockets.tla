------------------------------- MODULE Sockets -------------------------------
(***************************************************************************)
(* A websocket as the `ws` library shows it to the process that dialled it *)
(* (the peer) and to the relay that accepted it: a FIFO of messages in     *)
(* each direction, and a close handshake.  close() sends a Close frame;    *)
(* whoever takes one emits `close`, after it has answered an open socket's *)
(* with its own.  A socket that is closing still takes messages, and a     *)
(* message sent on it is dropped in silence.  When the connection breaks,  *)
(* what is in flight is lost and each end notices in its own time.         *)
(***************************************************************************)
EXTENDS Sequences

Msg(t, c) == [t |-> t, c |-> c]
End(c) == Msg("end", c)

NoSocket == [peer |-> "idle", relay |-> "idle", up |-> <<>>, down |-> <<>>]

(* new WebSocket(url): the relay has not seen it yet.                      *)
Dialled == [NoSocket EXCEPT !.peer = "open"]

Accept(w) == [w EXCEPT !.relay = "open"]

ToRelay(w, m) ==
  IF w.peer = "open" /\ w.relay # "closed" THEN [w EXCEPT !.up = Append(@, m)]
  ELSE w

ToPeer(w, m) ==
  IF w.relay = "open" /\ w.peer # "closed"
    THEN [w EXCEPT !.down = Append(@, m)]
  ELSE w

(* close() on either side; a peer that closes before the relay has         *)
(* answered aborts the dial.                                               *)
PeerCloses(w, c) ==
  IF w.relay = "idle"
    THEN [w EXCEPT !.peer = "closed", !.relay = "closed", !.down = <<>>]
  ELSE IF w.peer = "open" THEN [ToRelay(w, End(c)) EXCEPT !.peer = "closing"]
  ELSE w

RelayCloses(w, c) ==
  IF w.relay = "open" THEN [ToPeer(w, End(c)) EXCEPT !.relay = "closing"]
  ELSE w

PeerTakes(w) == [w EXCEPT !.down = Tail(@)]
RelayTakes(w) == [w EXCEPT !.up = Tail(@)]

(* The end is taken: `close` is emitted and the socket is of no more use.  *)
PeerEnds(w, c) ==
  [ToRelay(w, End(c)) EXCEPT !.peer = "closed", !.down = <<>>]
RelayEnds(w, c) ==
  [ToPeer(w, End(c)) EXCEPT !.relay = "closed", !.up = <<>>]

(* The connection breaks (or is never made).                               *)
Breakable(w) == w.peer \in {"open", "closing"} /\ w.relay # "closed"
Broken(w, c) ==
  [w EXCEPT !.up = IF w.relay = "idle" THEN <<>> ELSE <<End(c)>>,
            !.relay = IF @ = "idle" THEN "closed" ELSE @,
            !.down = <<End(c)>>]

Over(w) == w.peer = "closed" /\ w.relay = "closed"
=============================================================================
