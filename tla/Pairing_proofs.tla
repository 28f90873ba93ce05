--------------------------- MODULE Pairing_proofs ---------------------------
(***************************************************************************)
(* Theorems about Pairing, for any clients, primary sockets and caps and   *)
(* however often sockets break: no data socket is left without its client, *)
(* and the daemon keeps no session of whose end nobody will tell it.       *)
(*                                                                         *)
(* The argument in short.  A client id is announced once, and from then on *)
(* is in one place at a time: announced, looked up, held, refused or       *)
(* admitted (Placed, CalledOnce).  So a refusal never meets a data socket, *)
(* and the relay's rows match the open sockets (Rows).  What an end of a   *)
(* socket owes the other end is on the way until it is taken (Good), and   *)
(* so is what the relay owes the daemon about a client (Owed).             *)
(***************************************************************************)
EXTENDS Pairing, TLAPS

-----------------------------------------------------------------------------
(* The inductive invariant.                                                *)

Has(s, m) == \E k \in DOMAIN s : s[k] = m
Once(s, m) == \A k, l \in DOMAIN s : s[k] = m /\ s[l] = m => k = l

(* A socket between x and the relay: nothing comes down before it is       *)
(* accepted, and once the relay has left, its peer will hear the end.      *)
Good(w, x) ==
  /\ w \in Wire
  /\ w.peer = "idle" => w.relay = "idle"
  /\ w.relay = "idle" => w.down = <<>>
  /\ w.relay \in {"closing", "closed"} /\ w.peer \in {"open", "closing"}
       => Has(w.down, End(x))

Wires ==
  /\ primary \in [Primaries -> Wire]
  /\ client \in [Clients -> Wire] /\ data \in [Clients -> Wire]
  /\ \A p \in Primaries : Good(primary[p], p)
  /\ \A c \in Clients : Good(client[c], c) /\ Good(data[c], c)

(* The rest of TypeOK.                                                     *)
Typed ==
  /\ entry \in Primaries \cup {None}
  /\ member \in [Clients -> {"out", "waiting", "paired"}]
  /\ control \in Primaries \cup {None}
  /\ checking \subseteq Clients /\ held \subseteq Clients
  /\ sessions \subseteq Clients /\ linked \subseteq sessions
  /\ checking \cap (held \cup sessions) = {} /\ held \cap sessions = {}
  /\ told \in [Clients -> {"nothing", "held", "paired", "ended"}]
  /\ breaks \in 0..MaxBreaks

(* The entry is the primary the relay holds open, `control` the one the    *)
(* daemon does; a daemon whose primary was not accepted has no clients.    *)
Nobody == sessions = {} /\ held = {} /\ checking = {}
Links ==
  /\ \A p \in Primaries : entry = p <=> primary[p].relay = "open"
  /\ \A p \in Primaries : control = p <=> primary[p].peer = "open"
  /\ control = None => Nobody
  /\ control # None => primary[control].relay # "idle" \/ Nobody

(* The relay's rows match its open sockets.                                *)
Rows ==
  \A c \in Clients :
    /\ member[c] # "out" => client[c].relay = "open"
    /\ data[c].relay = "open" => member[c] = "paired"

(* Where a client id is.                                                   *)
Calls(p, c) == Has(primary[p].down, Msg("client_waiting", c))
Called(c) == \E p \in Primaries : Calls(p, c)
Refused(c) ==
  \E p \in Primaries : Has(primary[p].up, Msg("reject_client", c))

Placed(c) ==
  /\ client[c].relay = "idle"
       => /\ ~Called(c) /\ ~Refused(c) /\ c \notin checking \cup held
          /\ data[c].peer = "idle"
  /\ Called(c) => /\ ~Refused(c) /\ c \notin checking \cup held
                  /\ data[c].peer = "idle"
  /\ c \in checking => ~Refused(c) /\ data[c].peer = "idle"
  /\ c \in held => ~Refused(c) /\ data[c].peer = "idle"
  /\ Refused(c) => data[c].peer = "idle"
  /\ c \in sessions => data[c].peer # "idle"

CalledOnce(c) ==
  /\ \A p, q \in Primaries : Calls(p, c) /\ Calls(q, c) => p = q
  /\ \A p \in Primaries : Once(primary[p].down, Msg("client_waiting", c))

(* A session whose data socket was paired still has its client at the      *)
(* relay, or the news is on the way.                                       *)
Told(c) ==
  \/ c \in Members /\ entry = control
  \/ control # None /\ Has(primary[control].down, Msg("client_disconnected", c))
  \/ control # None /\ Has(primary[control].down, End(control))
WasPaired(c) ==
  \/ data[c].relay = "open" \/ c \in linked \/ data[c].peer # "open"
  \/ \E d \in Clients \cup Primaries : Has(data[c].down, Msg("paired", d))
Owed(c) == c \in sessions /\ WasPaired(c) => Told(c)

IInv ==
  /\ Typed /\ Wires /\ Links /\ Rows
  /\ \A c \in Clients : Placed(c) /\ CalledOnce(c) /\ Owed(c)

-----------------------------------------------------------------------------
(* Messages on the way.                                                    *)

LEMMA MsgIs ==
  \A t, u, c, d : Msg(t, c) = Msg(u, d) <=> t = u /\ c = d
BY DEF Msg

LEMMA HasNone == \A m : ~Has(<<>>, m) /\ Once(<<>>, m)
BY DEF Has, Once

LEMMA HasOne == \A m, n : Has(<<n>>, m) <=> m = n
BY DEF Has

LEMMA OnceOne == \A m, n : Once(<<n>>, m)
BY DEF Once

LEMMA HasAppend ==
  ASSUME NEW S, NEW s \in Seq(S), NEW n \in S, NEW m
  PROVE  /\ Has(Append(s, n), m) <=> Has(s, m) \/ m = n
         /\ Once(s, m) /\ (m = n => ~Has(s, m)) => Once(Append(s, n), m)
<1>1. /\ DOMAIN s = 1..Len(s) /\ Len(s) \in Nat
      /\ DOMAIN Append(s, n) = 1..(Len(s) + 1)
      /\ Append(s, n)[Len(s) + 1] = n
      /\ \A k \in 1..Len(s) : Append(s, n)[k] = s[k]
  OBVIOUS
<1>2. Len(s) + 1 \in DOMAIN Append(s, n) /\ DOMAIN s \subseteq DOMAIN Append(s, n)
  BY <1>1
<1>3. \A k \in DOMAIN Append(s, n) : k \in DOMAIN s \/ k = Len(s) + 1
  BY <1>1
<1>4. Has(Append(s, n), m) <=> Has(s, m) \/ m = n
  BY <1>1, <1>2, <1>3 DEF Has
<1>5. ASSUME Once(s, m), m = n => ~Has(s, m) PROVE Once(Append(s, n), m)
  BY <1>1, <1>2, <1>3, <1>5 DEF Has, Once
<1> QED BY <1>4, <1>5

LEMMA HasTail ==
  ASSUME NEW S, NEW s \in Seq(S), s # <<>>, NEW m
  PROVE  /\ Tail(s) \in Seq(S) /\ Head(s) \in S
         /\ Has(s, m) <=> Has(Tail(s), m) \/ m = Head(s)
         /\ Once(s, m) => Once(Tail(s), m)
         /\ Once(s, m) /\ m = Head(s) => ~Has(Tail(s), m)
<1>1. /\ Len(s) \in Nat \ {0} /\ DOMAIN s = 1..Len(s) /\ Head(s) = s[1]
      /\ DOMAIN Tail(s) = 1..(Len(s) - 1)
      /\ \A k \in 1..(Len(s) - 1) : Tail(s)[k] = s[k + 1]
  OBVIOUS
<1>2. \A k \in DOMAIN Tail(s) : k + 1 \in DOMAIN s /\ Tail(s)[k] = s[k + 1]
  BY <1>1
<1>3. \A k \in DOMAIN s : k = 1 \/ (k - 1 \in DOMAIN Tail(s) /\ Tail(s)[k - 1] = s[k])
  BY <1>1
<1>4. 1 \in DOMAIN s /\ \A k \in DOMAIN Tail(s) : k + 1 # 1
  BY <1>1
<1>5. Tail(s) \in Seq(S) /\ Head(s) \in S
  OBVIOUS
<1>6. Has(s, m) <=> Has(Tail(s), m) \/ m = Head(s)
  BY <1>1, <1>2, <1>3, <1>4 DEF Has
<1>7. Once(s, m) => Once(Tail(s), m)
  <2> SUFFICES ASSUME Once(s, m), NEW k \in DOMAIN Tail(s), NEW l \in DOMAIN Tail(s),
                      Tail(s)[k] = m, Tail(s)[l] = m
               PROVE  k = l
    BY DEF Once
  <2>1. k + 1 = l + 1 BY <1>2 DEF Once
  <2> QED BY <2>1, <1>1
<1>8. Once(s, m) /\ m = Head(s) => ~Has(Tail(s), m)
  BY <1>1, <1>2, <1>4 DEF Once, Has
<1> QED BY <1>5, <1>6, <1>7, <1>8

-----------------------------------------------------------------------------
(* What each operation makes of a socket.                                  *)

Ids == Clients \cup Primaries
UpMsgs == Messages({"end", "reject_client", "hold_client"})
DownMsgs == Messages({"end", "client_waiting", "client_disconnected", "paired",
                      "peer_disconnected", "error", "waiting_for_approval"})

LEMMA WireSet ==
  Wire = [peer : PeerState, relay : PeerState, up : Seq(UpMsgs),
          down : Seq(DownMsgs)]
BY DEF Wire, UpMsgs, DownMsgs

LEMMA WireIs ==
  ASSUME NEW w \in Wire
  PROVE  /\ w.peer \in PeerState /\ w.relay \in PeerState
         /\ w.up \in Seq(UpMsgs) /\ w.down \in Seq(DownMsgs)
BY WireSet

LEMMA WireWith ==
  ASSUME NEW w \in Wire, NEW u \in Seq(UpMsgs), NEW d \in Seq(DownMsgs),
         NEW p \in PeerState, NEW r \in PeerState
  PROVE  /\ [w EXCEPT !.down = d] \in Wire /\ [w EXCEPT !.up = u] \in Wire
         /\ [w EXCEPT !.peer = p] \in Wire /\ [w EXCEPT !.relay = r] \in Wire
         /\ [peer |-> p, relay |-> r, up |-> u, down |-> d] \in Wire
BY WireSet

LEMMA EndIsMsg ==
  \A x \in Ids : End(x) \in UpMsgs /\ End(x) \in DownMsgs
BY DEF End, Msg, UpMsgs, DownMsgs, Messages, Ids

(* The next message of a queue is one about the client it names.           *)
LEMMA HeadIs ==
  ASSUME NEW S, NEW s \in Seq(Messages(S)), s # <<>>, NEW t, Head(s).t = t
  PROVE  Head(s) = Msg(t, Head(s).c) /\ Head(s).c \in Ids
<1>1. Head(s) \in Messages(S) OBVIOUS
<1> QED BY <1>1 DEF Messages, Msg, Ids

LEMMA GoodNew ==
  ASSUME NEW x \in Ids
  PROVE  /\ Good(NoSocket, x) /\ Good(Dialled, x)
         /\ NoSocket.peer = "idle" /\ NoSocket.relay = "idle"
         /\ Dialled.peer = "open" /\ Dialled.relay = "idle"
         /\ Dialled.up = <<>> /\ Dialled.down = <<>>
         /\ NoSocket.up = <<>> /\ NoSocket.down = <<>>
<1>1. <<>> \in Seq(UpMsgs) /\ <<>> \in Seq(DownMsgs) OBVIOUS
<1>2. NoSocket \in Wire BY <1>1, WireWith, WireSet DEF NoSocket, PeerState
<1>3. Dialled = [peer |-> "open", relay |-> "idle", up |-> <<>>, down |-> <<>>]
  BY DEF Dialled, NoSocket
<1>4. Dialled \in Wire BY <1>1, <1>3, WireSet DEF PeerState
<1> QED BY <1>2, <1>3, <1>4 DEF Good, NoSocket

LEMMA GoodAccept ==
  ASSUME NEW x \in Ids, NEW w, Good(w, x), w.peer = "open"
  PROVE  /\ Good(Accept(w), x) /\ Accept(w).peer = "open" /\ Accept(w).relay = "open"
         /\ Accept(w).up = w.up /\ Accept(w).down = w.down
BY WireSet DEF Good, Accept, PeerState

LEMMA GoodToPeer ==
  ASSUME NEW x \in Ids, NEW w, Good(w, x), NEW m \in DownMsgs
  PROVE  LET v == ToPeer(w, m) IN
         /\ Good(v, x) /\ v.peer = w.peer /\ v.relay = w.relay /\ v.up = w.up
         /\ \A n : Has(v.down, n) <=>
              Has(w.down, n) \/ (n = m /\ w.relay = "open" /\ w.peer # "closed")
         /\ \A n : Once(w.down, n) /\ (n = m => ~Has(w.down, n)) => Once(v.down, n)
<1> DEFINE v == ToPeer(w, m)
<1>1. CASE w.relay = "open" /\ w.peer # "closed"
  <2>1. v = [w EXCEPT !.down = Append(w.down, m)] BY <1>1 DEF ToPeer
  <2>2. /\ w \in Wire /\ v.peer = w.peer /\ v.relay = w.relay /\ v.up = w.up
        /\ v.down = Append(w.down, m)
    BY <2>1, WireSet DEF Good
  <2>3. v \in Wire
    <3>1. w \in Wire /\ Append(w.down, m) \in Seq(DownMsgs) BY WireIs DEF Good
    <3> QED BY <2>1, <3>1, WireSet
  <2>4. \A n : /\ Has(v.down, n) <=> Has(w.down, n) \/ n = m
               /\ Once(w.down, n) /\ (n = m => ~Has(w.down, n)) => Once(v.down, n)
    BY <2>2, WireIs, HasAppend
  <2>5. Good(v, x) BY <1>1, <2>2, <2>3 DEF Good
  <2> QED BY <1>1, <2>2, <2>4, <2>5
<1>2. CASE ~(w.relay = "open" /\ w.peer # "closed")
  <2>1. v = w BY <1>2 DEF ToPeer
  <2> QED BY <1>2, <2>1
<1> QED BY <1>1, <1>2

LEMMA GoodToRelay ==
  ASSUME NEW x \in Ids, NEW w, Good(w, x), NEW m \in UpMsgs
  PROVE  LET v == ToRelay(w, m) IN
         /\ Good(v, x) /\ v.peer = w.peer /\ v.relay = w.relay /\ v.down = w.down
         /\ \A n : Has(v.up, n) => Has(w.up, n) \/ n = m
<1> DEFINE v == ToRelay(w, m)
<1>1. CASE w.peer = "open" /\ w.relay # "closed"
  <2>1. v = [w EXCEPT !.up = Append(w.up, m)] BY <1>1 DEF ToRelay
  <2>2. /\ w \in Wire /\ v.peer = w.peer /\ v.relay = w.relay /\ v.down = w.down
        /\ v.up = Append(w.up, m)
    BY <2>1, WireSet DEF Good
  <2>3. v \in Wire
    <3>1. w \in Wire /\ Append(w.up, m) \in Seq(UpMsgs) BY WireIs DEF Good
    <3> QED BY <2>1, <3>1, WireSet
  <2>4. \A n : Has(v.up, n) => Has(w.up, n) \/ n = m
    BY <2>2, WireIs, HasAppend
  <2>5. Good(v, x) BY <2>2, <2>3 DEF Good
  <2> QED BY <2>2, <2>4, <2>5
<1>2. CASE ~(w.peer = "open" /\ w.relay # "closed")
  <2>1. v = w BY <1>2 DEF ToRelay
  <2> QED BY <2>1
<1> QED BY <1>1, <1>2

LEMMA GoodRelayCloses ==
  ASSUME NEW x \in Ids, NEW w, Good(w, x)
  PROVE  LET v == RelayCloses(w, x) IN
         /\ Good(v, x) /\ v.peer = w.peer /\ v.up = w.up
         /\ v.relay = IF w.relay = "open" THEN "closing" ELSE w.relay
         /\ \A n : Has(w.down, n) => Has(v.down, n)
         /\ \A n : Has(v.down, n) => Has(w.down, n) \/ n = End(x)
         /\ \A n : Once(w.down, n) /\ n # End(x) => Once(v.down, n)
<1> DEFINE u == ToPeer(w, End(x))
           v == RelayCloses(w, x)
<1>0. /\ Good(u, x) /\ u.peer = w.peer /\ u.relay = w.relay /\ u.up = w.up
      /\ \A n : Has(u.down, n) <=>
           Has(w.down, n) \/ (n = End(x) /\ w.relay = "open" /\ w.peer # "closed")
      /\ \A n : Once(w.down, n) /\ n # End(x) => Once(u.down, n)
  BY GoodToPeer, EndIsMsg
<1>1. CASE w.relay = "open"
  <2>1. v = [u EXCEPT !.relay = "closing"] BY <1>1 DEF RelayCloses
  <2> HIDE DEF u
  <2>2. /\ v \in Wire /\ v.peer = u.peer /\ v.up = u.up /\ v.down = u.down
        /\ v.relay = "closing"
    BY <1>0, <2>1, WireSet DEF Good, PeerState
  <2>3. Good(v, x) BY <1>0, <1>1, <2>2 DEF Good
  <2> QED BY <1>0, <1>1, <2>2, <2>3
<1>2. CASE w.relay # "open"
  <2>1. v = w BY <1>2 DEF RelayCloses
  <2> QED BY <1>2, <2>1
<1> QED BY <1>1, <1>2

LEMMA GoodPeerCloses ==
  ASSUME NEW x \in Ids, NEW w, Good(w, x)
  PROVE  LET v == PeerCloses(w, x) IN
         /\ Good(v, x)
         /\ v.relay = IF w.relay = "idle" THEN "closed" ELSE w.relay
         /\ v.peer # "idle" \/ w.peer = "idle"
         /\ v.peer # "open"
         /\ \A n : Has(v.down, n) <=> Has(w.down, n)
         /\ w.relay # "idle" => v.down = w.down
         /\ w.relay # "idle" /\ w.peer = "open" => v.peer = "closing"
         /\ w.relay # "idle" /\ w.peer # "open" => v.peer = w.peer
<1> DEFINE u == ToRelay(w, End(x))
           v == PeerCloses(w, x)
<1>0. Good(u, x) /\ u.peer = w.peer /\ u.relay = w.relay /\ u.down = w.down
  BY GoodToRelay, EndIsMsg
<1>1. CASE w.relay = "idle"
  <2>1. v = [w EXCEPT !.peer = "closed", !.relay = "closed", !.down = <<>>]
    BY <1>1 DEF PeerCloses
  <2>2. /\ v \in Wire /\ v.peer = "closed" /\ v.relay = "closed" /\ v.down = <<>>
    <3>1. w \in Wire /\ w.up \in Seq(UpMsgs) BY WireIs DEF Good
    <3>2. v = [peer |-> "closed", relay |-> "closed", up |-> w.up, down |-> <<>>]
      BY <2>1, <3>1, WireSet
    <3>3. <<>> \in Seq(DownMsgs) OBVIOUS
    <3> QED BY <3>1, <3>2, <3>3, WireSet DEF PeerState
  <2> QED BY <1>1, <2>2 DEF Good
<1>2. CASE w.relay # "idle" /\ w.peer = "open"
  <2>1. v = [u EXCEPT !.peer = "closing"] BY <1>2 DEF PeerCloses
  <2> HIDE DEF u
  <2>2. v \in Wire /\ v.peer = "closing" /\ v.relay = u.relay /\ v.down = u.down
    BY <1>0, <2>1, WireSet DEF Good, PeerState
  <2>3. Good(v, x) BY <1>0, <1>2, <2>2 DEF Good
  <2> QED BY <1>0, <1>2, <2>2, <2>3
<1>3. CASE w.relay # "idle" /\ w.peer # "open"
  <2>1. v = w BY <1>3 DEF PeerCloses
  <2> QED BY <1>3, <2>1
<1> QED BY <1>1, <1>2, <1>3

LEMMA GoodPeerTakes ==
  ASSUME NEW x \in Ids, NEW w, Good(w, x), NEW t, Down(w, t), t # "end"
  PROVE  LET v == PeerTakes(w)
             m == Head(w.down)
         IN
         /\ Good(v, x) /\ v.peer = w.peer /\ v.relay = w.relay /\ v.up = w.up
         /\ w.relay # "idle" /\ w.peer \in {"open", "closing"}
         /\ m = Msg(t, m.c) /\ m.c \in Ids
         /\ \A n : Has(w.down, n) <=> Has(v.down, n) \/ n = m
         /\ \A n : Once(w.down, n) => Once(v.down, n)
         /\ Once(w.down, m) => ~Has(v.down, m)
<1> DEFINE v == PeerTakes(w)
           m == Head(w.down)
<1>1. w \in Wire /\ w.down \in Seq(DownMsgs) /\ w.down # <<>> /\ m.t = t
  BY WireIs DEF Good, Down
<1>2. m = Msg(t, m.c) /\ m.c \in Ids BY <1>1, HeadIs DEF DownMsgs
<1>3. /\ Tail(w.down) \in Seq(DownMsgs)
      /\ \A n : /\ Has(w.down, n) <=> Has(Tail(w.down), n) \/ n = m
                /\ Once(w.down, n) => Once(Tail(w.down), n)
                /\ Once(w.down, n) /\ n = m => ~Has(Tail(w.down), n)
  BY <1>1, HasTail
<1>4. v = [w EXCEPT !.down = Tail(w.down)] BY DEF PeerTakes
<1>5. /\ v \in Wire /\ v.peer = w.peer /\ v.relay = w.relay /\ v.up = w.up
      /\ v.down = Tail(w.down)
  BY <1>1, <1>3, <1>4, WireSet
<1>6. End(x) # m BY <1>1 DEF End, Msg
<1>7. w.relay # "idle" /\ w.peer \in {"open", "closing"} BY <1>1 DEF Good, Down
<1>8. Good(v, x) BY <1>1, <1>3, <1>5, <1>6, <1>7 DEF Good
<1> QED BY <1>2, <1>3, <1>5, <1>7, <1>8

LEMMA GoodRelayTakes ==
  ASSUME NEW x \in Ids, NEW w, Good(w, x), NEW t, Up(w, t)
  PROVE  LET v == RelayTakes(w)
             m == Head(w.up)
         IN
         /\ Good(v, x) /\ v.peer = w.peer /\ v.relay = w.relay /\ v.down = w.down
         /\ m = Msg(t, m.c) /\ m.c \in Ids /\ Has(w.up, m)
         /\ \A n : Has(v.up, n) => Has(w.up, n)
<1> DEFINE v == RelayTakes(w)
           m == Head(w.up)
<1>1. w \in Wire /\ w.up \in Seq(UpMsgs) /\ w.up # <<>> /\ m.t = t
  BY WireIs DEF Good, Up
<1>2. m = Msg(t, m.c) /\ m.c \in Ids BY <1>1, HeadIs DEF UpMsgs
<1>3. /\ Tail(w.up) \in Seq(UpMsgs)
      /\ \A n : Has(w.up, n) <=> Has(Tail(w.up), n) \/ n = m
  BY <1>1, HasTail
<1>4. v = [w EXCEPT !.up = Tail(w.up)] BY DEF RelayTakes
<1>5. /\ v \in Wire /\ v.peer = w.peer /\ v.relay = w.relay /\ v.down = w.down
      /\ v.up = Tail(w.up)
  BY <1>1, <1>3, <1>4, WireSet
<1>6. Good(v, x) BY <1>5 DEF Good
<1> QED BY <1>2, <1>3, <1>5, <1>6

LEMMA GoodPeerEnds ==
  ASSUME NEW x \in Ids, NEW w, Good(w, x), Down(w, "end")
  PROVE  LET v == PeerEnds(w, x) IN
         /\ Good(v, x) /\ v.peer = "closed" /\ v.relay = w.relay /\ v.down = <<>>
         /\ \A n : Has(v.up, n) => Has(w.up, n) \/ n = End(x)
<1> DEFINE u == ToRelay(w, End(x))
           v == PeerEnds(w, x)
<1>0. /\ Good(u, x) /\ u.peer = w.peer /\ u.relay = w.relay /\ u.down = w.down
      /\ \A n : Has(u.up, n) => Has(w.up, n) \/ n = End(x)
  BY GoodToRelay, EndIsMsg
<1>1. v = [u EXCEPT !.peer = "closed", !.down = <<>>] BY DEF PeerEnds
<1> HIDE DEF u
<1>2. /\ v \in Wire /\ v.peer = "closed" /\ v.relay = u.relay /\ v.down = <<>>
      /\ v.up = u.up
  <2>1. u \in Wire /\ u.up \in Seq(UpMsgs) /\ u.relay \in PeerState
    BY <1>0, WireIs DEF Good
  <2>2. v = [peer |-> "closed", relay |-> u.relay, up |-> u.up, down |-> <<>>]
    BY <1>1, <2>1, WireSet
  <2>3. <<>> \in Seq(DownMsgs) OBVIOUS
  <2> QED BY <2>1, <2>2, <2>3, WireSet DEF PeerState
<1> QED BY <1>0, <1>2 DEF Good

LEMMA GoodRelayEnds ==
  ASSUME NEW x \in Ids, NEW w, Good(w, x), Up(w, "end")
  PROVE  LET v == RelayEnds(w, x) IN
         /\ Good(v, x) /\ v.peer = w.peer /\ v.relay = "closed" /\ v.up = <<>>
         /\ w.relay \in {"open", "closing"}
         /\ \A n : Has(w.down, n) => Has(v.down, n)
         /\ \A n : Has(v.down, n) => Has(w.down, n) \/ n = End(x)
         /\ \A n : Once(w.down, n) /\ n # End(x) => Once(v.down, n)
<1> DEFINE u == ToPeer(w, End(x))
           v == RelayEnds(w, x)
<1>0. /\ Good(u, x) /\ u.peer = w.peer /\ u.relay = w.relay /\ u.up = w.up
      /\ \A n : Has(u.down, n) <=>
           Has(w.down, n) \/ (n = End(x) /\ w.relay = "open" /\ w.peer # "closed")
      /\ \A n : Once(w.down, n) /\ n # End(x) => Once(u.down, n)
  BY GoodToPeer, EndIsMsg
<1>1. v = [u EXCEPT !.relay = "closed", !.up = <<>>] BY DEF RelayEnds
<1>2. w.relay \in {"open", "closing"} BY DEF Up
<1> HIDE DEF u
<1>3. /\ v \in Wire /\ v.peer = u.peer /\ v.relay = "closed" /\ v.down = u.down
      /\ v.up = <<>>
  <2>1. u \in Wire /\ u.down \in Seq(DownMsgs) /\ u.peer \in PeerState
    BY <1>0, WireIs DEF Good
  <2>2. v = [peer |-> u.peer, relay |-> "closed", up |-> <<>>, down |-> u.down]
    BY <1>1, <2>1, WireSet
  <2>3. <<>> \in Seq(UpMsgs) OBVIOUS
  <2> QED BY <2>1, <2>2, <2>3, WireSet DEF PeerState
<1>4. Good(v, x) BY <1>0, <1>2, <1>3 DEF Good
<1> QED BY <1>0, <1>2, <1>3, <1>4

LEMMA GoodBroken ==
  ASSUME NEW x \in Ids, NEW w, Good(w, x), Breakable(w)
  PROVE  LET v == Broken(w, x) IN
         /\ Good(v, x) /\ v.peer = w.peer
         /\ v.relay = IF w.relay = "idle" THEN "closed" ELSE w.relay
         /\ w.peer \in {"open", "closing"}
         /\ \A n : Has(v.down, n) <=> n = End(x)
         /\ \A n : Once(v.down, n)
         /\ \A n : Has(v.up, n) => n = End(x)
<1> DEFINE v == Broken(w, x)
           up == IF w.relay = "idle" THEN <<>> ELSE <<End(x)>>
           r == IF w.relay = "idle" THEN "closed" ELSE w.relay
<1>0. w \in Wire /\ w.peer \in {"open", "closing"} BY DEF Good, Breakable
<1>1. v = [w EXCEPT !.up = up, !.relay = r, !.down = <<End(x)>>] BY DEF Broken
<1>2. up \in Seq(UpMsgs) /\ <<End(x)>> \in Seq(DownMsgs) /\ r \in PeerState /\ r # "idle"
  BY <1>0, EndIsMsg, WireIs DEF PeerState
<1>3. \A n : Has(up, n) => n = End(x) BY HasNone, HasOne
<1> HIDE DEF up, r
<1>4. /\ v \in Wire /\ v.peer = w.peer /\ v.relay = r /\ v.down = <<End(x)>>
      /\ v.up = up
  BY <1>0, <1>1, <1>2, WireSet
<1>5. Good(v, x) BY <1>0, <1>2, <1>4, HasOne DEF Good
<1> QED BY <1>0, <1>3, <1>4, <1>5, HasOne, OnceOne DEF r

-----------------------------------------------------------------------------
(* Facts every step uses.                                                  *)

LEMMA IdsAre ==
  /\ Clients \subseteq Ids /\ Primaries \subseteq Ids
  /\ None \notin Ids /\ \A x : End(x) = Msg("end", x)
BY PairingNone DEF Ids, End

(* While there are sessions, the daemon's primary is the relay's or has    *)
(* its end coming.                                                         *)
LEMMA HearsOfAll ==
  ASSUME IInv, sessions # {}
  PROVE  /\ control \in Primaries /\ control # None /\ primary[control].peer = "open"
         /\ primary[control].relay # "idle"
         /\ entry = control \/ Has(primary[control].down, End(control))
<1>1. /\ control \in Primaries /\ control # None /\ primary[control].peer = "open"
      /\ primary[control].relay # "idle" /\ Good(primary[control], control)
  BY DEF IInv, Links, Nobody, Typed, Wires
<1>2. primary[control].relay \in PeerState BY <1>1, WireIs DEF Good
<1>3. CASE primary[control].relay = "open" BY <1>1, <1>3 DEF IInv, Links
<1>4. CASE primary[control].relay # "open"
  BY <1>1, <1>2, <1>4 DEF Good, PeerState
<1> QED BY <1>1, <1>3, <1>4

-----------------------------------------------------------------------------
(* Clients and their sockets.                                              *)

(* A step of one client's socket that neither opens nor closes the relay's *)
(* end of an open one, and that does not go back to idle.                  *)
LEMMA ClientKeeps ==
  ASSUME IInv, NEW c \in Clients, NEW v, Good(v, c),
         client' = [client EXCEPT ![c] = v],
         v.relay = client[c].relay \/ (client[c].relay = "idle" /\ v.relay = "closed"),
         told' \in [Clients -> {"nothing", "held", "paired", "ended"}],
         breaks' \in 0..MaxBreaks,
         UNCHANGED <<primary, data, relay, daemon>>
  PROVE  IInv'
<1>1. Typed' BY DEF IInv, Typed, relay, daemon
<1>2. Wires' BY DEF IInv, Wires, Good
<1>3. Links' BY DEF IInv, Links, Nobody, relay, daemon
<1>4. client \in [Clients -> Wire] BY DEF IInv, Wires
<1>5. Rows' BY <1>4 DEF IInv, Rows, relay
<1>6. ASSUME NEW d \in Clients PROVE Placed(d)' /\ CalledOnce(d)' /\ Owed(d)'
  <2>1. Placed(d) /\ CalledOnce(d) /\ Owed(d) BY DEF IInv
  <2>2. Placed(d)' BY <1>4, <2>1 DEF Placed, Called, Calls, Refused, daemon
  <2>3. CalledOnce(d)' BY <2>1 DEF CalledOnce, Calls
  <2>4. Owed(d)' BY <2>1 DEF Owed, WasPaired, Told, Members, relay, daemon
  <2> QED BY <2>2, <2>3, <2>4
<1> QED BY <1>1, <1>2, <1>3, <1>5, <1>6 DEF IInv

LEMMA DialKeeps ==
  ASSUME IInv, NEW c \in Clients, Dial(c) PROVE IInv'
<1>1. client[c].relay = "idle" BY GoodNew, IdsAre DEF Dial
<1>2. Good(Dialled, c) /\ Dialled.relay = "idle" BY GoodNew, IdsAre
<1> QED BY <1>1, <1>2, ClientKeeps DEF Dial, IInv, Typed

LEMMA ClientHearsKeeps ==
  ASSUME IInv, NEW c \in Clients, ClientHears(c) PROVE IInv'
<1>1. PICK t \in {"paired", "peer_disconnected", "error", "waiting_for_approval"} :
        Down(client[c], t) /\ told' = [told EXCEPT ![c] =
            CASE t = "paired" -> "paired"
              [] t = "waiting_for_approval" -> "held"
              [] t \in {"peer_disconnected", "error"} -> "ended"]
  BY DEF ClientHears
<1>2. /\ Good(PeerTakes(client[c]), c)
      /\ PeerTakes(client[c]).relay = client[c].relay
  BY <1>1, GoodPeerTakes, IdsAre DEF IInv, Wires
<1>3. told' \in [Clients -> {"nothing", "held", "paired", "ended"}]
  BY <1>1 DEF IInv, Typed
<1> QED BY <1>2, <1>3, ClientKeeps DEF ClientHears, IInv, Typed

LEMMA ClientClosedKeeps ==
  ASSUME IInv, NEW c \in Clients, ClientClosed(c) PROVE IInv'
<1>1. /\ Good(PeerEnds(client[c], c), c)
      /\ PeerEnds(client[c], c).relay = client[c].relay
  BY GoodPeerEnds, IdsAre DEF IInv, Wires, ClientClosed
<1> QED BY <1>1, ClientKeeps DEF ClientClosed, IInv, Typed

LEMMA ClientLeavesKeeps ==
  ASSUME IInv, NEW c \in Clients, ClientLeaves(c) PROVE IInv'
<1> DEFINE v == PeerCloses(client[c], c)
<1>1. /\ Good(v, c)
      /\ v.relay = IF client[c].relay = "idle" THEN "closed" ELSE client[c].relay
  BY GoodPeerCloses, IdsAre DEF IInv, Wires
<1> QED BY <1>1, ClientKeeps DEF ClientLeaves, IInv, Typed

LEMMA ClientBreaksKeeps ==
  ASSUME IInv, NEW c \in Clients, ClientBreaks(c) PROVE IInv'
<1> DEFINE v == Broken(client[c], c)
<1>1. /\ Good(v, c)
      /\ v.relay = IF client[c].relay = "idle" THEN "closed" ELSE client[c].relay
  BY GoodBroken, IdsAre DEF IInv, Wires, ClientBreaks
<1>2. breaks' \in 0..MaxBreaks BY PairingBounds DEF ClientBreaks, IInv, Typed
<1> QED BY <1>1, <1>2, ClientKeeps DEF ClientBreaks, IInv, Typed

-----------------------------------------------------------------------------
(* Sessions and their data sockets.                                        *)

LEMMA DataKeeps ==
  ASSUME IInv, NEW c \in Clients, NEW v, Good(v, c),
         data' = [data EXCEPT ![c] = v],
         v.peer = "idle" <=> data[c].peer = "idle",
         v.relay = "open" => data[c].relay = "open",
         sessions' \subseteq sessions, linked' \subseteq sessions',
         \A d \in Clients \ {c} : d \in linked' => d \in linked,
         c \in sessions' /\ WasPaired(c)' => WasPaired(c),
         UNCHANGED <<primary, client, relay, control, checking, held, told, breaks>>
  PROVE  IInv'
<1>1. Typed' BY DEF IInv, Typed, relay
<1>2. Wires' BY DEF IInv, Wires, Good
<1>3. Links' BY DEF IInv, Links, Nobody, relay
<1>4. data \in [Clients -> Wire] BY DEF IInv, Wires
<1>5. Rows' BY <1>4 DEF IInv, Rows, relay
<1>6. ASSUME NEW d \in Clients PROVE Placed(d)' /\ CalledOnce(d)' /\ Owed(d)'
  <2>1. Placed(d) /\ CalledOnce(d) /\ Owed(d) BY DEF IInv
  <2>2. Placed(d)' BY <1>4, <2>1 DEF Placed, Called, Calls, Refused
  <2>3. CalledOnce(d)' BY <2>1 DEF CalledOnce, Calls
  <2>4. d \in sessions' /\ WasPaired(d)' => WasPaired(d)
    BY <1>4 DEF WasPaired
  <2>5. Owed(d)' BY <2>1, <2>4 DEF Owed, Told, Members, relay
  <2> QED BY <2>2, <2>3, <2>5
<1> QED BY <1>1, <1>2, <1>3, <1>5, <1>6 DEF IInv

(* teardownClient on one session, or on none.                              *)
LEMMA Shuts ==
  ASSUME IInv, NEW c \in Clients
  PROVE  LET v == IF c \in sessions THEN PeerCloses(data[c], c) ELSE data[c] IN
         /\ CloseData({c}) = [data EXCEPT ![c] = v]
         /\ Good(v, c) /\ (v.peer = "idle" <=> data[c].peer = "idle")
         /\ v.relay = "open" => data[c].relay = "open"
         /\ v.relay = data[c].relay \/ data[c].relay = "idle"
         /\ data[c].relay # "idle" => v.down = data[c].down
         /\ data[c].relay # "idle" /\ data[c].peer \in {"open", "closing"}
              => v.peer \in {"open", "closing"}
<1> DEFINE v == IF c \in sessions THEN PeerCloses(data[c], c) ELSE data[c]
<1>1. data \in [Clients -> Wire] /\ Good(data[c], c) BY DEF IInv, Wires
<1>2. CloseData({c}) = [data EXCEPT ![c] = v] BY <1>1 DEF CloseData
<1>3. CASE c \in sessions
  <2>1. data[c].peer # "idle" BY <1>3 DEF IInv, Placed
  <2> QED BY <1>1, <1>2, <1>3, <2>1, GoodPeerCloses, IdsAre
<1>4. CASE c \notin sessions BY <1>1, <1>2, <1>4
<1> QED BY <1>3, <1>4

LEMMA SeverKeeps ==
  ASSUME IInv, NEW c \in Clients, Sever(c) PROVE IInv'
<1>1. linked \subseteq sessions BY DEF IInv, Typed
<1> QED BY <1>1, Shuts, DataKeeps DEF Sever, Teardown, Forgotten

LEMMA DataFailsKeeps ==
  ASSUME IInv, NEW c \in Clients, DataFails(c) PROVE IInv'
<1> DEFINE v == PeerCloses(data[c], c)
<1>1. linked \subseteq sessions /\ Good(data[c], c) BY DEF IInv, Typed, Wires
<1>2. data[c].peer # "idle" BY DEF DataFails
<1>3. WasPaired(c) BY DEF DataFails, WasPaired
<1>4. /\ Good(v, c) /\ v.peer # "idle" /\ (v.relay = "open" => data[c].relay = "open")
  BY <1>1, <1>2, GoodPeerCloses, IdsAre
<1>5. data' = [data EXCEPT ![c] = v] BY DEF DataFails
<1> HIDE DEF v
<1> QED BY <1>1, <1>2, <1>3, <1>4, <1>5, DataKeeps DEF DataFails, daemon

LEMMA DataHearsKeeps ==
  ASSUME IInv, NEW c \in Clients, DataHears(c) PROVE IInv'
<1> DEFINE v == PeerTakes(data[c])
<1>1. linked \subseteq sessions /\ Good(data[c], c) /\ data \in [Clients -> Wire]
  BY DEF IInv, Typed, Wires
<1>2. PICK t \in {"paired", "error"} : Down(data[c], t) BY DEF DataHears
<1>3. /\ Good(v, c) /\ v.peer = data[c].peer /\ v.relay = data[c].relay
      /\ Head(data[c].down) = Msg(t, Head(data[c].down).c)
      /\ Head(data[c].down).c \in Ids
      /\ \A n : Has(data[c].down, n) <=> Has(v.down, n) \/ n = Head(data[c].down)
  BY <1>1, <1>2, GoodPeerTakes, IdsAre, ZenonT(90)
<1> HIDE DEF v
<1>4. data' = [data EXCEPT ![c] = v] BY DEF DataHears, v
<1>5. linked' \subseteq sessions BY <1>1 DEF DataHears
<1>6. \A d \in Clients \ {c} : d \in linked' => d \in linked BY DEF DataHears
<1>7. ASSUME c \in sessions', WasPaired(c)' PROVE WasPaired(c)
  <2>1. data'[c] = v BY <1>1, <1>4
  <2>2. CASE t = "paired"
    BY <1>3, <1>3, <2>2 DEF WasPaired, Ids
  <2>3. CASE t # "paired"
    <3>1. ~Down(data[c], "paired") BY <1>2, <2>3 DEF Down
    <3> QED BY <1>3, <1>7, <2>1, <3>1 DEF WasPaired, DataHears
  <2> QED BY <2>2, <2>3
<1> QED BY <1>1, <1>3, <1>4, <1>5, <1>6, <1>7, DataKeeps DEF DataHears

LEMMA PeerLostKeeps ==
  ASSUME IInv, NEW c \in Clients, PeerLost(c) PROVE IInv'
<1> DEFINE u == IF c \in sessions THEN PeerCloses(data[c], c) ELSE data[c]
           v == PeerTakes(u)
<1>1. linked \subseteq sessions /\ Good(data[c], c) /\ data \in [Clients -> Wire]
  BY DEF IInv, Typed, Wires
<1>2. Down(data[c], "peer_disconnected") BY DEF PeerLost
<1>3. data[c].relay # "idle" BY <1>1, <1>2, GoodPeerTakes, IdsAre
<1>4. /\ CloseData({c}) = [data EXCEPT ![c] = u]
      /\ Good(u, c) /\ (u.peer = "idle" <=> data[c].peer = "idle")
      /\ u.relay = data[c].relay /\ u.down = data[c].down
      /\ u.peer \in {"open", "closing"}
  BY <1>2, <1>3, Shuts DEF Down
<1> HIDE DEF u
<1>5. Down(u, "peer_disconnected") BY <1>2, <1>4 DEF Down
<1>6. /\ Good(v, c) /\ v.peer = u.peer /\ v.relay = u.relay
  BY <1>4, <1>5, GoodPeerTakes, IdsAre
<1>7. data' = [data EXCEPT ![c] = v] BY <1>1, <1>4 DEF PeerLost
<1> HIDE DEF v
<1> QED BY <1>1, <1>4, <1>6, <1>7, DataKeeps DEF PeerLost, Forgotten

LEMMA DataClosedKeeps ==
  ASSUME IInv, NEW c \in Clients, DataClosed(c) PROVE IInv'
<1> DEFINE v == PeerEnds(data[c], c)
<1>1. linked \subseteq sessions /\ Good(data[c], c) /\ data \in [Clients -> Wire]
  BY DEF IInv, Typed, Wires
<1>2. Down(data[c], "end") /\ data[c].peer \in {"open", "closing"}
  BY DEF DataClosed, Down
<1>3. Good(v, c) /\ v.peer = "closed" /\ v.relay = data[c].relay
  BY <1>1, <1>2, GoodPeerEnds, IdsAre
<1>4. c \in sessions' => WasPaired(c)
  BY <1>2 DEF DataClosed, Forgotten, WasPaired
<1> QED BY <1>1, <1>2, <1>3, <1>4, DataKeeps DEF DataClosed, Forgotten

-----------------------------------------------------------------------------
(* Admissions.                                                             *)

(* A client that is looked up or held is let in.                           *)
LEMMA OpenKeeps ==
  ASSUME IInv, NEW c \in Clients, c \in checking \cup held, OpenClient(c),
         checking' = checking \ {c}, held' = held \ {c},
         UNCHANGED <<primary, client, relay, control, linked, told, breaks>>
  PROVE  IInv'
<1>1. /\ Good(Dialled, c) /\ Dialled.relay = "idle" /\ Dialled.peer = "open"
      /\ \A n : ~Has(Dialled.down, n)
  BY GoodNew, IdsAre, HasNone
<1>2. Placed(c) /\ c \notin sessions /\ c \notin linked
  BY DEF IInv, Placed, Typed
<1>3. data \in [Clients -> Wire] /\ data' = [data EXCEPT ![c] = Dialled]
  BY DEF OpenClient, IInv, Wires
<1>4. sessions' = sessions \cup {c} BY DEF OpenClient
<1>5. Typed' BY <1>4 DEF IInv, Typed, relay
<1>6. Wires' BY <1>1, <1>3 DEF IInv, Wires, Good
<1>7. Links' BY DEF IInv, Links, Nobody, relay
<1>8. Rows' BY <1>1, <1>3 DEF IInv, Rows, relay
<1>9. ASSUME NEW d \in Clients PROVE Placed(d)' /\ CalledOnce(d)' /\ Owed(d)'
  <2>1. Placed(d) /\ CalledOnce(d) /\ Owed(d) BY DEF IInv
  <2>2. CalledOnce(d)' BY <2>1 DEF CalledOnce, Calls
  <2>3. CASE d = c
    <3>1. Placed(d)' BY <1>1, <1>2, <1>3, <1>4, <2>1, <2>3
            DEF Placed, Called, Calls, Refused
    <3>2. ~WasPaired(d)' BY <1>1, <1>2, <1>3, <2>3 DEF WasPaired
    <3> QED BY <2>2, <3>1, <3>2 DEF Owed
  <2>4. CASE d # c
    <3>1. Placed(d)' BY <1>3, <1>4, <2>1, <2>4 DEF Placed, Called, Calls, Refused
    <3>2. Owed(d)' BY <1>3, <1>4, <2>1, <2>4
            DEF Owed, WasPaired, Told, Members, relay
    <3> QED BY <2>2, <3>1, <3>2
  <2> QED BY <2>3, <2>4
<1> QED BY <1>5, <1>6, <1>7, <1>8, <1>9 DEF IInv

LEMMA AdmitKeeps ==
  ASSUME IInv, NEW c \in Clients, Admit(c) PROVE IInv'
<1>1. held' = held \ {c} BY DEF Admit, IInv, Typed
<1> QED BY <1>1, OpenKeeps DEF Admit

LEMMA ApproveHeldKeeps ==
  ASSUME IInv, NEW c \in Clients, ApproveHeld(c) PROVE IInv'
<1>1. checking' = checking \ {c} BY DEF ApproveHeld, IInv, Typed
<1> QED BY <1>1, OpenKeeps DEF ApproveHeld, HeldWithout

-----------------------------------------------------------------------------
(* Orders of the daemon on its primary.                                    *)

(* A refusal goes out, for a client that is nowhere else any more.         *)
LEMMA RefuseKeeps ==
  ASSUME IInv, NEW c \in Clients, c \in checking \cup held,
         primary' = Order(primary, "reject_client", c),
         checking' = checking \ {c}, held' = held \ {c},
         UNCHANGED <<client, data, relay, control, sessions, linked, told, breaks>>
  PROVE  IInv'
<1> DEFINE m == Msg("reject_client", c)
           v == ToRelay(primary[control], m)
<1>1. control \in Primaries /\ control # None
  BY DEF IInv, Links, Nobody, Typed
<1>2. m \in UpMsgs BY IdsAre DEF UpMsgs, Messages, Msg, Ids
<1>3. Good(primary[control], control) /\ primary \in [Primaries -> Wire]
  BY <1>1 DEF IInv, Wires
<1>4. /\ Good(v, control) /\ v.peer = primary[control].peer
      /\ v.relay = primary[control].relay /\ v.down = primary[control].down
      /\ \A n : Has(v.up, n) => Has(primary[control].up, n) \/ n = m
  BY <1>1, <1>2, <1>3, GoodToRelay, IdsAre
<1>5. primary' = [primary EXCEPT ![control] = v] BY <1>1 DEF Order
<1> HIDE DEF v
<1>6. \A d \in Clients : Refused(d)' => Refused(d) \/ d = c
  BY <1>3, <1>4, <1>5, MsgIs DEF Refused
<1>7. \A p \in Primaries : primary'[p].down = primary[p].down
  BY <1>3, <1>4, <1>5
<1>8. Typed' BY DEF IInv, Typed, relay
<1>9. Wires' BY <1>1, <1>3, <1>4, <1>5 DEF IInv, Wires, Good
<1>10. Links' BY <1>1, <1>3, <1>4, <1>5 DEF IInv, Links, Nobody, relay
<1>11. Rows' BY DEF IInv, Rows, relay
<1>12. ASSUME NEW d \in Clients PROVE Placed(d)' /\ CalledOnce(d)' /\ Owed(d)'
  <2>1. Placed(d) /\ CalledOnce(d) /\ Owed(d) /\ Placed(c) BY DEF IInv
  <2>2. \A p \in Primaries : Calls(p, d)' <=> Calls(p, d) BY <1>7 DEF Calls
  <2>3. CalledOnce(d)' BY <1>7, <2>1, <2>2 DEF CalledOnce
  <2>4. Placed(d)' BY <1>6, <2>1, <2>2 DEF Placed, Called
  <2>5. Owed(d)' BY <1>1, <1>7, <2>1 DEF Owed, WasPaired, Told, Members, relay
  <2> QED BY <2>3, <2>4, <2>5
<1> QED BY <1>8, <1>9, <1>10, <1>11, <1>12 DEF IInv

LEMMA RejectKeeps ==
  ASSUME IInv, NEW c \in Clients, Reject(c) PROVE IInv'
<1>1. held' = held \ {c} BY DEF Reject, IInv, Typed
<1> QED BY <1>1, RefuseKeeps DEF Reject

LEMMA HeldTimeoutKeeps ==
  ASSUME IInv, NEW c \in Clients, HeldTimeout(c) PROVE IInv'
<1>1. checking' = checking \ {c} BY DEF HeldTimeout, IInv, Typed
<1> QED BY <1>1, RefuseKeeps DEF HeldTimeout, HeldWithout

LEMMA HoldKeeps ==
  ASSUME IInv, NEW c \in Clients, Hold(c) PROVE IInv'
<1> DEFINE m == Msg("hold_client", c)
           v == ToRelay(primary[control], m)
<1>1. control \in Primaries /\ control # None /\ c \in checking
  BY DEF IInv, Links, Nobody, Typed, Hold
<1>2. m \in UpMsgs BY IdsAre DEF UpMsgs, Messages, Msg, Ids
<1>3. Good(primary[control], control) /\ primary \in [Primaries -> Wire]
  BY <1>1 DEF IInv, Wires
<1>4. /\ Good(v, control) /\ v.peer = primary[control].peer
      /\ v.relay = primary[control].relay /\ v.down = primary[control].down
      /\ \A n : Has(v.up, n) => Has(primary[control].up, n) \/ n = m
  BY <1>1, <1>2, <1>3, GoodToRelay, IdsAre
<1>5. primary' = [primary EXCEPT ![control] = v] BY <1>1 DEF Order, Hold
<1> HIDE DEF v
<1>6. \A d \in Clients : Refused(d)' => Refused(d)
  BY <1>3, <1>4, <1>5, MsgIs DEF Refused
<1>7. \A p \in Primaries : primary'[p].down = primary[p].down
  BY <1>3, <1>4, <1>5
<1>8. Typed' BY DEF IInv, Typed, relay, Hold
<1>9. Wires' BY <1>1, <1>3, <1>4, <1>5 DEF IInv, Wires, Good, Hold
<1>10. Links' BY <1>1, <1>3, <1>4, <1>5 DEF IInv, Links, Nobody, relay, Hold
<1>11. Rows' BY DEF IInv, Rows, relay, Hold
<1>12. ASSUME NEW d \in Clients PROVE Placed(d)' /\ CalledOnce(d)' /\ Owed(d)'
  <2>1. Placed(d) /\ CalledOnce(d) /\ Owed(d) /\ Placed(c) BY DEF IInv
  <2>2. \A p \in Primaries : Calls(p, d)' <=> Calls(p, d) BY <1>7 DEF Calls
  <2>3. CalledOnce(d)' BY <1>7, <2>1, <2>2 DEF CalledOnce
  <2>4. Placed(d)' BY <1>1, <1>6, <2>1, <2>2 DEF Placed, Called, Hold
  <2>5. Owed(d)' BY <1>1, <1>7, <2>1 DEF Owed, WasPaired, Told, Members, relay, Hold
  <2> QED BY <2>3, <2>4, <2>5
<1> QED BY <1>8, <1>9, <1>10, <1>11, <1>12 DEF IInv

-----------------------------------------------------------------------------
(* What the daemon hears on its primary.                                   *)

LEMMA TakesHead ==
  ASSUME IInv, control # None, NEW t, t # "end", Down(primary[control], t)
  PROVE  LET w == primary[control]
             v == PeerTakes(w)
             m == Head(w.down)
         IN
         /\ control \in Primaries /\ Taken = [primary EXCEPT ![control] = v]
         /\ primary \in [Primaries -> Wire]
         /\ Good(v, control) /\ v.peer = w.peer /\ v.relay = w.relay /\ v.up = w.up
         /\ w.relay # "idle" /\ m = Msg(t, m.c) /\ m.c \in Ids
         /\ \A n : Has(w.down, n) <=> Has(v.down, n) \/ n = m
         /\ \A n : Once(w.down, n) => Once(v.down, n)
         /\ Once(w.down, m) => ~Has(v.down, m)
<1>1. control \in Primaries /\ Good(primary[control], control)
      /\ primary \in [Primaries -> Wire]
  BY DEF IInv, Typed, Wires
<1> QED BY <1>1, GoodPeerTakes, IdsAre DEF Taken

LEMMA PrimaryErrorKeeps ==
  ASSUME IInv, PrimaryError PROVE IInv'
<1> DEFINE w == primary[control]
           v == PeerTakes(w)
<1>1. /\ control \in Primaries /\ Taken = [primary EXCEPT ![control] = v]
      /\ primary \in [Primaries -> Wire]
      /\ Good(v, control) /\ v.peer = w.peer /\ v.relay = w.relay /\ v.up = w.up
      /\ \A n : Has(w.down, n) <=> Has(v.down, n) \/ n = Head(w.down)
      /\ Head(w.down) = Msg("error", Head(w.down).c)
      /\ \A n : Once(w.down, n) => Once(v.down, n)
  BY TakesHead DEF PrimaryError
<1>2. primary' = [primary EXCEPT ![control] = v] BY <1>1 DEF PrimaryError
<1> HIDE DEF v
<1>3. \A d, u : u # "error" => (Has(v.down, Msg(u, d)) <=> Has(w.down, Msg(u, d)))
  BY <1>1, MsgIs
<1>4. \A p \in Primaries : \A d :
        /\ Has(primary'[p].down, Msg("client_waiting", d))
             <=> Has(primary[p].down, Msg("client_waiting", d))
        /\ Once(primary[p].down, Msg("client_waiting", d))
             => Once(primary'[p].down, Msg("client_waiting", d))
        /\ primary'[p].up = primary[p].up
  BY <1>1, <1>2, <1>3
<1>5. Typed' BY DEF IInv, Typed, relay, daemon, PrimaryError
<1>6. Wires' BY <1>1, <1>2 DEF IInv, Wires, Good, PrimaryError
<1>7. Links' BY <1>1, <1>2 DEF IInv, Links, Nobody, relay, daemon, PrimaryError
<1>8. Rows' BY DEF IInv, Rows, relay, PrimaryError
<1>9. ASSUME NEW d \in Clients PROVE Placed(d)' /\ CalledOnce(d)' /\ Owed(d)'
  <2>1. Placed(d) /\ CalledOnce(d) /\ Owed(d) BY DEF IInv
  <2>2. CalledOnce(d)' BY <1>4, <2>1 DEF CalledOnce, Calls
  <2>3. Placed(d)' BY <1>4, <2>1 DEF Placed, Called, Calls, Refused, daemon, PrimaryError
  <2>4. Told(d) => Told(d)'
    BY <1>1, <1>2, <1>3, IdsAre DEF Told, Members, relay, daemon, PrimaryError
  <2>5. Owed(d)' BY <2>1, <2>4 DEF Owed, WasPaired, daemon, PrimaryError
  <2> QED BY <2>2, <2>3, <2>5
<1> QED BY <1>5, <1>6, <1>7, <1>8, <1>9 DEF IInv

(* An announcement is taken: the client is nowhere now.                    *)
LEMMA Announces ==
  ASSUME IInv, NEW c \in Clients, Announced(c)
  PROVE  LET w == primary[control]
             v == PeerTakes(w)
         IN
         /\ control \in Primaries /\ Taken = [primary EXCEPT ![control] = v]
         /\ primary \in [Primaries -> Wire] /\ w.relay # "idle"
         /\ Good(v, control) /\ v.peer = w.peer /\ v.relay = w.relay /\ v.up = w.up
         /\ \A p \in Primaries : ~Has(Taken[p].down, Msg("client_waiting", c))
         /\ \A p \in Primaries : \A u, d : u # "client_waiting" \/ d # c =>
              (Has(Taken[p].down, Msg(u, d)) <=> Has(primary[p].down, Msg(u, d)))
         /\ \A p \in Primaries : \A n : Once(primary[p].down, n) => Once(Taken[p].down, n)
         /\ Called(c)
<1> DEFINE w == primary[control]
           v == PeerTakes(w)
           m == Head(w.down)
<1>1. /\ control \in Primaries /\ Taken = [primary EXCEPT ![control] = v]
      /\ primary \in [Primaries -> Wire] /\ w.relay # "idle"
      /\ Good(v, control) /\ v.peer = w.peer /\ v.relay = w.relay /\ v.up = w.up
      /\ m = Msg("client_waiting", m.c)
      /\ \A n : Has(w.down, n) <=> Has(v.down, n) \/ n = m
      /\ \A n : Once(w.down, n) => Once(v.down, n)
      /\ Once(w.down, m) => ~Has(v.down, m)
  BY TakesHead DEF Announced
<1>2. m = Msg("client_waiting", c) BY <1>1 DEF Announced
<1> HIDE DEF v, m
<1>3. CalledOnce(c) BY DEF IInv
<1>4. Calls(control, c) BY <1>1, <1>2 DEF Calls
<1>5. \A p \in Primaries : ~Has(Taken[p].down, Msg("client_waiting", c))
  BY <1>1, <1>2, <1>3, <1>4 DEF CalledOnce, Calls
<1>6. \A u, d : u # "client_waiting" \/ d # c =>
        (Has(v.down, Msg(u, d)) <=> Has(w.down, Msg(u, d)))
  BY <1>1, <1>2, MsgIs
<1>7. \A p \in Primaries : \A u, d : u # "client_waiting" \/ d # c =>
        (Has(Taken[p].down, Msg(u, d)) <=> Has(primary[p].down, Msg(u, d)))
  BY <1>1, <1>6
<1>8. \A p \in Primaries : \A n : Once(primary[p].down, n) => Once(Taken[p].down, n)
  BY <1>1
<1> QED BY <1>1, <1>4, <1>5, <1>7, <1>8 DEF v, Called

LEMMA CheckKeeps ==
  ASSUME IInv, NEW c \in Clients, Check(c) PROVE IInv'
<1> DEFINE w == primary[control]
           v == PeerTakes(w)
<1>1. /\ control \in Primaries /\ primary' = [primary EXCEPT ![control] = v]
      /\ primary \in [Primaries -> Wire] /\ w.relay # "idle"
      /\ Good(v, control) /\ v.peer = w.peer /\ v.relay = w.relay /\ v.up = w.up
      /\ \A p \in Primaries : ~Has(primary'[p].down, Msg("client_waiting", c))
      /\ \A p \in Primaries : \A u, d : u # "client_waiting" \/ d # c =>
           (Has(primary'[p].down, Msg(u, d)) <=> Has(primary[p].down, Msg(u, d)))
      /\ \A p \in Primaries : \A n : Once(primary[p].down, n) => Once(primary'[p].down, n)
      /\ Called(c)
  BY Announces DEF Check
<1> HIDE DEF v
<1>2. Placed(c) /\ checking' = checking \cup {c} BY DEF IInv, Check
<1>3. c \notin sessions /\ c \notin held BY <1>1, <1>2 DEF Placed
<1>4. Typed' BY <1>2, <1>3 DEF IInv, Typed, relay, Check
<1>5. Wires'
  <2>1. control \in Primaries /\ primary' = [primary EXCEPT ![control] = v]
        /\ Good(v, control)
    BY <1>1
  <2> QED BY <2>1 DEF IInv, Wires, Good, Check
<1>6. Links' BY <1>1, IdsAre DEF IInv, Links, Nobody, relay, Check
<1>7. Rows' BY DEF IInv, Rows, relay, Check
<1>8. \A p \in Primaries : primary'[p].up = primary[p].up BY <1>1
<1>9. ASSUME NEW d \in Clients PROVE Placed(d)' /\ CalledOnce(d)' /\ Owed(d)'
  <2>1. Placed(d) /\ CalledOnce(d) /\ Owed(d) BY DEF IInv
  <2>2. CalledOnce(d)' BY <1>1, <2>1 DEF CalledOnce, Calls
  <2>3. Refused(d)' <=> Refused(d) BY <1>8 DEF Refused
  <2>4. IF d = c THEN ~Called(d)' ELSE Called(d)' <=> Called(d)
    BY <1>1 DEF Called, Calls
  <2>5. Placed(d)' BY <1>1, <1>2, <2>1, <2>3, <2>4 DEF Placed, Check
  <2>6. Told(d) => Told(d)' BY <1>1, IdsAre DEF Told, Members, relay, Check
  <2>7. Owed(d)' BY <2>1, <2>6 DEF Owed, WasPaired, Check
  <2> QED BY <2>2, <2>5, <2>7
<1> QED BY <1>4, <1>5, <1>6, <1>7, <1>9 DEF IInv

LEMMA RejectAtCapKeeps ==
  ASSUME IInv, NEW c \in Clients, RejectAtCap(c) PROVE IInv'
<1> DEFINE w == primary[control]
           u == PeerTakes(w)
           m == Msg("reject_client", c)
           v == ToRelay(u, m)
<1>1. /\ control \in Primaries /\ Taken = [primary EXCEPT ![control] = u]
      /\ primary \in [Primaries -> Wire] /\ w.relay # "idle"
      /\ Good(u, control) /\ u.peer = w.peer /\ u.relay = w.relay /\ u.up = w.up
      /\ \A p \in Primaries : ~Has(Taken[p].down, Msg("client_waiting", c))
      /\ \A p \in Primaries : \A t, d : t # "client_waiting" \/ d # c =>
           (Has(Taken[p].down, Msg(t, d)) <=> Has(primary[p].down, Msg(t, d)))
      /\ \A p \in Primaries : \A n : Once(primary[p].down, n) => Once(Taken[p].down, n)
      /\ Called(c)
  BY Announces DEF RejectAtCap
<1>2. m \in UpMsgs BY IdsAre DEF UpMsgs, Messages, Msg, Ids
<1>3. /\ Good(v, control) /\ v.peer = u.peer /\ v.relay = u.relay /\ v.down = u.down
      /\ \A n : Has(v.up, n) => Has(u.up, n) \/ n = m
  BY <1>1, <1>2, GoodToRelay, IdsAre
<1>4. primary' = [primary EXCEPT ![control] = v]
  BY <1>1, IdsAre DEF RejectAtCap, Order
<1> HIDE DEF u, v
<1>5. \A p \in Primaries : primary'[p].down = Taken[p].down BY <1>1, <1>3, <1>4
<1>6. /\ \A p \in Primaries : ~Has(primary'[p].down, Msg("client_waiting", c))
      /\ \A p \in Primaries : \A t, d : t # "client_waiting" \/ d # c =>
           (Has(primary'[p].down, Msg(t, d)) <=> Has(primary[p].down, Msg(t, d)))
      /\ \A p \in Primaries : \A n : Once(primary[p].down, n) => Once(primary'[p].down, n)
  BY <1>1, <1>5
<1>7. \A d \in Clients : Refused(d)' => Refused(d) \/ d = c
  BY <1>1, <1>3, <1>4, MsgIs DEF Refused
<1>8. Typed' BY DEF IInv, Typed, relay, daemon, RejectAtCap
<1>9. Wires'
  <2>1. control \in Primaries /\ Good(v, control) BY <1>1, <1>3
  <2> QED BY <1>4, <2>1 DEF IInv, Wires, Good, RejectAtCap
<1>10. Links' BY <1>1, <1>3, <1>4, ZenonT(90) DEF IInv, Links, Nobody, relay, daemon, RejectAtCap
<1>11. Rows' BY DEF IInv, Rows, relay, RejectAtCap
<1>12. ASSUME NEW d \in Clients PROVE Placed(d)' /\ CalledOnce(d)' /\ Owed(d)'
  <2>1. Placed(d) /\ CalledOnce(d) /\ Owed(d) BY DEF IInv
  <2>2. CalledOnce(d)' BY <1>6, <2>1 DEF CalledOnce, Calls
  <2>3. IF d = c THEN ~Called(d)' ELSE Called(d)' <=> Called(d)
    BY <1>6 DEF Called, Calls
  <2>4. Placed(d)' BY <1>1, <1>7, <2>1, <2>3 DEF Placed, daemon, RejectAtCap
  <2>5. Told(d) => Told(d)'
    BY <1>1, <1>6, IdsAre DEF Told, Members, relay, daemon, RejectAtCap
  <2>6. Owed(d)' BY <2>1, <2>5 DEF Owed, WasPaired, daemon, RejectAtCap
  <2> QED BY <2>2, <2>4, <2>6
<1> QED BY <1>8, <1>9, <1>10, <1>11, <1>12 DEF IInv

LEMMA ClientDisconnectedKeeps ==
  ASSUME IInv, NEW c \in Clients, ClientDisconnected(c) PROVE IInv'
<1> DEFINE w == primary[control]
           v == PeerTakes(w)
           e == IF c \in sessions THEN PeerCloses(data[c], c) ELSE data[c]
<1>1. /\ control \in Primaries /\ Taken = [primary EXCEPT ![control] = v]
      /\ primary \in [Primaries -> Wire]
      /\ Good(v, control) /\ v.peer = w.peer /\ v.relay = w.relay /\ v.up = w.up
      /\ w.relay # "idle"
      /\ \A n : Has(w.down, n) <=> Has(v.down, n) \/ n = Head(w.down)
      /\ Head(w.down) = Msg("client_disconnected", c)
      /\ \A n : Once(w.down, n) => Once(v.down, n)
  BY TakesHead DEF ClientDisconnected
<1>2. primary' = [primary EXCEPT ![control] = v] BY <1>1 DEF ClientDisconnected
<1>3. /\ CloseData({c}) = [data EXCEPT ![c] = e]
      /\ Good(e, c) /\ (e.peer = "idle" <=> data[c].peer = "idle")
      /\ e.relay = "open" => data[c].relay = "open"
  BY Shuts
<1> HIDE DEF v, e
<1>4. /\ data' = [data EXCEPT ![c] = e] /\ held' = held \ {c}
      /\ sessions' = sessions \ {c} /\ linked' = linked \ {c}
  BY <1>3 DEF ClientDisconnected, Forget, HeldWithout, Teardown, Forgotten
<1>5. \A u, d : u # "client_disconnected" \/ d # c =>
        (Has(v.down, Msg(u, d)) <=> Has(w.down, Msg(u, d)))
  BY <1>1, MsgIs
<1>6. /\ \A p \in Primaries : \A u, d : u # "client_disconnected" \/ d # c =>
           (Has(primary'[p].down, Msg(u, d)) <=> Has(primary[p].down, Msg(u, d)))
      /\ \A p \in Primaries : \A n : Once(primary[p].down, n) => Once(primary'[p].down, n)
      /\ \A p \in Primaries : primary'[p].up = primary[p].up
  BY <1>1, <1>2, <1>5
<1>7. Typed' BY <1>4 DEF IInv, Typed, relay, ClientDisconnected
<1>8. Wires' BY <1>1, <1>2, <1>3, <1>4 DEF IInv, Wires, Good, ClientDisconnected
<1>9. Links' BY <1>1, <1>2, <1>4, IdsAre DEF IInv, Links, Nobody, relay, ClientDisconnected
<1>10. data \in [Clients -> Wire] BY DEF IInv, Wires
<1>11. Rows' BY <1>3, <1>4, <1>10 DEF IInv, Rows, relay, ClientDisconnected
<1>12. ASSUME NEW d \in Clients PROVE Placed(d)' /\ CalledOnce(d)' /\ Owed(d)'
  <2>1. Placed(d) /\ CalledOnce(d) /\ Owed(d) BY DEF IInv
  <2>2. CalledOnce(d)' BY <1>6, <2>1 DEF CalledOnce, Calls
  <2>3. (Called(d)' <=> Called(d)) /\ (Refused(d)' <=> Refused(d))
    BY <1>6 DEF Called, Calls, Refused
  <2>4. Placed(d)'
    BY <1>3, <1>4, <1>10, <2>1, <2>3 DEF Placed, ClientDisconnected
  <2>5. d # c /\ Told(d) => Told(d)'
    BY <1>1, <1>6, IdsAre DEF Told, Members, relay, ClientDisconnected
  <2>6. Owed(d)' BY <1>4, <1>10, <2>1, <2>5 DEF Owed, WasPaired, ClientDisconnected
  <2> QED BY <2>2, <2>4, <2>6
<1> QED BY <1>7, <1>8, <1>9, <1>11, <1>12 DEF IInv

-----------------------------------------------------------------------------
(* The primary's life.                                                     *)

LEMMA PrimaryClosedKeeps ==
  ASSUME IInv, Settled, PrimaryClosed PROVE IInv'
<1> DEFINE w == primary[control]
           v == PeerEnds(w, control)
<1>1. /\ control \in Primaries /\ control # None /\ Down(w, "end")
      /\ primary \in [Primaries -> Wire] /\ Good(w, control)
      /\ data \in [Clients -> Wire]
  BY DEF PrimaryClosed, IInv, Typed, Wires
<1>2. /\ Good(v, control) /\ v.peer = "closed" /\ v.relay = w.relay /\ v.down = <<>>
      /\ \A n : Has(v.up, n) => Has(w.up, n) \/ n = End(control)
  BY <1>1, GoodPeerEnds, IdsAre
<1>3. primary' = [primary EXCEPT ![control] = v] BY DEF PrimaryClosed
<1> HIDE DEF v
<1>4. /\ sessions' = {} /\ linked' = {} /\ held' = {} /\ control' = None
      /\ checking' = {} /\ data' = CloseData(Clients)
  BY DEF PrimaryClosed, Settled, Teardown, Forgotten, IInv, Typed
<1>5. \A d \in Clients :
        /\ Good(data'[d], d)
        /\ data'[d].peer = "idle" <=> data[d].peer = "idle"
        /\ data'[d].relay = "open" => data[d].relay = "open"
  <2> SUFFICES ASSUME NEW d \in Clients
               PROVE  /\ Good(data'[d], d)
                      /\ data'[d].peer = "idle" <=> data[d].peer = "idle"
                      /\ data'[d].relay = "open" => data[d].relay = "open"
    OBVIOUS
  <2> DEFINE e == IF d \in sessions THEN PeerCloses(data[d], d) ELSE data[d]
  <2>1. data'[d] = e BY <1>4 DEF CloseData, IInv, Typed
  <2>2. /\ Good(e, d) /\ (e.peer = "idle" <=> data[d].peer = "idle")
        /\ e.relay = "open" => data[d].relay = "open"
    BY Shuts
  <2> QED BY <2>1, <2>2
<1>6. /\ \A p \in Primaries : \A n : Has(primary'[p].down, n) => Has(primary[p].down, n)
      /\ \A p \in Primaries : \A n : Once(primary[p].down, n) => Once(primary'[p].down, n)
      /\ \A p \in Primaries : \A d : Has(primary'[p].up, Msg("reject_client", d))
                                   => Has(primary[p].up, Msg("reject_client", d))
  BY <1>1, <1>2, <1>3, HasNone, MsgIs, IdsAre
<1>7. Typed' BY <1>4 DEF IInv, Typed, relay, PrimaryClosed
<1>8. data' \in [Clients -> Wire]
  BY <1>4, <1>5 DEF CloseData, Good
<1>9. Wires' BY <1>1, <1>2, <1>3, <1>5, <1>8 DEF IInv, Wires, Good, PrimaryClosed
<1>10. Links' BY <1>1, <1>2, <1>3, <1>4, IdsAre DEF IInv, Links, Nobody, relay, PrimaryClosed
<1>11. Rows' BY <1>5 DEF IInv, Rows, relay, PrimaryClosed
<1>12. ASSUME NEW d \in Clients PROVE Placed(d)' /\ CalledOnce(d)' /\ Owed(d)'
  <2>1. Placed(d) /\ CalledOnce(d) BY DEF IInv
  <2>2. CalledOnce(d)' BY <1>6, <2>1 DEF CalledOnce, Calls
  <2>3. (Called(d)' => Called(d)) /\ (Refused(d)' => Refused(d))
    BY <1>6 DEF Called, Calls, Refused
  <2>4. Placed(d)' BY <1>4, <1>5, <2>1, <2>3 DEF Placed, PrimaryClosed
  <2>5. Owed(d)' BY <1>4 DEF Owed
  <2> QED BY <2>2, <2>4, <2>5
<1> QED BY <1>7, <1>9, <1>10, <1>11, <1>12 DEF IInv

LEMMA DialPrimaryKeeps ==
  ASSUME IInv, NEW p \in Primaries, DialPrimary(p) PROVE IInv'
<1>1. /\ Good(Dialled, p) /\ Dialled.peer = "open" /\ Dialled.relay = "idle"
      /\ \A n : ~Has(Dialled.down, n) /\ ~Has(Dialled.up, n) /\ Once(Dialled.down, n)
  BY GoodNew, IdsAre, HasNone
<1>2. /\ control = None /\ Nobody /\ primary \in [Primaries -> Wire]
      /\ primary' = [primary EXCEPT ![p] = Dialled] /\ control' = p
  BY DEF DialPrimary, IInv, Links, Wires
<1>3. primary[p].relay # "open"
  BY GoodNew, IdsAre DEF DialPrimary, Over
<1>4. /\ \A q \in Primaries : \A n : Has(primary'[q].down, n) => Has(primary[q].down, n)
      /\ \A q \in Primaries : \A n : Once(primary[q].down, n) => Once(primary'[q].down, n)
      /\ \A q \in Primaries : \A n : Has(primary'[q].up, n) => Has(primary[q].up, n)
  BY <1>1, <1>2
<1>5. Typed' BY <1>2 DEF IInv, Typed, relay, DialPrimary
<1>6. Wires' BY <1>1, <1>2 DEF IInv, Wires, Good, DialPrimary
<1>7. Links' BY <1>1, <1>2, <1>3, IdsAre DEF IInv, Links, Nobody, relay, DialPrimary
<1>8. Rows' BY DEF IInv, Rows, relay, DialPrimary
<1>9. ASSUME NEW d \in Clients PROVE Placed(d)' /\ CalledOnce(d)' /\ Owed(d)'
  <2>1. Placed(d) /\ CalledOnce(d) BY DEF IInv
  <2>2. CalledOnce(d)' BY <1>4, <2>1 DEF CalledOnce, Calls
  <2>3. (Called(d)' => Called(d)) /\ (Refused(d)' => Refused(d))
    BY <1>4 DEF Called, Calls, Refused
  <2>4. Placed(d)' BY <1>2, <2>1, <2>3 DEF Placed, DialPrimary
  <2>5. Owed(d)' BY <1>2 DEF Owed, Nobody, DialPrimary
  <2> QED BY <2>2, <2>4, <2>5
<1> QED BY <1>5, <1>6, <1>7, <1>8, <1>9 DEF IInv

LEMMA PrimaryBreaksKeeps ==
  ASSUME IInv, NEW p \in Primaries, PrimaryBreaks(p) PROVE IInv'
<1> DEFINE w == primary[p]
           v == Broken(w, p)
<1>1. Good(w, p) /\ Breakable(w) /\ primary \in [Primaries -> Wire]
  BY DEF PrimaryBreaks, IInv, Wires
<1>2. /\ Good(v, p) /\ v.peer = w.peer
      /\ v.relay = IF w.relay = "idle" THEN "closed" ELSE w.relay
      /\ \A n : Has(v.down, n) <=> n = End(p)
      /\ \A n : Once(v.down, n)
      /\ \A n : Has(v.up, n) => n = End(p)
  BY <1>1, GoodBroken, IdsAre
<1>3. primary' = [primary EXCEPT ![p] = v] BY DEF PrimaryBreaks
<1> HIDE DEF v
<1>4. /\ \A q \in Primaries : \A d : Has(primary'[q].down, Msg("client_waiting", d))
                                   => Has(primary[q].down, Msg("client_waiting", d))
      /\ \A q \in Primaries : \A n : Once(primary[q].down, n) => Once(primary'[q].down, n)
      /\ \A q \in Primaries : \A d : Has(primary'[q].up, Msg("reject_client", d))
                                   => Has(primary[q].up, Msg("reject_client", d))
  BY <1>1, <1>2, <1>3, MsgIs, IdsAre
<1>5. Typed' BY PairingBounds DEF IInv, Typed, relay, daemon, PrimaryBreaks
<1>6. Wires' BY <1>1, <1>2, <1>3 DEF IInv, Wires, Good, PrimaryBreaks
<1>7. Links' BY <1>1, <1>2, <1>3 DEF IInv, Typed, Links, Nobody, relay, daemon, PrimaryBreaks
<1>8. Rows' BY DEF IInv, Rows, relay, PrimaryBreaks
<1>9. ASSUME NEW d \in Clients PROVE Placed(d)' /\ CalledOnce(d)' /\ Owed(d)'
  <2>1. Placed(d) /\ CalledOnce(d) /\ Owed(d) BY DEF IInv
  <2>2. CalledOnce(d)' BY <1>4, <2>1 DEF CalledOnce, Calls
  <2>3. (Called(d)' => Called(d)) /\ (Refused(d)' => Refused(d))
    BY <1>4 DEF Called, Calls, Refused
  <2>4. Placed(d)' BY <2>1, <2>3 DEF Placed, daemon, PrimaryBreaks
  <2>5. Told(d) => Told(d)'
    BY <1>1, <1>2, <1>3 DEF Told, Members, relay, daemon, PrimaryBreaks, IInv, Typed
  <2>6. Owed(d)' BY <2>1, <2>5 DEF Owed, WasPaired, daemon, PrimaryBreaks
  <2> QED BY <2>2, <2>4, <2>6
<1> QED BY <1>5, <1>6, <1>7, <1>8, <1>9 DEF IInv

-----------------------------------------------------------------------------
(* The relay.                                                              *)

LEMMA DownMsgsAre ==
  ASSUME NEW x \in Ids,
         NEW t \in {"end", "client_waiting", "client_disconnected", "paired",
                    "peer_disconnected", "error", "waiting_for_approval"}
  PROVE  Msg(t, x) \in DownMsgs
BY DEF DownMsgs, Messages, Msg, Ids

LEMMA AcceptPrimaryKeeps ==
  ASSUME IInv, NEW p \in Primaries, AcceptPrimary(p) PROVE IInv'
<1> DEFINE w == primary[p]
           a == Accept(w)
           b == ToPeer(a, Msg("error", p))
           v == IF entry = None THEN a ELSE RelayCloses(b, p)
<1>1. Good(w, p) /\ w.peer = "open" /\ w.relay = "idle" /\ primary \in [Primaries -> Wire]
  BY DEF AcceptPrimary, IInv, Wires
<1>2. /\ Good(a, p) /\ a.peer = "open" /\ a.relay = "open"
      /\ a.up = w.up /\ a.down = w.down
  BY <1>1, GoodAccept, IdsAre
<1>3. /\ Good(b, p) /\ b.peer = "open" /\ b.relay = "open" /\ b.up = w.up
      /\ \A d : Has(b.down, Msg("client_waiting", d)) => Has(w.down, Msg("client_waiting", d))
      /\ \A d : Once(w.down, Msg("client_waiting", d)) => Once(b.down, Msg("client_waiting", d))
  <2>1. Msg("error", p) \in DownMsgs BY DownMsgsAre, IdsAre
  <2> QED BY <1>2, <2>1, GoodToPeer, MsgIs, IdsAre
<1> HIDE DEF a, b
<1>4. /\ Good(v, p) /\ v.peer = "open" /\ v.up = w.up
      /\ v.relay = IF entry = None THEN "open" ELSE "closing"
      /\ \A d : Has(v.down, Msg("client_waiting", d)) => Has(w.down, Msg("client_waiting", d))
      /\ \A d : Once(w.down, Msg("client_waiting", d)) => Once(v.down, Msg("client_waiting", d))
  BY <1>2, <1>3, GoodRelayCloses, MsgIs, IdsAre
<1>5. primary' = [primary EXCEPT ![p] = v] /\ entry' = IF entry = None THEN p ELSE entry
  BY DEF AcceptPrimary, a, b
<1> HIDE DEF v
<1>6. control = p /\ Nobody BY <1>1, IdsAre DEF IInv, Links
<1>7. /\ \A q \in Primaries : \A d : Has(primary'[q].down, Msg("client_waiting", d))
                                   => Has(primary[q].down, Msg("client_waiting", d))
      /\ \A q \in Primaries : \A d : Once(primary[q].down, Msg("client_waiting", d))
                                   => Once(primary'[q].down, Msg("client_waiting", d))
      /\ \A q \in Primaries : primary'[q].up = primary[q].up
  BY <1>1, <1>4, <1>5
<1>8. Typed' BY <1>5 DEF IInv, Typed, daemon, AcceptPrimary
<1>9. Wires' BY <1>1, <1>4, <1>5 DEF IInv, Wires, Good, AcceptPrimary
<1>10. Links'
  BY <1>1, <1>4, <1>5, <1>6, IdsAre DEF IInv, Typed, Links, Nobody, daemon, AcceptPrimary
<1>11. Rows' BY DEF IInv, Rows, AcceptPrimary
<1>12. ASSUME NEW d \in Clients PROVE Placed(d)' /\ CalledOnce(d)' /\ Owed(d)'
  <2>1. Placed(d) /\ CalledOnce(d) BY DEF IInv
  <2>2. CalledOnce(d)' BY <1>7, <2>1 DEF CalledOnce, Calls
  <2>3. (Called(d)' => Called(d)) /\ (Refused(d)' => Refused(d))
    BY <1>7 DEF Called, Calls, Refused
  <2>4. Placed(d)' BY <2>1, <2>3 DEF Placed, daemon, AcceptPrimary
  <2>5. Owed(d)' BY <1>6 DEF Owed, Nobody, daemon, AcceptPrimary
  <2> QED BY <2>2, <2>4, <2>5
<1> QED BY <1>8, <1>9, <1>10, <1>11, <1>12 DEF IInv

LEMMA AcceptClientKeeps ==
  ASSUME IInv, NEW c \in Clients, AcceptClient(c) PROVE IInv'
<1> DEFINE a == Accept(client[c])
           b == ToPeer(a, Msg("error", c))
           e == RelayCloses(b, c)
           m == Msg("client_waiting", c)
<1>1. /\ Good(client[c], c) /\ client[c].peer = "open" /\ client[c].relay = "idle"
      /\ client \in [Clients -> Wire] /\ primary \in [Primaries -> Wire]
  BY DEF AcceptClient, IInv, Wires
<1>2. /\ Good(a, c) /\ a.relay = "open"
  BY <1>1, GoodAccept, IdsAre
<1>3. Good(b, c) /\ b.relay = "open"
  BY <1>2, GoodToPeer, DownMsgsAre, IdsAre
<1>4. Good(e, c) /\ e.relay = "closing"
  BY <1>3, GoodRelayCloses, IdsAre
<1>5. Placed(c) /\ ~Called(c) /\ data[c].peer = "idle" /\ c \notin sessions
  BY <1>1 DEF IInv, Placed
<1>6. data[c].relay = "idle" BY <1>5 DEF IInv, Wires, Good
<1>7. CASE entry = None
  <2>1. client' = [client EXCEPT ![c] = e] /\ UNCHANGED <<primary, member>>
    BY <1>7 DEF AcceptClient
  <2> HIDE DEF e
  <2>2. Typed' BY DEF IInv, Typed, daemon, AcceptClient
  <2>3. Wires' BY <1>1, <1>4, <2>1 DEF IInv, Wires, Good, AcceptClient
  <2>4. Links' BY <2>1 DEF IInv, Links, Nobody, daemon, AcceptClient
  <2>5. Rows' BY <1>1, <1>4, <2>1 DEF IInv, Rows, AcceptClient
  <2>6. ASSUME NEW d \in Clients PROVE Placed(d)' /\ CalledOnce(d)' /\ Owed(d)'
    <3>1. Placed(d) /\ CalledOnce(d) /\ Owed(d) BY DEF IInv
    <3>2. CalledOnce(d)' BY <2>1, <3>1 DEF CalledOnce, Calls
    <3>3. Placed(d)' BY <1>1, <1>4, <2>1, <3>1
            DEF Placed, Called, Calls, Refused, daemon, AcceptClient
    <3>4. Owed(d)' BY <2>1, <3>1 DEF Owed, WasPaired, Told, Members, daemon, AcceptClient
    <3> QED BY <3>2, <3>3, <3>4
  <2> QED BY <2>2, <2>3, <2>4, <2>5, <2>6 DEF IInv
<1>8. CASE entry # None
  <2> DEFINE v == ToPeer(primary[entry], m)
  <2>1. /\ client' = [client EXCEPT ![c] = a] /\ member' = [member EXCEPT ![c] = "waiting"]
        /\ primary' = [primary EXCEPT ![entry] = v]
    BY <1>8 DEF AcceptClient, Tell
  <2>2. entry \in Primaries /\ Good(primary[entry], entry)
    BY <1>8 DEF IInv, Typed, Wires
  <2>3. /\ Good(v, entry) /\ v.peer = primary[entry].peer
        /\ v.relay = primary[entry].relay /\ v.up = primary[entry].up
        /\ \A n : Has(v.down, n) => Has(primary[entry].down, n) \/ n = m
        /\ \A n : Has(primary[entry].down, n) => Has(v.down, n)
        /\ \A n : Once(primary[entry].down, n) /\ (n = m => ~Has(primary[entry].down, n))
                    => Once(v.down, n)
    <3>1. m \in DownMsgs /\ entry \in Ids BY <2>2, DownMsgsAre, IdsAre
    <3> DEFINE w == primary[entry]
    <3>2. Good(w, entry) BY <2>2
    <3> HIDE DEF m, w
    <3>3. /\ Good(ToPeer(w, m), entry) /\ ToPeer(w, m).peer = w.peer
          /\ ToPeer(w, m).relay = w.relay /\ ToPeer(w, m).up = w.up
          /\ \A n : Has(ToPeer(w, m).down, n) <=>
               Has(w.down, n) \/ (n = m /\ w.relay = "open" /\ w.peer # "closed")
          /\ \A n : Once(w.down, n) /\ (n = m => ~Has(w.down, n))
                      => Once(ToPeer(w, m).down, n)
      BY <3>1, <3>2, GoodToPeer
    <3> QED BY <3>3 DEF w
  <2> HIDE DEF v, a, m
  <2>4. /\ \A q \in Primaries : \A n : Has(primary'[q].down, n)
             => Has(primary[q].down, n) \/ (q = entry /\ n = m)
        /\ \A q \in Primaries : \A n : Has(primary[q].down, n) => Has(primary'[q].down, n)
        /\ \A q \in Primaries : primary'[q].up = primary[q].up
    BY <1>1, <2>1, <2>2, <2>3
  <2>5. Typed' BY <2>1 DEF IInv, Typed, daemon, AcceptClient
  <2>6. Wires' BY <1>1, <1>2, <2>1, <2>2, <2>3 DEF IInv, Wires, Good, AcceptClient
  <2>7. Links' BY <1>1, <2>1, <2>2, <2>3
          DEF IInv, Typed, Links, Nobody, daemon, AcceptClient
  <2>8. Rows' BY <1>1, <1>2, <1>6, <2>1 DEF IInv, Typed, Rows, AcceptClient
  <2>9. ASSUME NEW d \in Clients PROVE Placed(d)' /\ CalledOnce(d)' /\ Owed(d)'
    <3>1. Placed(d) /\ CalledOnce(d) /\ Owed(d) BY DEF IInv
    <3>2. CASE d = c
      <4>1. \A q \in Primaries : Calls(q, d)' => q = entry
        BY <1>5, <2>4, <3>2 DEF Called, Calls
      <4>2. \A q \in Primaries : Once(primary'[q].down, m)
        <5> SUFFICES ASSUME NEW q \in Primaries PROVE Once(primary'[q].down, m)
          OBVIOUS
        <5>1. Once(primary[q].down, m) /\ ~Has(primary[q].down, m)
          BY <1>5, <3>1, <3>2 DEF CalledOnce, Called, Calls, m
        <5> QED BY <1>1, <2>1, <2>2, <2>3, <5>1
      <4>3. CalledOnce(d)' BY <3>2, <4>1, <4>2 DEF CalledOnce, m
      <4>4. Refused(d)' <=> Refused(d) BY <2>4 DEF Refused
      <4>5. Placed(d)' BY <1>1, <1>2, <1>5, <2>1, <3>1, <3>2, <4>4
              DEF Placed, daemon, AcceptClient
      <4>6. Owed(d)' BY <1>5, <3>2 DEF Owed, daemon, AcceptClient
      <4> QED BY <4>3, <4>5, <4>6
    <3>3. CASE d # c
      <4>1. m # Msg("client_waiting", d) BY <3>3, MsgIs DEF m
      <4>2. \A q \in Primaries : Calls(q, d)' <=> Calls(q, d)
        BY <2>4, <4>1 DEF Calls
      <4>3. \A q \in Primaries : Once(primary'[q].down, Msg("client_waiting", d))
        BY <1>1, <2>1, <2>2, <2>3, <3>1, <4>1 DEF CalledOnce
      <4>4. CalledOnce(d)' BY <3>1, <4>2, <4>3 DEF CalledOnce
      <4>5. Refused(d)' <=> Refused(d) BY <2>4 DEF Refused
      <4>6. Called(d)' <=> Called(d) BY <4>2 DEF Called
      <4>7. Placed(d)' BY <1>1, <2>1, <3>1, <3>3, <4>5, <4>6
              DEF Placed, daemon, AcceptClient
      <4>8. Told(d) => Told(d)'
        BY <2>1, <2>4, <3>3 DEF Told, Members, daemon, AcceptClient, IInv, Typed
      <4>9. Owed(d)' BY <3>1, <4>8 DEF Owed, WasPaired, daemon, AcceptClient
      <4> QED BY <4>4, <4>7, <4>9
    <3> QED BY <3>2, <3>3
  <2> QED BY <2>5, <2>6, <2>7, <2>8, <2>9 DEF IInv
<1> QED BY <1>7, <1>8

LEMMA AcceptDataKeeps ==
  ASSUME IInv, NEW c \in Clients, AcceptData(c) PROVE IInv'
<1> DEFINE w == data[c]
           a == Accept(w)
           b == ToPeer(a, Msg(IF c \in Members THEN "paired" ELSE "error", c))
           v == IF c \in Members THEN b ELSE RelayCloses(b, c)
           m == Msg("paired", c)
           e == ToPeer(client[c], m)
<1>1. /\ Good(w, c) /\ w.peer = "open" /\ w.relay = "idle" /\ Good(client[c], c)
      /\ data \in [Clients -> Wire] /\ client \in [Clients -> Wire]
  BY DEF AcceptData, IInv, Wires
<1>2. /\ Good(a, c) /\ a.peer = "open" /\ a.relay = "open"
      /\ \A n : ~Has(a.down, n)
  BY <1>1, GoodAccept, IdsAre, HasNone DEF Good
<1>3. /\ Good(b, c) /\ b.peer = "open" /\ b.relay = "open"
      /\ c \notin Members => \A d : ~Has(b.down, Msg("paired", d))
  <2> DEFINE n == Msg(IF c \in Members THEN "paired" ELSE "error", c)
  <2>1. n \in DownMsgs BY DownMsgsAre, IdsAre
  <2>2. c \notin Members => \A d : n # Msg("paired", d) BY MsgIs
  <2> HIDE DEF n, a
  <2>3. /\ Good(ToPeer(a, n), c) /\ ToPeer(a, n).peer = "open"
        /\ ToPeer(a, n).relay = "open"
        /\ \A k : Has(ToPeer(a, n).down, k) => k = n
    BY <1>2, <2>1, GoodToPeer, IdsAre
  <2> QED BY <2>2, <2>3 DEF n
<1>4. /\ Good(v, c) /\ v.peer = "open"
      /\ v.relay = IF c \in Members THEN "open" ELSE "closing"
      /\ c \notin Members => \A d : ~Has(v.down, Msg("paired", d))
  BY <1>3, GoodRelayCloses, MsgIs, IdsAre
<1>5. Good(e, c) /\ e.relay = client[c].relay
  BY <1>1, GoodToPeer, DownMsgsAre, IdsAre
<1>6. /\ data' = [data EXCEPT ![c] = v]
      /\ IF c \in Members
           THEN /\ client' = [client EXCEPT ![c] = e]
                /\ member' = [member EXCEPT ![c] = "paired"]
           ELSE UNCHANGED <<client, member>>
  BY DEF AcceptData
<1> HIDE DEF v, e
<1>7. /\ client' \in [Clients -> Wire]
      /\ \A d \in Clients : client'[d].relay = client[d].relay /\ Good(client'[d], d)
  BY <1>1, <1>5, <1>6 DEF IInv, Wires, Good
<1>8. \A d \in Clients : /\ member'[d] # "out" <=> member[d] # "out"
                         /\ member[d] = "paired" => member'[d] = "paired"
                         /\ d = c /\ d \in Members => member'[d] = "paired"
  BY <1>6 DEF Members, IInv, Typed
<1>9. Typed' BY <1>6 DEF IInv, Typed, daemon, AcceptData
<1>10. Wires' BY <1>1, <1>4, <1>6, <1>7 DEF IInv, Wires, Good, AcceptData
<1>11. Links' BY DEF IInv, Links, Nobody, daemon, AcceptData
<1>12. Rows' BY <1>1, <1>4, <1>6, <1>7, <1>8 DEF IInv, Rows, Members
<1>13. ASSUME NEW d \in Clients PROVE Placed(d)' /\ CalledOnce(d)' /\ Owed(d)'
  <2>1. Placed(d) /\ CalledOnce(d) /\ Owed(d) BY DEF IInv
  <2>2. CalledOnce(d)' BY <2>1 DEF CalledOnce, Calls, AcceptData
  <2>3. data'[d].peer = data[d].peer BY <1>1, <1>4, <1>6
  <2>4. Placed(d)'
    BY <1>7, <2>1, <2>3 DEF Placed, Called, Calls, Refused, daemon, AcceptData
  <2>5. Told(d) => Told(d)' BY <1>8 DEF Told, Members, daemon, AcceptData
  <2>6. (d \in sessions' <=> d \in sessions) /\ UNCHANGED <<sessions, linked>>
    BY DEF daemon, AcceptData
  <2>7. CASE d = c /\ c \in Members
    <3>1. d \in sessions => Told(d) BY <2>7, HearsOfAll DEF Told
    <3> QED BY <2>2, <2>4, <2>5, <2>6, <3>1 DEF Owed
  <2>8. CASE d = c /\ c \notin Members
    <3>1. WasPaired(d)' => WasPaired(d)
      BY <1>1, <1>4, <1>6, <2>8 DEF WasPaired, daemon, AcceptData
    <3> QED BY <2>1, <2>2, <2>4, <2>5, <2>6, <3>1 DEF Owed
  <2>9. CASE d # c
    <3>1. WasPaired(d)' => WasPaired(d)
      BY <1>1, <1>6, <2>9 DEF WasPaired, daemon, AcceptData
    <3> QED BY <2>1, <2>2, <2>4, <2>5, <2>6, <3>1 DEF Owed
  <2> QED BY <2>7, <2>8, <2>9
<1> QED BY <1>9, <1>10, <1>11, <1>12, <1>13 DEF IInv

(* An order of the daemon that the relay takes.                            *)
LEMMA TakesOrder ==
  ASSUME IInv, NEW p \in Primaries, NEW t, Up(primary[p], t),
         primary' = [primary EXCEPT ![p] = RelayTakes(@)]
  PROVE  LET m == Head(primary[p].up) IN
         /\ m = Msg(t, m.c) /\ Has(primary[p].up, m)
         /\ primary' \in [Primaries -> Wire]
         /\ \A q \in Primaries :
              /\ Good(primary'[q], q) /\ primary'[q].peer = primary[q].peer
              /\ primary'[q].relay = primary[q].relay
              /\ primary'[q].down = primary[q].down
              /\ \A n : Has(primary'[q].up, n) => Has(primary[q].up, n)
<1> DEFINE w == primary[p]
           v == RelayTakes(w)
<1>1. Good(w, p) /\ primary \in [Primaries -> Wire] BY DEF IInv, Wires
<1>2. /\ Good(v, p) /\ v.peer = w.peer /\ v.relay = w.relay /\ v.down = w.down
      /\ Head(w.up) = Msg(t, Head(w.up).c) /\ Has(w.up, Head(w.up))
      /\ \A n : Has(v.up, n) => Has(w.up, n)
  BY <1>1, GoodRelayTakes, IdsAre
<1>3. primary' = [primary EXCEPT ![p] = v] OBVIOUS
<1> HIDE DEF v
<1> QED BY <1>1, <1>2, <1>3 DEF IInv, Wires, Good

LEMMA RelayRejectsKeeps ==
  ASSUME IInv, NEW p \in Primaries, RelayRejects(p) PROVE IInv'
<1> DEFINE c == Head(primary[p].up).c
           b == ToPeer(client[c], Msg("error", c))
           v == RelayCloses(b, c)
<1>1. /\ Head(primary[p].up) = Msg("reject_client", c)
      /\ Has(primary[p].up, Msg("reject_client", c))
      /\ primary' \in [Primaries -> Wire]
      /\ \A q \in Primaries :
           /\ Good(primary'[q], q) /\ primary'[q].peer = primary[q].peer
           /\ primary'[q].relay = primary[q].relay
           /\ primary'[q].down = primary[q].down
           /\ \A n : Has(primary'[q].up, n) => Has(primary[q].up, n)
  BY TakesOrder DEF RelayRejects
<1>2. CASE entry = p /\ c \in Members
  <2>1. /\ client' = [client EXCEPT ![c] = v] /\ member' = [member EXCEPT ![c] = "out"]
        /\ c \in Clients
    BY <1>2 DEF RelayRejects, Members
  <2> HIDE DEF c
  <2>2. Good(client[c], c) /\ client \in [Clients -> Wire] /\ data \in [Clients -> Wire]
    BY <2>1 DEF IInv, Wires
  <2>3. Good(b, c) /\ b.relay = client[c].relay
    BY <2>1, <2>2, GoodToPeer, DownMsgsAre, IdsAre
  <2>4. Good(v, c) /\ v.relay = IF client[c].relay = "open" THEN "closing"
                                ELSE client[c].relay
    BY <2>1, <2>3, GoodRelayCloses, IdsAre
  <2> HIDE DEF v
  <2>5. /\ Placed(c) /\ Refused(c) /\ data[c].peer = "idle" /\ c \notin sessions
    BY <1>1, <2>1 DEF IInv, Placed, Refused
  <2>6. data[c].relay = "idle" BY <2>1, <2>5 DEF IInv, Wires, Good
  <2>7. Typed' BY <2>1 DEF IInv, Typed, daemon, RelayRejects
  <2>8. Wires' BY <1>1, <2>1, <2>2, <2>4 DEF IInv, Wires, Good, RelayRejects
  <2>9. Links' BY <1>1 DEF IInv, Typed, Links, Nobody, daemon, RelayRejects
  <2>10. Rows' BY <2>1, <2>2, <2>4, <2>6 DEF IInv, Typed, Rows, RelayRejects
  <2>11. ASSUME NEW d \in Clients PROVE Placed(d)' /\ CalledOnce(d)' /\ Owed(d)'
    <3>1. Placed(d) /\ CalledOnce(d) /\ Owed(d) BY DEF IInv
    <3>2. CalledOnce(d)' BY <1>1, <3>1 DEF CalledOnce, Calls
    <3>3. /\ (Called(d)' <=> Called(d)) /\ (Refused(d)' => Refused(d))
          /\ client'[d].relay = "idle" => client[d].relay = "idle"
      BY <1>1, <2>1, <2>2, <2>4 DEF Called, Calls, Refused
    <3>4. Placed(d)' BY <3>1, <3>3 DEF Placed, daemon, RelayRejects
    <3>5. CASE d = c
      BY <2>5, <3>2, <3>4, <3>5 DEF Owed, daemon, RelayRejects
    <3>6. CASE d # c
      <4>1. Told(d) => Told(d)'
        <5>1. d \in Members => d \in Members'
          BY <2>1, <3>6 DEF Members, IInv, Typed
        <5> QED BY <1>1, <5>1 DEF Told, daemon, RelayRejects, IInv, Typed
      <4>2. Owed(d)' BY <3>1, <4>1 DEF Owed, WasPaired, daemon, RelayRejects
      <4> QED BY <3>2, <3>4, <4>2
    <3> QED BY <3>5, <3>6
  <2> QED BY <2>7, <2>8, <2>9, <2>10, <2>11 DEF IInv
<1>3. CASE ~(entry = p /\ c \in Members)
  <2>1. UNCHANGED <<client, member>> BY <1>3 DEF RelayRejects
  <2> HIDE DEF c
  <2>2. Typed' BY <2>1 DEF IInv, Typed, daemon, RelayRejects
  <2>3. Wires' BY <1>1, <2>1 DEF IInv, Wires, Good, RelayRejects
  <2>4. Links' BY <1>1 DEF IInv, Typed, Links, Nobody, daemon, RelayRejects
  <2>5. Rows' BY <2>1 DEF IInv, Rows, RelayRejects
  <2>6. ASSUME NEW d \in Clients PROVE Placed(d)' /\ CalledOnce(d)' /\ Owed(d)'
    <3>1. Placed(d) /\ CalledOnce(d) /\ Owed(d) BY DEF IInv
    <3>2. CalledOnce(d)' BY <1>1, <3>1 DEF CalledOnce, Calls
    <3>3. (Called(d)' <=> Called(d)) /\ (Refused(d)' => Refused(d))
      BY <1>1 DEF Called, Calls, Refused
    <3>4. Placed(d)' BY <2>1, <3>1, <3>3 DEF Placed, daemon, RelayRejects
    <3>5. Told(d) => Told(d)'
      BY <1>1, <2>1 DEF Told, Members, daemon, RelayRejects, IInv, Typed
    <3>6. Owed(d)' BY <3>1, <3>5 DEF Owed, WasPaired, daemon, RelayRejects
    <3> QED BY <3>2, <3>4, <3>6
  <2> QED BY <2>2, <2>3, <2>4, <2>5, <2>6 DEF IInv
<1> QED BY <1>2, <1>3

LEMMA RelayHoldsKeeps ==
  ASSUME IInv, NEW p \in Primaries, RelayHolds(p) PROVE IInv'
<1> DEFINE c == Head(primary[p].up).c
           v == ToPeer(client[c], Msg("waiting_for_approval", c))
<1>1. /\ primary' \in [Primaries -> Wire]
      /\ \A q \in Primaries :
           /\ Good(primary'[q], q) /\ primary'[q].peer = primary[q].peer
           /\ primary'[q].relay = primary[q].relay
           /\ primary'[q].down = primary[q].down
           /\ \A n : Has(primary'[q].up, n) => Has(primary[q].up, n)
  BY TakesOrder DEF RelayHolds
<1>2. client \in [Clients -> Wire] /\ \A d \in Clients : Good(client[d], d)
  BY DEF IInv, Wires
<1>3. ASSUME c \in Clients PROVE Good(v, c) /\ v.relay = client[c].relay
  <2> HIDE DEF c
  <2>1. Msg("waiting_for_approval", c) \in DownMsgs /\ c \in Ids
    BY <1>3, DownMsgsAre, IdsAre
  <2> QED BY <1>2, <1>3, <2>1, GoodToPeer
<1>4. UNCHANGED client \/ (c \in Clients /\ client' = [client EXCEPT ![c] = v])
  BY DEF RelayHolds, Members
<1> HIDE DEF c, v
<1>5. /\ client' \in [Clients -> Wire]
      /\ \A d \in Clients : Good(client'[d], d) /\ client'[d].relay = client[d].relay
  BY <1>2, <1>3, <1>4 DEF Good
<1>6. Typed' BY DEF IInv, Typed, relay, daemon, RelayHolds
<1>7. Wires' BY <1>1, <1>5 DEF IInv, Wires, Good, RelayHolds
<1>8. Links' BY <1>1 DEF IInv, Typed, Links, Nobody, relay, daemon, RelayHolds
<1>9. Rows' BY <1>5 DEF IInv, Rows, relay, RelayHolds
<1>10. ASSUME NEW d \in Clients PROVE Placed(d)' /\ CalledOnce(d)' /\ Owed(d)'
  <2>1. Placed(d) /\ CalledOnce(d) /\ Owed(d) BY DEF IInv
  <2>2. CalledOnce(d)' BY <1>1, <2>1 DEF CalledOnce, Calls
  <2>3. (Called(d)' <=> Called(d)) /\ (Refused(d)' => Refused(d))
    BY <1>1 DEF Called, Calls, Refused
  <2>4. Placed(d)' BY <1>5, <2>1, <2>3 DEF Placed, daemon, RelayHolds
  <2>5. Told(d) => Told(d)'
    BY <1>1 DEF Told, Members, relay, daemon, RelayHolds, IInv, Typed
  <2>6. Owed(d)' BY <2>1, <2>5 DEF Owed, WasPaired, daemon, RelayHolds
  <2> QED BY <2>2, <2>4, <2>6
<1> QED BY <1>6, <1>7, <1>8, <1>9, <1>10 DEF IInv

(* The relay takes the end of a primary: whoever was in its entry is sent  *)
(* away.                                                                   *)
LEMMA PrimaryGoneKeeps ==
  ASSUME IInv, NEW p \in Primaries, PrimaryGone(p) PROVE IInv'
<1> DEFINE w == primary[p]
           v == RelayEnds(w, p)
<1>1. /\ Good(w, p) /\ Up(w, "end") /\ primary \in [Primaries -> Wire]
      /\ client \in [Clients -> Wire] /\ data \in [Clients -> Wire]
      /\ \A d \in Clients : Good(client[d], d) /\ Good(data[d], d)
  BY DEF PrimaryGone, IInv, Wires
<1>2. /\ Good(v, p) /\ v.peer = w.peer /\ v.relay = "closed" /\ v.up = <<>>
      /\ w.relay \in {"open", "closing"}
      /\ \A n : Has(w.down, n) => Has(v.down, n)
      /\ \A n : Has(v.down, n) => Has(w.down, n) \/ n = End(p)
      /\ \A n : Once(w.down, n) /\ n # End(p) => Once(v.down, n)
  BY <1>1, GoodRelayEnds, IdsAre
<1>3. primary' = [primary EXCEPT ![p] = v] BY DEF PrimaryGone
<1> HIDE DEF v
<1>4. /\ \A q \in Primaries : \A n : Has(primary[q].down, n) => Has(primary'[q].down, n)
      /\ \A q \in Primaries : \A d :
           /\ Has(primary'[q].down, Msg("client_waiting", d))
                => Has(primary[q].down, Msg("client_waiting", d))
           /\ Once(primary[q].down, Msg("client_waiting", d))
                => Once(primary'[q].down, Msg("client_waiting", d))
      /\ \A q \in Primaries : \A n : Has(primary'[q].up, n) => Has(primary[q].up, n)
  BY <1>1, <1>2, <1>3, HasNone, MsgIs, IdsAre
<1>5. CASE entry = p
  <2> DEFINE lost(d) == ToPeer(client[d], Msg("peer_disconnected", d))
             e(d) == IF d \in Members THEN RelayCloses(lost(d), d) ELSE client[d]
             f(d) == IF d \in Paired THEN RelayCloses(data[d], d) ELSE data[d]
  <2>1. /\ client' = [d \in Clients |-> e(d)] /\ data' = [d \in Clients |-> f(d)]
        /\ member' = [d \in Clients |-> "out"] /\ entry' = None
    BY <1>5 DEF PrimaryGone, SendAway, Lost, EntryDeleted
  <2>2. \A d \in Clients : Good(e(d), d) /\ (e(d).relay = "idle" => client[d].relay = "idle")
    <3> SUFFICES ASSUME NEW d \in Clients
                 PROVE  Good(e(d), d) /\ (e(d).relay = "idle" => client[d].relay = "idle")
      OBVIOUS
    <3>1. Good(lost(d), d) /\ lost(d).relay = client[d].relay
      BY <1>1, GoodToPeer, DownMsgsAre, IdsAre
    <3> HIDE DEF lost
    <3>2. /\ Good(RelayCloses(lost(d), d), d)
          /\ RelayCloses(lost(d), d).relay =
               IF lost(d).relay = "open" THEN "closing" ELSE lost(d).relay
      BY <3>1, GoodRelayCloses, IdsAre
    <3> QED BY <1>1, <3>1, <3>2
  <2>3. \A d \in Clients :
          /\ Good(f(d), d) /\ f(d).peer = data[d].peer /\ f(d).relay # "open"
          /\ \A n : Has(f(d).down, n) => Has(data[d].down, n) \/ n = End(d)
    <3> SUFFICES ASSUME NEW d \in Clients
                 PROVE  /\ Good(f(d), d) /\ f(d).peer = data[d].peer /\ f(d).relay # "open"
                        /\ \A n : Has(f(d).down, n) => Has(data[d].down, n) \/ n = End(d)
      OBVIOUS
    <3>1. d \notin Paired => data[d].relay # "open"
      BY DEF IInv, Rows, Paired
    <3>2. LET x == RelayCloses(data[d], d) IN
          /\ Good(x, d) /\ x.peer = data[d].peer
          /\ x.relay = IF data[d].relay = "open" THEN "closing" ELSE data[d].relay
          /\ \A n : Has(x.down, n) => Has(data[d].down, n) \/ n = End(d)
      BY <1>1, GoodRelayCloses, IdsAre, ZenonT(90)
    <3> QED BY <1>1, <3>1, <3>2
  <2> HIDE DEF e, f
  <2>4. Typed' BY <2>1 DEF IInv, Typed, daemon, PrimaryGone
  <2>5. Wires' BY <1>1, <1>2, <1>3, <2>1, <2>2, <2>3 DEF IInv, Wires, Good, PrimaryGone
  <2>6. Links' BY <1>1, <1>2, <1>3, <1>5, <2>1, IdsAre
          DEF IInv, Typed, Links, Nobody, daemon, PrimaryGone
  <2>7. Rows' BY <2>1, <2>3 DEF Rows
  <2>8. ASSUME NEW d \in Clients PROVE Placed(d)' /\ CalledOnce(d)' /\ Owed(d)'
    <3>1. Placed(d) /\ CalledOnce(d) /\ Owed(d) BY DEF IInv
    <3>2. CalledOnce(d)' BY <1>4, <3>1 DEF CalledOnce, Calls
    <3>3. (Called(d)' => Called(d)) /\ (Refused(d)' => Refused(d))
      BY <1>4 DEF Called, Calls, Refused
    <3>4. Placed(d)' BY <2>1, <2>2, <2>3, <3>1, <3>3 DEF Placed, daemon, PrimaryGone
    <3>5. d \in sessions => Told(d)'
      <4> HAVE d \in sessions
      <4>1. /\ control \in Primaries /\ control # None /\ primary[control].peer = "open"
            /\ entry = control \/ Has(primary[control].down, End(control))
        BY HearsOfAll
      <4>2. entry = control => Has(primary'[control].down, End(control))
        BY <1>1, <1>2, <1>3, <1>5, <4>1 DEF Good
      <4>3. Has(primary'[control].down, End(control)) BY <1>4, <4>1, <4>2
      <4> QED BY <4>1, <4>3 DEF Told, daemon, PrimaryGone
    <3>6. Owed(d)' BY <3>5 DEF Owed, daemon, PrimaryGone
    <3> QED BY <3>2, <3>4, <3>6
  <2> QED BY <2>4, <2>5, <2>6, <2>7, <2>8 DEF IInv
<1>6. CASE entry # p
  <2>1. UNCHANGED <<client, data, entry, member>> BY <1>6 DEF PrimaryGone, relay
  <2>2. Typed' BY <2>1 DEF IInv, Typed, daemon, PrimaryGone
  <2>3. Wires' BY <1>1, <1>2, <1>3, <2>1 DEF IInv, Wires, Good, PrimaryGone
  <2>4. Links' BY <1>1, <1>2, <1>3, <1>6, <2>1
          DEF IInv, Typed, Links, Nobody, daemon, PrimaryGone
  <2>5. Rows' BY <2>1 DEF IInv, Rows
  <2>6. ASSUME NEW d \in Clients PROVE Placed(d)' /\ CalledOnce(d)' /\ Owed(d)'
    <3>1. Placed(d) /\ CalledOnce(d) /\ Owed(d) BY DEF IInv
    <3>2. CalledOnce(d)' BY <1>4, <3>1 DEF CalledOnce, Calls
    <3>3. (Called(d)' => Called(d)) /\ (Refused(d)' => Refused(d))
      BY <1>4 DEF Called, Calls, Refused
    <3>4. Placed(d)' BY <2>1, <3>1, <3>3 DEF Placed, daemon, PrimaryGone
    <3>5. Told(d) => Told(d)'
      BY <1>4, <2>1 DEF Told, Members, daemon, PrimaryGone, IInv, Typed
    <3>6. Owed(d)' BY <2>1, <3>1, <3>5 DEF Owed, WasPaired, daemon, PrimaryGone
    <3> QED BY <3>2, <3>4, <3>6
  <2> QED BY <2>2, <2>3, <2>4, <2>5, <2>6 DEF IInv
<1> QED BY <1>5, <1>6

LEMMA DataGoneKeeps ==
  ASSUME IInv, NEW c \in Clients, DataGone(c) PROVE IInv'
<1> DEFINE w == data[c]
           v == RelayEnds(w, c)
           e == ToPeer(client[c], Msg("peer_disconnected", c))
<1>1. /\ Good(w, c) /\ Up(w, "end") /\ Good(client[c], c)
      /\ client \in [Clients -> Wire] /\ data \in [Clients -> Wire]
  BY DEF DataGone, IInv, Wires
<1>2. /\ Good(v, c) /\ v.peer = w.peer /\ v.relay = "closed"
      /\ w.relay \in {"open", "closing"}
      /\ \A n : Has(v.down, n) => Has(w.down, n) \/ n = End(c)
  BY <1>1, GoodRelayEnds, IdsAre
<1>3. Good(e, c) /\ e.relay = client[c].relay
  BY <1>1, GoodToPeer, DownMsgsAre, IdsAre
<1>4. /\ data' = [data EXCEPT ![c] = v]
      /\ IF c \in Paired
           THEN /\ client' = [client EXCEPT ![c] = e]
                /\ member' = [member EXCEPT ![c] = "waiting"]
           ELSE UNCHANGED <<client, member>>
  BY DEF DataGone, Lost
<1> HIDE DEF v, e
<1>5. /\ client' \in [Clients -> Wire]
      /\ \A d \in Clients : client'[d].relay = client[d].relay /\ Good(client'[d], d)
  BY <1>1, <1>3, <1>4 DEF IInv, Wires, Good
<1>6. \A d \in Clients : /\ member'[d] # "out" <=> member[d] # "out"
                         /\ d # c => member'[d] = member[d]
  BY <1>4 DEF Paired, IInv, Typed
<1>7. \A d \in Clients : d # c => data'[d] = data[d] BY <1>1, <1>4
<1>8. data'[c] = v BY <1>1, <1>4
<1>9. Typed' BY <1>4 DEF IInv, Typed, daemon, DataGone
<1>10. Wires'
  <2>1. data' \in [Clients -> Wire] BY <1>1, <1>2, <1>4 DEF Good
  <2>2. \A d \in Clients : Good(data'[d], d)
    BY <1>2, <1>7, <1>8 DEF IInv, Wires
  <2>3. UNCHANGED primary BY DEF DataGone
  <2> QED BY <1>5, <2>1, <2>2, <2>3 DEF IInv, Wires, Good
<1>11. Links' BY DEF IInv, Links, Nobody, daemon, DataGone
<1>12. Rows' BY <1>2, <1>5, <1>6, <1>7, <1>8 DEF IInv, Rows
<1>13. ASSUME NEW d \in Clients PROVE Placed(d)' /\ CalledOnce(d)' /\ Owed(d)'
  <2>1. Placed(d) /\ CalledOnce(d) /\ Owed(d) BY DEF IInv
  <2>2. CalledOnce(d)' BY <2>1 DEF CalledOnce, Calls, DataGone
  <2>3. data'[d].peer = data[d].peer BY <1>2, <1>7, <1>8
  <2>4. Placed(d)'
    BY <1>5, <2>1, <2>3 DEF Placed, Called, Calls, Refused, daemon, DataGone
  <2>5. Told(d) => Told(d)' BY <1>6 DEF Told, Members, daemon, DataGone
  <2>6. WasPaired(d)' => WasPaired(d)
    <3>1. CASE d = c
      BY <1>2, <1>8, <3>1, MsgIs, IdsAre DEF WasPaired, daemon, DataGone
    <3>2. CASE d # c BY <1>7, <3>2 DEF WasPaired, daemon, DataGone
    <3> QED BY <3>1, <3>2
  <2>7. Owed(d)' BY <2>1, <2>5, <2>6 DEF Owed, daemon, DataGone
  <2> QED BY <2>2, <2>4, <2>7
<1> QED BY <1>9, <1>10, <1>11, <1>12, <1>13 DEF IInv

(* The relay takes the end of a client: its data socket is shut and the    *)
(* primary in the entry is told.                                           *)
LEMMA ClientGoneKeeps ==
  ASSUME IInv, NEW c \in Clients, ClientGone(c) PROVE IInv'
<1> DEFINE w == client[c]
           v == RelayEnds(w, c)
<1>1. /\ Good(w, c) /\ Up(w, "end") /\ Good(data[c], c)
      /\ client \in [Clients -> Wire] /\ data \in [Clients -> Wire]
      /\ primary \in [Primaries -> Wire]
  BY DEF ClientGone, IInv, Wires
<1>2. /\ Good(v, c) /\ v.relay = "closed" /\ w.relay \in {"open", "closing"}
  BY <1>1, GoodRelayEnds, IdsAre
<1>3. client' = [client EXCEPT ![c] = v] BY DEF ClientGone
<1> HIDE DEF v
<1>4. CASE c \notin Members
  <2>1. UNCHANGED <<data, member, primary>> BY <1>4 DEF ClientGone
  <2>2. Typed' BY <2>1 DEF IInv, Typed, daemon, ClientGone
  <2>3. Wires' BY <1>1, <1>2, <1>3, <2>1 DEF IInv, Wires, Good
  <2>4. Links' BY <2>1 DEF IInv, Links, Nobody, daemon, ClientGone
  <2>5. Rows' BY <1>1, <1>3, <1>4, <2>1 DEF IInv, Rows, Members
  <2>6. ASSUME NEW d \in Clients PROVE Placed(d)' /\ CalledOnce(d)' /\ Owed(d)'
    <3>1. Placed(d) /\ CalledOnce(d) /\ Owed(d) BY DEF IInv
    <3>2. CalledOnce(d)' BY <2>1, <3>1 DEF CalledOnce, Calls
    <3>3. Placed(d)' BY <1>1, <1>2, <1>3, <2>1, <3>1
            DEF Placed, Called, Calls, Refused, daemon, ClientGone
    <3>4. Owed(d)' BY <2>1, <3>1 DEF Owed, WasPaired, Told, Members, daemon, ClientGone
    <3> QED BY <3>2, <3>3, <3>4
  <2> QED BY <2>2, <2>3, <2>4, <2>5, <2>6 DEF IInv
<1>5. CASE c \in Members
  <2> DEFINE m == Msg("client_disconnected", c)
             q == primary[entry]
             u == ToPeer(q, m)
             b == ToPeer(data[c], Msg("peer_disconnected", c))
             x == RelayCloses(b, c)
             e == IF c \in Paired THEN x ELSE data[c]
  <2>1. /\ member' = [member EXCEPT ![c] = "out"] /\ data' = [data EXCEPT ![c] = e]
        /\ primary' = IF entry = None THEN primary ELSE [primary EXCEPT ![entry] = u]
        /\ UNCHANGED <<entry, control, checking, held, sessions, linked, told, breaks>>
    BY <1>1, <1>5 DEF ClientGone, Unpair, Lost, ReportGone, Tell, daemon
  <2>2. /\ Good(b, c) /\ b.peer = data[c].peer /\ b.relay = data[c].relay
        /\ \A d : Has(b.down, Msg("paired", d)) => Has(data[c].down, Msg("paired", d))
    <3>1. Msg("peer_disconnected", c) \in DownMsgs /\ c \in Ids
      BY DownMsgsAre, IdsAre
    <3> QED BY <1>1, <3>1, GoodToPeer, MsgIs
  <2> HIDE DEF b
  <2>3. /\ Good(x, c) /\ x.peer = data[c].peer
        /\ x.relay = IF data[c].relay = "open" THEN "closing" ELSE data[c].relay
        /\ \A d : Has(x.down, Msg("paired", d)) => Has(data[c].down, Msg("paired", d))
    BY <2>2, GoodRelayCloses, MsgIs, IdsAre
  <2> HIDE DEF x
  <2>4. /\ Good(e, c) /\ e.peer = data[c].peer /\ e.relay # "open"
        /\ \A d : Has(e.down, Msg("paired", d)) => Has(data[c].down, Msg("paired", d))
    <3>1. c \notin Paired => data[c].relay # "open" BY DEF IInv, Rows, Paired
    <3> QED BY <1>1, <2>3, <3>1
  <2> HIDE DEF e
  <2>5. entry # None =>
          /\ entry \in Primaries /\ Good(u, entry) /\ u.peer = q.peer
          /\ u.relay = q.relay /\ u.up = q.up
          /\ \A n : Has(u.down, n) <=>
               Has(q.down, n) \/ (n = m /\ q.relay = "open" /\ q.peer # "closed")
          /\ \A n : Once(q.down, n) /\ n # m => Once(u.down, n)
    <3> SUFFICES ASSUME entry # None
                 PROVE  /\ entry \in Primaries /\ Good(u, entry) /\ u.peer = q.peer
                        /\ u.relay = q.relay /\ u.up = q.up
                        /\ \A n : Has(u.down, n) <=>
                             Has(q.down, n) \/ (n = m /\ q.relay = "open" /\ q.peer # "closed")
                        /\ \A n : Once(q.down, n) /\ n # m => Once(u.down, n)
      OBVIOUS
    <3>1. entry \in Primaries /\ Good(q, entry) BY DEF IInv, Typed, Wires
    <3>2. m \in DownMsgs /\ entry \in Ids BY <3>1, DownMsgsAre, IdsAre
    <3> HIDE DEF m, q
    <3>3. /\ Good(ToPeer(q, m), entry) /\ ToPeer(q, m).peer = q.peer
          /\ ToPeer(q, m).relay = q.relay /\ ToPeer(q, m).up = q.up
          /\ \A n : Has(ToPeer(q, m).down, n) <=>
               Has(q.down, n) \/ (n = m /\ q.relay = "open" /\ q.peer # "closed")
          /\ \A n : Once(q.down, n) /\ (n = m => ~Has(q.down, n))
                      => Once(ToPeer(q, m).down, n)
      BY <3>1, <3>2, GoodToPeer
    <3> QED BY <3>1, <3>3
  <2>6. \A d : m # Msg("client_waiting", d) BY MsgIs
  <2> HIDE DEF u, m
  <2>7. /\ primary' \in [Primaries -> Wire]
        /\ \A p \in Primaries :
             /\ Good(primary'[p], p) /\ primary'[p].peer = primary[p].peer
             /\ primary'[p].relay = primary[p].relay /\ primary'[p].up = primary[p].up
             /\ \A n : Has(primary[p].down, n) => Has(primary'[p].down, n)
             /\ \A n : n # m => /\ Has(primary'[p].down, n) => Has(primary[p].down, n)
                                /\ Once(primary[p].down, n) => Once(primary'[p].down, n)
    <3>1. CASE entry = None
      <4>1. primary' = primary BY <2>1, <3>1
      <4> QED BY <4>1 DEF IInv, Wires
    <3>2. CASE entry # None
      <4>1. primary' = [primary EXCEPT ![entry] = u] BY <2>1, <3>2
      <4>2. u \in Wire BY <2>5, <3>2 DEF Good
      <4>3. \A p \in Primaries : primary'[p] = IF p = entry THEN u ELSE primary[p]
        BY <1>1, <4>1
      <4>4. primary' \in [Primaries -> Wire] BY <1>1, <4>1, <4>2
      <4>5. \A p \in Primaries : Good(primary[p], p) BY DEF IInv, Wires
      <4> QED BY <2>5, <3>2, <4>3, <4>4, <4>5
    <3> QED BY <3>1, <3>2
  <2>8. Typed' BY <2>1 DEF IInv, Typed
  <2>9. Wires'
    <3>1. /\ client' \in [Clients -> Wire] /\ data' \in [Clients -> Wire]
      BY <1>1, <1>2, <1>3, <2>1, <2>4 DEF Good
    <3>2. \A d \in Clients : Good(client'[d], d) /\ Good(data'[d], d)
      BY <1>1, <1>2, <1>3, <2>1, <2>4 DEF IInv, Wires
    <3> QED BY <2>7, <3>1, <3>2 DEF Wires, Good
  <2>10. Links' BY <2>1, <2>7 DEF IInv, Typed, Links, Nobody
  <2>11. Rows' BY <1>1, <1>3, <2>1, <2>4 DEF IInv, Typed, Rows
  <2>12. ASSUME NEW d \in Clients PROVE Placed(d)' /\ CalledOnce(d)' /\ Owed(d)'
    <3>1. Placed(d) /\ CalledOnce(d) /\ Owed(d) BY DEF IInv
    <3>2. CalledOnce(d)' BY <2>6, <2>7, <3>1 DEF CalledOnce, Calls
    <3>3. (Called(d)' => Called(d)) /\ (Refused(d)' => Refused(d))
      BY <2>6, <2>7 DEF Called, Calls, Refused
    <3>4. data'[d].peer = data[d].peer /\ (client'[d].relay = "idle" => client[d].relay = "idle")
      BY <1>1, <1>2, <1>3, <2>1, <2>4
    <3>5. Placed(d)' BY <2>1, <3>1, <3>3, <3>4 DEF Placed
    <3>6. CASE d = c
      <4>1. d \in sessions => Told(d)'
        <5> HAVE d \in sessions
        <5>1. /\ control \in Primaries /\ control # None /\ primary[control].peer = "open"
              /\ entry = control \/ Has(primary[control].down, End(control))
          BY HearsOfAll
        <5>2. CASE entry = control
          <6>1. q.relay = "open" /\ q.peer = "open" BY <5>1, <5>2 DEF IInv, Links
          <6>2. Has(u.down, m) /\ primary' = [primary EXCEPT ![entry] = u]
            BY <2>1, <2>5, <5>1, <5>2, <6>1
          <6>3. Has(primary'[control].down, m) BY <1>1, <5>1, <5>2, <6>2
          <6> QED BY <2>1, <3>6, <5>1, <6>3 DEF Told, m
        <5>3. CASE entry # control
          <6>1. Has(primary'[control].down, End(control)) BY <2>7, <5>1, <5>3
          <6> QED BY <2>1, <5>1, <6>1 DEF Told
        <5> QED BY <5>2, <5>3
      <4> QED BY <2>1, <3>2, <3>5, <4>1 DEF Owed
    <3>7. CASE d # c
      <4>1. data'[d] = data[d] /\ (d \in Members => d \in Members')
        BY <1>1, <2>1, <3>7 DEF Members, IInv, Typed
      <4>2. Told(d) => Told(d)' BY <2>1, <2>7, <4>1 DEF Told, IInv, Typed
      <4>3. WasPaired(d)' => WasPaired(d) BY <2>1, <4>1 DEF WasPaired
      <4> QED BY <2>1, <3>1, <3>2, <3>5, <4>2, <4>3 DEF Owed
    <3> QED BY <3>6, <3>7
  <2> QED BY <2>8, <2>9, <2>10, <2>11, <2>12 DEF IInv
<1> QED BY <1>4, <1>5

-----------------------------------------------------------------------------
(* The invariant.                                                          *)

LEMMA InitGood == Init => IInv
<1> SUFFICES ASSUME Init PROVE IInv OBVIOUS
<1>1. /\ NoSocket.peer = "idle" /\ NoSocket.relay = "idle"
      /\ \A x \in Ids : Good(NoSocket, x)
      /\ \A n : ~Has(NoSocket.down, n) /\ ~Has(NoSocket.up, n) /\ Once(NoSocket.down, n)
  <2>1. NoSocket.up = <<>> /\ NoSocket.down = <<>> /\ NoSocket.peer = "idle"
        /\ NoSocket.relay = "idle"
    BY DEF NoSocket
  <2> QED BY <2>1, GoodNew, HasNone
<1>2. /\ \A p \in Primaries : primary[p] = NoSocket
      /\ \A c \in Clients : client[c] = NoSocket /\ data[c] = NoSocket
      /\ control = None /\ entry = None /\ checking = {} /\ held = {}
      /\ sessions = {} /\ linked = {}
  BY DEF Init
<1>3. Typed BY PairingBounds DEF Init, Typed
<1>4. Wires
  <2>1. NoSocket \in Wire \/ (Clients = {} /\ Primaries = {})
    BY <1>1, IdsAre DEF Good
  <2> QED BY <1>1, <1>2, <2>1, IdsAre DEF Init, Wires
<1>5. Links BY <1>1, <1>2, IdsAre DEF Links, Nobody
<1>6. Rows BY <1>1, <1>2 DEF Init, Rows
<1>7. ASSUME NEW c \in Clients PROVE Placed(c) /\ CalledOnce(c) /\ Owed(c)
  <2>1. ~Called(c) /\ ~Refused(c) BY <1>1, <1>2 DEF Called, Calls, Refused
  <2>2. CalledOnce(c) BY <1>1, <1>2 DEF CalledOnce, Calls
  <2> QED BY <1>1, <1>2, <2>1, <2>2 DEF Placed, Owed
<1> QED BY <1>3, <1>4, <1>5, <1>6, <1>7 DEF IInv

LEMMA NextGood == IInv /\ [Next]_vars => IInv'
<1> SUFFICES ASSUME IInv, [Next]_vars PROVE IInv' OBVIOUS
<1>1. CASE \E p \in Primaries : RelayPrimary(p)
  BY <1>1, AcceptPrimaryKeeps, RelayRejectsKeeps, RelayHoldsKeeps,
     PrimaryGoneKeeps DEF RelayPrimary
<1>2. CASE DaemonPrimary
  BY <1>2, RejectAtCapKeeps, CheckKeeps, ClientDisconnectedKeeps, RejectKeeps,
     HoldKeeps, AdmitKeeps, PrimaryErrorKeeps, PrimaryClosedKeeps,
     DialPrimaryKeeps DEF DaemonPrimary
<1>3. CASE Delivery
  BY <1>3, ClientHearsKeeps, ClientClosedKeeps, AcceptClientKeeps,
     AcceptDataKeeps, ClientGoneKeeps, DataGoneKeeps, DataHearsKeeps,
     PeerLostKeeps, DataClosedKeeps DEF Delivery
<1>4. CASE Timeout BY <1>4, HeldTimeoutKeeps DEF Timeout
<1>5. CASE Choice
  BY <1>5, ApproveHeldKeeps, SeverKeeps, DataFailsKeeps, DialKeeps,
     ClientLeavesKeeps, ClientBreaksKeeps, PrimaryBreaksKeeps DEF Choice
<1>6. CASE UNCHANGED vars
  <2>1. UNCHANGED <<primary, client, data, entry, member, control, checking,
                    held, sessions, linked, told, breaks>>
    BY <1>6 DEF vars, sockets, relay, daemon
  <2>2. Typed' BY <2>1 DEF IInv, Typed
  <2>3. Wires' BY <2>1 DEF IInv, Wires
  <2>4. Links' /\ Rows' BY <2>1 DEF IInv, Links, Nobody, Rows
  <2>5. ASSUME NEW c \in Clients PROVE Placed(c)' /\ CalledOnce(c)' /\ Owed(c)'
    <3>1. Placed(c) /\ CalledOnce(c) /\ Owed(c) BY DEF IInv
    <3>2. Placed(c)' BY <2>1, <3>1 DEF Placed, Called, Calls, Refused
    <3>3. CalledOnce(c)' BY <2>1, <3>1 DEF CalledOnce, Calls
    <3>4. Owed(c)' BY <2>1, <3>1 DEF Owed, WasPaired, Told, Members
    <3> QED BY <3>2, <3>3, <3>4
  <2> QED BY <2>2, <2>3, <2>4, <2>5 DEF IInv
<1> QED BY <1>1, <1>2, <1>3, <1>4, <1>5, <1>6 DEF Next

LEMMA Invariant == Spec => []IInv
BY InitGood, NextGood, PTL DEF Spec

-----------------------------------------------------------------------------
(* The theorems.                                                           *)

(* Type correctness: every socket only ever holds messages of pairing.ts,  *)
(* and the daemon has a client in at most one of its three tables.         *)
THEOREM PairingTyped == Spec => []TypeOK
<1>1. IInv => TypeOK BY DEF IInv, Typed, Wires, TypeOK
<1> QED BY <1>1, Invariant, PTL

(* No data socket is left without its client (PairingRegistry).            *)
THEOREM NoStranded == Spec => []NoStrandedData
<1>1. IInv => NoStrandedData BY DEF IInv, Rows, NoStrandedData
<1> QED BY <1>1, Invariant, PTL

(* Whatever crosses and whatever breaks, the daemon keeps no session of    *)
(* whose end it will not be told (pairing.ts, start.ts).                   *)
THEOREM WillHear == Spec => []DaemonWillHear
<1>1. IInv => DaemonWillHear
  <2> SUFFICES ASSUME IInv, NEW c \in Clients, c \in sessions
               PROVE  \/ Told(c)
                      \/ data[c].peer = "open" /\ data[c].relay = "idle"
                      \/ data[c].peer = "open" /\ Has(data[c].down, End(c))
    BY IdsAre DEF DaemonWillHear, OnTheWay, Has, Told, IInv, Typed
  <2>1. CASE WasPaired(c) BY <2>1 DEF IInv, Owed
  <2>2. CASE ~WasPaired(c)
    <3>1. data[c].peer = "open" /\ data[c].relay # "open" /\ Good(data[c], c)
      BY <2>2 DEF WasPaired, IInv, Wires
    <3>2. data[c].relay \in PeerState BY <3>1, WireIs DEF Good
    <3> QED BY <3>1, <3>2 DEF Good, PeerState
  <2> QED BY <2>1, <2>2
<1> QED BY <1>1, Invariant, PTL
=============================================================================
