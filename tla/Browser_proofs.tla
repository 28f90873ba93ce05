---------------------------- MODULE Browser_proofs ----------------------------
(***************************************************************************)
(* Theorems about Browser, for any sessions, sockets, tabs and bounds: its *)
(* types, that only the page's current socket speaks to it, that a page    *)
(* that disconnected for good stays away, and that a key reaches the       *)
(* session it was typed at or none.                                        *)
(***************************************************************************)
EXTENDS Browser, SequenceTheorems, TLAPS

-----------------------------------------------------------------------------
(* Types.  The history of a tab is never left.                             *)

OnHistory == shown.pos \in DOMAIN shown.hist
Typed == TypeOK /\ OnHistory

LEMMA PushTyped ==
  ASSUME NEW h \in ShownStates, h.pos \in DOMAIN h.hist, NEW n \in Names
  PROVE  Push(h, n) \in ShownStates /\ Push(h, n).pos \in DOMAIN Push(h, n).hist
<1>1. h.hist \in Seq(Names) /\ h.pos \in 1..Len(h.hist)
  BY DEF ShownStates
<1>2. SubSeq(h.hist, 1, h.pos) \in Seq(Names) /\ Len(SubSeq(h.hist, 1, h.pos)) = h.pos
  <2>1. \A i \in 1..h.pos : h.hist[i] \in Names
    BY <1>1
  <2>2. QED
    BY <1>1, <2>1, SubSeqProperties
<1>3. /\ Append(SubSeq(h.hist, 1, h.pos), n) \in Seq(Names)
      /\ Len(Append(SubSeq(h.hist, 1, h.pos), n)) = h.pos + 1
  BY <1>2
<1>4. CASE h.hist[h.pos] = n
  BY <1>4 DEF Push
<1>5. CASE h.hist[h.pos] # n
  <2> DEFINE longer == Append(SubSeq(h.hist, 1, h.pos), n)
  <2>1. Push(h, n) = [h EXCEPT !.hist = longer, !.pos = h.pos + 1]
    BY <1>5 DEF Push
  <2>2. longer \in Seq(Names) /\ Len(longer) = h.pos + 1
    BY <1>3
  <2> HIDE DEF longer
  <2>3. Push(h, n).hist = longer /\ Push(h, n).pos = h.pos + 1
    BY <2>1 DEF ShownStates
  <2>4. h.pos + 1 \in 1..Len(longer) /\ h.pos + 1 \in Nat
    BY <1>1, <2>2
  <2>5. Push(h, n) \in ShownStates
    BY <2>1, <2>2, <2>4 DEF ShownStates
  <2>6. QED
    BY <2>2, <2>3, <2>4, <2>5
<1>6. QED
  BY <1>4, <1>5

LEMMA ReplaceTyped ==
  ASSUME NEW h \in ShownStates, h.pos \in DOMAIN h.hist, NEW n \in Names
  PROVE  Replace(h, n) \in ShownStates /\ Replace(h, n).pos \in DOMAIN Replace(h, n).hist
<1>1. h.hist \in Seq(Names) /\ h.pos \in 1..Len(h.hist)
  BY DEF ShownStates
<1>2. [h.hist EXCEPT ![h.pos] = n] \in Seq(Names)
  BY <1>1
<1>3. QED
  BY <1>1, <1>2 DEF Replace, ShownStates

LEMMA InitTyped == Init => Typed
<1> SUFFICES ASSUME Init PROVE Typed
  OBVIOUS
<1>1. PICK tab \in Tabs :
        /\ shown = [cur |-> None, view |-> "loading", hist |-> tab, pos |-> 1]
        /\ token = [held |-> 0, stored |-> IF FromFragment THEN None ELSE 0,
                    home |-> tab[1]]
  BY DEF Init
<1>2. tab \in Seq(Names) /\ 1 \in DOMAIN tab
  BY BrowserTabs DEF Names
<1>3. MaxRevokes \in Nat /\ MaxFaults \in Nat /\ MaxActs \in Nat
  BY BrowserBounds
<1>4. shown \in ShownStates /\ OnHistory
  BY <1>1, <1>2 DEF ShownStates, OnHistory, Names
<1>5. token \in TokenStates
  BY <1>1, <1>2, <1>3 DEF TokenStates, Creds
<1>6. srv \in [Socks -> SrvStates]
  BY <1>3 DEF Init, SrvStates, Fresh, Creds, Names
<1>7. sock \in [Socks -> SockStates] /\ page \in PageStates
  BY DEF Init, SockStates, PageStates, Closed, Loaded
<1>8. QED
  BY <1>3, <1>4, <1>5, <1>6, <1>7 DEF Init, Typed, TypeOK

LEMMA MessagesTyped ==
  /\ \A t \in {"noise", "list", "detach"} : Msg(t) \in Ups
  /\ \A t \in {"attach", "key", "spawn"} : \A n \in Names : About(t, n) \in Ups
  /\ \A t \in {"waiting", "paired", "gone", "revoked", "close", "welcome", "attached",
               "sessions", "error", "exit"} : Msg(t) \in Downs
  /\ \A n \in Names : About("spawned", n) \in Downs
  /\ \A e \in Creds : Approved(e) \in Downs
BY DEF Msg, About, Approved, Ups, Downs, Names, Creds

(* One socket's queue grows by what is sent, or loses its head.            *)
LEMMA QueueTyped ==
  ASSUME NEW M, NEW q \in [Socks -> Seq(M)], NEW s \in Socks
  PROVE  /\ \A msgs \in Seq(M) : [q EXCEPT ![s] = @ \o msgs] \in [Socks -> Seq(M)]
         /\ q[s] # <<>> => /\ Head(q[s]) \in M
                           /\ [q EXCEPT ![s] = Tail(@)] \in [Socks -> Seq(M)]
         /\ [q EXCEPT ![s] = <<>>] \in [Socks -> Seq(M)]
<1>1. q[s] \in Seq(M)
  OBVIOUS
<1>2. QED
  BY <1>1

LEMMA OneTyped == \A m \in Ups : <<m>> \in Seq(Ups)
OBVIOUS

LEMMA SpendTyped ==
  ASSUME TypeOK, NEW what \in {"faults", "acts"}, Spend(what)
  PROVE  left' \in [faults : 0..MaxFaults, acts : 0..MaxActs, gone : BOOLEAN]
<1>1. MaxFaults \in Nat /\ MaxActs \in Nat
  BY BrowserBounds
<1>2. CASE what = "faults"
  <2>1. left.faults \in 0..MaxFaults /\ left.faults > 0
    BY <1>2 DEF Spend, TypeOK
  <2>2. left.faults - 1 \in 0..MaxFaults
    BY <1>1, <2>1
  <2>3. QED
    BY <1>2, <2>2 DEF Spend, TypeOK
<1>3. CASE what = "acts"
  <2>1. left.acts \in 0..MaxActs /\ left.acts > 0
    BY <1>3 DEF Spend, TypeOK
  <2>2. left.acts - 1 \in 0..MaxActs
    BY <1>1, <2>1
  <2>3. QED
    BY <1>3, <2>2 DEF Spend, TypeOK
<1>4. QED
  BY <1>2, <1>3

LEMMA SendsTyped ==
  ASSUME TypeOK, NEW msgs \in Seq(Ups), Sends(msgs)
  PROVE  up' \in [Socks -> Seq(Ups)]
BY QueueTyped DEF TypeOK, Sends, Sent, CanSend

LEMMA DetachTyped ==
  ASSUME Typed, NEW p, Detach(p)
  PROVE  up' \in [Socks -> Seq(Ups)] /\ shown' \in ShownStates /\ OnHistory'
<1> DEFINE msgs == (IF p.attached THEN <<Msg("detach")>> ELSE <<>>) \o <<Msg("list")>>
           h == [shown EXCEPT !.cur = None, !.view = "loading"]
<1>1. Msg("detach") \in Ups /\ Msg("list") \in Ups
  BY MessagesTyped
<1>2. msgs \in Seq(Ups)
  <2>1. <<Msg("list")>> \in Seq(Ups)
    BY <1>1
  <2>2. (IF p.attached THEN <<Msg("detach")>> ELSE <<>>) \in Seq(Ups)
    BY <1>1
  <2>3. QED
    BY <2>1, <2>2
<1>3. up' \in [Socks -> Seq(Ups)]
  BY <1>2, SendsTyped DEF Detach, Typed
<1>4. h \in ShownStates /\ h.pos \in DOMAIN h.hist
  BY DEF Typed, TypeOK, OnHistory, ShownStates, Names
<1>5. QED
  BY <1>3, <1>4, ReplaceTyped DEF Detach, OnHistory, Names

LEMMA AttachTyped ==
  ASSUME Typed, NEW n \in Names
  PROVE  Shows(n) \in ShownStates /\ Shows(n).pos \in DOMAIN Shows(n).hist
<1> DEFINE h == [shown EXCEPT !.cur = n, !.view = "terminal"]
<1>1. h \in ShownStates /\ h.pos \in DOMAIN h.hist
  BY DEF Typed, TypeOK, OnHistory, ShownStates
<1>2. QED
  BY <1>1, PushTyped DEF Shows

LEMMA StraysTyped ==
  ASSUME TypeOK, NEW s \in Socks
  PROVE  Strays(s) \in [Socks -> SrvStates]
<1> DEFINE b == \/ srv[s].stray \/ srv[s].spawning # None \/ srv[s].born
                \/ \E m \in ToSet(up[s] \o down[s]) : m.type \in {"spawn", "spawned"}
<1>1. b \in BOOLEAN /\ Strays(s) = [srv EXCEPT ![s].stray = b]
  BY DEF Strays
<1> HIDE DEF b
<1>2. [srv[s] EXCEPT !.stray = b] \in SrvStates
  <2>1. srv[s] \in SrvStates
    BY DEF TypeOK
  <2>2. QED
    BY <1>1, <2>1 DEF SrvStates
<1>3. QED
  BY <1>1, <1>2 DEF TypeOK

LEMMA CloseWsTyped ==
  ASSUME TypeOK, NEW d \in [Socks -> Seq(Downs)], CloseWs(d)
  PROVE  /\ ws' = None /\ transport' = None
         /\ sock' \in [Socks -> SockStates] /\ down' \in [Socks -> Seq(Downs)]
<1>1. ws # None => /\ [sock EXCEPT ![ws].st = "closing"] \in [Socks -> SockStates]
                   /\ [d EXCEPT ![ws] = <<>>] \in [Socks -> Seq(Downs)]
  <2> SUFFICES ASSUME ws # None
               PROVE  /\ [sock EXCEPT ![ws].st = "closing"] \in [Socks -> SockStates]
                      /\ [d EXCEPT ![ws] = <<>>] \in [Socks -> Seq(Downs)]
    OBVIOUS
  <2>1. ws \in Socks /\ sock \in [Socks -> SockStates]
    BY DEF TypeOK
  <2>2. [sock[ws] EXCEPT !.st = "closing"] \in SockStates
    BY <2>1 DEF SockStates
  <2>3. QED
    BY <2>1, <2>2
<1>2. QED
  BY <1>1 DEF CloseWs, TypeOK

LEMMA LoadTyped == Typed /\ Load => /\ ws' = None /\ transport' = None
                                    /\ sock' \in [Socks -> SockStates]
                                    /\ page' \in PageStates
                                    /\ shown' \in ShownStates /\ OnHistory'
                                    /\ token' \in TokenStates
                                    /\ up' \in [Socks -> Seq(Ups)]
                                    /\ down' \in [Socks -> Seq(Downs)]
                                    /\ srv' \in [Socks -> SrvStates]
<1> SUFFICES ASSUME Typed, Load
             PROVE  /\ ws' = None /\ transport' = None
                    /\ sock' \in [Socks -> SockStates] /\ page' \in PageStates
                    /\ shown' \in ShownStates /\ OnHistory' /\ token' \in TokenStates
                    /\ up' \in [Socks -> Seq(Ups)] /\ down' \in [Socks -> Seq(Downs)]
                    /\ srv' \in [Socks -> SrvStates]
  OBVIOUS
<1>1. shown.hist[shown.pos] \in Names
  BY DEF Typed, TypeOK, OnHistory, ShownStates
<1>2. 0 \in Creds
  BY BrowserBounds DEF Creds
<1>3. token' \in TokenStates
  BY <1>1, <1>2 DEF Load, Typed, TypeOK, TokenStates
<1>4. shown' \in ShownStates /\ OnHistory'
  BY DEF Load, Typed, TypeOK, ShownStates, OnHistory, Names
<1>5. sock' \in [Socks -> SockStates] /\ page' \in PageStates /\ srv' \in [Socks -> SrvStates]
  BY DEF Load, SockStates, Closed, PageStates, Loaded, SrvStates, Fresh, Creds, Names
<1>6. QED
  BY <1>3, <1>4, <1>5 DEF Load

LEMMA TimersTyped ==
  Typed /\ (Resolves \/ TimerFires \/ PopFires \/ ReloadFires \/ Refresh) => Typed'
<1> SUFFICES ASSUME Typed, Resolves \/ TimerFires \/ PopFires \/ ReloadFires \/ Refresh
             PROVE  Typed'
  OBVIOUS
<1>1. CASE Resolves
  <2> DEFINE free == {c \in Socks : sock[c].st = "closed"}
  <2>1. PICK s \in Socks :
          /\ page' = [page EXCEPT !.resolving = FALSE]
          /\ ws' = s /\ sock' = [sock EXCEPT ![s] = [Closed EXCEPT !.st = "connecting"]]
          /\ srv' = [srv EXCEPT ![s] = [Fresh EXCEPT !.cred = token.held]]
          /\ UNCHANGED <<transport, shown, token, up, down, live, epoch, left>>
    BY <1>1 DEF Resolves
  <2>2. page' \in PageStates /\ sock' \in [Socks -> SockStates]
    BY <2>1 DEF Typed, TypeOK, PageStates, SockStates, Closed
  <2>3. srv' \in [Socks -> SrvStates]
    BY <2>1 DEF Typed, TypeOK, TokenStates, SrvStates, Fresh, Names
  <2>4. QED
    BY <2>1, <2>2, <2>3 DEF Typed, TypeOK, OnHistory
<1>2. CASE TimerFires
  <2>1. /\ ws' = None /\ transport' = None
        /\ sock' \in [Socks -> SockStates] /\ down' \in [Socks -> Seq(Downs)]
    BY <1>2, CloseWsTyped DEF TimerFires, ConnectToRelay, Typed, TypeOK
  <2>2. page' \in PageStates /\ shown' \in ShownStates /\ OnHistory'
    BY <1>2 DEF TimerFires, ConnectToRelay, Typed, TypeOK, PageStates, ShownStates, OnHistory
  <2>3. QED
    BY <1>2, <2>1, <2>2 DEF TimerFires, Typed, TypeOK
<1>3. CASE PopFires
  <2> DEFINE path == shown.hist[shown.pos]
             rest == [page EXCEPT !.popTimer = FALSE]
  <2>1. path \in Names /\ rest \in PageStates
    <3>1. path \in Names
      BY DEF Typed, TypeOK, OnHistory, ShownStates
    <3>2. rest \in PageStates
      BY DEF Typed, TypeOK, PageStates
    <3>3. QED
      BY <3>1, <3>2
  <2>2. UNCHANGED <<ws, sock, transport, token, down, live, epoch, left>>
    BY <1>3 DEF PopFires
  <2>3. CASE AttachToSession(path) /\ page' = rest
    <3>1. up' \in [Socks -> Seq(Ups)]
      <4>1. <<About("attach", path)>> \in Seq(Ups)
        BY <2>1, MessagesTyped, OneTyped
      <4>2. QED
        BY <2>3, <4>1, SendsTyped DEF AttachToSession, Typed
    <3>2. shown' \in ShownStates /\ OnHistory'
      BY <2>1, <2>3, AttachTyped DEF AttachToSession, OnHistory
    <3>3. srv' \in [Socks -> SrvStates]
      BY <2>3, StraysTyped DEF AttachToSession, CanSend, Typed, TypeOK
    <3>4. QED
      BY <2>1, <2>2, <2>3, <3>1, <3>2, <3>3 DEF Typed, TypeOK
  <2>4. CASE Detach(rest) /\ srv' = srv
    <3>1. up' \in [Socks -> Seq(Ups)]
      BY <2>4, DetachTyped DEF Detach, Typed
    <3>2. shown' \in ShownStates /\ OnHistory'
      BY <2>4, DetachTyped
    <3>3. page' \in PageStates
      BY <2>1, <2>4 DEF Detach, PageStates
    <3>4. QED
      BY <2>2, <2>4, <3>1, <3>2, <3>3 DEF Typed, TypeOK
  <2>5. CASE page' = rest /\ UNCHANGED <<shown, up, srv>>
    BY <2>1, <2>2, <2>5 DEF Typed, TypeOK, OnHistory
  <2>6. QED
    BY <1>3, <2>3, <2>4, <2>5 DEF PopFires
<1>4. CASE ReloadFires
  BY <1>4, LoadTyped DEF ReloadFires, Typed, TypeOK
<1>5. CASE Refresh
  <2>1. left' \in [faults : 0..MaxFaults, acts : 0..MaxActs, gone : BOOLEAN]
    BY <1>5, SpendTyped DEF Refresh, Typed
  <2>2. QED
    BY <1>5, <2>1, LoadTyped DEF Refresh, Typed, TypeOK
<1>6. QED
  BY <1>1, <1>2, <1>3, <1>4, <1>5

LEMMA OnCloseTyped ==
  ASSUME Typed, NEW s \in Socks, OnClose(s),
         left' \in [faults : 0..MaxFaults, acts : 0..MaxActs, gone : BOOLEAN]
  PROVE  Typed'
<1>1. /\ sock' \in [Socks -> SockStates]
      /\ up' \in [Socks -> Seq(Ups)] /\ down' \in [Socks -> Seq(Downs)]
  BY DEF OnClose, Typed, TypeOK, SockStates, Closed
<1>2. srv' \in [Socks -> SrvStates]
  BY DEF OnClose, Typed, TypeOK, SrvStates, Fresh, Names, Creds
<1>3. page' \in PageStates
  <2>1. (page.timer \/ ~page.intentional) \in BOOLEAN
    OBVIOUS
  <2>2. QED
    BY <2>1 DEF OnClose, ScheduleReconnect, Typed, TypeOK, PageStates
<1>4. shown' \in ShownStates /\ OnHistory'
  BY DEF OnClose, StatusOf, Typed, TypeOK, ShownStates, OnHistory
<1>5. QED
  BY <1>1, <1>2, <1>3, <1>4 DEF OnClose, Typed, TypeOK

LEMMA SocketTyped ==
  ASSUME Typed, NEW s \in Socks, Opens(s) \/ CloseArrives(s) \/ Breaks(s) \/ PageTakes(s)
  PROVE  Typed'
<1> USE DEF Typed
<1> DEFINE Loading == [shown EXCEPT !.view = "loading"]
<1>0. /\ Loading \in ShownStates /\ Loading.pos \in DOMAIN Loading.hist
      /\ [shown EXCEPT !.view = "sessions"] \in ShownStates
      /\ shown.pos \in DOMAIN shown.hist
      /\ [shown EXCEPT !.view = "sessions"].pos \in DOMAIN [shown EXCEPT !.view = "sessions"].hist
  BY DEF TypeOK, ShownStates, OnHistory
<1>1. CASE Opens(s)
  <2>1. sock' \in [Socks -> SockStates]
    BY <1>1 DEF Opens, TypeOK, SockStates
  <2>2. QED
    BY <1>0, <1>1, <2>1 DEF Opens, TypeOK, OnHistory
<1>2. CASE CloseArrives(s)
  BY <1>2, OnCloseTyped DEF CloseArrives, TypeOK
<1>3. CASE Breaks(s)
  BY <1>3, OnCloseTyped, SpendTyped DEF Breaks
<1>4. CASE RefusedClose(s)
  BY <1>4, OnCloseTyped DEF RefusedClose, TypeOK
<1>5. Took(s) /\ down[s] # <<>> => down' \in [Socks -> Seq(Downs)]
  BY QueueTyped DEF Took, TypeOK
<1>6. CASE Waiting(s)
  BY <1>0, <1>5, <1>6 DEF Waiting, Next1, TypeOK, OnHistory
<1>7. CASE Paired(s)
  <2>1. up' \in [Socks -> Seq(Ups)]
    <3>1. <<Msg("noise")>> \in Seq(Ups)
      BY MessagesTyped, OneTyped
    <3>2. QED
      BY <1>7, <3>1, QueueTyped DEF Paired, Sent, TypeOK
  <2>2. QED
    BY <1>0, <1>5, <1>7, <2>1 DEF Paired, Next1, TypeOK, OnHistory
<1>8. CASE PeerDisconnected(s)
  <2>1. page' \in PageStates
    <3>1. (page.timer \/ ~page.intentional) \in BOOLEAN
      OBVIOUS
    <3>2. QED
      BY <1>8, <3>1 DEF PeerDisconnected, ScheduleReconnect, TypeOK, PageStates
  <2>2. QED
    BY <1>0, <1>5, <1>8, <2>1 DEF PeerDisconnected, Next1, TypeOK, OnHistory
<1>9. CASE Revoked(s)
  <2>1. page' \in PageStates /\ token' \in TokenStates
    BY <1>9 DEF Revoked, TypeOK, PageStates, TokenStates, Creds
  <2>2. QED
    BY <1>0, <1>5, <1>9, <2>1 DEF Revoked, Next1, TypeOK, OnHistory
<1>10. CASE Welcome(s)
  <2> DEFINE target == IF shown.cur # None THEN shown.cur ELSE token.home
             out == IF target # None THEN About("attach", target) ELSE Msg("list")
  <2>1. target \in Names /\ shown.cur \in Names
    BY DEF TypeOK, ShownStates, TokenStates
  <2>2. out \in Ups /\ <<out>> \in Seq(Ups)
    BY <2>1, MessagesTyped, OneTyped
  <2>3. up' \in [Socks -> Seq(Ups)]
    BY <1>10, <2>2, QueueTyped DEF Welcome, Sent, TypeOK
  <2>4. shown' \in ShownStates /\ OnHistory'
    <3>1. shown' = Shows(target) \/ shown' = Loading
      BY <1>10 DEF Welcome
    <3>2. QED
      BY <1>0, <2>1, <3>1, AttachTyped DEF OnHistory
  <2>5. sock' \in [Socks -> SockStates]
    BY <1>10 DEF Welcome, TypeOK, SockStates
  <2>6. QED
    BY <1>5, <1>10, <2>3, <2>4, <2>5 DEF Welcome, Next1, TypeOK
<1>11. down[s] # <<>> => Head(down[s]) \in Downs
  BY QueueTyped DEF TypeOK
<1>12. CASE ApprovedMsg(s)
  <2>1. Head(down[s]).cred \in Creds
    BY <1>11, <1>12 DEF ApprovedMsg, Reads, Next1, Downs
  <2>2. token' \in TokenStates
    BY <1>12, <2>1 DEF ApprovedMsg, TypeOK, TokenStates
  <2>3. QED
    BY <1>5, <1>12, <2>2 DEF ApprovedMsg, Reads, Next1, TypeOK, OnHistory
<1>13. CASE Attached(s)
  <2>1. page' \in PageStates
    BY <1>13 DEF Attached, TypeOK, PageStates
  <2>2. QED
    BY <1>5, <1>13, <2>1 DEF Attached, Reads, Next1, TypeOK, OnHistory
<1>14. CASE Spawned(s)
  <2>1. Head(down[s]).name \in Names
    BY <1>11, <1>14 DEF Spawned, Reads, Next1, Downs
  <2>2. shown' \in ShownStates /\ OnHistory'
    BY <1>14, <2>1, AttachTyped DEF Spawned, TypeOK, OnHistory
  <2>3. QED
    BY <1>5, <1>14, <2>2 DEF Spawned, Reads, Next1, TypeOK
<1>15. CASE Listed(s) \/ Errs(s)
  BY <1>0, <1>5, <1>15 DEF Listed, Errs, Reads, Next1, TypeOK, OnHistory
<1>16. CASE Exits(s)
  <2> DEFINE d == [down EXCEPT ![s] = Tail(@)]
             h == [shown EXCEPT !.cur = None, !.view = "loading"]
  <2>1. d \in [Socks -> Seq(Downs)]
    BY <1>16, QueueTyped DEF Exits, Next1, TypeOK
  <2>2. /\ ws' = None /\ transport' = None
        /\ sock' \in [Socks -> SockStates] /\ down' \in [Socks -> Seq(Downs)]
    BY <1>16, <2>1, CloseWsTyped DEF Exits
  <2>3. page' \in PageStates
    BY <1>16 DEF Exits, TypeOK, PageStates
  <2>4. h \in ShownStates /\ h.pos \in DOMAIN h.hist
    BY DEF TypeOK, OnHistory, ShownStates, Names
  <2>5. shown' \in ShownStates /\ OnHistory'
    BY <1>16, <2>4, ReplaceTyped DEF Exits, OnHistory, Names
  <2>6. QED
    BY <1>16, <2>2, <2>3, <2>5 DEF Exits, TypeOK
<1>17. QED
  BY <1>1, <1>2, <1>3, <1>4, <1>6, <1>7, <1>8, <1>9, <1>10, <1>12, <1>13, <1>14, <1>15,
     <1>16 DEF PageTakes

LEMMA UserTyped == Typed /\ User => Typed'
<1> SUFFICES ASSUME Typed, User PROVE Typed'
  OBVIOUS
<1> USE DEF Typed
<1>1. ASSUME NEW n \in Sessions, Click(n) PROVE Typed'
  <2>1. n \in Names /\ <<About("attach", n)>> \in Seq(Ups)
    BY MessagesTyped, OneTyped DEF Names
  <2>2. up' \in [Socks -> Seq(Ups)]
    BY <1>1, <2>1, SendsTyped DEF Click, AttachToSession
  <2>3. srv' \in [Socks -> SrvStates]
    BY <1>1, StraysTyped DEF Click, AttachToSession, CanSend, TypeOK
  <2>4. shown' \in ShownStates /\ OnHistory'
    BY <1>1, <2>1, AttachTyped DEF Click, AttachToSession, OnHistory
  <2>5. QED
    BY <1>1, <2>2, <2>3, <2>4, SpendTyped DEF Click, TypeOK
<1>2. ASSUME NEW n \in Sessions, ClickNew(n) PROVE Typed'
  <2>1. <<About("spawn", n)>> \in Seq(Ups)
    BY MessagesTyped, OneTyped DEF Names
  <2>2. up' \in [Socks -> Seq(Ups)]
    BY <1>2, <2>1, SendsTyped DEF ClickNew
  <2>3. srv' \in [Socks -> SrvStates]
    BY <1>2, StraysTyped DEF ClickNew, CanSend, TypeOK
  <2>4. shown' \in ShownStates /\ OnHistory'
    BY <1>2 DEF ClickNew, TypeOK, ShownStates, OnHistory
  <2>5. QED
    BY <1>2, <2>2, <2>3, <2>4, SpendTyped DEF ClickNew, TypeOK
<1>3. CASE ClickDetach
  <2>1. page' \in PageStates
    BY <1>3 DEF ClickDetach, Detach, TypeOK, PageStates
  <2>2. QED
    BY <1>3, <2>1, DetachTyped, SpendTyped DEF ClickDetach, TypeOK
<1>4. CASE Types
  <2>1. <<About("key", shown.cur)>> \in Seq(Ups)
    BY MessagesTyped, OneTyped DEF TypeOK, ShownStates
  <2>2. up' \in [Socks -> Seq(Ups)]
    BY <1>4, <2>1, SendsTyped DEF Types
  <2>3. QED
    BY <1>4, <2>2 DEF Types, TypeOK, OnHistory
<1>5. ASSUME NEW d \in {-1, 1}, Steps(d) PROVE Typed'
  <2>1. shown' \in ShownStates /\ OnHistory'
    <3>1. shown.pos + d \in DOMAIN shown.hist /\ shown.pos + d \in Nat
      BY <1>5 DEF Steps, TypeOK, ShownStates
    <3>2. QED
      BY <1>5, <3>1 DEF Steps, TypeOK, ShownStates, OnHistory
  <2>2. page' \in PageStates
    BY <1>5 DEF Steps, TypeOK, PageStates
  <2>3. QED
    BY <1>5, <2>1, <2>2, SpendTyped DEF Steps, TypeOK
<1>6. QED
  BY <1>1, <1>2, <1>3, <1>4, <1>5, TimersTyped DEF User

(* What the relay and the daemon keep for one socket, and what they say.   *)
LEMMA ServerAnswersTyped ==
  ASSUME TypeOK, NEW s \in Socks
  PROVE  /\ \A r \in SrvStates : Srv(s, r) => srv' \in [Socks -> SrvStates]
         /\ \A msgs \in Seq(Downs) : Answers(s, msgs) => down' \in [Socks -> Seq(Downs)]
<1>1. \A r \in SrvStates : Srv(s, r) => srv' \in [Socks -> SrvStates]
  BY DEF Srv, TypeOK
<1>2. \A msgs \in Seq(Downs) : Answers(s, msgs) => down' \in [Socks -> Seq(Downs)]
  BY QueueTyped DEF Answers, TypeOK
<1>3. QED
  BY <1>1, <1>2

LEMMA ServerTyped ==
  ASSUME Typed, NEW s \in Socks, ServerTakes(s) \/ Approves(s)
  PROVE  Typed'
<1> USE DEF Typed
<1>1. srv[s] \in SrvStates
  BY DEF TypeOK
<1>2. epoch \in Creds /\ None \in Names
  BY BrowserBounds DEF TypeOK, Creds, Names
<1>3. \A t \in {"waiting", "paired", "welcome", "attached", "sessions", "error"} :
        <<Msg(t)>> \in Seq(Downs)
  BY MessagesTyped
<1>4. ASSUME Elsewhere, epoch' = epoch, left' = left, live' \subseteq Sessions,
             up' \in [Socks -> Seq(Ups)], down' \in [Socks -> Seq(Downs)],
             srv' \in [Socks -> SrvStates]
      PROVE  Typed'
  BY <1>4 DEF Elsewhere, TypeOK, OnHistory
<1>5. ASSUME NEW t, Head1(s, t)
      PROVE  /\ up' \in [Socks -> Seq(Ups)] /\ Elsewhere
             /\ live' \subseteq Sessions /\ epoch' = epoch /\ left' = left
             /\ Head(up[s]).name \in Names
  <2>1. Head(up[s]) \in Ups /\ [up EXCEPT ![s] = Tail(@)] \in [Socks -> Seq(Ups)]
    BY <1>5, QueueTyped DEF Head1, TypeOK
  <2>2. QED
    BY <1>5, <2>1 DEF Head1, TypeOK, Ups
<1>6. Unbridged(srv[s]) \in SrvStates
  BY <1>1, <1>2 DEF Unbridged, SrvStates
<1>7. CASE Admits(s)
  <2>1. <<Msg("revoked"), Msg("close")>> \in Seq(Downs)
    BY MessagesTyped
  <2>2. \A st \in {"paired", "waiting", "gone"} : [srv[s] EXCEPT !.st = st] \in SrvStates
    BY <1>1 DEF SrvStates
  <2>3. srv' \in [Socks -> SrvStates] /\ down' \in [Socks -> Seq(Downs)]
    BY <1>3, <1>7, <2>1, <2>2, ServerAnswersTyped DEF Admits
  <2>4. QED
    BY <1>4, <1>7, <2>3 DEF Admits, TypeOK
<1>8. CASE Approves(s)
  <2>1. [srv[s] EXCEPT !.st = "paired", !.cred = epoch] \in SrvStates
    BY <1>1, <1>2 DEF SrvStates
  <2>2. srv' \in [Socks -> SrvStates] /\ down' \in [Socks -> Seq(Downs)]
    BY <1>3, <1>8, <2>1, ServerAnswersTyped DEF Approves
  <2>3. QED
    BY <1>4, <1>8, <2>2 DEF Approves, TypeOK
<1>9. CASE TakesNoise(s)
  <2>1. [srv[s] EXCEPT !.st = "up"] \in SrvStates /\ srv[s].cred \in Creds
    BY <1>1 DEF SrvStates
  <2>2. <<Msg("welcome"), Approved(srv[s].cred)>> \in Seq(Downs)
    <3>1. Msg("welcome") \in Downs /\ Approved(srv[s].cred) \in Downs
      BY <2>1, MessagesTyped
    <3>2. QED
      BY <3>1
  <2>3. srv' \in [Socks -> SrvStates] /\ down' \in [Socks -> Seq(Downs)]
    BY <1>9, <2>1, <2>2, ServerAnswersTyped DEF TakesNoise
  <2>4. QED
    BY <1>4, <1>5, <1>9, <2>3 DEF TakesNoise
<1>10. CASE TakesAttach(s)
  <2>1. Head(up[s]).name \in Names
    BY <1>5, <1>10 DEF TakesAttach
  <2>2. [Unbridged(srv[s]) EXCEPT !.pend = Head(up[s]).name] \in SrvStates
    BY <1>6, <2>1 DEF SrvStates
  <2>3. srv' \in [Socks -> SrvStates]
    BY <1>10, <2>2, ServerAnswersTyped DEF TakesAttach
  <2>4. QED
    BY <1>4, <1>5, <1>10, <2>3 DEF TakesAttach, TypeOK
<1>11. CASE TakesList(s)
  <2>1. [Unbridged(srv[s]) EXCEPT !.listing = TRUE] \in SrvStates
    BY <1>6 DEF SrvStates
  <2>2. srv' \in [Socks -> SrvStates]
    BY <1>11, <2>1, ServerAnswersTyped DEF TakesList
  <2>3. QED
    BY <1>4, <1>5, <1>11, <2>2 DEF TakesList, TypeOK
<1>12. CASE TakesSpawn(s)
  <2>1. Head(up[s]).name \in Names
    BY <1>5, <1>12 DEF TakesSpawn
  <2>2. [srv[s] EXCEPT !.spawning = Head(up[s]).name] \in SrvStates
    BY <1>1, <2>1 DEF SrvStates
  <2>3. srv' \in [Socks -> SrvStates]
    BY <1>12, <2>2, ServerAnswersTyped DEF TakesSpawn
  <2>4. QED
    BY <1>4, <1>5, <1>12, <2>3 DEF TakesSpawn, TypeOK
<1>13. CASE TakesPacket(s)
  <2>1. srv' \in [Socks -> SrvStates]
    BY <1>6, <1>13, ServerAnswersTyped DEF TakesPacket, TypeOK
  <2>2. QED
    BY <1>4, <1>5, <1>13, <2>1 DEF TakesPacket, TypeOK
<1>14. CASE Dropped(s)
  <2>1. up' \in [Socks -> Seq(Ups)]
    BY <1>14, QueueTyped DEF Dropped, TypeOK
  <2>2. QED
    BY <1>4, <1>14, <2>1 DEF Dropped, TypeOK
<1>15. CASE BridgeConnects(s)
  <2> DEFINE name == srv[s].pend
             msgs == (IF srv[s].born THEN <<About("spawned", name)>> ELSE <<>>)
                       \o <<Msg("attached")>>
  <2>1. name \in Names
    BY <1>1 DEF SrvStates
  <2>2. [Unbridged(srv[s]) EXCEPT !.bridge = name] \in SrvStates
    BY <1>6, <2>1 DEF SrvStates
  <2>3. msgs \in Seq(Downs)
    <3>1. About("spawned", name) \in Downs
      BY <2>1, MessagesTyped
    <3>2. (IF srv[s].born THEN <<About("spawned", name)>> ELSE <<>>) \in Seq(Downs)
      BY <3>1
    <3>3. QED
      BY <1>3, <3>2
  <2>4. srv' \in [Socks -> SrvStates] /\ down' \in [Socks -> Seq(Downs)]
    BY <1>3, <1>6, <1>15, <2>2, <2>3, ServerAnswersTyped DEF BridgeConnects
  <2>5. QED
    BY <1>4, <1>15, <2>4 DEF BridgeConnects, TypeOK
<1>16. CASE ListReplies(s)
  <2>1. [srv[s] EXCEPT !.listing = FALSE] \in SrvStates
    BY <1>1 DEF SrvStates
  <2>2. srv' \in [Socks -> SrvStates] /\ down' \in [Socks -> Seq(Downs)]
    BY <1>3, <1>16, <2>1, ServerAnswersTyped DEF ListReplies
  <2>3. QED
    BY <1>4, <1>16, <2>2 DEF ListReplies, TypeOK
<1>17. CASE SpawnRuns(s)
  <2> DEFINE name == srv[s].spawning
             rest == [srv[s] EXCEPT !.spawning = None]
  <2>1. name \in Sessions /\ rest \in SrvStates
    BY <1>1, <1>2, <1>17 DEF SpawnRuns, SrvStates, Names
  <2>2. [Unbridged(rest) EXCEPT !.pend = name, !.born = TRUE] \in SrvStates
    BY <1>2, <2>1 DEF Unbridged, SrvStates, Names
  <2>3. /\ srv' \in [Socks -> SrvStates] /\ down' \in [Socks -> Seq(Downs)]
        /\ live' \subseteq Sessions
    BY <1>3, <1>17, <2>1, <2>2, ServerAnswersTyped DEF SpawnRuns, TypeOK
  <2>4. QED
    BY <1>4, <1>17, <2>3 DEF SpawnRuns, TypeOK
<1>18. QED
  BY <1>7, <1>8, <1>9, <1>10, <1>11, <1>12, <1>13, <1>14, <1>15, <1>16, <1>17
     DEF ServerTakes

LEMMA EndsTyped ==
  ASSUME Typed, \/ \E s \in Socks : PeerGoes(s)
                \/ \E n \in Sessions : SessionEnds(n)
                \/ Revokes
  PROVE  Typed'
<1> USE DEF Typed
<1>1. \A s \in Socks, t \in {"gone", "exit"} : /\ Append(down[s], Msg(t)) \in Seq(Downs)
                                               /\ <<Msg(t)>> \in Seq(Downs)
  <2>1. \A t \in {"gone", "exit"} : Msg(t) \in Downs
    BY MessagesTyped
  <2>2. QED
    BY <2>1 DEF TypeOK
<1>2. \A r \in SrvStates : Left(r) \in SrvStates
  BY DEF Left, Fresh, SrvStates, Names, Creds
<1>3. ASSUME NEW s \in Socks, PeerGoes(s) PROVE Typed'
  <2>1. srv' \in [Socks -> SrvStates] /\ down' \in [Socks -> Seq(Downs)]
    BY <1>1, <1>2, <1>3, ServerAnswersTyped DEF PeerGoes, TypeOK
  <2>2. left' \in [faults : 0..MaxFaults, acts : 0..MaxActs, gone : BOOLEAN]
    <3>1. left.faults \in 0..MaxFaults /\ left.faults > 0 /\ MaxFaults \in Nat
      BY <1>3, BrowserBounds DEF PeerGoes, TypeOK
    <3>2. left.faults - 1 \in 0..MaxFaults
      BY <3>1
    <3>3. QED
      BY <1>3, <3>2 DEF PeerGoes, TypeOK
  <2>3. Elsewhere /\ UNCHANGED <<up, live, epoch>>
    BY <1>3 DEF PeerGoes
  <2>4. QED
    BY <2>1, <2>2, <2>3 DEF Elsewhere, TypeOK, OnHistory
<1>4. ASSUME NEW n \in Sessions, SessionEnds(n) PROVE Typed'
  <2>1. \A s \in Socks : [srv[s] EXCEPT !.bridge = None] \in SrvStates
    <3>1. \A r \in SrvStates : [r EXCEPT !.bridge = None] \in SrvStates
      BY DEF SrvStates, Names
    <3>2. QED
      BY <3>1 DEF TypeOK
  <2>2. srv' \in [Socks -> SrvStates]
    BY <1>4, <2>1 DEF SessionEnds, TypeOK
  <2>3. down' \in [Socks -> Seq(Downs)]
    BY <1>1, <1>4 DEF SessionEnds, TypeOK
  <2>4. left' \in [faults : 0..MaxFaults, acts : 0..MaxActs, gone : BOOLEAN]
    BY <1>4, SpendTyped DEF SessionEnds
  <2>5. QED
    BY <1>4, <2>2, <2>3, <2>4 DEF SessionEnds, Elsewhere, TypeOK, OnHistory
<1>5. CASE Revokes
  <2>1. srv' \in [Socks -> SrvStates]
    BY <1>2, <1>5 DEF Revokes, TypeOK
  <2>2. down' \in [Socks -> Seq(Downs)]
    BY <1>1, <1>5 DEF Revokes, TypeOK
  <2>3. left' \in [faults : 0..MaxFaults, acts : 0..MaxActs, gone : BOOLEAN]
    BY <1>5, SpendTyped DEF Revokes
  <2>4. epoch' \in 0..MaxRevokes
    <3>1. epoch \in 0..MaxRevokes /\ epoch < MaxRevokes /\ epoch' = epoch + 1
      BY <1>5 DEF Revokes, TypeOK
    <3>2. QED
      BY <3>1, BrowserBounds
  <2>5. QED
    BY <1>5, <2>1, <2>2, <2>3, <2>4 DEF Revokes, Elsewhere, TypeOK, OnHistory
<1>6. QED
  BY <1>3, <1>4, <1>5

LEMMA StutterTyped == Typed /\ UNCHANGED vars => Typed'
BY DEF vars, Typed, TypeOK, OnHistory

LEMMA TypedInvariance == Spec => []Typed
<1>1. Typed /\ [Next]_vars => Typed'
  <2> SUFFICES ASSUME Typed, [Next]_vars PROVE Typed'
    OBVIOUS
  <2>1. CASE Page
    BY <2>1, TimersTyped, SocketTyped DEF Page
  <2>2. CASE User
    BY <2>2, UserTyped
  <2>3. CASE World
    BY <2>3, ServerTyped, SocketTyped, EndsTyped DEF World
  <2>4. QED
    BY <2>1, <2>2, <2>3, StutterTyped DEF Next
<1>2. QED
  BY <1>1, InitTyped, PTL DEF Spec

(* The page, its sockets and what the daemon keeps for them never leave    *)
(* their types; the entry of the tab's history that is on display is one   *)
(* of its entries.                                                         *)
THEOREM BrowserTyped == Spec => []TypeOK
<1>1. Typed => TypeOK
  BY DEF Typed
<1>2. QED
  BY <1>1, TypedInvariance, PTL

-----------------------------------------------------------------------------
(* One socket at a time.  While a connection is being prepared the page    *)
(* has no socket; the global keys are those of its socket, and an open     *)
(* socket they belong to has had its handshake.                            *)

SpeakInv ==
  /\ OnlyCurrentSpeaks /\ StaysAway
  /\ page.resolving => ws = None
  /\ transport \in {None, ws}
  /\ transport # None => sock[transport].st \in {"open", "closed"}
  /\ transport # None /\ sock[transport].st = "open" => sock[transport].done

LEMMA CloseWsSilences ==
  ASSUME TypeOK, SpeakInv, NEW d, CloseWs(d)
  PROVE  /\ ws' = None /\ transport' = None
         /\ \A s \in Socks : sock'[s].st \notin {"connecting", "open"}
<1> SUFFICES ASSUME NEW s \in Socks PROVE sock'[s].st \notin {"connecting", "open"}
  BY DEF CloseWs
<1>1. CASE ws # None /\ sock[ws].st \in {"connecting", "open"}
  <2>1. sock' = [sock EXCEPT ![ws].st = "closing"] /\ sock \in [Socks -> SockStates]
    BY <1>1 DEF CloseWs, TypeOK
  <2>2. CASE s = ws
    BY <2>1, <2>2 DEF SockStates
  <2>3. CASE s # ws
    BY <2>1, <2>3 DEF SpeakInv, OnlyCurrentSpeaks
  <2>4. QED
    BY <2>2, <2>3
<1>2. CASE ~(ws # None /\ sock[ws].st \in {"connecting", "open"})
  BY <1>2, BrowserNone DEF CloseWs, SpeakInv, OnlyCurrentSpeaks, TypeOK
<1>3. QED
  BY <1>1, <1>2

(* A page with no socket that could speak is as it should be, whatever     *)
(* else happens to it, as long as it does not come back once it left.      *)
LEMMA SilentSpeaks ==
  ASSUME ws' = None, transport' = None, StaysAway',
         \A s \in Socks : sock'[s].st \notin {"connecting", "open"}
  PROVE  SpeakInv'
BY DEF SpeakInv, OnlyCurrentSpeaks

(* Nothing here is touched by a step that leaves these alone.              *)
LEMMA SameSpeaks ==
  ASSUME SpeakInv, UNCHANGED <<ws, sock, transport>>,
         page'.resolving = page.resolving, page'.intentional = page.intentional,
         page.intentional => page'.timer = page.timer
  PROVE  SpeakInv'
BY DEF SpeakInv, OnlyCurrentSpeaks, StaysAway

LEMMA OnCloseSpeaks ==
  ASSUME TypeOK, SpeakInv, NEW s \in Socks, OnClose(s)
  PROVE  SpeakInv'
<1>1. sock' = [sock EXCEPT ![s] = Closed] /\ sock \in [Socks -> SockStates]
      /\ UNCHANGED <<ws, transport>>
  BY DEF OnClose, TypeOK
<1>2. \A x \in Socks : sock'[x] = IF x = s THEN Closed ELSE sock[x]
  BY <1>1
<1>3. OnlyCurrentSpeaks'
  BY <1>1, <1>2 DEF SpeakInv, OnlyCurrentSpeaks, Closed
<1>4. /\ page'.resolving = page.resolving /\ page'.intentional = page.intentional
      /\ page.intentional => page'.timer = page.timer
  BY DEF OnClose, ScheduleReconnect, TypeOK, PageStates
<1>5. transport # None => transport \in Socks
  BY DEF TypeOK
<1>6. QED
  BY <1>1, <1>2, <1>3, <1>4, <1>5 DEF SpeakInv, StaysAway, Closed

LEMMA SpeakStep == Typed /\ SpeakInv /\ [Next]_vars => SpeakInv'
<1> SUFFICES ASSUME Typed, SpeakInv, [Next]_vars PROVE SpeakInv'
  OBVIOUS
<1> USE DEF Typed
<1>1. CASE Resolves
  <2> DEFINE free == {c \in Socks : sock[c].st = "closed"}
  <2>1. PICK s \in Socks :
          /\ page' = [page EXCEPT !.resolving = FALSE] /\ page.resolving
          /\ ws' = s /\ sock' = [sock EXCEPT ![s] = [Closed EXCEPT !.st = "connecting"]]
          /\ transport' = transport
    BY <1>1 DEF Resolves
  <2>2. ws = None /\ transport = None /\ ~page.intentional
    BY <2>1 DEF SpeakInv, StaysAway
  <2>3. \A x \in Socks : sock'[x] = IF x = s THEN [Closed EXCEPT !.st = "connecting"]
                                    ELSE sock[x]
    BY <2>1 DEF TypeOK
  <2>4. \A x \in Socks : sock[x].st \notin {"connecting", "open"}
    BY <2>2, BrowserNone DEF SpeakInv, OnlyCurrentSpeaks
  <2>5. OnlyCurrentSpeaks'
    BY <2>1, <2>3, <2>4 DEF OnlyCurrentSpeaks, Closed
  <2>6. page'.resolving = FALSE /\ page'.intentional = page.intentional
    BY <2>1 DEF TypeOK, PageStates
  <2>7. QED
    BY <2>1, <2>2, <2>5, <2>6 DEF SpeakInv, StaysAway
<1>2. CASE TimerFires
  <2>1. /\ ws' = None /\ transport' = None
        /\ \A s \in Socks : sock'[s].st \notin {"connecting", "open"}
    BY <1>2, CloseWsSilences DEF TimerFires, ConnectToRelay
  <2>2. page'.intentional = page.intentional /\ ~page.intentional
    BY <1>2 DEF TimerFires, ConnectToRelay, TypeOK, PageStates, SpeakInv, StaysAway
  <2>3. QED
    BY <2>1, <2>2, SilentSpeaks DEF StaysAway
<1>3. CASE PopFires
  <2>1. UNCHANGED <<ws, sock, transport>>
    BY <1>3 DEF PopFires
  <2>2. \/ page' = [page EXCEPT !.popTimer = FALSE]
        \/ page' = [[page EXCEPT !.popTimer = FALSE] EXCEPT !.attached = FALSE]
    BY <1>3 DEF PopFires, Detach
  <2>3. page \in PageStates
    BY DEF TypeOK
  <2>4. /\ page'.resolving = page.resolving /\ page'.intentional = page.intentional
        /\ page'.timer = page.timer
    BY <2>2, <2>3 DEF PageStates
  <2>5. QED
    BY <2>1, <2>4, SameSpeaks
<1>4. CASE Load
  <2>1. \A s \in Socks : sock'[s].st \notin {"connecting", "open"}
    BY <1>4 DEF Load, Closed
  <2>2. StaysAway' /\ ws' = None /\ transport' = None
    BY <1>4 DEF Load, Loaded, StaysAway
  <2>3. QED
    BY <2>1, <2>2, SilentSpeaks
<1>5. ASSUME NEW s \in Socks, Opens(s) PROVE SpeakInv'
  <2>1. \A x \in Socks : sock'[x] = IF x = s THEN [sock[s] EXCEPT !.st = "open"]
                                    ELSE sock[x]
    BY <1>5 DEF Opens, TypeOK
  <2>2. sock[s].st = "connecting" /\ sock[s] \in SockStates /\ transport # s
    BY <1>5, BrowserNone DEF Opens, SpeakInv, TypeOK
  <2>3. sock'[s].st = "open" /\ sock'[s].done = sock[s].done
    BY <2>1, <2>2 DEF SockStates
  <2>4. UNCHANGED <<ws, transport, page>>
    BY <1>5 DEF Opens
  <2>5. transport \in Socks \cup {None} /\ None \notin Socks
    BY BrowserNone DEF TypeOK
  <2>6. OnlyCurrentSpeaks'
    BY <2>1, <2>2, <2>3, <2>4 DEF SpeakInv, OnlyCurrentSpeaks
  <2>7. QED
    BY <2>1, <2>2, <2>4, <2>5, <2>6 DEF SpeakInv, StaysAway
<1>6. ASSUME NEW s \in Socks, CloseArrives(s) \/ Breaks(s) \/ RefusedClose(s)
      PROVE  SpeakInv'
  BY <1>6, OnCloseSpeaks DEF CloseArrives, Breaks, RefusedClose
<1>7. ASSUME NEW s \in Socks,
             \/ Waiting(s) \/ Paired(s) \/ PeerDisconnected(s) \/ Revoked(s)
             \/ ApprovedMsg(s) \/ Attached(s) \/ Spawned(s) \/ Listed(s) \/ Errs(s)
      PROVE  SpeakInv'
  <2>1. UNCHANGED <<ws, sock, transport>>
    BY <1>7 DEF Waiting, Paired, PeerDisconnected, Revoked, ApprovedMsg, Attached,
                Spawned, Listed, Errs
  <2>2. \/ page' = page \/ page' = ScheduleReconnect(page)
        \/ page' = [page EXCEPT !.reloading = TRUE]
        \/ page' = [page EXCEPT !.attached = TRUE]
    BY <1>7 DEF Waiting, Paired, PeerDisconnected, Revoked, ApprovedMsg, Attached,
                Spawned, Listed, Errs
  <2>3. page \in PageStates
    BY DEF TypeOK
  <2>4. /\ page'.resolving = page.resolving /\ page'.intentional = page.intentional
        /\ page.intentional => page'.timer = page.timer
    BY <2>2, <2>3 DEF PageStates, ScheduleReconnect
  <2>5. QED
    BY <2>1, <2>4, SameSpeaks
<1>8. ASSUME NEW s \in Socks, Welcome(s) PROVE SpeakInv'
  <2>1. /\ sock[s].st = "open" /\ transport' = s /\ UNCHANGED <<ws, page>>
        /\ sock' = [sock EXCEPT ![s].done = TRUE]
    BY <1>8 DEF Welcome, Next1
  <2>2. s = ws
    BY <2>1 DEF SpeakInv, OnlyCurrentSpeaks
  <2>3. \A x \in Socks : sock'[x] = IF x = s THEN [sock[s] EXCEPT !.done = TRUE]
                                    ELSE sock[x]
    BY <2>1 DEF TypeOK
  <2>4. sock'[s].st = "open" /\ sock'[s].done
    BY <2>1, <2>3 DEF TypeOK, SockStates
  <2>5. OnlyCurrentSpeaks'
    BY <2>1, <2>2, <2>3 DEF SpeakInv, OnlyCurrentSpeaks
  <2>6. QED
    BY <2>1, <2>2, <2>4, <2>5 DEF SpeakInv, StaysAway
<1>9. ASSUME NEW s \in Socks, Exits(s) PROVE SpeakInv'
  <2>1. /\ ws' = None /\ transport' = None
        /\ \A x \in Socks : sock'[x].st \notin {"connecting", "open"}
    BY <1>9, CloseWsSilences DEF Exits
  <2>2. ~page.resolving
    BY <1>9, BrowserNone DEF Exits, Next1, SpeakInv, OnlyCurrentSpeaks
  <2>3. ~page'.resolving /\ ~page'.timer
    BY <1>9, <2>2 DEF Exits, TypeOK, PageStates
  <2>4. QED
    BY <2>1, <2>3, SilentSpeaks DEF StaysAway
<1>10. CASE User
  <2>1. CASE Refresh
    BY <1>4, <2>1 DEF Refresh
  <2>2. ASSUME NEW n \in Sessions, Click(n) \/ ClickNew(n) PROVE SpeakInv'
    BY <2>2, SameSpeaks DEF Click, ClickNew
  <2>3. CASE ClickDetach
    BY <2>3, SameSpeaks DEF ClickDetach, Detach, TypeOK, PageStates
  <2>4. CASE Types
    BY <2>4, SameSpeaks DEF Types
  <2>5. ASSUME NEW d, Steps(d) PROVE SpeakInv'
    BY <2>5, SameSpeaks DEF Steps, TypeOK, PageStates
  <2>6. QED
    BY <1>10, <2>1, <2>2, <2>3, <2>4, <2>5 DEF User
<1>11. CASE World
  <2>1. CASE \E s \in Socks : Breaks(s)
    BY <1>6, <2>1
  <2>2. ASSUME UNCHANGED <<ws, sock, transport, page>> PROVE SpeakInv'
    BY <2>2, SameSpeaks
  <2>3. ASSUME NEW s \in Socks, ServerTakes(s) \/ Approves(s) \/ PeerGoes(s)
        PROVE  UNCHANGED <<ws, sock, transport, page>>
    BY <2>3 DEF ServerTakes, Approves, PeerGoes, Admits, TakesNoise, TakesAttach,
                TakesList, TakesSpawn, TakesPacket, Dropped, BridgeConnects, ListReplies,
                SpawnRuns, Head1, Elsewhere
  <2>4. CASE Revokes \/ \E n \in Sessions : SessionEnds(n)
    BY <2>2, <2>4 DEF Revokes, SessionEnds, Elsewhere
  <2>5. QED
    BY <1>11, <2>1, <2>2, <2>3, <2>4 DEF World
<1>12. CASE UNCHANGED vars
  BY <1>12, SameSpeaks DEF vars
<1>13. CASE Page
  BY <1>1, <1>2, <1>3, <1>4, <1>5, <1>6, <1>7, <1>8, <1>9, <1>13
     DEF Page, PageTakes, ReloadFires
<1>14. QED
  BY <1>10, <1>11, <1>12, <1>13 DEF Next

LEMMA SpeakInvariance == Spec => [](Typed /\ SpeakInv)
<1>1. Init => SpeakInv
  BY BrowserNone DEF Init, SpeakInv, OnlyCurrentSpeaks, StaysAway, Closed, Loaded
<1>2. QED
  BY <1>1, SpeakStep, TypedInvariance, PTL DEF Spec

(* For any number of sockets: one at most can speak to the page, its own,  *)
(* and nothing is sent to it or read from it with the keys of another      *)
(* (connectToRelay, sendEncrypted and onmessage of browser/src/main.ts).   *)
THEOREM OnlyCurrent == Spec => []OnlyCurrentSpeaks
<1>1. SpeakInv => OnlyCurrentSpeaks
  BY DEF SpeakInv
<1>2. QED
  BY <1>1, SpeakInvariance, PTL

(* After a session has exited nothing brings the page back, whatever close *)
(* events and answers are still to come (disconnect, scheduleReconnect).   *)
THEOREM StaysAwayHolds == Spec => []StaysAway
<1>1. SpeakInv => StaysAway
  BY DEF SpeakInv
<1>2. QED
  BY <1>1, SpeakInvariance, PTL

-----------------------------------------------------------------------------
(* Where a key goes.  A message of the page aims the daemon at a session   *)
(* (attach) or at none (list, detach); a key goes wherever the last one    *)
(* before it aims, or, with none before it, to what is bridged already.    *)

Aims(m) == m.type \in {"attach", "list", "detach"}
Aim(m) == IF m.type = "attach" THEN m.name ELSE None

(* What the first i messages of q leave the daemon aimed at, if it is at r *)
(* now, is session n or none.                                              *)
Leads(q, i, r, n) ==
  /\ (\A j \in 1..i : ~Aims(q[j])) => r \in {None, n}
  /\ \A k \in 1..i : Aims(q[k]) /\ (\A j \in (k + 1)..i : ~Aims(q[j]))
                       => Aim(q[k]) \in {None, n}

Has(q, t) == \E i \in DOMAIN q : q[i].type = t
Single(q, t) == \A i, j \in DOMAIN q : q[i].type = t /\ q[j].type = t => i = j

(* A spawn is unanswered: under way, running, being bridged, or its answer *)
(* is on the way.                                                          *)
Owed(q, d, r) == \/ Has(q, "spawn") \/ r.spawning # None \/ r.born
                 \/ Has(d, "spawned")

KeysAimed(q, r) ==
  \A i \in DOMAIN q : q[i].type = "key" =>
    /\ Leads(q, i - 1, Reaches(r), q[i].name)
    /\ r.spawning = None /\ \A j \in 1..(i - 1) : q[j].type # "spawn"

(* At most one spawn is unanswered, and it is at one place.                *)
OneOwed(q, d, r) ==
  /\ Single(q, "spawn") /\ Single(d, "spawned")
  /\ Has(q, "spawn") => r.spawning = None /\ ~r.born /\ ~Has(d, "spawned")
  /\ r.spawning # None => ~r.born /\ ~Has(d, "spawned")
  /\ r.born => ~Has(d, "spawned")

(* The page has not moved elsewhere since it asked for one.                *)
NoneSince(q, d, r) ==
  /\ \A i, j \in DOMAIN q : q[i].type = "spawn" /\ q[j].type = "attach" => j < i
  /\ r.spawning # None \/ r.born \/ Has(d, "spawned") => ~Has(q, "attach")

(* The answer names the session the daemon is aimed at by then.            *)
AnswerAimed(q, d, r) ==
  \A i \in DOMAIN d : d[i].type = "spawned" => Leads(q, Len(q), Reaches(r), d[i].name)

Aimed(q, d, r) ==
  KeysAimed(q, r) /\ OneOwed(q, d, r) /\ NoneSince(q, d, r) /\ AnswerAimed(q, d, r)

(* What the page shows, session n, is where its next key would go.         *)
OnDisplay(q, d, r, n) == ~Owed(q, d, r) /\ Leads(q, Len(q), Reaches(r), n)

Answered(r) == r.st # "gone" /\ ~r.stray

(* What is so of every socket.  The daemon bridges and spawns for a peer   *)
(* that is up, and bridges one session at a time; before the page's end of *)
(* the handshake nothing but noise is sent.                                *)
SockInv(s) ==
  /\ sock[s].st = "closed" => up[s] = <<>> /\ down[s] = <<>> /\ ~sock[s].done
  /\ srv[s].bridge = None \/ srv[s].pend = None
  /\ srv[s].st # "up" => Reaches(srv[s]) = None /\ srv[s].spawning = None
  /\ ~sock[s].done => /\ \A i \in DOMAIN up[s] : up[s][i].type = "noise"
                      /\ ~Owed(up[s], down[s], srv[s]) /\ Reaches(srv[s]) = None
  /\ Answered(srv[s]) => Aimed(up[s], down[s], srv[s])
  /\ Answered(srv[s]) /\ transport = s /\ shown.view = "terminal" =>
       OnDisplay(up[s], down[s], srv[s], shown.cur)

AimedInv == \A s \in Socks : SockInv(s)

LEMMA LeadsAppend ==
  ASSUME NEW q \in Seq(Ups), NEW m \in Ups, NEW r, NEW n
  PROVE  /\ \A i \in 0..Len(q) : Leads(Append(q, m), i, r, n) <=> Leads(q, i, r, n)
         /\ ~Aims(m) => (Leads(Append(q, m), Len(q) + 1, r, n) <=> Leads(q, Len(q), r, n))
         /\ Aims(m) /\ Aim(m) \in {None, n} => Leads(Append(q, m), Len(q) + 1, r, n)
<1>1. /\ Len(q) \in Nat /\ Append(q, m)[Len(q) + 1] = m
      /\ \A i \in 1..Len(q) : Append(q, m)[i] = q[i]
  OBVIOUS
<1> DEFINE w == Append(q, m)
<1> HIDE DEF w
<1>2. /\ w[Len(q) + 1] = m
      /\ \A i \in 1..Len(q) : w[i] = q[i]
  BY <1>1 DEF w
<1>3. ASSUME NEW i \in 0..Len(q)
      PROVE  Leads(w, i, r, n) <=> Leads(q, i, r, n)
  <2>1. \A j \in 1..i : w[j] = q[j]
    BY <1>1, <1>2
  <2>2. \A k \in 1..i : \A j \in (k + 1)..i : j \in 1..i
    OBVIOUS
  <2>3. QED
    BY <2>1, <2>2 DEF Leads
<1>4. ASSUME ~Aims(m)
      PROVE  Leads(w, Len(q) + 1, r, n) <=> Leads(w, Len(q), r, n)
  <2>1. \A j \in 1..(Len(q) + 1) : Aims(w[j]) => j \in 1..Len(q)
    BY <1>1, <1>2, <1>4
  <2>2. \A j \in 1..Len(q) : j \in 1..(Len(q) + 1)
    BY <1>1
  <2>3. \A k \in 1..Len(q) : /\ \A j \in (k + 1)..Len(q) : j \in (k + 1)..(Len(q) + 1)
                             /\ \A j \in (k + 1)..(Len(q) + 1) :
                                  Aims(w[j]) => j \in (k + 1)..Len(q)
    BY <1>1, <2>1
  <2>4. QED
    BY <2>1, <2>2, <2>3 DEF Leads
<1>5. ASSUME Aims(m), Aim(m) \in {None, n}
      PROVE  Leads(w, Len(q) + 1, r, n)
  <2>1. Aims(w[Len(q) + 1]) /\ Len(q) + 1 \in 1..(Len(q) + 1)
    BY <1>1, <1>2, <1>5
  <2>2. ASSUME NEW k \in 1..(Len(q) + 1), \A j \in (k + 1)..(Len(q) + 1) : ~Aims(w[j])
        PROVE  w[k] = m
    BY <1>1, <1>2, <2>1, <2>2
  <2>3. QED
    BY <1>5, <2>1, <2>2 DEF Leads
<1>6. QED
  BY <1>1, <1>3, <1>4, <1>5 DEF w

LEMMA LeadsTail ==
  ASSUME NEW q \in Seq(Ups), q # <<>>, NEW i \in 1..Len(q), NEW r, NEW r2, NEW n,
         Leads(q, i, r, n),
         r2 \in {None, IF Aims(Head(q)) THEN Aim(Head(q)) ELSE r}
  PROVE  Leads(Tail(q), i - 1, r2, n)
<1>1. /\ Len(q) \in Nat /\ Len(q) >= 1 /\ Head(q) = q[1]
      /\ \A j \in 1..(Len(q) - 1) : Tail(q)[j] = q[j + 1]
  OBVIOUS
<1> DEFINE w == Tail(q)
<1> HIDE DEF w
<1>2. \A j \in 2..i : q[j] = w[j - 1]
  BY <1>1 DEF w
<1>3. ASSUME \A j \in 1..(i - 1) : ~Aims(w[j]) PROVE r2 \in {None, n}
  <2>1. \A j \in 2..i : ~Aims(q[j])
    BY <1>2, <1>3
  <2>2. CASE Aims(Head(q))
    <3>1. Aim(q[1]) \in {None, n}
      BY <1>1, <2>1, <2>2 DEF Leads
    <3>2. QED
      BY <1>1, <2>2, <3>1
  <2>3. CASE ~Aims(Head(q))
    <3>1. \A j \in 1..i : ~Aims(q[j])
      BY <1>1, <2>1, <2>3
    <3>2. QED
      BY <2>3, <3>1 DEF Leads
  <2>4. QED
    BY <2>2, <2>3
<1>4. ASSUME NEW k \in 1..(i - 1), Aims(w[k]), \A j \in (k + 1)..(i - 1) : ~Aims(w[j])
      PROVE  Aim(w[k]) \in {None, n}
  <2>1. k + 1 \in 1..i /\ w[k] = q[k + 1]
    BY <1>1 DEF w
  <2>2. \A j \in (k + 2)..i : ~Aims(q[j])
    BY <1>2, <1>4
  <2>3. QED
    BY <1>4, <2>1, <2>2 DEF Leads
<1>5. QED
  BY <1>3, <1>4 DEF Leads, w

LEMMA LeadsLess ==
  ASSUME NEW q, NEW i, NEW r, NEW r2 \in {None, r}, NEW n, Leads(q, i, r, n)
  PROVE  Leads(q, i, r2, n)
BY DEF Leads

(* The page says more: what is said before the handshake, a detach, a list.*)
LEMMA SaysOther ==
  ASSUME NEW q \in Seq(Ups), NEW d \in Seq(Downs), NEW r \in SrvStates, NEW m \in Ups,
         m.type \in {"noise", "list", "detach"}, Aimed(q, d, r)
  PROVE  Aimed(Append(q, m), d, r)
<1> DEFINE w == Append(q, m)
<1>1. /\ Len(q) \in Nat /\ Len(w) = Len(q) + 1 /\ w[Len(q) + 1] = m
      /\ \A i \in 1..Len(q) : w[i] = q[i]
  OBVIOUS
<1>2. DOMAIN q = 1..Len(q) /\ DOMAIN w = 1..(Len(q) + 1)
  BY <1>1
<1>3. \A n : \A i \in 0..Len(q) : Leads(w, i, Reaches(r), n) <=> Leads(q, i, Reaches(r), n)
  BY LeadsAppend
<1>4. \A n : Leads(q, Len(q), Reaches(r), n) => Leads(w, Len(w), Reaches(r), n)
  <2>1. Aims(m) => Aim(m) = None
    BY DEF Aims, Aim
  <2>2. QED
    BY <1>1, <2>1, LeadsAppend
<1> HIDE DEF w
<1>5. \A i \in DOMAIN w : w[i].type \in {"key", "spawn", "attach"} => i \in 1..Len(q) /\ w[i] = q[i]
  BY <1>1, <1>2
<1>6. KeysAimed(w, r)
  <2> SUFFICES ASSUME NEW i \in DOMAIN w, w[i].type = "key"
               PROVE  /\ Leads(w, i - 1, Reaches(r), w[i].name)
                      /\ r.spawning = None /\ \A j \in 1..(i - 1) : w[j].type # "spawn"
    BY DEF KeysAimed
  <2>1. i \in 1..Len(q) /\ w[i] = q[i] /\ q[i].type = "key" /\ i - 1 \in 0..Len(q)
    BY <1>1, <1>5
  <2>2. /\ Leads(q, i - 1, Reaches(r), q[i].name)
        /\ r.spawning = None /\ \A j \in 1..(i - 1) : q[j].type # "spawn"
    BY <1>2, <2>1 DEF Aimed, KeysAimed
  <2>3. QED
    BY <1>1, <1>3, <2>1, <2>2
<1>7. OneOwed(w, d, r)
  BY <1>2, <1>5 DEF Aimed, OneOwed, Single, Has
<1>8. NoneSince(w, d, r)
  BY <1>2, <1>5 DEF Aimed, NoneSince, Has
<1>9. AnswerAimed(w, d, r)
  BY <1>4 DEF Aimed, AnswerAimed
<1>10. QED
  BY <1>6, <1>7, <1>8, <1>9 DEF Aimed, w

(* ... an attach, with no spawn unanswered: the daemon will be aimed at    *)
(* what the page shows then.                                               *)
LEMMA SaysAttach ==
  ASSUME NEW q \in Seq(Ups), NEW d \in Seq(Downs), NEW r \in SrvStates, NEW m \in Ups,
         m.type = "attach", Aimed(q, d, r), ~Owed(q, d, r)
  PROVE  Aimed(Append(q, m), d, r) /\ OnDisplay(Append(q, m), d, r, m.name)
<1> DEFINE w == Append(q, m)
<1>1. /\ Len(q) \in Nat /\ Len(w) = Len(q) + 1 /\ w[Len(q) + 1] = m
      /\ \A i \in 1..Len(q) : w[i] = q[i]
  OBVIOUS
<1>2. DOMAIN q = 1..Len(q) /\ DOMAIN w = 1..(Len(q) + 1)
  BY <1>1
<1>3. \A n : \A i \in 0..Len(q) : Leads(w, i, Reaches(r), n) <=> Leads(q, i, Reaches(r), n)
  BY LeadsAppend
<1>4. Leads(w, Len(w), Reaches(r), m.name)
  <2>1. Aims(m) /\ Aim(m) = m.name
    BY DEF Aims, Aim
  <2>2. Leads(w, Len(q) + 1, Reaches(r), m.name)
    BY <2>1, LeadsAppend
  <2>3. QED
    BY <1>1, <2>2
<1> HIDE DEF w
<1>5. \A i \in DOMAIN w : w[i].type \in {"key", "spawn"} => i \in 1..Len(q) /\ w[i] = q[i]
  BY <1>1, <1>2
<1>6. KeysAimed(w, r)
  <2> SUFFICES ASSUME NEW i \in DOMAIN w, w[i].type = "key"
               PROVE  /\ Leads(w, i - 1, Reaches(r), w[i].name)
                      /\ r.spawning = None /\ \A j \in 1..(i - 1) : w[j].type # "spawn"
    BY DEF KeysAimed
  <2>1. i \in 1..Len(q) /\ w[i] = q[i] /\ q[i].type = "key" /\ i - 1 \in 0..Len(q)
    BY <1>1, <1>5
  <2>2. /\ Leads(q, i - 1, Reaches(r), q[i].name)
        /\ r.spawning = None /\ \A j \in 1..(i - 1) : q[j].type # "spawn"
    BY <1>2, <2>1 DEF Aimed, KeysAimed
  <2>3. QED
    BY <1>1, <1>3, <2>1, <2>2
<1>7. ~Owed(w, d, r)
  BY <1>2, <1>5 DEF Owed, Has
<1>8. OneOwed(w, d, r) /\ NoneSince(w, d, r) /\ AnswerAimed(w, d, r)
  <2>1. ~Has(w, "spawn") /\ r.spawning = None /\ ~r.born /\ ~Has(d, "spawned")
    BY <1>7 DEF Owed
  <2>2. QED
    BY <2>1 DEF OneOwed, NoneSince, AnswerAimed, Single, Has
<1>9. QED
  BY <1>4, <1>6, <1>7, <1>8 DEF Aimed, OnDisplay, w

(* ... a spawn, with no other unanswered.                                  *)
LEMMA SaysSpawn ==
  ASSUME NEW q \in Seq(Ups), NEW d \in Seq(Downs), NEW r \in SrvStates, NEW m \in Ups,
         m.type = "spawn", Aimed(q, d, r), ~Owed(q, d, r)
  PROVE  Aimed(Append(q, m), d, r)
<1> DEFINE w == Append(q, m)
<1>1. /\ Len(q) \in Nat /\ Len(w) = Len(q) + 1 /\ w[Len(q) + 1] = m
      /\ \A i \in 1..Len(q) : w[i] = q[i]
  OBVIOUS
<1>2. DOMAIN q = 1..Len(q) /\ DOMAIN w = 1..(Len(q) + 1)
  BY <1>1
<1>3. \A n : \A i \in 0..Len(q) : Leads(w, i, Reaches(r), n) <=> Leads(q, i, Reaches(r), n)
  BY LeadsAppend
<1> HIDE DEF w
<1>4. /\ \A i \in 1..Len(q) : q[i].type # "spawn"
      /\ r.spawning = None /\ ~r.born /\ ~Has(d, "spawned")
  BY <1>2 DEF Owed, Has
<1>5. \A i \in DOMAIN w : w[i].type \in {"key", "attach"} => i \in 1..Len(q) /\ w[i] = q[i]
  BY <1>1, <1>2
<1>6. \A i \in DOMAIN w : w[i].type = "spawn" <=> i = Len(q) + 1
  BY <1>1, <1>2, <1>4
<1>7. KeysAimed(w, r)
  <2> SUFFICES ASSUME NEW i \in DOMAIN w, w[i].type = "key"
               PROVE  /\ Leads(w, i - 1, Reaches(r), w[i].name)
                      /\ r.spawning = None /\ \A j \in 1..(i - 1) : w[j].type # "spawn"
    BY DEF KeysAimed
  <2>1. i \in 1..Len(q) /\ w[i] = q[i] /\ q[i].type = "key" /\ i - 1 \in 0..Len(q)
    BY <1>1, <1>5
  <2>2. Leads(q, i - 1, Reaches(r), q[i].name)
    BY <1>2, <2>1 DEF Aimed, KeysAimed
  <2>3. QED
    BY <1>1, <1>3, <1>4, <2>1, <2>2
<1>8. OneOwed(w, d, r)
  BY <1>4, <1>6 DEF OneOwed, Single, Has
<1>9. NoneSince(w, d, r)
  BY <1>1, <1>4, <1>5, <1>6 DEF NoneSince
<1>10. AnswerAimed(w, d, r)
  BY <1>4 DEF AnswerAimed, Has
<1>11. QED
  BY <1>7, <1>8, <1>9, <1>10 DEF Aimed, w

(* ... a key, at the session on display.                                   *)
LEMMA SaysKey ==
  ASSUME NEW q \in Seq(Ups), NEW d \in Seq(Downs), NEW r \in SrvStates, NEW m \in Ups,
         m.type = "key", Aimed(q, d, r), OnDisplay(q, d, r, m.name)
  PROVE  Aimed(Append(q, m), d, r) /\ OnDisplay(Append(q, m), d, r, m.name)
<1> DEFINE w == Append(q, m)
<1>1. /\ Len(q) \in Nat /\ Len(w) = Len(q) + 1 /\ w[Len(q) + 1] = m
      /\ \A i \in 1..Len(q) : w[i] = q[i]
  OBVIOUS
<1>2. DOMAIN q = 1..Len(q) /\ DOMAIN w = 1..(Len(q) + 1)
  BY <1>1
<1>3. \A n : \A i \in 0..Len(q) : Leads(w, i, Reaches(r), n) <=> Leads(q, i, Reaches(r), n)
  BY LeadsAppend
<1>4. \A n : Leads(q, Len(q), Reaches(r), n) => Leads(w, Len(w), Reaches(r), n)
  BY <1>1, LeadsAppend DEF Aims
<1> HIDE DEF w
<1>5. /\ \A i \in 1..Len(q) : q[i].type # "spawn"
      /\ r.spawning = None /\ ~r.born /\ ~Has(d, "spawned")
  BY <1>2 DEF OnDisplay, Owed, Has
<1>6. \A i \in DOMAIN w : w[i].type # "spawn"
  BY <1>1, <1>2, <1>5
<1>7. KeysAimed(w, r)
  <2> SUFFICES ASSUME NEW i \in DOMAIN w, w[i].type = "key"
               PROVE  Leads(w, i - 1, Reaches(r), w[i].name)
    BY <1>1, <1>2, <1>5, <1>6 DEF KeysAimed
  <2>1. CASE i \in 1..Len(q)
    <3>1. w[i] = q[i] /\ i - 1 \in 0..Len(q)
      BY <1>1, <2>1
    <3>2. Leads(q, i - 1, Reaches(r), q[i].name)
      BY <1>2, <2>1, <3>1 DEF Aimed, KeysAimed
    <3>3. QED
      BY <1>3, <3>1, <3>2
  <2>2. CASE i = Len(q) + 1
    <3>1. i - 1 = Len(q) /\ Len(q) \in 0..Len(q) /\ w[i] = m
      BY <1>1, <2>2
    <3>2. QED
      BY <1>3, <3>1 DEF OnDisplay
  <2>3. QED
    BY <1>1, <1>2, <2>1, <2>2
<1>8. ~Owed(w, d, r)
  BY <1>5, <1>6 DEF Owed, Has
<1>9. OneOwed(w, d, r) /\ NoneSince(w, d, r) /\ AnswerAimed(w, d, r)
  BY <1>5, <1>6 DEF OneOwed, NoneSince, AnswerAimed, Single, Has
<1>10. QED
  BY <1>4, <1>7, <1>8, <1>9 DEF Aimed, OnDisplay, w

(* The daemon takes what is not a spawn: its aim moves as the message says.*)
LEMMA TakesOther ==
  ASSUME NEW q \in Seq(Ups), NEW d \in Seq(Downs), NEW r \in SrvStates, NEW r2 \in SrvStates,
         q # <<>>, Head(q).type # "spawn", Aimed(q, d, r),
         r2.spawning = r.spawning, r2.born => r.born,
         Reaches(r2) \in {None, IF Aims(Head(q)) THEN Aim(Head(q)) ELSE Reaches(r)}
  PROVE  /\ Aimed(Tail(q), d, r2)
         /\ \A n : OnDisplay(q, d, r, n) => OnDisplay(Tail(q), d, r2, n)
<1> DEFINE w == Tail(q)
<1>1. /\ Len(q) \in Nat /\ Len(q) >= 1 /\ Len(w) = Len(q) - 1
      /\ \A i \in 1..Len(w) : w[i] = q[i + 1]
  OBVIOUS
<1>2. DOMAIN q = 1..Len(q) /\ DOMAIN w = 1..(Len(q) - 1)
  BY <1>1
<1>3. \A n : \A i \in 1..Len(q) : Leads(q, i, Reaches(r), n) => Leads(w, i - 1, Reaches(r2), n)
  BY LeadsTail
<1> HIDE DEF w
<1>4. \A i \in DOMAIN w : i + 1 \in DOMAIN q /\ w[i] = q[i + 1]
  BY <1>1, <1>2
<1>5. KeysAimed(w, r2)
  <2> SUFFICES ASSUME NEW i \in DOMAIN w, w[i].type = "key"
               PROVE  /\ Leads(w, i - 1, Reaches(r2), w[i].name)
                      /\ r2.spawning = None /\ \A j \in 1..(i - 1) : w[j].type # "spawn"
    BY DEF KeysAimed
  <2>1. i + 1 \in DOMAIN q /\ q[i + 1] = w[i] /\ (i + 1) - 1 = i /\ i \in 1..Len(q)
    BY <1>1, <1>2, <1>4
  <2>2. /\ Leads(q, i, Reaches(r), q[i + 1].name)
        /\ r.spawning = None /\ \A j \in 1..i : q[j].type # "spawn"
    BY <2>1 DEF Aimed, KeysAimed
  <2>3. \A j \in 1..(i - 1) : j \in DOMAIN w /\ j + 1 \in 1..i
    BY <1>2, <2>1
  <2>4. QED
    BY <1>3, <1>4, <2>1, <2>2, <2>3
<1>6. /\ Has(w, "spawn") => Has(q, "spawn")
      /\ Has(w, "attach") => Has(q, "attach")
  BY <1>4 DEF Has
<1>7. Single(w, "spawn")
  <2> SUFFICES ASSUME NEW i \in DOMAIN w, NEW j \in DOMAIN w,
                      w[i].type = "spawn", w[j].type = "spawn"
               PROVE  i = j
    BY DEF Single
  <2>1. i + 1 = j + 1
    BY <1>4 DEF Aimed, OneOwed, Single
  <2>2. QED
    BY <1>2, <2>1
<1>8. OneOwed(w, d, r2)
  BY <1>6, <1>7 DEF Aimed, OneOwed
<1>9. NoneSince(w, d, r2)
  <2>1. ASSUME NEW i \in DOMAIN w, NEW j \in DOMAIN w, w[i].type = "spawn", w[j].type = "attach"
        PROVE  j < i
    <3>1. j + 1 < i + 1
      BY <1>4, <2>1 DEF Aimed, NoneSince
    <3>2. QED
      BY <1>2, <3>1
  <2>2. QED
    BY <1>6, <2>1 DEF Aimed, NoneSince
<1>10. AnswerAimed(w, d, r2)
  <2>1. Len(q) \in 1..Len(q) /\ Len(q) - 1 = Len(w)
    BY <1>1
  <2>2. QED
    BY <1>3, <2>1 DEF Aimed, AnswerAimed
<1>11. \A n : OnDisplay(q, d, r, n) => OnDisplay(w, d, r2, n)
  <2>1. Len(q) \in 1..Len(q) /\ Len(q) - 1 = Len(w)
    BY <1>1
  <2>2. QED
    BY <1>3, <1>6, <2>1 DEF OnDisplay, Owed
<1>12. QED
  BY <1>5, <1>8, <1>9, <1>10, <1>11 DEF Aimed, w

(* ... a spawn: the answer is awaited from now on.                         *)
LEMMA TakesOwed ==
  ASSUME NEW q \in Seq(Ups), NEW d \in Seq(Downs), NEW r \in SrvStates, NEW r2 \in SrvStates,
         q # <<>>, Head(q).type = "spawn", Aimed(q, d, r),
         r2.born = r.born, Reaches(r2) = Reaches(r)
  PROVE  Aimed(Tail(q), d, r2) /\ \A n : ~OnDisplay(q, d, r, n)
<1> DEFINE w == Tail(q)
<1>1. /\ Len(q) \in Nat /\ Len(q) >= 1 /\ Len(w) = Len(q) - 1 /\ Head(q) = q[1]
      /\ \A i \in 1..Len(w) : w[i] = q[i + 1]
  OBVIOUS
<1>2. DOMAIN q = 1..Len(q) /\ DOMAIN w = 1..(Len(q) - 1)
  BY <1>1
<1> HIDE DEF w
<1>3. 1 \in DOMAIN q /\ q[1].type = "spawn" /\ Has(q, "spawn")
  BY <1>1, <1>2 DEF Has
<1>4. \A i \in DOMAIN w : i + 1 \in DOMAIN q /\ w[i] = q[i + 1] /\ i + 1 # 1 /\ i + 1 > 1
  BY <1>1, <1>2
<1>5. \A i \in DOMAIN w : w[i].type # "spawn"
  BY <1>3, <1>4 DEF Aimed, OneOwed, Single
<1>6. \A i \in DOMAIN w : w[i].type # "attach"
  <2> SUFFICES ASSUME NEW i \in DOMAIN w, w[i].type = "attach" PROVE FALSE
    OBVIOUS
  <2>1. i + 1 < 1
    BY <1>3, <1>4 DEF Aimed, NoneSince
  <2>2. QED
    BY <1>2, <2>1
<1>7. \A i \in DOMAIN w : w[i].type # "key"
  <2> SUFFICES ASSUME NEW i \in DOMAIN w, w[i].type = "key" PROVE FALSE
    OBVIOUS
  <2>1. 1 \in 1..((i + 1) - 1) /\ q[i + 1].type = "key" /\ i + 1 \in DOMAIN q
    BY <1>2, <1>4
  <2>2. QED
    BY <1>3, <2>1 DEF Aimed, KeysAimed
<1>8. r.spawning = None /\ ~r.born /\ ~Has(d, "spawned")
  BY <1>3 DEF Aimed, OneOwed
<1>9. ~r2.born /\ Single(d, "spawned")
  BY <1>8 DEF Aimed, OneOwed
<1>10. Aimed(w, d, r2)
  BY <1>5, <1>6, <1>7, <1>8, <1>9
     DEF Aimed, KeysAimed, OneOwed, NoneSince, AnswerAimed, Single, Has
<1>11. QED
  BY <1>3, <1>10 DEF OnDisplay, Owed, w

(* What the daemon keeps changes without moving its aim elsewhere, and     *)
(* what it says next is not the answer to a spawn.                         *)
LEMMA Eases ==
  ASSUME NEW q, NEW d, NEW d2, NEW r, NEW r2, Aimed(q, d, r),
         r2.spawning \in {None, r.spawning}, r2.born => r.born,
         Reaches(r2) \in {None, Reaches(r)},
         Single(d2, "spawned"),
         \A j \in DOMAIN d2 : d2[j].type = "spawned" =>
           \E i \in DOMAIN d : d[i] = d2[j]
  PROVE  Aimed(q, d2, r2) /\ \A n : OnDisplay(q, d, r, n) => OnDisplay(q, d2, r2, n)
<1>1. \A i, n : Leads(q, i, Reaches(r), n) => Leads(q, i, Reaches(r2), n)
  BY LeadsLess
<1>2. Has(d2, "spawned") => Has(d, "spawned")
  BY DEF Has
<1>3. r2.spawning # None => r.spawning # None
  OBVIOUS
<1>4. KeysAimed(q, r2)
  BY <1>1, <1>3 DEF Aimed, KeysAimed
<1>5. OneOwed(q, d2, r2)
  BY <1>2, <1>3 DEF Aimed, OneOwed
<1>6. NoneSince(q, d2, r2)
  BY <1>2, <1>3 DEF Aimed, NoneSince
<1>7. AnswerAimed(q, d2, r2)
  <2> SUFFICES ASSUME NEW j \in DOMAIN d2, d2[j].type = "spawned"
               PROVE  Leads(q, Len(q), Reaches(r2), d2[j].name)
    BY DEF AnswerAimed
  <2>1. PICK i \in DOMAIN d : d[i] = d2[j]
    OBVIOUS
  <2>2. Leads(q, Len(q), Reaches(r), d[i].name)
    BY <2>1 DEF Aimed, AnswerAimed
  <2>3. QED
    BY <1>1, <2>1, <2>2
<1>8. \A n : OnDisplay(q, d, r, n) => OnDisplay(q, d2, r2, n)
  BY <1>1, <1>2, <1>3 DEF OnDisplay, Owed
<1>9. QED
  BY <1>4, <1>5, <1>6, <1>7, <1>8 DEF Aimed

LEMMA AnswersOther ==
  ASSUME NEW d \in Seq(Downs), NEW msgs \in Seq(Downs), Single(d, "spawned"),
         ~Has(msgs, "spawned")
  PROVE  /\ Single(d \o msgs, "spawned")
         /\ \A j \in DOMAIN (d \o msgs) : (d \o msgs)[j].type = "spawned" =>
              \E i \in DOMAIN d : d[i] = (d \o msgs)[j]
<1> DEFINE w == d \o msgs
<1>1. /\ Len(d) \in Nat /\ Len(msgs) \in Nat /\ Len(w) = Len(d) + Len(msgs)
      /\ DOMAIN w = 1..(Len(d) + Len(msgs)) /\ DOMAIN d = 1..Len(d)
      /\ DOMAIN msgs = 1..Len(msgs)
      /\ \A i \in 1..Len(d) : w[i] = d[i]
      /\ \A i \in (Len(d) + 1)..(Len(d) + Len(msgs)) : w[i] = msgs[i - Len(d)]
  OBVIOUS
<1> HIDE DEF w
<1>2. \A j \in DOMAIN w : w[j].type = "spawned" => j \in DOMAIN d /\ d[j] = w[j]
  <2> SUFFICES ASSUME NEW j \in DOMAIN w, w[j].type = "spawned", j \notin 1..Len(d)
               PROVE  FALSE
    BY <1>1
  <2>1. j \in (Len(d) + 1)..(Len(d) + Len(msgs)) /\ j - Len(d) \in DOMAIN msgs
    BY <1>1
  <2>2. QED
    BY <1>1, <2>1 DEF Has
<1>3. QED
  BY <1>2 DEF Single, w

LEMMA AnswersTail ==
  ASSUME NEW d \in Seq(Downs), d # <<>>, Single(d, "spawned")
  PROVE  /\ Single(Tail(d), "spawned")
         /\ \A j \in DOMAIN Tail(d) : Tail(d)[j].type = "spawned" =>
              \E i \in DOMAIN d : d[i] = Tail(d)[j]
<1> DEFINE w == Tail(d)
<1>1. /\ Len(d) \in Nat /\ DOMAIN d = 1..Len(d) /\ DOMAIN w = 1..(Len(d) - 1)
      /\ \A i \in 1..(Len(d) - 1) : w[i] = d[i + 1]
  OBVIOUS
<1> HIDE DEF w
<1>2. \A i \in DOMAIN w : i + 1 \in DOMAIN d /\ w[i] = d[i + 1]
  BY <1>1
<1>3. \A i, j \in DOMAIN w : i + 1 = j + 1 => i = j
  BY <1>1
<1>4. QED
  BY <1>2, <1>3 DEF Single, w

(* The page takes what was said to it first.                               *)
LEMMA Hears ==
  ASSUME NEW q, NEW d \in Seq(Downs), d # <<>>, NEW r
  PROVE  /\ Aimed(q, d, r) => /\ Aimed(q, Tail(d), r)
                              /\ \A n : OnDisplay(q, d, r, n) => OnDisplay(q, Tail(d), r, n)
         /\ ~Owed(q, d, r) => ~Owed(q, Tail(d), r)
<1> DEFINE w == Tail(d)
<1>1. \A j \in DOMAIN w : w[j].type = "spawned" => \E i \in DOMAIN d : d[i] = w[j]
  <2>1. \A j \in DOMAIN w : j + 1 \in DOMAIN d /\ w[j] = d[j + 1]
    OBVIOUS
  <2>2. QED
    BY <2>1
<1>2. Single(d, "spawned") => Single(w, "spawned")
  BY AnswersTail
<1> HIDE DEF w
<1>3. ASSUME Aimed(q, d, r)
      PROVE  Aimed(q, w, r) /\ \A n : OnDisplay(q, d, r, n) => OnDisplay(q, w, r, n)
  <2>1. Single(w, "spawned")
    BY <1>2, <1>3 DEF Aimed, OneOwed
  <2>2. /\ r.spawning \in {None, r.spawning} /\ (r.born => r.born)
        /\ Reaches(r) \in {None, Reaches(r)}
    OBVIOUS
  <2>3. QED
    BY <1>1, <1>3, <2>1, <2>2, Eases
<1>4. ASSUME ~Owed(q, d, r) PROVE ~Owed(q, w, r)
  BY <1>1, <1>4 DEF Owed, Has
<1>5. QED
  BY <1>3, <1>4 DEF w

(* The spawn runs: there is no key under way, and no attach.               *)
LEMMA SpawnStarts ==
  ASSUME NEW q, NEW d, NEW r, NEW r2, Aimed(q, d, r), r.spawning # None,
         r2.spawning = None
  PROVE  Aimed(q, d, r2) /\ \A n : ~OnDisplay(q, d, r, n)
<1>1. /\ ~Has(q, "spawn") /\ ~r.born /\ ~Has(d, "spawned") /\ ~Has(q, "attach")
      /\ ~Has(q, "key") /\ Single(d, "spawned")
  BY DEF Aimed, KeysAimed, OneOwed, NoneSince, Has
<1>2. QED
  BY <1>1 DEF Aimed, KeysAimed, OneOwed, NoneSince, AnswerAimed, OnDisplay, Owed, Has, Single

(* The new session is bridged: the answer names it, and it is the aim.     *)
LEMMA SpawnAnswers ==
  ASSUME NEW q, NEW d \in Seq(Downs), NEW r, NEW r2, NEW n \in Names, Aimed(q, d, r),
         r.born, ~r2.born, r2.spawning = r.spawning, Reaches(r) = n, Reaches(r2) = n
  PROVE  /\ Aimed(q, d \o (<<About("spawned", n)>> \o <<Msg("attached")>>), r2)
         /\ \A x : ~OnDisplay(q, d, r, x)
<1> DEFINE a == <<About("spawned", n)>> \o <<Msg("attached")>>
           w == d \o a
<1>0. a \in Seq(Downs) /\ Len(a) = 2 /\ a[1] = About("spawned", n) /\ a[2] = Msg("attached")
  BY MessagesTyped
<1> HIDE DEF a
<1>1. /\ Len(d) \in Nat /\ DOMAIN w = 1..(Len(d) + 2) /\ DOMAIN d = 1..Len(d)
      /\ \A i \in 1..Len(d) : w[i] = d[i]
      /\ w[Len(d) + 1] = About("spawned", n) /\ w[Len(d) + 2] = Msg("attached")
  <2>1. /\ w \in Seq(Downs) /\ Len(w) = Len(d) + Len(a)
        /\ \A i \in 1..(Len(d) + Len(a)) : w[i] = IF i <= Len(d) THEN d[i]
                                                  ELSE a[i - Len(d)]
    BY <1>0, ConcatProperties
  <2> HIDE DEF w
  <2>2. DOMAIN w = 1..(Len(d) + 2) /\ DOMAIN d = 1..Len(d) /\ Len(d) \in Nat
    BY <1>0, <2>1
  <2>3. (Len(d) + 1) - Len(d) = 1 /\ (Len(d) + 2) - Len(d) = 2
    BY <2>2
  <2>4. QED
    BY <1>0, <2>1, <2>2, <2>3
<1> HIDE DEF w
<1>2. /\ ~Has(q, "spawn") /\ r.spawning = None /\ ~Has(d, "spawned") /\ ~Has(q, "attach")
  BY DEF Aimed, OneOwed, NoneSince
<1>3. \A i \in DOMAIN w : w[i].type = "spawned" => i = Len(d) + 1
  <2> SUFFICES ASSUME NEW i \in DOMAIN w, w[i].type = "spawned", i # Len(d) + 1
               PROVE  FALSE
    OBVIOUS
  <2>1. i \in 1..Len(d) \/ i = Len(d) + 2
    BY <1>1
  <2>2. QED
    BY <1>1, <1>2, <2>1 DEF Has, Msg
<1>4. Leads(q, Len(q), n, n)
  <2>1. \A k \in 1..Len(q) : q[k].type # "attach"
    BY <1>2 DEF Has
  <2>2. QED
    BY <2>1 DEF Leads, Aims, Aim
<1>5. AnswerAimed(q, w, r2)
  <2>1. w[Len(d) + 1].name = n
    BY <1>1 DEF About
  <2>2. QED
    BY <1>3, <1>4, <2>1 DEF AnswerAimed
<1>6. KeysAimed(q, r2) /\ OneOwed(q, w, r2) /\ NoneSince(q, w, r2)
  BY <1>2, <1>3 DEF Aimed, KeysAimed, OneOwed, NoneSince, Single, Has
<1>7. QED
  BY <1>5, <1>6 DEF Aimed, OnDisplay, Owed, w, a

(* The page shows the new session: that is where its keys go.              *)
LEMMA SpawnShown ==
  ASSUME NEW q, NEW d \in Seq(Downs), NEW r, Aimed(q, d, r),
         d # <<>>, Head(d).type = "spawned"
  PROVE  OnDisplay(q, Tail(d), r, Head(d).name)
<1>1. /\ Len(d) \in Nat /\ 1 \in DOMAIN d /\ Head(d) = d[1] /\ Has(d, "spawned")
      /\ \A i \in DOMAIN Tail(d) : i + 1 \in DOMAIN d /\ Tail(d)[i] = d[i + 1] /\ i + 1 # 1
  BY DEF Has
<1>2. /\ ~Has(q, "spawn") /\ r.spawning = None /\ ~r.born
  BY <1>1 DEF Aimed, OneOwed
<1>3. ~Has(Tail(d), "spawned")
  BY <1>1 DEF Aimed, OneOwed, Single, Has
<1>4. QED
  BY <1>1, <1>2, <1>3 DEF Aimed, AnswerAimed, OnDisplay, Owed

(* A socket whose handshake is not over shows any session.                 *)
LEMMA UndoneShows ==
  ASSUME NEW s \in Socks, SockInv(s), ~sock[s].done, up[s] \in Seq(Ups)
  PROVE  \A n : OnDisplay(up[s], down[s], srv[s], n)
<1>1. /\ DOMAIN up[s] = 1..Len(up[s]) /\ \A i \in DOMAIN up[s] : ~Aims(up[s][i])
      /\ ~Owed(up[s], down[s], srv[s]) /\ Reaches(srv[s]) = None
  BY DEF SockInv, Aims
<1>2. QED
  BY <1>1 DEF OnDisplay, Leads

(* A socket that a step leaves alone, as long as the page's display of it  *)
(* stays as it was.                                                        *)
LEMMA LeftAlone ==
  ASSUME TypeOK, NEW s \in Socks, SockInv(s),
         sock'[s] = sock[s], up'[s] = up[s], down'[s] = down[s], srv'[s] = srv[s],
         transport' = s /\ shown'.view = "terminal" =>
           \/ ~sock[s].done
           \/ transport = s /\ shown.view = "terminal" /\ shown'.cur = shown.cur
  PROVE  SockInv(s)'
<1>1. ~sock[s].done => \A n : OnDisplay(up[s], down[s], srv[s], n)
  BY UndoneShows DEF TypeOK
<1>2. QED
  BY <1>1 DEF SockInv

(* A socket on which the daemon, or the page, does something that keeps    *)
(* its messages aimed as they were.                                        *)
LEMMA KeptAimed ==
  ASSUME NEW s \in Socks, SockInv(s),
         sock'[s].st = "closed" => /\ sock[s].st = "closed"
                                   /\ up'[s] = up[s] /\ down'[s] = down[s],
         sock'[s].done = sock[s].done, transport' = s => transport = s,
         shown'.view = "terminal" => shown.view = "terminal" /\ shown'.cur = shown.cur,
         srv'[s].bridge = None \/ srv'[s].pend = None,
         srv'[s].st # "up" => Reaches(srv'[s]) = None /\ srv'[s].spawning = None,
         ~sock[s].done => /\ \A i \in DOMAIN up'[s] : up'[s][i].type = "noise"
                          /\ ~Owed(up'[s], down'[s], srv'[s]) /\ Reaches(srv'[s]) = None,
         Answered(srv'[s]) => Answered(srv[s]),
         Answered(srv'[s]) /\ Aimed(up[s], down[s], srv[s]) =>
           Aimed(up'[s], down'[s], srv'[s]),
         Answered(srv'[s]) /\ Aimed(up[s], down[s], srv[s]) =>
           \A n : OnDisplay(up[s], down[s], srv[s], n) =>
                    OnDisplay(up'[s], down'[s], srv'[s], n)
  PROVE  SockInv(s)'
BY DEF SockInv

(* A socket with nothing under way.                                        *)
LEMMA EmptyInv ==
  ASSUME NEW s \in Socks, up'[s] = <<>>, down'[s] = <<>>, sock'[s].done = FALSE,
         srv'[s].bridge = None, srv'[s].pend = None, srv'[s].spawning = None,
         srv'[s].born = FALSE
  PROVE  SockInv(s)'
<1>1. Reaches(srv'[s]) = None
  BY DEF Reaches
<1>2. /\ ~Owed(up'[s], down'[s], srv'[s])
      /\ Aimed(up'[s], down'[s], srv'[s])
      /\ \A n : OnDisplay(up'[s], down'[s], srv'[s], n)
  BY <1>1 DEF Owed, Has, Aimed, KeysAimed, OneOwed, Single, NoneSince, AnswerAimed,
              OnDisplay, Leads
<1>3. QED
  BY <1>1, <1>2 DEF SockInv

LEMMA OnlyAt ==
  ASSUME TypeOK, NEW s \in Socks, ServerTakes(s) \/ Approves(s) \/ PeerGoes(s)
  PROVE  /\ sock[s].st = "open" /\ Elsewhere
         /\ \A x \in Socks \ {s} : up'[x] = up[x] /\ down'[x] = down[x] /\ srv'[x] = srv[x]
<1>1. Elsewhere /\ sock[s].st = "open"
  BY DEF ServerTakes, Approves, PeerGoes, Admits, TakesNoise, TakesAttach, TakesList,
         TakesSpawn, TakesPacket, Dropped, BridgeConnects, ListReplies, SpawnRuns, Head1
<1>2. \A x \in Socks \ {s} : up'[x] = up[x]
  BY DEF ServerTakes, Approves, PeerGoes, Admits, TakesNoise, TakesAttach, TakesList,
         TakesSpawn, TakesPacket, Dropped, BridgeConnects, ListReplies, SpawnRuns, Head1,
         TypeOK
<1>3. \A r, x : Srv(s, r) /\ x \in Socks \ {s} => srv'[x] = srv[x]
  BY DEF Srv, TypeOK
<1>4. \A msgs, x : Answers(s, msgs) /\ x \in Socks \ {s} => down'[x] = down[x]
  BY DEF Answers, TypeOK
<1>5. \A x \in Socks \ {s} : srv'[x] = srv[x]
  BY <1>3 DEF ServerTakes, Approves, PeerGoes, Admits, TakesNoise, TakesAttach, TakesList,
              TakesSpawn, TakesPacket, Dropped, BridgeConnects, ListReplies, SpawnRuns
<1>6. \A x \in Socks \ {s} : down'[x] = down[x]
  BY <1>4 DEF ServerTakes, Approves, PeerGoes, Admits, TakesNoise, TakesAttach, TakesList,
              TakesSpawn, TakesPacket, Dropped, BridgeConnects, ListReplies, SpawnRuns
<1>7. QED
  BY <1>1, <1>2, <1>5, <1>6

(* The head of what the page said is taken off.                            *)
LEMMA TakenOff ==
  ASSUME TypeOK, NEW s \in Socks, NEW t, Head1(s, t)
  PROVE  /\ up[s] \in Seq(Ups) /\ up[s] # <<>> /\ Head(up[s]).type = t
         /\ up'[s] = Tail(up[s])
         /\ (\A i \in DOMAIN up[s] : up[s][i].type = "noise") =>
              /\ t = "noise"
              /\ \A i \in DOMAIN Tail(up[s]) : Tail(up[s])[i].type = "noise"
<1>1. up[s] \in Seq(Ups) /\ up[s] # <<>>
  BY DEF TypeOK, Head1
<1>2. up'[s] = Tail(up[s]) /\ Head(up[s]).type = t
  BY DEF Head1, TypeOK
<1>3. Head(up[s]) = up[s][1] /\ 1 \in DOMAIN up[s]
  BY <1>1
<1>4. \A i \in DOMAIN Tail(up[s]) : i + 1 \in DOMAIN up[s] /\ Tail(up[s])[i] = up[s][i + 1]
  BY <1>1
<1>5. QED
  BY <1>1, <1>2, <1>3, <1>4

(* More is said to the page, none of it an answer to a spawn.              *)
LEMMA MoreSaid ==
  ASSUME TypeOK, NEW s \in Socks, NEW msgs \in Seq(Downs), down'[s] = down[s] \o msgs,
         \A i \in DOMAIN msgs : msgs[i].type # "spawned"
  PROVE  /\ down[s] \in Seq(Downs)
         /\ Single(down[s], "spawned") =>
              /\ Single(down'[s], "spawned")
              /\ \A j \in DOMAIN down'[s] : down'[s][j].type = "spawned" =>
                   \E i \in DOMAIN down[s] : down[s][i] = down'[s][j]
<1>1. down[s] \in Seq(Downs)
  BY DEF TypeOK
<1>2. ~Has(msgs, "spawned")
  BY DEF Has
<1>3. QED
  BY <1>1, <1>2, AnswersOther

LEMMA NoMore ==
  ASSUME NEW d, Single(d, "spawned")
  PROVE  \A j \in DOMAIN d : d[j].type = "spawned" => \E i \in DOMAIN d : d[i] = d[j]
OBVIOUS

(* No new answer to a spawn: none is owed if none was.                     *)
LEMMA StillNone ==
  ASSUME NEW q, NEW d, NEW d2, NEW r, NEW r2, ~Owed(q, d, r),
         r2.spawning \in {None, r.spawning}, r2.born => r.born,
         \A j \in DOMAIN d2 : d2[j].type = "spawned" => \E i \in DOMAIN d : d[i] = d2[j]
  PROVE  ~Owed(q, d2, r2)
BY DEF Owed, Has

(* The daemon's steps that leave what the page said alone, and answer      *)
(* nothing but what a spawn does not wait for.                             *)
LEMMA ServerEases ==
  ASSUME TypeOK, NEW s \in Socks, SockInv(s), Elsewhere,
         up'[s] = up[s],
         srv'[s].bridge = None \/ srv'[s].pend = None,
         srv'[s].st # "up" => \/ srv[s].st # "up"
                              \/ Reaches(srv'[s]) = None /\ srv'[s].spawning = None,
         Reaches(srv'[s]) \in {None, Reaches(srv[s])},
         srv'[s].spawning \in {None, srv[s].spawning}, srv'[s].born => srv[s].born,
         Answered(srv'[s]) => Answered(srv[s]),
         \/ down'[s] = down[s]
         \/ sock[s].st = "open"
            /\ \E msgs \in Seq(Downs) : down'[s] = down[s] \o msgs
                                        /\ \A i \in DOMAIN msgs : msgs[i].type # "spawned"
  PROVE  SockInv(s)'
<1>1. Single(down[s], "spawned") =>
        /\ Single(down'[s], "spawned")
        /\ \A j \in DOMAIN down'[s] : down'[s][j].type = "spawned" =>
             \E i \in DOMAIN down[s] : down[s][i] = down'[s][j]
  BY MoreSaid, NoMore
<1>2. Aimed(up[s], down[s], srv[s]) => Single(down[s], "spawned")
  BY DEF Aimed, OneOwed
<1>3. Aimed(up[s], down[s], srv[s]) =>
        /\ Aimed(up'[s], down'[s], srv'[s])
        /\ \A n : OnDisplay(up[s], down[s], srv[s], n) =>
                    OnDisplay(up'[s], down'[s], srv'[s], n)
  <2> SUFFICES ASSUME Aimed(up[s], down[s], srv[s])
               PROVE  /\ Aimed(up[s], down'[s], srv'[s])
                      /\ \A n : OnDisplay(up[s], down[s], srv[s], n) =>
                                  OnDisplay(up[s], down'[s], srv'[s], n)
    OBVIOUS
  <2>1. /\ Single(down'[s], "spawned")
        /\ \A j \in DOMAIN down'[s] : down'[s][j].type = "spawned" =>
             \E i \in DOMAIN down[s] : down[s][i] = down'[s][j]
    BY <1>1, <1>2
  <2>2. QED
    BY <2>1, Eases
<1>4. ~Owed(up[s], down[s], srv[s]) => ~Owed(up'[s], down'[s], srv'[s])
  <2>1. ~Owed(up[s], down[s], srv[s]) => Single(down[s], "spawned")
    BY DEF Owed, Has, Single
  <2>2. QED
    BY <1>1, <2>1, StillNone
<1>5. UNCHANGED <<sock, transport, shown>>
  BY DEF Elsewhere
<1>6. ~sock[s].done => /\ \A i \in DOMAIN up'[s] : up'[s][i].type = "noise"
                       /\ ~Owed(up'[s], down'[s], srv'[s]) /\ Reaches(srv'[s]) = None
  BY <1>4 DEF SockInv
<1>7. srv'[s].st # "up" => Reaches(srv'[s]) = None /\ srv'[s].spawning = None
  BY DEF SockInv
<1>8. QED
  BY <1>3, <1>5, <1>6, <1>7, KeptAimed

LEMMA ServerAimed ==
  ASSUME Typed, Typed', NEW s \in Socks, SockInv(s), ServerTakes(s) \/ Approves(s) \/ PeerGoes(s)
  PROVE  SockInv(s)'
<1> USE DEF Typed
<1>1. /\ sock[s].st = "open" /\ Elsewhere /\ UNCHANGED <<sock, transport, shown>>
      /\ srv[s] \in SrvStates /\ srv'[s] \in SrvStates
      /\ up[s] \in Seq(Ups) /\ down[s] \in Seq(Downs)
  BY OnlyAt DEF Elsewhere, TypeOK
<1>2. \A r : Srv(s, r) => srv'[s] = r
  BY DEF Srv, TypeOK
<1>3. srv' = srv => srv'[s] = srv[s]
  OBVIOUS
<1>4. down' = down => down'[s] = down[s]
  OBVIOUS
<1>5. \A t \in {"waiting", "paired", "gone", "sessions", "error", "attached"} :
        /\ <<Msg(t)>> \in Seq(Downs) /\ \A i \in DOMAIN <<Msg(t)>> : <<Msg(t)>>[i].type # "spawned"
  BY MessagesTyped DEF Msg
<1>5a. \A msgs : Answers(s, msgs) => down'[s] = down[s] \o msgs
  BY DEF Answers, TypeOK
<1>6. CASE Admits(s)
  <2>1. /\ up'[s] = up[s] /\ srv[s].st = "new"
        /\ \E t \in {"paired", "waiting", "gone"} : srv'[s] = [srv[s] EXCEPT !.st = t]
    BY <1>2, <1>6 DEF Admits
  <2>2. /\ <<Msg("revoked"), Msg("close")>> \in Seq(Downs)
        /\ \A i \in DOMAIN <<Msg("revoked"), Msg("close")>> :
             <<Msg("revoked"), Msg("close")>>[i].type # "spawned"
    BY MessagesTyped DEF Msg
  <2>3. \E msgs \in Seq(Downs) : down'[s] = down[s] \o msgs
                                 /\ \A i \in DOMAIN msgs : msgs[i].type # "spawned"
    BY <1>5, <1>5a, <1>6, <2>2 DEF Admits
  <2>4. /\ srv'[s].bridge = srv[s].bridge /\ srv'[s].pend = srv[s].pend
        /\ srv'[s].spawning = srv[s].spawning /\ srv'[s].born = srv[s].born
        /\ srv'[s].stray = srv[s].stray
    BY <1>1, <2>1 DEF SrvStates
  <2>5. /\ srv'[s].bridge = None \/ srv'[s].pend = None
        /\ Reaches(srv'[s]) = Reaches(srv[s])
        /\ Answered(srv'[s]) => Answered(srv[s])
    BY <2>1, <2>4 DEF Reaches, SockInv, Answered
  <2>6. QED
    BY <1>1, <2>1, <2>3, <2>4, <2>5, ServerEases
<1>7. CASE Approves(s)
  <2>1. /\ up'[s] = up[s] /\ srv[s].st = "waiting"
        /\ srv'[s] = [srv[s] EXCEPT !.st = "paired", !.cred = epoch]
    BY <1>2, <1>7 DEF Approves
  <2>2. \E msgs \in Seq(Downs) : down'[s] = down[s] \o msgs
                                 /\ \A i \in DOMAIN msgs : msgs[i].type # "spawned"
    BY <1>5, <1>5a, <1>7 DEF Approves
  <2>3. /\ srv'[s].bridge = srv[s].bridge /\ srv'[s].pend = srv[s].pend
        /\ srv'[s].spawning = srv[s].spawning /\ srv'[s].born = srv[s].born
        /\ srv'[s].stray = srv[s].stray
    BY <1>1, <2>1 DEF SrvStates
  <2>4. /\ srv'[s].bridge = None \/ srv'[s].pend = None
        /\ Reaches(srv'[s]) = Reaches(srv[s])
        /\ Answered(srv'[s]) => Answered(srv[s])
    BY <2>1, <2>3 DEF Reaches, SockInv, Answered
  <2>5. QED
    BY <1>1, <2>1, <2>2, <2>3, <2>4, ServerEases
<1>8. CASE PeerGoes(s)
  <2>1. up'[s] = up[s] /\ srv'[s] = [Fresh EXCEPT !.st = "gone"]
    BY <1>2, <1>8 DEF PeerGoes, Left
  <2>2. \E msgs \in Seq(Downs) : down'[s] = down[s] \o msgs
                                 /\ \A i \in DOMAIN msgs : msgs[i].type # "spawned"
    BY <1>5, <1>5a, <1>8 DEF PeerGoes
  <2>3. /\ srv'[s].bridge = None /\ srv'[s].pend = None /\ srv'[s].spawning = None
        /\ ~srv'[s].born /\ srv'[s].st = "gone"
    BY <2>1 DEF Fresh
  <2>4. Reaches(srv'[s]) = None /\ ~Answered(srv'[s])
    BY <2>3 DEF Reaches, Answered
  <2>5. QED
    BY <1>1, <2>1, <2>2, <2>3, <2>4, ServerEases
<1>9. CASE ListReplies(s)
  <2>1. up'[s] = up[s] /\ srv'[s] = [srv[s] EXCEPT !.listing = FALSE]
    BY <1>2, <1>9 DEF ListReplies
  <2>2. \E msgs \in Seq(Downs) : down'[s] = down[s] \o msgs
                                 /\ \A i \in DOMAIN msgs : msgs[i].type # "spawned"
    BY <1>5, <1>5a, <1>9 DEF ListReplies
  <2>3. /\ srv'[s].bridge = srv[s].bridge /\ srv'[s].pend = srv[s].pend
        /\ srv'[s].spawning = srv[s].spawning /\ srv'[s].born = srv[s].born
        /\ srv'[s].stray = srv[s].stray /\ srv'[s].st = srv[s].st
    BY <1>1, <2>1 DEF SrvStates
  <2>4. /\ srv'[s].bridge = None \/ srv'[s].pend = None
        /\ Reaches(srv'[s]) = Reaches(srv[s])
        /\ Answered(srv'[s]) => Answered(srv[s])
    BY <2>3 DEF Reaches, SockInv, Answered
  <2>5. QED
    BY <1>1, <2>1, <2>2, <2>3, <2>4, ServerEases
<1>10. CASE BridgeConnects(s)
  <2> DEFINE name == srv[s].pend
  <2>1. /\ up'[s] = up[s] /\ name # None /\ name \in Names
        /\ srv[s].bridge = None /\ Reaches(srv[s]) = name /\ srv[s].st = "up"
        /\ sock[s].done
    BY <1>1, <1>10 DEF BridgeConnects, SockInv, Reaches, SrvStates
  <2>2. CASE name \notin live
    <3>1. srv'[s] = Unbridged(srv[s])
      BY <1>2, <1>10, <2>2 DEF BridgeConnects
    <3>2. /\ srv'[s].bridge = None /\ srv'[s].pend = None
          /\ srv'[s].spawning = srv[s].spawning /\ srv'[s].born = FALSE
          /\ srv'[s].stray = srv[s].stray /\ srv'[s].st = srv[s].st
      BY <1>1, <3>1 DEF SrvStates, Unbridged
    <3>3. Reaches(srv'[s]) = None /\ (Answered(srv'[s]) => Answered(srv[s]))
      BY <3>2 DEF Reaches, Answered
    <3>4. \E msgs \in Seq(Downs) : down'[s] = down[s] \o msgs
                                   /\ \A i \in DOMAIN msgs : msgs[i].type # "spawned"
      BY <1>5, <1>5a, <1>10, <2>2 DEF BridgeConnects
    <3>5. QED
      BY <1>1, <2>1, <3>2, <3>3, <3>4, ServerEases
  <2>3. CASE name \in live
    <3>1. srv'[s] = [Unbridged(srv[s]) EXCEPT !.bridge = name]
      BY <1>2, <1>10, <2>3 DEF BridgeConnects
    <3>2. /\ srv'[s].bridge = name /\ srv'[s].pend = None
          /\ srv'[s].spawning = srv[s].spawning /\ srv'[s].born = FALSE
          /\ srv'[s].stray = srv[s].stray /\ srv'[s].st = srv[s].st
      BY <1>1, <3>1 DEF SrvStates, Unbridged
    <3>3. Reaches(srv'[s]) = name /\ (Answered(srv'[s]) => Answered(srv[s]))
      BY <2>1, <3>2 DEF Reaches, Answered
    <3>4. CASE ~srv[s].born
      <4>1. <<>> \o <<Msg("attached")>> = <<Msg("attached")>>
        BY MessagesTyped
      <4>2. \E msgs \in Seq(Downs) : down'[s] = down[s] \o msgs
                                     /\ \A i \in DOMAIN msgs : msgs[i].type # "spawned"
        BY <1>5, <1>5a, <1>10, <2>3, <3>4, <4>1 DEF BridgeConnects
      <4>3. QED
        BY <1>1, <2>1, <3>2, <3>3, <4>2, ServerEases
    <3>5. CASE srv[s].born
      <4>1. down'[s] = down[s] \o (<<About("spawned", name)>> \o <<Msg("attached")>>)
        <5>1. Answers(s, <<About("spawned", name)>> \o <<Msg("attached")>>)
          BY <1>10, <2>3, <3>5 DEF BridgeConnects
        <5>2. QED
          BY <5>1 DEF Answers, TypeOK
      <4>2. Aimed(up[s], down[s], srv[s]) =>
              /\ Aimed(up'[s], down'[s], srv'[s])
              /\ \A n : ~OnDisplay(up[s], down[s], srv[s], n)
        BY <1>1, <2>1, <3>2, <3>3, <3>5, <4>1, SpawnAnswers
      <4>3. QED
        BY <1>1, <2>1, <3>2, <3>3, <4>2, KeptAimed
    <3>6. QED
      BY <3>4, <3>5
  <2>4. QED
    BY <2>2, <2>3
<1>11. CASE SpawnRuns(s)
  <2> DEFINE name == srv[s].spawning
             rest == [srv[s] EXCEPT !.spawning = None]
  <2>1. /\ up'[s] = up[s] /\ name # None /\ srv[s].st = "up" /\ sock[s].done
    BY <1>11 DEF SpawnRuns, SockInv, Owed
  <2>2. CASE name \in live
    <3>1. srv'[s] = rest
      BY <1>2, <1>11, <2>2 DEF SpawnRuns
    <3>2. /\ srv'[s].bridge = srv[s].bridge /\ srv'[s].pend = srv[s].pend
          /\ srv'[s].spawning = None /\ srv'[s].born = srv[s].born
          /\ srv'[s].stray = srv[s].stray /\ srv'[s].st = srv[s].st
      BY <1>1, <3>1 DEF SrvStates
    <3>3. /\ srv'[s].bridge = None \/ srv'[s].pend = None
          /\ Reaches(srv'[s]) = Reaches(srv[s])
          /\ Answered(srv'[s]) => Answered(srv[s])
      BY <3>2 DEF Reaches, SockInv, Answered
    <3>4. \E msgs \in Seq(Downs) : down'[s] = down[s] \o msgs
                                   /\ \A i \in DOMAIN msgs : msgs[i].type # "spawned"
      BY <1>5, <1>5a, <1>11, <2>2 DEF SpawnRuns
    <3>5. QED
      BY <1>1, <2>1, <3>2, <3>3, <3>4, ServerEases
  <2>3. CASE name \notin live
    <3>1. srv'[s] = [Unbridged(rest) EXCEPT !.pend = name, !.born = TRUE]
          /\ down'[s] = down[s]
      BY <1>2, <1>11, <2>3 DEF SpawnRuns
    <3>2. /\ srv'[s].bridge = None /\ srv'[s].spawning = None
          /\ srv'[s].stray = srv[s].stray /\ srv'[s].st = srv[s].st
      BY <1>1, <3>1 DEF SrvStates, Unbridged
    <3>3. Answered(srv'[s]) => Answered(srv[s])
      BY <3>2 DEF Answered
    <3>4. Aimed(up[s], down[s], srv[s]) =>
            /\ Aimed(up'[s], down'[s], srv'[s])
            /\ \A n : ~OnDisplay(up[s], down[s], srv[s], n)
      BY <2>1, <3>1, <3>2, SpawnStarts
    <3>5. QED
      BY <1>1, <2>1, <3>2, <3>3, <3>4, KeptAimed
  <2>4. QED
    BY <2>2, <2>3
<1>12. CASE Dropped(s)
  <2>1. up'[s] = <<>> /\ down'[s] = down[s] /\ srv'[s] = srv[s] /\ srv[s].st = "gone"
    BY <1>12 DEF Dropped, TypeOK
  <2>2. ~Answered(srv'[s])
    BY <2>1 DEF Answered
  <2>3. ~Owed(up[s], down[s], srv[s]) => ~Owed(up'[s], down'[s], srv'[s])
    BY <2>1 DEF Owed, Has
  <2>4. ~sock[s].done => /\ \A i \in DOMAIN up'[s] : up'[s][i].type = "noise"
                         /\ ~Owed(up'[s], down'[s], srv'[s]) /\ Reaches(srv'[s]) = None
    BY <2>1, <2>3 DEF SockInv
  <2>5. QED
    BY <1>1, <2>1, <2>2, <2>4, KeptAimed DEF SockInv
<1>13. CASE TakesNoise(s)
  <2>1. /\ Head1(s, "noise") /\ srv[s].st = "paired" /\ srv'[s] = [srv[s] EXCEPT !.st = "up"]
    BY <1>2, <1>13 DEF TakesNoise
  <2>2. /\ up[s] # <<>> /\ Head(up[s]).type = "noise" /\ up'[s] = Tail(up[s])
        /\ ~sock[s].done => \A i \in DOMAIN up'[s] : up'[s][i].type = "noise"
    <3>1. ~sock[s].done => \A i \in DOMAIN up[s] : up[s][i].type = "noise"
      BY DEF SockInv
    <3>2. /\ up[s] # <<>> /\ Head(up[s]).type = "noise" /\ up'[s] = Tail(up[s])
          /\ (\A i \in DOMAIN up[s] : up[s][i].type = "noise") =>
               \A i \in DOMAIN Tail(up[s]) : Tail(up[s])[i].type = "noise"
      BY <2>1, TakenOff
    <3>3. QED
      BY <3>1, <3>2
  <2>3. /\ srv'[s].bridge = srv[s].bridge /\ srv'[s].pend = srv[s].pend
        /\ srv'[s].spawning = srv[s].spawning /\ srv'[s].born = srv[s].born
        /\ srv'[s].stray = srv[s].stray /\ srv'[s].st = "up"
    BY <1>1, <2>1 DEF SrvStates
  <2>4. /\ srv'[s].bridge = None \/ srv'[s].pend = None
        /\ Reaches(srv'[s]) = Reaches(srv[s])
        /\ Answered(srv'[s]) => Answered(srv[s])
    BY <2>1, <2>3 DEF Reaches, SockInv, Answered
  <2>5. Single(down[s], "spawned") =>
          /\ Single(down'[s], "spawned")
          /\ \A j \in DOMAIN down'[s] : down'[s][j].type = "spawned" =>
               \E i \in DOMAIN down[s] : down[s][i] = down'[s][j]
    <3> DEFINE msgs == <<Msg("welcome"), Approved(srv[s].cred)>>
    <3>1. Msg("welcome") \in Downs /\ Approved(srv[s].cred) \in Downs
      BY <1>1, MessagesTyped DEF SrvStates
    <3>2. msgs \in Seq(Downs) /\ \A i \in DOMAIN msgs : msgs[i].type # "spawned"
      BY <3>1 DEF Msg, Approved
    <3>3. down'[s] = down[s] \o msgs
      BY <1>13, <1>5a DEF TakesNoise
    <3>4. QED
      BY <3>2, <3>3, MoreSaid
  <2>6. Aimed(up[s], down[s], srv[s]) =>
          /\ Aimed(up'[s], down[s], srv'[s])
          /\ \A n : OnDisplay(up[s], down[s], srv[s], n) =>
                      OnDisplay(up'[s], down[s], srv'[s], n)
    BY <1>1, <2>2, <2>3, <2>4, TakesOther DEF Aims
  <2>7. Aimed(up'[s], down[s], srv'[s]) =>
          /\ Aimed(up'[s], down'[s], srv'[s])
          /\ \A n : OnDisplay(up'[s], down[s], srv'[s], n) =>
                      OnDisplay(up'[s], down'[s], srv'[s], n)
    <3>1. Aimed(up'[s], down[s], srv'[s]) => Single(down[s], "spawned")
      BY DEF Aimed, OneOwed
    <3>2. QED
      BY <2>5, <3>1, Eases
  <2>8. ASSUME ~sock[s].done
        PROVE  ~Owed(up'[s], down'[s], srv'[s]) /\ Reaches(srv'[s]) = None
    <3>1. /\ ~Has(down[s], "spawned") /\ srv[s].spawning = None /\ ~srv[s].born
          /\ Reaches(srv[s]) = None
      BY <2>8 DEF SockInv, Owed
    <3>2. ~Has(down'[s], "spawned")
      BY <2>5, <3>1 DEF Single, Has
    <3>3. ~Has(up'[s], "spawn")
      BY <2>2, <2>8 DEF Has
    <3>4. QED
      BY <2>3, <2>4, <3>1, <3>2, <3>3 DEF Owed
  <2>9. QED
    BY <1>1, <2>2, <2>3, <2>4, <2>6, <2>7, <2>8, KeptAimed
<1>14. ASSUME NEW t \in {"attach", "list", "key", "detach"}, Head1(s, t), srv[s].st = "up",
              srv'[s].st = "up", srv'[s].stray = srv[s].stray,
              srv'[s].bridge = None \/ srv'[s].pend = None,
              srv'[s].spawning = srv[s].spawning, srv'[s].born => srv[s].born,
              Reaches(srv'[s]) = IF Aims(Head(up[s])) THEN Aim(Head(up[s]))
                                 ELSE Reaches(srv[s]),
              down' = down
       PROVE  SockInv(s)'
  <2>1. /\ up[s] # <<>> /\ Head(up[s]).type = t /\ up'[s] = Tail(up[s]) /\ sock[s].done
    BY <1>14, TakenOff DEF SockInv
  <2>2. Aimed(up[s], down[s], srv[s]) =>
          /\ Aimed(up'[s], down'[s], srv'[s])
          /\ \A n : OnDisplay(up[s], down[s], srv[s], n) =>
                      OnDisplay(up'[s], down'[s], srv'[s], n)
    BY <1>1, <1>14, <2>1, TakesOther
  <2>3. Answered(srv'[s]) => Answered(srv[s])
    BY <1>14 DEF Answered
  <2>4. QED
    BY <1>1, <1>14, <2>1, <2>2, <2>3, KeptAimed
<1>15. CASE TakesAttach(s)
  <2>1. /\ Head1(s, "attach") /\ srv[s].st = "up" /\ down' = down
        /\ srv'[s] = [Unbridged(srv[s]) EXCEPT !.pend = Head(up[s]).name]
        /\ Head(up[s]).type = "attach"
    BY <1>2, <1>15 DEF TakesAttach, Head1
  <2>2. /\ srv'[s].bridge = None /\ srv'[s].pend = Head(up[s]).name
        /\ srv'[s].spawning = srv[s].spawning /\ srv'[s].born = FALSE
        /\ srv'[s].stray = srv[s].stray /\ srv'[s].st = srv[s].st
    BY <1>1, <2>1 DEF SrvStates, Unbridged
  <2>3. QED
    BY <1>14, <2>1, <2>2 DEF Aims, Aim, Reaches
<1>16. CASE TakesList(s)
  <2>1. /\ Head1(s, "list") /\ srv[s].st = "up" /\ down' = down
        /\ srv'[s] = [Unbridged(srv[s]) EXCEPT !.listing = TRUE]
        /\ Head(up[s]).type = "list"
    BY <1>2, <1>16 DEF TakesList, Head1
  <2>2. /\ srv'[s].bridge = None /\ srv'[s].pend = None
        /\ srv'[s].spawning = srv[s].spawning /\ srv'[s].born = FALSE
        /\ srv'[s].stray = srv[s].stray /\ srv'[s].st = srv[s].st
    BY <1>1, <2>1 DEF SrvStates, Unbridged
  <2>3. QED
    BY <1>14, <2>1, <2>2 DEF Aims, Aim, Reaches
<1>17. CASE TakesPacket(s) /\ Head1(s, "detach") /\ Srv(s, Unbridged(srv[s]))
  <2>1. /\ Head1(s, "detach") /\ srv[s].st = "up" /\ down' = down
        /\ srv'[s] = Unbridged(srv[s]) /\ Head(up[s]).type = "detach"
    BY <1>2, <1>17 DEF TakesPacket, Head1
  <2>2. /\ srv'[s].bridge = None /\ srv'[s].pend = None
        /\ srv'[s].spawning = srv[s].spawning /\ srv'[s].born = FALSE
        /\ srv'[s].stray = srv[s].stray /\ srv'[s].st = srv[s].st
    BY <1>1, <2>1 DEF SrvStates, Unbridged
  <2>3. QED
    BY <1>14, <2>1, <2>2 DEF Aims, Aim, Reaches
<1>18. CASE TakesPacket(s) /\ Head1(s, "key") /\ srv' = srv
  <2>1. /\ Head1(s, "key") /\ srv[s].st = "up" /\ down' = down /\ srv'[s] = srv[s]
        /\ Head(up[s]).type = "key"
    BY <1>18 DEF TakesPacket, Head1
  <2>2. srv[s].bridge = None \/ srv[s].pend = None
    BY DEF SockInv
  <2>3. QED
    BY <1>14, <2>1, <2>2 DEF Aims
<1>19. CASE TakesSpawn(s)
  <2>1. /\ Head1(s, "spawn") /\ srv[s].st = "up" /\ down'[s] = down[s]
        /\ srv'[s] = [srv[s] EXCEPT !.spawning = Head(up[s]).name]
    BY <1>2, <1>19 DEF TakesSpawn
  <2>2. /\ up[s] # <<>> /\ Head(up[s]).type = "spawn" /\ up'[s] = Tail(up[s]) /\ sock[s].done
    BY <2>1, TakenOff DEF SockInv
  <2>3. /\ srv'[s].bridge = srv[s].bridge /\ srv'[s].pend = srv[s].pend
        /\ srv'[s].born = srv[s].born
        /\ srv'[s].stray = srv[s].stray /\ srv'[s].st = srv[s].st
    BY <1>1, <2>1 DEF SrvStates
  <2>4. /\ srv'[s].bridge = None \/ srv'[s].pend = None
        /\ Reaches(srv'[s]) = Reaches(srv[s])
        /\ Answered(srv'[s]) => Answered(srv[s])
    BY <2>3 DEF Reaches, SockInv, Answered
  <2>5. Aimed(up[s], down[s], srv[s]) =>
          /\ Aimed(up'[s], down'[s], srv'[s])
          /\ \A n : ~OnDisplay(up[s], down[s], srv[s], n)
    BY <1>1, <2>1, <2>2, <2>3, <2>4, TakesOwed
  <2>6. QED
    BY <1>1, <2>1, <2>2, <2>3, <2>4, <2>5, KeptAimed
<1>20. QED
  BY <1>6, <1>7, <1>8, <1>9, <1>10, <1>11, <1>12, <1>13, <1>15, <1>16, <1>17, <1>18, <1>19
     DEF ServerTakes, TakesPacket

LEMMA ServerKeeps ==
  ASSUME Typed, Typed', AimedInv,
         \/ \E s \in Socks : ServerTakes(s) \/ Approves(s) \/ PeerGoes(s)
         \/ Revokes \/ \E n \in Sessions : SessionEnds(n)
  PROVE  AimedInv'
<1> USE DEF Typed
<1>1. ASSUME NEW s \in Socks, ServerTakes(s) \/ Approves(s) \/ PeerGoes(s), NEW x \in Socks
      PROVE  SockInv(x)'
  <2>1. CASE x = s
    BY <1>1, <2>1, ServerAimed DEF AimedInv
  <2>2. CASE x # s
    <3>1. up'[x] = up[x] /\ down'[x] = down[x] /\ srv'[x] = srv[x] /\ Elsewhere
      BY <1>1, <2>2, OnlyAt
    <3>2. QED
      BY <3>1, LeftAlone DEF Elsewhere, AimedInv
  <2>3. QED
    BY <2>1, <2>2
<1>2. \A s \in Socks, t \in {"gone", "exit"} :
        /\ <<Msg(t)>> \in Seq(Downs) /\ Append(down[s], Msg(t)) = down[s] \o <<Msg(t)>>
        /\ \A i \in DOMAIN <<Msg(t)>> : <<Msg(t)>>[i].type # "spawned"
  <2> SUFFICES ASSUME NEW s \in Socks, NEW t \in {"gone", "exit"}
               PROVE  /\ <<Msg(t)>> \in Seq(Downs)
                      /\ Append(down[s], Msg(t)) = down[s] \o <<Msg(t)>>
                      /\ \A i \in DOMAIN <<Msg(t)>> : <<Msg(t)>>[i].type # "spawned"
    OBVIOUS
  <2>1. Msg(t) \in Downs /\ Msg(t).type # "spawned" /\ down[s] \in Seq(Downs)
    BY MessagesTyped DEF Msg, TypeOK
  <2>2. Append(down[s], Msg(t)) = down[s] \o <<Msg(t)>>
    BY <2>1, AppendIsConcat
  <2>3. QED
    BY <2>1, <2>2
<1>3. ASSUME Revokes, NEW s \in Socks PROVE SockInv(s)'
  <2>1. Elsewhere /\ up'[s] = up[s]
    BY <1>3 DEF Revokes
  <2>2. \/ srv'[s] = srv[s] /\ down'[s] = down[s]
        \/ /\ srv'[s] = [Fresh EXCEPT !.st = "gone"] /\ down'[s] = down[s] \o <<Msg("gone")>>
           /\ sock[s].st = "open"
    BY <1>2, <1>3 DEF Revokes, Left
  <2>3. CASE srv'[s] = srv[s] /\ down'[s] = down[s]
    BY <2>1, <2>3, LeftAlone DEF Elsewhere, AimedInv
  <2>4. CASE /\ srv'[s] = [Fresh EXCEPT !.st = "gone"]
             /\ down'[s] = down[s] \o <<Msg("gone")>> /\ sock[s].st = "open"
    <3>1. /\ srv'[s].bridge = None /\ srv'[s].pend = None /\ srv'[s].spawning = None
          /\ ~srv'[s].born /\ srv'[s].st = "gone"
      BY <2>4 DEF Fresh
    <3>2. Reaches(srv'[s]) = None /\ ~Answered(srv'[s])
      BY <3>1 DEF Reaches, Answered
    <3>3. QED
      BY <1>2, <2>1, <2>4, <3>1, <3>2, ServerEases DEF AimedInv
  <2>5. QED
    BY <2>2, <2>3, <2>4
<1>4. ASSUME NEW n \in Sessions, SessionEnds(n), NEW s \in Socks PROVE SockInv(s)'
  <2>1. Elsewhere /\ up'[s] = up[s] /\ SockInv(s) /\ srv[s] \in SrvStates
    BY <1>4 DEF SessionEnds, AimedInv, TypeOK
  <2>2. CASE srv[s].bridge # n
    BY <1>4, <2>1, <2>2, LeftAlone DEF SessionEnds, Elsewhere
  <2>3. CASE srv[s].bridge = n
    <3>1. /\ srv'[s] = [srv[s] EXCEPT !.bridge = None]
          /\ \/ down'[s] = down[s]
             \/ sock[s].st = "open" /\ down'[s] = down[s] \o <<Msg("exit")>>
      BY <1>2, <1>4, <2>3 DEF SessionEnds
    <3>2. /\ srv'[s].bridge = None /\ srv'[s].pend = srv[s].pend
          /\ srv'[s].spawning = srv[s].spawning /\ srv'[s].born = srv[s].born
          /\ srv'[s].stray = srv[s].stray /\ srv'[s].st = srv[s].st
      BY <2>1, <3>1 DEF SrvStates
    <3>3. srv[s].pend = None
      BY <1>4, <2>1, <2>3, BrowserNone DEF SockInv
    <3>4. Reaches(srv'[s]) = None /\ (Answered(srv'[s]) => Answered(srv[s]))
      BY <3>2, <3>3 DEF Reaches, Answered
    <3>5. \/ down'[s] = down[s]
          \/ sock[s].st = "open"
             /\ \E msgs \in Seq(Downs) : down'[s] = down[s] \o msgs
                                         /\ \A i \in DOMAIN msgs : msgs[i].type # "spawned"
      BY <1>2, <3>1
    <3>6. QED
      BY <2>1, <3>2, <3>4, <3>5, ServerEases
  <2>4. QED
    BY <2>2, <2>3
<1>5. QED
  BY <1>1, <1>3, <1>4 DEF AimedInv

-----------------------------------------------------------------------------
(* The page's steps.                                                       *)

LEMMA ShowsIs ==
  ASSUME TypeOK, NEW n
  PROVE  Shows(n).cur = n /\ Shows(n).view = "terminal"
<1> DEFINE h == [shown EXCEPT !.cur = n, !.view = "terminal"]
<1>1. h.cur = n /\ h.view = "terminal" /\ shown \in ShownStates
  BY DEF TypeOK, ShownStates
<1>2. \A w, p : [h EXCEPT !.hist = w, !.pos = p].cur = n
                /\ [h EXCEPT !.hist = w, !.pos = p].view = "terminal"
  BY <1>1 DEF ShownStates
<1>3. QED
  BY <1>1, <1>2 DEF Shows, Push

LEMMA ReplaceIs ==
  ASSUME TypeOK, NEW n
  PROVE  Replace([shown EXCEPT !.cur = n, !.view = "loading"], n).view = "loading"
BY DEF TypeOK, ShownStates, Replace

LEMMA BothHave ==
  ASSUME NEW q \in Seq(Ups), NEW d \in Seq(Downs), Has(q, "spawn") \/ Has(d, "spawned")
  PROVE  \E m \in ToSet(q \o d) : m.type \in {"spawn", "spawned"}
<1> DEFINE w == q \o d
<1>1. /\ Len(q) \in Nat /\ Len(d) \in Nat
      /\ DOMAIN q = 1..Len(q) /\ DOMAIN d = 1..Len(d)
      /\ DOMAIN w = 1..(Len(q) + Len(d))
      /\ \A i \in 1..Len(q) : w[i] = q[i]
      /\ \A i \in (Len(q) + 1)..(Len(q) + Len(d)) : w[i] = d[i - Len(q)]
  OBVIOUS
<1> HIDE DEF w
<1>2. \A i \in DOMAIN d : /\ Len(q) + i \in (Len(q) + 1)..(Len(q) + Len(d))
                          /\ (Len(q) + i) - Len(q) = i
  BY <1>1
<1>3. \A i \in DOMAIN w : w[i] \in ToSet(w)
  BY DEF ToSet
<1>4. CASE Has(q, "spawn")
  BY <1>1, <1>3, <1>4 DEF Has, w
<1>5. CASE Has(d, "spawned")
  <2>1. PICK i \in DOMAIN d : d[i].type = "spawned"
    BY <1>5 DEF Has
  <2>2. Len(q) + i \in DOMAIN w /\ w[Len(q) + i] = d[i]
    BY <1>1, <1>2
  <2>3. QED
    BY <1>3, <2>1, <2>2 DEF w
<1>6. QED
  BY <1>4, <1>5

(* What an attach or a spawn does to the daemon's side: only the history   *)
(* variable, and it stays unset only if no spawn was unanswered.           *)
LEMMA StraysIs ==
  ASSUME TypeOK, NEW s \in Socks
  PROVE  /\ \A x \in Socks \ {s} : Strays(s)[x] = srv[x]
         /\ Strays(s)[s].bridge = srv[s].bridge /\ Strays(s)[s].pend = srv[s].pend
         /\ Strays(s)[s].spawning = srv[s].spawning /\ Strays(s)[s].born = srv[s].born
         /\ Strays(s)[s].st = srv[s].st
         /\ Answered(Strays(s)[s]) => /\ Answered(srv[s])
                                      /\ ~Owed(up[s], down[s], srv[s])
<1> DEFINE b == \/ srv[s].stray \/ srv[s].spawning # None \/ srv[s].born
                \/ \E m \in ToSet(up[s] \o down[s]) : m.type \in {"spawn", "spawned"}
<1>1. b \in BOOLEAN /\ Strays(s) = [srv EXCEPT ![s].stray = b]
  BY DEF Strays
<1>2. srv[s] \in SrvStates /\ srv \in [Socks -> SrvStates]
  BY DEF TypeOK
<1>3. /\ up[s] \in Seq(Ups) /\ down[s] \in Seq(Downs)
  BY DEF TypeOK
<1>4. Has(up[s], "spawn") \/ Has(down[s], "spawned") =>
        \E m \in ToSet(up[s] \o down[s]) : m.type \in {"spawn", "spawned"}
  BY <1>3, BothHave
<1>5. Owed(up[s], down[s], srv[s]) \/ srv[s].stray => b
  BY <1>4 DEF Owed
<1> HIDE DEF b
<1>6. \A x \in Socks \ {s} : Strays(s)[x] = srv[x]
  BY <1>1, <1>2
<1>7. Strays(s)[s] = [srv[s] EXCEPT !.stray = b]
  BY <1>1, <1>2
<1>8. /\ Strays(s)[s].bridge = srv[s].bridge /\ Strays(s)[s].pend = srv[s].pend
      /\ Strays(s)[s].spawning = srv[s].spawning /\ Strays(s)[s].born = srv[s].born
      /\ Strays(s)[s].st = srv[s].st /\ Strays(s)[s].stray = b
  BY <1>2, <1>7 DEF SrvStates
<1>9. QED
  BY <1>5, <1>6, <1>8 DEF Answered

(* A socket the page cannot send on is closed, if its keys are the page's. *)
LEMMA CannotSend ==
  ASSUME TypeOK, SpeakInv, AimedInv, NEW s \in Socks, transport = s, ~(CanSend /\ s = ws)
  PROVE  ~sock[s].done
BY BrowserNone DEF SpeakInv, CanSend, AimedInv, SockInv, TypeOK

LEMMA SentOne ==
  ASSUME TypeOK, NEW m \in Ups, Sends(<<m>>)
  PROVE  \A s \in Socks : up'[s] = IF CanSend /\ s = ws THEN Append(up[s], m) ELSE up[s]
<1>1. \A s \in Socks : Append(up[s], m) = up[s] \o <<m>>
  BY AppendIsConcat DEF TypeOK
<1>2. QED
  BY <1>1 DEF Sends, Sent, TypeOK

LEMMA SentBy ==
  ASSUME TypeOK, SpeakInv, CanSend
  PROVE  ws \in Socks /\ transport = ws /\ sock[ws].st = "open" /\ sock[ws].done
BY BrowserNone DEF SpeakInv, CanSend, TypeOK

LEMMA AttachKeeps ==
  ASSUME Typed, SpeakInv, AimedInv, NEW n \in Names, AttachToSession(n),
         UNCHANGED <<sock, transport, down>>
  PROVE  AimedInv'
<1> USE DEF Typed
<1> SUFFICES ASSUME NEW s \in Socks PROVE SockInv(s)'
  BY DEF AimedInv
<1> DEFINE m == About("attach", n)
<1>1. m \in Ups /\ m.type = "attach" /\ m.name = n
  BY MessagesTyped DEF About
<1>2. /\ SockInv(s) /\ up[s] \in Seq(Ups) /\ down[s] \in Seq(Downs) /\ srv[s] \in SrvStates
      /\ shown'.cur = n /\ shown'.view = "terminal"
  BY ShowsIs DEF AimedInv, TypeOK, AttachToSession
<1>3. up'[s] = IF CanSend /\ s = ws THEN Append(up[s], m) ELSE up[s]
  BY <1>1, SentOne DEF AttachToSession
<1>4. CASE CanSend /\ s = ws
  <2>1. transport = s /\ sock[s].st = "open" /\ sock[s].done
    BY <1>4, SentBy
  <2>2. srv'[s] = Strays(s)[s] /\ up'[s] = Append(up[s], m) /\ down'[s] = down[s]
    BY <1>3, <1>4 DEF AttachToSession
  <2>3. /\ srv'[s].bridge = srv[s].bridge /\ srv'[s].pend = srv[s].pend
        /\ srv'[s].spawning = srv[s].spawning /\ srv'[s].born = srv[s].born
        /\ srv'[s].st = srv[s].st
        /\ Answered(srv'[s]) => Answered(srv[s]) /\ ~Owed(up[s], down[s], srv[s])
    BY <2>2, StraysIs
  <2>4. Reaches(srv'[s]) = Reaches(srv[s])
    BY <2>3 DEF Reaches
  <2>5. ASSUME Answered(srv'[s])
        PROVE  /\ Aimed(up'[s], down'[s], srv'[s])
               /\ OnDisplay(up'[s], down'[s], srv'[s], n)
    <3>1. /\ Aimed(up[s], down[s], srv[s]) /\ ~Owed(up[s], down[s], srv[s])
      BY <1>2, <2>3, <2>5 DEF SockInv
    <3>2. Aimed(up'[s], down[s], srv[s]) /\ OnDisplay(up'[s], down[s], srv[s], n)
      BY <1>1, <1>2, <2>2, <3>1, SaysAttach
    <3>3. Single(down[s], "spawned")
      BY <3>1 DEF Aimed, OneOwed
    <3>4. QED
      BY <2>2, <2>3, <2>4, <3>2, <3>3, Eases
  <2>6. QED
    BY <1>2, <2>1, <2>3, <2>4, <2>5 DEF SockInv
<1>5. CASE ~(CanSend /\ s = ws)
  <2>1. srv'[s] = srv[s]
    BY <1>5, SentBy, StraysIs DEF AttachToSession
  <2>2. QED
    BY <1>2, <1>3, <1>5, <2>1, CannotSend, LeftAlone
<1>6. QED
  BY <1>4, <1>5

LEMMA SpawnKeeps ==
  ASSUME Typed, SpeakInv, AimedInv, NEW n \in Sessions, ClickNew(n)
  PROVE  AimedInv'
<1> USE DEF Typed
<1> SUFFICES ASSUME NEW s \in Socks PROVE SockInv(s)'
  BY DEF AimedInv
<1> DEFINE m == About("spawn", n)
<1>1. m \in Ups /\ m.type = "spawn"
  BY MessagesTyped DEF About, Names
<1>2. /\ SockInv(s) /\ up[s] \in Seq(Ups) /\ down[s] \in Seq(Downs) /\ srv[s] \in SrvStates
      /\ shown'.view = "loading" /\ UNCHANGED <<sock, transport, down>>
  BY DEF AimedInv, TypeOK, ShownStates, ClickNew
<1>3. up'[s] = IF CanSend /\ s = ws THEN Append(up[s], m) ELSE up[s]
  BY <1>1, SentOne DEF ClickNew
<1>4. CASE CanSend /\ s = ws
  <2>1. transport = s /\ sock[s].st = "open" /\ sock[s].done
    BY <1>4, SentBy
  <2>2. srv'[s] = Strays(s)[s] /\ up'[s] = Append(up[s], m) /\ down'[s] = down[s]
    BY <1>2, <1>3, <1>4 DEF ClickNew
  <2>3. /\ srv'[s].bridge = srv[s].bridge /\ srv'[s].pend = srv[s].pend
        /\ srv'[s].spawning = srv[s].spawning /\ srv'[s].born = srv[s].born
        /\ srv'[s].st = srv[s].st
        /\ Answered(srv'[s]) => Answered(srv[s]) /\ ~Owed(up[s], down[s], srv[s])
    BY <2>2, StraysIs
  <2>4. Reaches(srv'[s]) = Reaches(srv[s])
    BY <2>3 DEF Reaches
  <2>5. ASSUME Answered(srv'[s])
        PROVE  Aimed(up'[s], down'[s], srv'[s])
    <3>1. /\ Aimed(up[s], down[s], srv[s]) /\ ~Owed(up[s], down[s], srv[s])
      BY <1>2, <2>3, <2>5 DEF SockInv
    <3>2. Aimed(up'[s], down[s], srv[s])
      BY <1>1, <1>2, <2>2, <3>1, SaysSpawn
    <3>3. Single(down[s], "spawned")
      BY <3>1 DEF Aimed, OneOwed
    <3>4. QED
      BY <2>2, <2>3, <2>4, <3>2, <3>3, Eases
  <2>6. QED
    BY <1>2, <2>1, <2>3, <2>4, <2>5 DEF SockInv
<1>5. CASE ~(CanSend /\ s = ws)
  <2>1. srv'[s] = srv[s]
    BY <1>5, SentBy, StraysIs DEF ClickNew
  <2>2. QED
    BY <1>2, <1>3, <1>5, <2>1, LeftAlone
<1>6. QED
  BY <1>4, <1>5

LEMMA KeyKeeps ==
  ASSUME Typed, SpeakInv, AimedInv, Types
  PROVE  AimedInv'
<1> USE DEF Typed
<1> SUFFICES ASSUME NEW s \in Socks PROVE SockInv(s)'
  BY DEF AimedInv
<1> DEFINE m == About("key", shown.cur)
<1>1. m \in Ups /\ m.type = "key" /\ m.name = shown.cur
  BY MessagesTyped DEF About, TypeOK, ShownStates
<1>2. /\ SockInv(s) /\ up[s] \in Seq(Ups) /\ down[s] \in Seq(Downs) /\ srv[s] \in SrvStates
      /\ shown.view = "terminal" /\ CanSend /\ UNCHANGED <<sock, transport, down, srv, shown>>
  BY DEF AimedInv, TypeOK, Types
<1>3. up'[s] = IF CanSend /\ s = ws THEN Append(up[s], m) ELSE up[s]
  BY <1>1, SentOne DEF Types
<1>4. CASE s = ws
  <2>1. transport = s /\ sock[s].st = "open" /\ sock[s].done
    BY <1>2, <1>4, SentBy
  <2>2. ASSUME Answered(srv[s])
        PROVE  Aimed(up'[s], down[s], srv[s]) /\ OnDisplay(up'[s], down[s], srv[s], shown.cur)
    <3>1. Aimed(up[s], down[s], srv[s]) /\ OnDisplay(up[s], down[s], srv[s], shown.cur)
      BY <1>2, <2>1, <2>2 DEF SockInv
    <3>2. QED
      BY <1>1, <1>2, <1>3, <1>4, <3>1, SaysKey
  <2>3. QED
    BY <1>2, <2>1, <2>2 DEF SockInv
<1>5. CASE s # ws
  BY <1>2, <1>3, <1>5, LeftAlone
<1>6. QED
  BY <1>4, <1>5

LEMMA DetachKeeps ==
  ASSUME Typed, SpeakInv, AimedInv, NEW p, Detach(p), UNCHANGED <<sock, transport, down, srv>>
  PROVE  AimedInv'
<1> USE DEF Typed
<1> SUFFICES ASSUME NEW s \in Socks PROVE SockInv(s)'
  BY DEF AimedInv
<1>1. /\ Msg("detach") \in Ups /\ Msg("detach").type = "detach"
      /\ Msg("list") \in Ups /\ Msg("list").type = "list"
  BY MessagesTyped DEF Msg
<1>2. /\ SockInv(s) /\ up[s] \in Seq(Ups) /\ down[s] \in Seq(Downs) /\ srv[s] \in SrvStates
      /\ shown'.view = "loading"
  BY ReplaceIs DEF AimedInv, TypeOK, Detach
<1>3. CASE CanSend /\ s = ws
  <2> DEFINE one == Append(up[s], Msg("detach"))
  <2>1. transport = s /\ sock[s].st = "open" /\ sock[s].done
    BY <1>3, SentBy
  <2>2. up'[s] = up[s] \o ((IF p.attached THEN <<Msg("detach")>> ELSE <<>>) \o <<Msg("list")>>)
    <3>1. up' = [up EXCEPT ![ws] = @ \o ((IF p.attached THEN <<Msg("detach")>> ELSE <<>>)
                                            \o <<Msg("list")>>)]
      BY <1>3 DEF Detach, Sends, Sent
    <3>2. QED
      BY <1>3, <3>1 DEF TypeOK
  <2>3. /\ <<>> \o <<Msg("list")>> = <<Msg("list")>>
        /\ up[s] \o (<<Msg("detach")>> \o <<Msg("list")>>)
             = (up[s] \o <<Msg("detach")>>) \o <<Msg("list")>>
    <3>1. <<Msg("list")>> \in Seq(Ups) /\ <<Msg("detach")>> \in Seq(Ups)
      BY <1>1
    <3>2. QED
      BY <1>2, <3>1, ConcatEmptySeq, ConcatAssociative
  <2>4. /\ one = up[s] \o <<Msg("detach")>> /\ one \in Seq(Ups)
        /\ Append(one, Msg("list")) = one \o <<Msg("list")>>
        /\ Append(up[s], Msg("list")) = up[s] \o <<Msg("list")>>
    <3>1. one \in Seq(Ups)
      BY <1>1, <1>2
    <3>2. QED
      BY <1>1, <1>2, <3>1, AppendIsConcat
  <2>5. up'[s] = Append(one, Msg("list")) \/ up'[s] = Append(up[s], Msg("list"))
    BY <2>2, <2>3, <2>4
  <2> HIDE DEF one
  <2>6. ASSUME Aimed(up[s], down[s], srv[s]) PROVE Aimed(up'[s], down[s], srv[s])
    <3>1. Aimed(one, down[s], srv[s])
      BY <1>1, <1>2, <2>6, SaysOther DEF one
    <3>2. QED
      BY <1>1, <1>2, <2>4, <2>5, <2>6, <3>1, SaysOther
  <2>7. QED
    BY <1>2, <2>1, <2>6 DEF SockInv
<1>4. CASE ~(CanSend /\ s = ws)
  <2>1. up'[s] = up[s]
    BY <1>4 DEF Detach, Sends, Sent, TypeOK
  <2>2. QED
    BY <1>2, <2>1, LeftAlone
<1>5. QED
  BY <1>3, <1>4

(* A message of an open socket is taken: it was no answer the page shows.  *)
LEMMA TookKeeps ==
  ASSUME Typed, SpeakInv, AimedInv, NEW s \in Socks, sock[s].st = "open", down[s] # <<>>,
         Took(s), UNCHANGED <<sock, transport, up, srv>>,
         shown'.view = "terminal" => shown.view = "terminal" /\ shown'.cur = shown.cur
  PROVE  AimedInv'
<1> USE DEF Typed
<1> SUFFICES ASSUME NEW x \in Socks PROVE SockInv(x)'
  BY DEF AimedInv
<1>1. CASE x = s
  <2>1. /\ SockInv(s) /\ down[s] \in Seq(Downs) /\ down'[s] = Tail(down[s])
        /\ up'[s] = up[s] /\ srv'[s] = srv[s]
    BY DEF AimedInv, TypeOK, Took
  <2>2. Aimed(up[s], down[s], srv[s]) =>
          /\ Aimed(up'[s], down'[s], srv'[s])
          /\ \A n : OnDisplay(up[s], down[s], srv[s], n) =>
                      OnDisplay(up'[s], down'[s], srv'[s], n)
    BY <2>1, Hears
  <2>3. ~Owed(up[s], down[s], srv[s]) => ~Owed(up'[s], down'[s], srv'[s])
    BY <2>1, Hears
  <2>4. QED
    BY <1>1, <2>1, <2>2, <2>3, KeptAimed DEF SockInv
<1>2. CASE x # s
  <2>1. down'[x] = down[x] /\ SockInv(x)
    BY <1>2 DEF Took, TypeOK, AimedInv
  <2>2. QED
    BY <2>1, LeftAlone
<1>3. QED
  BY <1>1, <1>2

(* The noise of a handshake goes out.                                      *)
LEMMA PairedKeeps ==
  ASSUME Typed, SpeakInv, AimedInv, NEW s \in Socks, Paired(s)
  PROVE  AimedInv'
<1> USE DEF Typed
<1> SUFFICES ASSUME NEW x \in Socks PROVE SockInv(x)'
  BY DEF AimedInv
<1> DEFINE m == Msg("noise")
<1>1. m \in Ups /\ m.type = "noise"
  BY MessagesTyped DEF Msg
<1>2. /\ sock[s].st = "open" /\ down[s] # <<>> /\ down[s] \in Seq(Downs)
      /\ up[s] \in Seq(Ups) /\ srv[s] \in SrvStates
      /\ shown'.view = "loading" /\ UNCHANGED <<sock, transport, srv>> /\ s = ws
  BY DEF Paired, Next1, TypeOK, ShownStates, SpeakInv, OnlyCurrentSpeaks
<1>3. /\ down'[s] = Tail(down[s])
      /\ \A y \in Socks \ {s} : down'[y] = down[y] /\ up'[y] = up[y]
      /\ up'[s] = Append(up[s], m)
  <2>1. up' = [up EXCEPT ![s] = @ \o <<m>>] /\ down' = [down EXCEPT ![s] = Tail(@)]
    BY <1>2, BrowserNone DEF Paired, Took, Sent
  <2>2. Append(up[s], m) = up[s] \o <<m>>
    BY <1>1, <1>2, AppendIsConcat
  <2>3. QED
    BY <2>1, <2>2 DEF TypeOK
<1>4. CASE x = s
  <2>1. SockInv(s)
    BY DEF AimedInv
  <2>2. Aimed(up[s], down[s], srv[s]) => Aimed(up'[s], down'[s], srv'[s])
    <3> SUFFICES ASSUME Aimed(up[s], down[s], srv[s])
                 PROVE  Aimed(up'[s], down'[s], srv[s])
      BY <1>2
    <3>1. Aimed(up'[s], down[s], srv[s])
      BY <1>1, <1>2, <1>3, SaysOther
    <3>2. QED
      BY <1>2, <1>3, <3>1, Hears
  <2>3. ASSUME ~sock[s].done
        PROVE  /\ \A i \in DOMAIN up'[s] : up'[s][i].type = "noise"
               /\ ~Owed(up'[s], down'[s], srv'[s]) /\ Reaches(srv'[s]) = None
    <3>1. /\ \A i \in DOMAIN up[s] : up[s][i].type = "noise"
          /\ ~Owed(up[s], down[s], srv[s]) /\ Reaches(srv[s]) = None
      BY <2>1, <2>3 DEF SockInv
    <3>2. \A i \in DOMAIN up'[s] : up'[s][i].type = "noise"
      <4>1. \A i \in DOMAIN up'[s] : \/ i \in DOMAIN up[s] /\ up'[s][i] = up[s][i]
                                     \/ up'[s][i] = m
        BY <1>1, <1>2, <1>3
      <4>2. QED
        BY <1>1, <3>1, <4>1
    <3>3. ~Owed(up[s], down'[s], srv[s])
      BY <1>2, <1>3, <3>1, Hears
    <3>4. QED
      BY <1>2, <3>1, <3>2, <3>3 DEF Owed, Has
  <2>4. QED
    BY <1>2, <1>4, <2>1, <2>2, <2>3 DEF SockInv
<1>5. CASE x # s
  BY <1>2, <1>3, <1>5, LeftAlone DEF AimedInv
<1>6. QED
  BY <1>4, <1>5

(* The handshake is over: the page attaches to what it showed, or lists.   *)
LEMMA WelcomeKeeps ==
  ASSUME Typed, SpeakInv, AimedInv, NEW s \in Socks, Welcome(s)
  PROVE  AimedInv'
<1> USE DEF Typed
<1> SUFFICES ASSUME NEW x \in Socks PROVE SockInv(x)'
  BY DEF AimedInv
<1> DEFINE target == IF shown.cur # None THEN shown.cur ELSE token.home
           m == IF target # None THEN About("attach", target) ELSE Msg("list")
<1>1. target \in Names /\ m \in Ups
      /\ IF target # None THEN m.type = "attach" /\ m.name = target ELSE m.type = "list"
  <2>1. target \in Names
    BY DEF TypeOK, ShownStates, TokenStates
  <2>2. QED
    BY <2>1, MessagesTyped DEF About, Msg
<1>2. /\ sock[s].st = "open" /\ down[s] # <<>> /\ down[s] \in Seq(Downs)
      /\ up[s] \in Seq(Ups) /\ srv[s] \in SrvStates /\ ~sock[s].done
      /\ transport' = s /\ srv' = srv /\ s = ws
  BY DEF Welcome, Next1, TypeOK, SpeakInv, OnlyCurrentSpeaks
<1>3. /\ down'[s] = Tail(down[s])
      /\ \A y \in Socks \ {s} : down'[y] = down[y] /\ up'[y] = up[y] /\ sock'[y] = sock[y]
      /\ up'[s] = Append(up[s], m) /\ sock'[s].st = "open" /\ sock'[s].done
  <2>1. /\ up' = [up EXCEPT ![s] = @ \o <<m>>] /\ down' = [down EXCEPT ![s] = Tail(@)]
        /\ sock' = [sock EXCEPT ![s].done = TRUE]
    BY <1>2, BrowserNone DEF Welcome, Took, Sent
  <2>2. Append(up[s], m) = up[s] \o <<m>>
    BY <1>1, <1>2, AppendIsConcat
  <2>3. QED
    BY <1>2, <2>1, <2>2 DEF TypeOK, SockStates
<1>4. IF target # None THEN shown'.cur = target ELSE shown'.view = "loading"
  BY <1>1, ShowsIs DEF Welcome, TypeOK, ShownStates
<1> HIDE DEF m, target
<1>5. CASE x = s
  <2>1. SockInv(s)
    BY DEF AimedInv
  <2>2. ~Owed(up[s], down[s], srv[s])
    BY <1>2, <2>1 DEF SockInv
  <2>3. Aimed(up[s], down[s], srv[s]) =>
          /\ Aimed(up'[s], down'[s], srv[s])
          /\ target # None => OnDisplay(up'[s], down'[s], srv[s], target)
    <3> SUFFICES ASSUME Aimed(up[s], down[s], srv[s])
                 PROVE  /\ Aimed(up'[s], down'[s], srv[s])
                        /\ target # None => OnDisplay(up'[s], down'[s], srv[s], target)
      OBVIOUS
    <3>1. /\ Aimed(up'[s], down[s], srv[s])
          /\ target # None => OnDisplay(up'[s], down[s], srv[s], target)
      <4>1. CASE target # None
        BY <1>1, <1>2, <1>3, <2>2, <4>1, SaysAttach
      <4>2. CASE target = None
        BY <1>1, <1>2, <1>3, <4>2, SaysOther
      <4>3. QED
        BY <4>1, <4>2
    <3>2. QED
      BY <1>2, <1>3, <3>1, Hears
  <2>4. QED
    BY <1>2, <1>3, <1>4, <1>5, <2>1, <2>3 DEF SockInv
<1>6. CASE x # s
  BY <1>2, <1>3, <1>6, LeftAlone DEF AimedInv
<1>7. QED
  BY <1>5, <1>6

(* The answer to a spawn is shown, unless the page attached meanwhile.     *)
LEMMA SpawnedKeeps ==
  ASSUME Typed, SpeakInv, AimedInv, NEW s \in Socks, Spawned(s)
  PROVE  AimedInv'
<1> USE DEF Typed
<1>1. /\ sock[s].st = "open" /\ down[s] # <<>> /\ Head(down[s]).type = "spawned" /\ Took(s)
      /\ transport = s /\ sock[s].done /\ UNCHANGED <<sock, transport, up, srv>>
  BY DEF Spawned, Reads, Next1
<1>2. CASE page.attached
  BY <1>1, <1>2, TookKeeps DEF Spawned
<1>3. CASE ~page.attached
  <2> DEFINE n == Head(down[s]).name
  <2>1. shown'.cur = n
    BY <1>3, ShowsIs DEF Spawned
  <2>2. ASSUME NEW x \in Socks, x # s PROVE SockInv(x)'
    <3>1. down'[x] = down[x] /\ SockInv(x)
      BY <1>1, <2>2 DEF Took, TypeOK, AimedInv
    <3>2. QED
      BY <1>1, <2>2, <3>1, LeftAlone
  <2>3. SockInv(s)'
    <3>1. /\ SockInv(s) /\ down[s] \in Seq(Downs) /\ down'[s] = Tail(down[s])
          /\ up'[s] = up[s] /\ srv'[s] = srv[s]
      BY <1>1 DEF AimedInv, TypeOK, Took
    <3>2. Aimed(up[s], down[s], srv[s]) =>
            /\ Aimed(up'[s], down'[s], srv'[s])
            /\ OnDisplay(up'[s], down'[s], srv'[s], n)
      <4> SUFFICES ASSUME Aimed(up[s], down[s], srv[s])
                   PROVE  /\ Aimed(up[s], Tail(down[s]), srv[s])
                          /\ OnDisplay(up[s], Tail(down[s]), srv[s], n)
        BY <3>1
      <4>1. Aimed(up[s], Tail(down[s]), srv[s])
        BY <1>1, <3>1, Hears
      <4>2. QED
        BY <1>1, <3>1, <4>1, SpawnShown
    <3>3. QED
      BY <1>1, <2>1, <3>1, <3>2 DEF SockInv
  <2>4. QED
    BY <2>2, <2>3 DEF AimedInv
<1>4. QED
  BY <1>2, <1>3

(* The page closes its socket: it hears no more from it, and what it said  *)
(* is still aimed.                                                         *)
LEMMA CloseWsKeeps ==
  ASSUME Typed, SpeakInv, AimedInv, NEW d, CloseWs(d), up' = up, srv' = srv,
         shown'.view = "loading",
         \A x \in Socks : \/ d[x] = down[x]
                          \/ x = ws /\ sock[x].st = "open",
         d \in [Socks -> Seq(Downs)]
  PROVE  AimedInv'
<1> USE DEF Typed
<1> SUFFICES ASSUME NEW x \in Socks PROVE SockInv(x)'
  BY DEF AimedInv
<1>1. transport' = None /\ SockInv(x) /\ x # None
  BY BrowserNone DEF CloseWs, AimedInv
<1>2. CASE x = ws /\ sock[x].st \in {"connecting", "open"}
  <2>1. /\ sock' = [sock EXCEPT ![x].st = "closing"] /\ down' = [d EXCEPT ![x] = <<>>]
    BY <1>1, <1>2 DEF CloseWs
  <2>2. /\ sock'[x].st = "closing" /\ sock'[x].done = sock[x].done /\ down'[x] = <<>>
    BY <2>1 DEF TypeOK, SockStates
  <2>3. Single(<<>>, "spawned") /\ ~Has(<<>>, "spawned")
    BY DEF Single, Has
  <2>4. Aimed(up[x], down[x], srv[x]) => Aimed(up'[x], down'[x], srv'[x])
    BY <2>2, <2>3, Eases
  <2>5. ~Owed(up[x], down[x], srv[x]) => ~Owed(up'[x], down'[x], srv'[x])
    BY <2>2, <2>3 DEF Owed
  <2>6. QED
    BY <1>1, <2>2, <2>4, <2>5 DEF SockInv
<1>3. CASE ~(x = ws /\ sock[x].st \in {"connecting", "open"})
  <2>1. sock'[x] = sock[x] /\ down'[x] = down[x]
    BY <1>1, <1>3 DEF CloseWs, TypeOK
  <2>2. QED
    BY <1>1, <2>1, LeftAlone
<1>4. QED
  BY <1>2, <1>3

LEMMA OnCloseKeeps ==
  ASSUME Typed, AimedInv, NEW s \in Socks, OnClose(s)
  PROVE  AimedInv'
<1> USE DEF Typed
<1> SUFFICES ASSUME NEW x \in Socks PROVE SockInv(x)'
  BY DEF AimedInv
<1>1. CASE x = s
  BY <1>1, EmptyInv DEF OnClose, TypeOK, Closed, Fresh
<1>2. CASE x # s
  <2>1. /\ sock'[x] = sock[x] /\ up'[x] = up[x] /\ down'[x] = down[x] /\ srv'[x] = srv[x]
        /\ transport' = transport /\ (shown' = shown \/ shown'.view = "loading")
    BY <1>2 DEF OnClose, StatusOf, TypeOK, ShownStates
  <2>2. QED
    BY <2>1, LeftAlone DEF AimedInv
<1>3. QED
  BY <1>1, <1>2

LEMMA LoadKeeps == TypeOK /\ Load => AimedInv'
<1> SUFFICES ASSUME TypeOK, Load, NEW s \in Socks PROVE SockInv(s)'
  BY DEF AimedInv
<1>1. QED
  BY EmptyInv DEF Load, Closed, Fresh

LEMMA AimedStep == Typed /\ Typed' /\ SpeakInv /\ AimedInv /\ [Next]_vars => AimedInv'
<1> SUFFICES ASSUME Typed, Typed', SpeakInv, AimedInv, [Next]_vars PROVE AimedInv'
  OBVIOUS
<1> USE DEF Typed
<1>1. CASE Resolves
  <2> DEFINE free == {c \in Socks : sock[c].st = "closed"}
  <2>1. PICK s \in Socks :
          /\ sock[s].st = "closed" /\ page.resolving
          /\ sock' = [sock EXCEPT ![s] = [Closed EXCEPT !.st = "connecting"]]
          /\ srv' = [srv EXCEPT ![s] = [Fresh EXCEPT !.cred = token.held]]
          /\ UNCHANGED <<transport, shown, up, down>>
    <3>1. free # {}
      BY <1>1 DEF Resolves
    <3>2. (CHOOSE c \in free : TRUE) \in free
      BY <3>1
    <3>3. QED
      BY <1>1, <3>2 DEF Resolves
  <2>2. up'[s] = <<>> /\ down'[s] = <<>>
    BY <2>1 DEF AimedInv, SockInv
  <2>3. SockInv(s)'
    BY <2>1, <2>2, EmptyInv DEF TypeOK, Closed, Fresh
  <2>4. ASSUME NEW x \in Socks, x # s PROVE SockInv(x)'
    BY <2>1, <2>4, LeftAlone DEF TypeOK, AimedInv
  <2>5. QED
    BY <2>3, <2>4 DEF AimedInv
<1>2. CASE TimerFires
  <2>1. CloseWs(down) /\ up' = up /\ srv' = srv /\ shown'.view = "loading"
    BY <1>2 DEF TimerFires, ConnectToRelay, TypeOK, ShownStates
  <2>2. QED
    BY <2>1, CloseWsKeeps DEF TypeOK
<1>3. CASE PopFires
  <2> DEFINE path == shown.hist[shown.pos]
             rest == [page EXCEPT !.popTimer = FALSE]
  <2>1. path \in Names /\ UNCHANGED <<sock, transport, down>>
    BY <1>3 DEF PopFires, TypeOK, OnHistory, ShownStates
  <2>2. CASE AttachToSession(path)
    BY <2>1, <2>2, AttachKeeps
  <2>3. CASE Detach(rest) /\ srv' = srv
    BY <2>1, <2>3, DetachKeeps
  <2>4. CASE UNCHANGED <<shown, up, srv>>
    BY <2>1, <2>4, LeftAlone DEF AimedInv
  <2>5. QED
    BY <1>3, <2>2, <2>3, <2>4 DEF PopFires
<1>4. CASE Load
  BY <1>4, LoadKeeps
<1>5. ASSUME NEW s \in Socks, Opens(s), NEW x \in Socks PROVE SockInv(x)'
  <2>1. /\ UNCHANGED <<transport, up, down, srv>> /\ shown'.view = "loading" /\ SockInv(x)
        /\ sock' = [sock EXCEPT ![s].st = "open"]
    BY <1>5 DEF Opens, AimedInv, TypeOK, ShownStates
  <2>2. CASE x = s
    <3>1. sock'[x].st = "open" /\ sock'[x].done = sock[x].done
      BY <2>1, <2>2 DEF TypeOK, SockStates
    <3>2. QED
      BY <2>1, <3>1 DEF SockInv
  <2>3. CASE x # s
    BY <2>1, <2>3, LeftAlone DEF TypeOK
  <2>4. QED
    BY <2>2, <2>3
<1>6. ASSUME NEW s \in Socks, CloseArrives(s) \/ Breaks(s) \/ RefusedClose(s)
      PROVE  AimedInv'
  BY <1>6, OnCloseKeeps DEF CloseArrives, Breaks, RefusedClose
<1>7. ASSUME NEW s \in Socks,
             \/ Waiting(s) \/ PeerDisconnected(s) \/ Revoked(s)
             \/ ApprovedMsg(s) \/ Attached(s) \/ Listed(s) \/ Errs(s)
      PROVE  AimedInv'
  <2>1. /\ sock[s].st = "open" /\ down[s] # <<>> /\ Took(s)
        /\ UNCHANGED <<sock, transport, up, srv>>
    BY <1>7 DEF Waiting, PeerDisconnected, Revoked, ApprovedMsg, Attached, Listed, Errs,
                Reads, Next1
  <2>2. \/ shown' = shown \/ shown' = [shown EXCEPT !.view = "loading"]
        \/ shown' = [shown EXCEPT !.view = "sessions"]
    BY <1>7 DEF Waiting, PeerDisconnected, Revoked, ApprovedMsg, Attached, Listed, Errs
  <2>3. shown'.view = "terminal" => shown.view = "terminal" /\ shown'.cur = shown.cur
    BY <2>2 DEF TypeOK, ShownStates
  <2>4. QED
    BY <2>1, <2>3, TookKeeps
<1>8. ASSUME NEW s \in Socks, Exits(s) PROVE AimedInv'
  <2> DEFINE d == [down EXCEPT ![s] = Tail(@)]
  <2>1. /\ CloseWs(d) /\ up' = up /\ srv' = srv /\ sock[s].st = "open" /\ down[s] # <<>>
        /\ shown'.view = "loading"
    BY <1>8, ReplaceIs DEF Exits, Next1
  <2>2. s = ws
    BY <2>1 DEF SpeakInv, OnlyCurrentSpeaks
  <2>3. d \in [Socks -> Seq(Downs)] /\ \A x \in Socks : x # s => d[x] = down[x]
    BY <2>1, QueueTyped DEF TypeOK
  <2> HIDE DEF d
  <2>4. QED
    BY <2>1, <2>2, <2>3, CloseWsKeeps
<1>9. CASE User
  <2>1. CASE Refresh
    BY <1>4, <2>1 DEF Refresh
  <2>2. ASSUME NEW n \in Sessions, Click(n) PROVE AimedInv'
    BY <2>2, AttachKeeps DEF Click, Names
  <2>3. ASSUME NEW n \in Sessions, ClickNew(n) PROVE AimedInv'
    BY <2>3, SpawnKeeps
  <2>4. CASE ClickDetach
    BY <2>4, DetachKeeps DEF ClickDetach
  <2>5. CASE Types
    BY <2>5, KeyKeeps
  <2>6. ASSUME NEW d, Steps(d) PROVE AimedInv'
    <3>1. /\ UNCHANGED <<sock, transport, up, down, srv>>
          /\ shown'.view = shown.view /\ shown'.cur = shown.cur
      BY <2>6 DEF Steps, TypeOK, ShownStates
    <3>2. QED
      BY <3>1, LeftAlone DEF AimedInv
  <2>7. QED
    BY <1>9, <2>1, <2>2, <2>3, <2>4, <2>5, <2>6 DEF User
<1>10. CASE World
  BY <1>6, <1>10, ServerKeeps DEF World
<1>11. CASE UNCHANGED vars
  BY <1>11, LeftAlone DEF vars, AimedInv
<1>12. CASE Page
  BY <1>1, <1>2, <1>3, <1>4, <1>5, <1>6, <1>7, <1>8, <1>12, PairedKeeps, WelcomeKeeps,
     SpawnedKeeps DEF Page, PageTakes, ReloadFires, AimedInv
<1>13. QED
  BY <1>9, <1>10, <1>11, <1>12 DEF Next

LEMMA AimedInvariance == Spec => [](Typed /\ AimedInv)
<1>1. Init => AimedInv
  <2> SUFFICES ASSUME Init, NEW s \in Socks PROVE SockInv(s)
    BY DEF AimedInv
  <2>1. /\ up[s] = <<>> /\ down[s] = <<>> /\ srv[s] = Fresh /\ sock[s].done = FALSE
        /\ transport = None /\ transport # s
    BY BrowserNone DEF Init, Closed
  <2>2. Reaches(srv[s]) = None
    BY <2>1 DEF Reaches, Fresh
  <2>3. QED
    BY <2>1, <2>2 DEF SockInv, Fresh, Owed, Has, Aimed, KeysAimed, OneOwed, Single,
                      NoneSince, AnswerAimed
<1>2. QED
  BY <1>1, AimedStep, SpeakInvariance, PTL DEF Spec

(* A key typed at a session reaches it or none, for any number of sessions,*)
(* sockets, clicks, spawns and faults, whatever is still under way, as     *)
(* long as the page did not move on while a spawn was unanswered           *)
(* (attachToSession, onmessage and sendEncrypted of browser/src/main.ts    *)
(* against the bridge of start-shared.ts).                                 *)
THEOREM KeysHold == Spec => []KeysGoToShown
<1>1. Typed /\ AimedInv => KeysGoToShown
  <2> SUFFICES ASSUME Typed, AimedInv, NEW s \in Socks, up[s] # <<>>,
                      Head(up[s]).type = "key", ~srv[s].stray
               PROVE  Reaches(srv[s]) \in {None, Head(up[s]).name}
    BY DEF KeysGoToShown
  <2>1. SockInv(s)
    BY DEF AimedInv
  <2>2. CASE srv[s].st = "gone"
    BY <2>1, <2>2 DEF SockInv
  <2>3. CASE srv[s].st # "gone"
    <3>1. up[s] \in Seq(Ups)
      BY DEF Typed, TypeOK
    <3>2. 1 \in DOMAIN up[s] /\ Head(up[s]) = up[s][1]
      BY <3>1
    <3>3. Leads(up[s], 1 - 1, Reaches(srv[s]), up[s][1].name)
      BY <2>1, <2>3, <3>2 DEF SockInv, Answered, Aimed, KeysAimed
    <3>4. QED
      BY <3>2, <3>3 DEF Leads
  <2>4. QED
    BY <2>2, <2>3
<1>2. QED
  BY <1>1, AimedInvariance, PTL
=============================================================================
