-------------------------- MODULE ChannelMux_proofs --------------------------
(***************************************************************************)
(* Theorems about ChannelMux for every number of bridges, channel ids and  *)
(* channels, every frame limit and both daemons, proved with TLAPS.        *)
(***************************************************************************)
EXTENDS ChannelMux, FiniteSetTheorems, TLAPS

(* The inductive invariant behind the safety properties.  The life of a    *)
(* bridge object: nothing happens to one that was never built.             *)
LifeInv ==
  \A b \in Bridges :
    /\ kind[b] # "exec" => child[b] = "none" /\ b \notin finalized
    /\ kind[b] # "pty" => socket[b] = "null"
    /\ b \in termed => b \in finalized
    /\ b \in finalized /\ b \notin termed =>
         child[b] \in {"none", "exited", "ended"}
    /\ kind[b] = "exec" /\ b \notin finalized =>
         child[b] \in {"running", "failing", "dead"}

(* Who holds a bridge: the registry under the id it was built for, and     *)
(* cs.bridge for pty bridges.                                              *)
HolderInv ==
  /\ conn = "ready" => hasSession
  /\ csBridge # None => kind[csBridge] = "pty"
  /\ \A i \in ChanIds :
       registry[i] # None =>
         kind[registry[i]] # "unused" /\ chan[registry[i]] = i
  /\ \A b \in Bridges :
       /\ kind[b] = "exec" /\ b \notin finalized =>
            hasSession /\ registry[chan[b]] = b
       /\ socket[b] # "null" => csBridge = b /\ registry[PtyChan] = b

IInv == TypeOK /\ LifeInv /\ HolderInv

-----------------------------------------------------------------------------
(* What a handler sends is a sequence of frames.                           *)
LEMMA OneFrame ==
  ASSUME NEW t \in {"ack", "error", "data", "exit", "close", "attached"},
         NEW i \in ChanIds, NEW b \in Handler
  PROVE  <<Msg(t, i, b)>> \in Seq(Frame)
BY DEF Frame, Msg

(* So are the two frames that announce the end of a channel.               *)
LEMMA ExitFrames ==
  ASSUME NEW i \in ChanIds, NEW b \in Handler
  PROVE  <<Msg("exit", i, b), Msg("close", i, b)>> \in Seq(Frame)
BY DEF Frame, Msg

(* Closing a set of bridges keeps the per-bridge state typed.              *)
LEMMA CloseTyped ==
  ASSUME TypeOK, NEW S \in SUBSET Bridges, CloseBridges(S)
  PROVE  /\ finalized' \subseteq Bridges
         /\ termed' \subseteq Bridges
         /\ socket' \in [Bridges -> {"null", "connecting", "open"}]
BY DEF TypeOK, CloseBridges, CloseExec, ExecIn, SocketsWithout

(* What the registry and cs.bridge hold are bridges.                       *)
LEMMA HeldAreBridges ==
  ASSUME TypeOK
  PROVE  /\ (Registered \cup {csBridge}) \ {None} \subseteq Bridges
         /\ {csBridge} \ {None} \subseteq Bridges
         /\ ({csBridge} \cup Registered) \ {None} \subseteq Bridges
         /\ ({csBridge} \cup {}) \ {None} \subseteq Bridges
BY DEF TypeOK, Registered, Occupied, Handler

(* teardownClient leaves everything it touches typed.                      *)
LEMMA TeardownTyped ==
  ASSUME TypeOK, TeardownClient
  PROVE  /\ finalized' \subseteq Bridges
         /\ termed' \subseteq Bridges
         /\ socket' \in [Bridges -> {"null", "connecting", "open"}]
         /\ registry' \in [ChanIds -> Handler]
         /\ view' \in [ChanIds -> Handler]
         /\ csBridge' \in Handler
         /\ conn' \in {"ready", "closed"} /\ hasSession' \in BOOLEAN
BY HeldAreBridges, CloseTyped DEF TeardownClient, Handler

(* Every handler keeps the state typed: one step per action.              *)
LEMMA TypeStep == TypeOK /\ [Next]_vars => TypeOK'
<1> SUFFICES ASSUME TypeOK, [Next]_vars PROVE TypeOK'
  OBVIOUS
<1> USE NoneAssumption, ChanAssumption, BoundAssumption
        DEF TypeOK, Handler, bridgeVars
<1>1. ASSUME NEW i \in ChanIds, OpenRefused(i) PROVE TypeOK'
  <2>1. <<Msg("error", i, None)>> \in Seq(Frame)
    BY OneFrame
  <2>2. QED
    BY <1>1, <2>1 DEF OpenRefused
<1>2. ASSUME NEW i \in ChanIds, CloseChannel(i) PROVE TypeOK'
  BY <1>2
     DEF CloseChannel, CloseBridges, CloseExec, ExecIn, SocketsWithout,
         Registered, Occupied
<1>3. ASSUME NEW i \in ChanIds, NEW b \in Bridges, OpenSpawnFails(i, b)
      PROVE  TypeOK'
  <2>1. <<Msg("error", i, None)>> \in Seq(Frame)
    BY OneFrame
  <2>2. QED
    BY <1>3, <2>1 DEF OpenSpawnFails
<1>4. ASSUME NEW i \in ChanIds, NEW b \in Bridges, OpenExecChannel(i, b)
      PROVE  TypeOK'
  <2>1. <<Msg("ack", i, b)>> \in Seq(Frame)
    BY OneFrame
  <2>2. QED
    BY <1>4, <2>1 DEF OpenExecChannel
<1>5. ASSUME NEW i \in ChanIds, NEW b \in Bridges, StdinEof(i, b) PROVE TypeOK'
  BY <1>5 DEF StdinEof, ExecHears
<1>6. ASSUME NEW i \in ChanIds, NEW b \in Bridges, StdinWriteFails(i, b)
      PROVE  TypeOK'
  BY <1>6 DEF StdinWriteFails, ExecHears
<1>7. ASSUME NEW i \in ChanIds, NEW b \in Bridges, ProtocolError(i, b)
      PROVE  TypeOK'
  <2>1. <<Msg("close", i, b)>> \in Seq(Frame)
    BY OneFrame
  <2>2. /\ finalized' \subseteq Bridges
        /\ termed' \subseteq Bridges
        /\ socket' \in [Bridges -> {"null", "connecting", "open"}]
    BY <1>7, CloseTyped DEF ProtocolError
  <2>3. QED
    BY <1>7, <2>1, <2>2 DEF ProtocolError
<1>8. CASE List
  BY <1>8
     DEF List, CloseBridges, CloseExec, ExecIn, SocketsWithout, Registered,
         Occupied
<1>9. CASE Spawn
  BY <1>9 DEF Spawn
<1>10. ASSUME NEW b \in Bridges, Attach(b) PROVE TypeOK'
  BY <1>10
     DEF Attach, BridgeSession, AttachThrows, CloseExec, ExecIn,
         SocketsWithout
<1>11. ASSUME NEW b \in Bridges, AttachAtLimit(b) PROVE TypeOK'
  <2>1. /\ finalized' \subseteq Bridges
        /\ termed' \subseteq Bridges
        /\ socket' \in [Bridges -> {"null", "connecting", "open"}]
    BY <1>11, HeldAreBridges, CloseTyped DEF AttachAtLimit
  <2>2. /\ registry' \in [ChanIds -> Handler]
        /\ csBridge' \in Handler
        /\ hasSession' \in BOOLEAN
    BY <1>11 DEF AttachAtLimit
  <2>3. /\ kind' = [kind EXCEPT ![b] = "pty"]
        /\ conn' = "closed" /\ out' = <<>>
        /\ UNCHANGED <<chan, child, stdin, spawning, crash, view>>
    BY <1>11 DEF AttachAtLimit
  <2>4. QED
    BY <2>1, <2>2, <2>3
<1>12. ASSUME NEW b \in Bridges, ChildClosesStdin(b) PROVE TypeOK'
  BY <1>12 DEF ChildClosesStdin
<1>13. ASSUME NEW b \in Bridges, ChildDies(b) PROVE TypeOK'
  BY <1>13 DEF ChildDies
<1>14. ASSUME NEW b \in Bridges, ChildExit(b) PROVE TypeOK'
  <2>1. CASE b \in finalized
    BY <1>14, <2>1 DEF ChildExit, Announce
  <2>2. CASE b \notin finalized /\ conn = "ready"
    <3>1. <<Msg("exit", chan[b], b), Msg("close", chan[b], b)>> \in Seq(Frame)
      BY ExitFrames
    <3>2. QED
      BY <1>14, <2>2, <3>1 DEF ChildExit, Announce
  <2>3. CASE b \notin finalized /\ conn # "ready"
    BY <1>14, <2>3 DEF ChildExit, Announce
  <2>4. QED
    BY <2>1, <2>2, <2>3
<1>15. ASSUME NEW b \in Bridges, ChildError(b) PROVE TypeOK'
  <2>1. CASE b \in finalized
    BY <1>15, <2>1 DEF ChildError, Announce
  <2>2. CASE b \notin finalized /\ conn = "ready"
    <3>1. <<Msg("exit", chan[b], b), Msg("close", chan[b], b)>> \in Seq(Frame)
      BY ExitFrames
    <3>2. QED
      BY <1>15, <2>2, <3>1 DEF ChildError, Announce
  <2>3. CASE b \notin finalized /\ conn # "ready"
    BY <1>15, <2>3 DEF ChildError, Announce
  <2>4. QED
    BY <2>1, <2>2, <2>3
<1>16. ASSUME NEW b \in Bridges, ChildDrained(b) PROVE TypeOK'
  BY <1>16 DEF ChildDrained
<1>17. ASSUME NEW b \in Bridges, NEW n \in ChunkSizes, ChildOutput(b, n)
       PROVE  TypeOK'
  <2>1. <<Msg("data", chan[b], b)>> \in Seq(Frame)
    BY OneFrame
  <2>2. CASE CanSend(n + 1)
    BY <1>17, <2>1, <2>2 DEF ChildOutput
  <2>3. CASE ~CanSend(n + 1)
    BY <1>17, <2>3 DEF ChildOutput
  <2>4. QED
    BY <2>2, <2>3
<1>18. CASE SpawnFails
  BY <1>18 DEF SpawnFails
<1>19. ASSUME NEW b \in Bridges, SpawnBridges(b) PROVE TypeOK'
  BY <1>19
     DEF SpawnBridges, BridgeSession, AttachThrows, CloseExec, ExecIn,
         SocketsWithout
<1>20. ASSUME NEW b \in Bridges, SpawnAtLimit(b) PROVE TypeOK'
  BY <1>20
     DEF SpawnAtLimit, CloseBridges, CloseExec, ExecIn, SocketsWithout,
         Registered, Occupied, AttachThrows
<1>21. ASSUME NEW b \in Bridges, PtyConnected(b) PROVE TypeOK'
  <2>1. <<Msg("attached", PtyChan, b)>> \in Seq(Frame)
    BY OneFrame
  <2>2. CASE conn = "ready"
    BY <1>21, <2>1, <2>2, ZenonT(90) DEF PtyConnected
  <2>3. CASE conn # "ready"
    BY <1>21, <2>3 DEF PtyConnected
  <2>4. QED
    BY <2>2, <2>3
<1>22. ASSUME NEW b \in Bridges, PtyGone(b) PROVE TypeOK'
  BY <1>22 DEF PtyGone
<1>23. ASSUME NEW b \in Bridges, NEW n \in ChunkSizes, PtyData(b, n)
       PROVE  TypeOK'
  <2>1. <<Msg("data", PtyChan, b)>> \in Seq(Frame)
    BY OneFrame
  <2>2. CASE CanSend(n)
    BY <1>23, <2>1, <2>2 DEF PtyData
  <2>3. CASE ~CanSend(n)
    BY <1>23, <2>3 DEF PtyData
  <2>4. QED
    BY <2>2, <2>3
<1>24. CASE Disconnect
  BY <1>24, TeardownTyped DEF Disconnect
<1>25. CASE DecryptFails
  BY <1>25, TeardownTyped DEF DecryptFails
<1>26. CASE UNCHANGED vars
  BY <1>26 DEF vars
<1>27. QED
  BY <1>1, <1>2, <1>3, <1>4, <1>5, <1>6, <1>7, <1>8, <1>9, <1>10, <1>11,
     <1>12, <1>13, <1>14, <1>15, <1>16, <1>17, <1>18, <1>19, <1>20, <1>21,
     <1>22, <1>23, <1>24, <1>25, <1>26
     DEF Next, ClientFrame, ChildEvent, PtyEvent

(* Every handler keeps a bridge's life in order: what is unused, open or   *)
(* finalized agrees with its child and its socket.                         *)
LEMMA LifeStep == IInv /\ [Next]_vars => LifeInv'
<1> SUFFICES ASSUME IInv, [Next]_vars PROVE LifeInv'
  OBVIOUS
<1> USE NoneAssumption, ChanAssumption
        DEF IInv, TypeOK, LifeInv, Handler, bridgeVars
<1>1. ASSUME NEW i \in ChanIds, OpenRefused(i) PROVE LifeInv'
  BY <1>1 DEF OpenRefused
<1>2. ASSUME NEW i \in ChanIds, CloseChannel(i) PROVE LifeInv'
  BY <1>2
     DEF CloseChannel, CloseBridges, CloseExec, ExecIn, SocketsWithout,
         Registered, Occupied
<1>3. ASSUME NEW i \in ChanIds, NEW b \in Bridges, OpenSpawnFails(i, b)
      PROVE  LifeInv'
  BY <1>3 DEF OpenSpawnFails, RegistryAccepts
<1>4. ASSUME NEW i \in ChanIds, NEW b \in Bridges, OpenExecChannel(i, b)
      PROVE  LifeInv'
  BY <1>4 DEF OpenExecChannel, RegistryAccepts
<1>5. ASSUME NEW i \in ChanIds, NEW b \in Bridges, StdinEof(i, b)
      PROVE  LifeInv'
  BY <1>5 DEF StdinEof, ExecHears
<1>6. ASSUME NEW i \in ChanIds, NEW b \in Bridges, StdinWriteFails(i, b)
      PROVE  LifeInv'
  BY <1>6 DEF StdinWriteFails, ExecHears
<1>7. ASSUME NEW i \in ChanIds, NEW b \in Bridges, ProtocolError(i, b)
      PROVE  LifeInv'
  BY <1>7
     DEF ProtocolError, ExecHears, CloseBridges, CloseExec, ExecIn,
         SocketsWithout, Registered, Occupied
<1>8. CASE List
  BY <1>8
     DEF List, CloseBridges, CloseExec, ExecIn, SocketsWithout, Registered,
         Occupied
<1>9. CASE Spawn
  BY <1>9 DEF Spawn
<1>10. ASSUME NEW b \in Bridges, Attach(b) PROVE LifeInv'
  BY <1>10
     DEF Attach, BridgeSession, AttachThrows, CloseExec, ExecIn,
         SocketsWithout
<1>11. ASSUME NEW b \in Bridges, AttachAtLimit(b) PROVE LifeInv'
  BY <1>11
     DEF AttachAtLimit, CloseBridges, CloseExec, ExecIn, SocketsWithout,
         Registered, Occupied, AttachThrows
<1>12. ASSUME NEW b \in Bridges, ChildClosesStdin(b) PROVE LifeInv'
  BY <1>12 DEF ChildClosesStdin
<1>13. ASSUME NEW b \in Bridges, ChildDies(b) PROVE LifeInv'
  BY <1>13 DEF ChildDies
<1>14. ASSUME NEW b \in Bridges, ChildExit(b) PROVE LifeInv'
  BY <1>14 DEF ChildExit, Announce
<1>15. ASSUME NEW b \in Bridges, ChildError(b) PROVE LifeInv'
  BY <1>15 DEF ChildError, Announce
<1>16. ASSUME NEW b \in Bridges, ChildDrained(b) PROVE LifeInv'
  BY <1>16 DEF ChildDrained
<1>17. ASSUME NEW b \in Bridges, NEW n \in ChunkSizes, ChildOutput(b, n)
       PROVE  LifeInv'
  BY <1>17 DEF ChildOutput, CanSend
<1>18. CASE SpawnFails
  BY <1>18 DEF SpawnFails
<1>19. ASSUME NEW b \in Bridges, SpawnBridges(b) PROVE LifeInv'
  BY <1>19
     DEF SpawnBridges, BridgeSession, AttachThrows, CloseExec, ExecIn,
         SocketsWithout
<1>20. ASSUME NEW b \in Bridges, SpawnAtLimit(b) PROVE LifeInv'
  BY <1>20
     DEF SpawnAtLimit, CloseBridges, CloseExec, ExecIn, SocketsWithout,
         Registered, Occupied, AttachThrows
<1>21. ASSUME NEW b \in Bridges, PtyConnected(b) PROVE LifeInv'
  BY <1>21 DEF PtyConnected
<1>22. ASSUME NEW b \in Bridges, PtyGone(b) PROVE LifeInv'
  BY <1>22 DEF PtyGone
<1>23. ASSUME NEW b \in Bridges, NEW n \in ChunkSizes, PtyData(b, n)
       PROVE  LifeInv'
  BY <1>23 DEF PtyData, CanSend
<1>24. CASE Disconnect
  BY <1>24
     DEF Disconnect, TeardownClient, CloseBridges, CloseExec, ExecIn,
         SocketsWithout, Registered, Occupied
<1>25. CASE DecryptFails
  BY <1>25
     DEF DecryptFails, TeardownClient, CloseBridges, CloseExec, ExecIn,
         SocketsWithout, Registered, Occupied
<1>26. CASE UNCHANGED vars
  BY <1>26 DEF vars
<1>27. QED
  BY <1>1, <1>2, <1>3, <1>4, <1>5, <1>6, <1>7, <1>8, <1>9, <1>10, <1>11,
     <1>12, <1>13, <1>14, <1>15, <1>16, <1>17, <1>18, <1>19, <1>20, <1>21,
     <1>22, <1>23, <1>24, <1>25, <1>26
     DEF Next, ClientFrame, ChildEvent, PtyEvent

(* Every handler keeps the registry and cs.bridge holding what is alive.   *)
LEMMA HolderStep == IInv /\ [Next]_vars => HolderInv'
<1> SUFFICES ASSUME IInv, [Next]_vars PROVE HolderInv'
  OBVIOUS
<1> USE NoneAssumption, ChanAssumption
        DEF IInv, TypeOK, LifeInv, HolderInv, Handler, bridgeVars
<1>1. ASSUME NEW i \in ChanIds, OpenRefused(i) PROVE HolderInv'
  BY <1>1 DEF OpenRefused
<1>2. ASSUME NEW i \in ChanIds, CloseChannel(i) PROVE HolderInv'
  BY <1>2
     DEF CloseChannel, CloseBridges, CloseExec, ExecIn, SocketsWithout,
         Registered, Occupied
<1>3. ASSUME NEW i \in ChanIds, NEW b \in Bridges, OpenSpawnFails(i, b)
      PROVE  HolderInv'
  BY <1>3 DEF OpenSpawnFails, RegistryAccepts
<1>4. ASSUME NEW i \in ChanIds, NEW b \in Bridges, OpenExecChannel(i, b)
      PROVE  HolderInv'
  BY <1>4 DEF OpenExecChannel, RegistryAccepts
<1>5. ASSUME NEW i \in ChanIds, NEW b \in Bridges, StdinEof(i, b)
      PROVE  HolderInv'
  BY <1>5 DEF StdinEof, ExecHears
<1>6. ASSUME NEW i \in ChanIds, NEW b \in Bridges, StdinWriteFails(i, b)
      PROVE  HolderInv'
  BY <1>6 DEF StdinWriteFails, ExecHears
<1>7. ASSUME NEW i \in ChanIds, NEW b \in Bridges, ProtocolError(i, b)
      PROVE  HolderInv'
  BY <1>7
     DEF ProtocolError, ExecHears, CloseBridges, CloseExec, ExecIn,
         SocketsWithout, Registered, Occupied
<1>8. CASE List
  BY <1>8
     DEF List, CloseBridges, CloseExec, ExecIn, SocketsWithout, Registered,
         Occupied
<1>9. CASE Spawn
  BY <1>9 DEF Spawn
<1>10. ASSUME NEW b \in Bridges, Attach(b) PROVE HolderInv'
  BY <1>10
     DEF Attach, BridgeSession, AttachThrows, CloseExec, ExecIn,
         SocketsWithout
<1>11. ASSUME NEW b \in Bridges, AttachAtLimit(b) PROVE HolderInv'
  <2>1. CASE TearsDownOnError
    BY <1>11, <2>1
       DEF AttachAtLimit, CloseBridges, CloseExec, ExecIn, SocketsWithout,
           Registered, Occupied, AttachThrows
  <2>2. CASE ~TearsDownOnError
    <3>1. /\ finalized' = finalized /\ csBridge' = b
          /\ \A c \in Bridges : socket'[c] # "null" => FALSE
          /\ kind' = [kind EXCEPT ![b] = "pty"] /\ conn' = "closed"
          /\ UNCHANGED <<registry, hasSession, chan>>
      BY <1>11, <2>2
         DEF AttachAtLimit, CloseBridges, CloseExec, ExecIn, SocketsWithout,
             AttachThrows
    <3>2. QED
      BY <1>11, <3>1 DEF AttachAtLimit
  <2>3. QED
    BY <2>1, <2>2
<1>12. ASSUME NEW b \in Bridges, ChildClosesStdin(b) PROVE HolderInv'
  BY <1>12 DEF ChildClosesStdin
<1>13. ASSUME NEW b \in Bridges, ChildDies(b) PROVE HolderInv'
  BY <1>13 DEF ChildDies
<1>14. ASSUME NEW b \in Bridges, ChildExit(b) PROVE HolderInv'
  BY <1>14 DEF ChildExit, Announce
<1>15. ASSUME NEW b \in Bridges, ChildError(b) PROVE HolderInv'
  BY <1>15 DEF ChildError, Announce
<1>16. ASSUME NEW b \in Bridges, ChildDrained(b) PROVE HolderInv'
  BY <1>16 DEF ChildDrained
<1>17. ASSUME NEW b \in Bridges, NEW n \in ChunkSizes, ChildOutput(b, n)
       PROVE  HolderInv'
  BY <1>17 DEF ChildOutput, CanSend
<1>18. CASE SpawnFails
  BY <1>18 DEF SpawnFails
<1>19. ASSUME NEW b \in Bridges, SpawnBridges(b) PROVE HolderInv'
  BY <1>19
     DEF SpawnBridges, BridgeSession, AttachThrows, CloseExec, ExecIn,
         SocketsWithout
<1>20. ASSUME NEW b \in Bridges, SpawnAtLimit(b) PROVE HolderInv'
  BY <1>20
     DEF SpawnAtLimit, CloseBridges, CloseExec, ExecIn, SocketsWithout,
         Registered, Occupied, AttachThrows
<1>21. ASSUME NEW b \in Bridges, PtyConnected(b) PROVE HolderInv'
  BY <1>21 DEF PtyConnected
<1>22. ASSUME NEW b \in Bridges, PtyGone(b) PROVE HolderInv'
  BY <1>22 DEF PtyGone
<1>23. ASSUME NEW b \in Bridges, NEW n \in ChunkSizes, PtyData(b, n)
       PROVE  HolderInv'
  BY <1>23 DEF PtyData, CanSend
<1>24. CASE Disconnect
  BY <1>24
     DEF Disconnect, TeardownClient, CloseBridges, CloseExec, ExecIn,
         SocketsWithout, Registered, Occupied
<1>25. CASE DecryptFails
  <2>1. CASE TearsDownOnError
    BY <1>25, <2>1
       DEF DecryptFails, TeardownClient, CloseBridges, CloseExec, ExecIn,
           SocketsWithout, Registered, Occupied
  <2>2. CASE ~TearsDownOnError
    BY <1>25, <2>2 DEF DecryptFails
  <2>3. QED
    BY <2>1, <2>2
<1>26. CASE UNCHANGED vars
  BY <1>26 DEF vars
<1>27. QED
  BY <1>1, <1>2, <1>3, <1>4, <1>5, <1>6, <1>7, <1>8, <1>9, <1>10, <1>11,
     <1>12, <1>13, <1>14, <1>15, <1>16, <1>17, <1>18, <1>19, <1>20, <1>21,
     <1>22, <1>23, <1>24, <1>25, <1>26
     DEF Next, ClientFrame, ChildEvent, PtyEvent

(* The invariant holds, and with it what it implies.                       *)
LEMMA Invariance == Spec => []IInv
<1>1. Init => IInv
  BY NoneAssumption, ChanAssumption, BoundAssumption
     DEF Init, IInv, TypeOK, LifeInv, HolderInv, Handler
<1>2. IInv /\ [Next]_vars => IInv'
  BY TypeStep, LifeStep, HolderStep DEF IInv
<1>3. QED
  BY <1>1, <1>2, PTL DEF Spec

(* Every variable keeps to its type: in particular the ledger and the      *)
(* registry only ever name bridges that exist.                             *)
THEOREM TypeCorrect == Spec => []TypeOK
<1>1. IInv => TypeOK
  BY DEF IInv
<1>2. QED
  BY <1>1, Invariance, PTL

(* No child is ever left running unsignalled outside a live session's      *)
(* registry, for both daemons, any ids and any cap (registry.close,        *)
(* closeAll, attachBridge, teardownClient, ExecBridge.close).              *)
THEOREM NoOrphans == Spec => []NoOrphanChild
<1>1. IInv => NoOrphanChild
  BY DEF IInv, LifeInv, HolderInv, NoOrphanChild, TypeOK
<1>2. QED
  BY <1>1, Invariance, PTL

(* There is at most one live pty socket, held by cs.bridge and by the      *)
(* registry alike, however attach and spawn continuations interleave.      *)
THEOREM PtyReachable == Spec => []LivePtyIsReachable
<1>1. IInv => LivePtyIsReachable
  BY DEF IInv, HolderInv, LivePtyIsReachable
<1>2. QED
  BY <1>1, Invariance, PTL

-----------------------------------------------------------------------------
(* A daemon that tears down on every error has no session without a ready  *)
(* connection.                                                             *)
ConnInv == hasSession => conn = "ready"

(* Three handlers end the connection, the others leave it alone.           *)
LEMMA ConnChange ==
  ASSUME [Next]_vars
  PROVE  \/ UNCHANGED <<conn, hasSession>>
         \/ Disconnect \/ DecryptFails
         \/ \E b \in Bridges : AttachAtLimit(b)
<1>1. ASSUME ClientFrame
      PROVE  \/ UNCHANGED <<conn, hasSession>>
             \/ \E b \in Bridges : AttachAtLimit(b)
  BY <1>1 DEF ClientFrame, OpenRefused, CloseChannel, OpenSpawnFails,
              OpenExecChannel, StdinEof, StdinWriteFails, ProtocolError, List,
              Spawn, Attach
<1>2. ASSUME ChildEvent
      PROVE  UNCHANGED <<conn, hasSession>>
  BY <1>2 DEF ChildEvent, ChildClosesStdin, ChildDies, ChildExit, ChildError,
              ChildDrained, ChildOutput, Announce
<1>3. ASSUME PtyEvent
      PROVE  UNCHANGED <<conn, hasSession>>
  BY <1>3 DEF PtyEvent, SpawnFails, SpawnBridges, SpawnAtLimit, PtyConnected,
              PtyGone, PtyData
<1>4. CASE UNCHANGED vars
  BY <1>4 DEF vars
<1>5. QED
  BY <1>1, <1>2, <1>3, <1>4 DEF Next

(* Where every error tears down, a session is only lost with its           *)
(* connection.                                                             *)
LEMMA ConnStep ==
  ASSUME IInv, ConnInv, TearsDownOnError, [Next]_vars
  PROVE  ConnInv'
BY ConnChange
   DEF ConnInv, Disconnect, DecryptFails, AttachAtLimit, TeardownClient

(* Only a listener of a child that was not finalized, or a write to a      *)
(* child, can end the daemon.                                              *)
LEMMA CrashChange ==
  ASSUME [Next]_vars
  PROVE  \/ crash' = crash \/ crash' = "stdin"
         \/ \E b \in Bridges : ChildExit(b) \/ ChildError(b)
<1>1. ASSUME ClientFrame
      PROVE  crash' = crash \/ crash' = "stdin"
  BY <1>1 DEF ClientFrame, OpenRefused, CloseChannel, OpenSpawnFails,
              OpenExecChannel, StdinEof, StdinWriteFails, ProtocolError, List,
              Spawn, Attach, AttachAtLimit
<1>2. ASSUME ChildEvent
      PROVE  \/ crash' = crash
             \/ \E b \in Bridges : ChildExit(b) \/ ChildError(b)
  BY <1>2 DEF ChildEvent, ChildClosesStdin, ChildDies, ChildDrained,
              ChildOutput
<1>3. ASSUME PtyEvent
      PROVE  crash' = crash
  BY <1>3 DEF PtyEvent, SpawnFails, SpawnBridges, SpawnAtLimit, PtyConnected,
              PtyGone, PtyData
<1>4. CASE Disconnect \/ DecryptFails \/ UNCHANGED vars
  BY <1>4 DEF Disconnect, DecryptFails, vars
<1>5. QED
  BY <1>1, <1>2, <1>3, <1>4 DEF Next

(* A child that ends unfinalized is registered with a live session, so the *)
(* connection takes its channel_exit.                                      *)
LEMMA ExitStep ==
  ASSUME IInv, ConnInv, ExitNeverThrows, [Next]_vars
  PROVE  ExitNeverThrows'
<1>1. ASSUME NEW b \in Bridges, ChildExit(b) \/ ChildError(b)
      PROVE  crash' = crash
  <2>1. kind[b] = "exec"
    BY <1>1 DEF ChildExit, ChildError, IInv, LifeInv
  <2>2. b \notin finalized => conn = "ready"
    BY <2>1 DEF IInv, HolderInv, ConnInv
  <2>3. QED
    BY <1>1, <2>2 DEF ChildExit, ChildError, Announce
<1>2. QED
  BY <1>1, CrashChange DEF ExitNeverThrows

(* Under a daemon whose onError tears the client down, the exit of a child *)
(* never throws out of its listener: whenever the bridge still has to      *)
(* report it, the connection is ready.                                     *)
THEOREM ExitIsSafe ==
  ASSUME TearsDownOnError
  PROVE  Spec => []ExitNeverThrows
<1>1. Init => ConnInv /\ ExitNeverThrows
  BY DEF Init, ConnInv, ExitNeverThrows
<1>2. IInv /\ ConnInv /\ ExitNeverThrows /\ [Next]_vars
        => ConnInv' /\ ExitNeverThrows'
  BY ConnStep, ExitStep
<1>3. QED
  BY <1>1, <1>2, Invariance, PTL DEF Spec

-----------------------------------------------------------------------------
(* How a step moves the registry: it frees slots or replaces an occupant,  *)
(* or it takes one slot while below the cap.                               *)
RegistryGrows ==
  \/ Occupied' \subseteq Occupied
  \/ ~AtLimit /\ \E i \in ChanIds : Occupied' \subseteq Occupied \cup {i}

(* Each handler closes registrations, or adds one below the cap.           *)
LEMMA RegistryStep ==
  ASSUME IInv, [Next]_vars
  PROVE  RegistryGrows
<1>1. ASSUME ClientFrame
      PROVE  \/ registry' = registry
             \/ \E i \in ChanIds : CloseChannel(i)
             \/ \E i \in ChanIds, b \in Bridges : OpenExecChannel(i, b)
             \/ \E b \in Bridges : BridgeSession(b) \/ AttachAtLimit(b)
  BY <1>1 DEF ClientFrame, OpenRefused, OpenSpawnFails, StdinEof,
              StdinWriteFails, ProtocolError, List, Spawn, Attach
<1>2. ASSUME ChildEvent
      PROVE  registry' = registry
  BY <1>2 DEF ChildEvent, ChildClosesStdin, ChildDies, ChildExit, ChildError,
              ChildDrained, ChildOutput, Announce
<1>3. ASSUME PtyEvent
      PROVE  registry' = registry \/ \E b \in Bridges : BridgeSession(b)
  BY <1>3 DEF PtyEvent, SpawnFails, SpawnBridges, SpawnAtLimit, PtyConnected,
              PtyGone, PtyData
<1>4. CASE registry' = registry
  BY <1>4 DEF RegistryGrows, Occupied
<1>5. ASSUME NEW i \in ChanIds, NEW b \in Bridges, OpenExecChannel(i, b)
      PROVE  RegistryGrows
  BY <1>5 DEF OpenExecChannel, RegistryAccepts, RegistryGrows, Occupied,
              IInv, TypeOK
<1>6. ASSUME NEW i \in ChanIds, CloseChannel(i)
      PROVE  RegistryGrows
  BY <1>6 DEF CloseChannel, RegistryGrows, Occupied, IInv, TypeOK
<1>7. ASSUME NEW b \in Bridges, BridgeSession(b)
      PROVE  RegistryGrows
  BY <1>7, ChanAssumption
     DEF BridgeSession, AttachThrows, RegistryGrows, Occupied, IInv, TypeOK
<1>8. CASE Disconnect \/ DecryptFails \/ \E b \in Bridges : AttachAtLimit(b)
  <2>1. registry' = registry \/ registry' = [i \in ChanIds |-> None]
    BY <1>8 DEF Disconnect, DecryptFails, AttachAtLimit, TeardownClient
  <2>2. QED
    BY <1>4, <2>1 DEF RegistryGrows, Occupied
<1>9. CASE UNCHANGED vars
  BY <1>4, <1>9 DEF vars
<1>10. QED
  BY <1>1, <1>2, <1>3, <1>4, <1>5, <1>6, <1>7, <1>8, <1>9 DEF Next

(* Adding one below the cap keeps the cap.                                 *)
LEMMA LimitStep == IInv /\ WithinLimit /\ [Next]_vars => WithinLimit'
<1> SUFFICES ASSUME IInv, WithinLimit, [Next]_vars PROVE WithinLimit'
  OBVIOUS
<1> USE ChanAssumption, BoundAssumption DEF WithinLimit
<1>1. IsFiniteSet(Occupied) /\ Cardinality(Occupied) \in Nat
  <2>1. Occupied \subseteq ChanIds
    BY DEF Occupied
  <2>2. QED
    BY <2>1, FS_Subset, FS_CardinalityType
<1>2. CASE Occupied' \subseteq Occupied
  <2>1. Cardinality(Occupied') <= Cardinality(Occupied)
    BY <1>1, <1>2, FS_Subset
  <2>2. Cardinality(Occupied') \in Nat
    BY <1>1, <1>2, FS_Subset, FS_CardinalityType
  <2>3. QED
    BY <1>1, <2>1, <2>2
<1>3. ASSUME ~AtLimit, NEW i \in ChanIds, Occupied' \subseteq Occupied \cup {i}
      PROVE  WithinLimit'
  <2>1. IsFiniteSet(Occupied \cup {i})
        /\ Cardinality(Occupied \cup {i}) <= Cardinality(Occupied) + 1
    <3>1. /\ IsFiniteSet(Occupied \cup {i})
          /\ Cardinality(Occupied \cup {i})
               = IF i \in Occupied THEN Cardinality(Occupied)
                                   ELSE Cardinality(Occupied) + 1
      BY <1>1, FS_AddElement, Zenon
    <3>2. QED
      BY <1>1, <3>1
  <2>2. Cardinality(Occupied \cup {i}) \in Nat
        /\ IsFiniteSet(Occupied') /\ Cardinality(Occupied') \in Nat
        /\ Cardinality(Occupied') <= Cardinality(Occupied \cup {i})
    BY <2>1, <1>3, FS_Subset, FS_CardinalityType
  <2>3. Cardinality(Occupied) < MaxChannels
    BY <1>1, <1>3 DEF AtLimit
  <2>4. QED
    BY <1>1, <2>1, <2>2, <2>3
<1>4. QED
  BY <1>2, <1>3, RegistryStep DEF RegistryGrows

(* MAX_CHANNELS holds on every path into the registry, attachBridge's      *)
(* close-then-open included (ChannelRegistry.open).                        *)
THEOREM LimitHolds == Spec => []WithinLimit
<1>1. Init => WithinLimit
  <2> SUFFICES ASSUME Init PROVE WithinLimit
    OBVIOUS
  <2>1. Occupied = {}
    BY DEF Init, Occupied
  <2>2. QED
    BY <2>1, FS_EmptySet, BoundAssumption DEF WithinLimit
<1>2. QED
  BY <1>1, LimitStep, Invariance, PTL DEF Spec

-----------------------------------------------------------------------------
(* The client's ledger names the exec channels that are open and the pty   *)
(* bridge whose output may still be sent.                                  *)
ViewInv ==
  \A b \in Bridges :
    /\ kind[b] = "exec" /\ b \notin finalized => view[chan[b]] = b
    /\ socket[b] = "open" /\ conn = "ready" => view[PtyChan] = b

(* A channel whose end is announced was the only one on its id.            *)
LEMMA ViewAnnounced ==
  ASSUME IInv, ViewInv, NEW b \in Bridges, child[b] \in {"dead", "failing"},
         Announce(b)
  PROVE  ViewInv'
<1>1. kind[b] = "exec" /\ chan[b] \in ChanIds /\ view \in [ChanIds -> Handler]
  BY DEF IInv, LifeInv, TypeOK
<1>2. /\ view' = view
         \/ (b \notin finalized /\ view' = [view EXCEPT ![chan[b]] = None])
      /\ finalized' = finalized \cup {b}
      /\ UNCHANGED <<kind, chan, socket, conn>>
  BY DEF Announce
<1>3. ASSUME NEW d \in Bridges, kind[d] = "exec", d \notin finalized'
      PROVE  view'[chan[d]] = d
  <2>1. d \notin finalized /\ d # b /\ view[chan[d]] = d /\ chan[d] \in ChanIds
    BY <1>2, <1>3 DEF ViewInv, IInv, TypeOK
  <2>2. b \notin finalized => chan[d] # chan[b]
    BY <1>1, <1>3, <2>1 DEF IInv, HolderInv
  <2>3. QED
    BY <1>1, <1>2, <2>1, <2>2
<1>4. ASSUME NEW d \in Bridges, socket[d] = "open", conn = "ready"
      PROVE  view'[PtyChan] = d
  <2>1. kind[d] = "pty" /\ registry[PtyChan] = d /\ view[PtyChan] = d
    BY <1>4 DEF IInv, LifeInv, HolderInv, ViewInv
  <2>2. b \notin finalized => chan[b] # PtyChan
    BY <1>1, <2>1 DEF IInv, HolderInv
  <2>3. QED
    BY <1>1, <1>2, <2>1, <2>2, ChanAssumption
<1>5. QED
  BY <1>2, <1>3, <1>4 DEF ViewInv

(* The bridge that connects is the one the registry holds on its id.       *)
LEMMA ViewConnected ==
  ASSUME IInv, ViewInv, NEW b \in Bridges, PtyConnected(b)
  PROVE  ViewInv'
<1>1. /\ kind[b] = "pty" /\ registry[PtyChan] = b
      /\ view \in [ChanIds -> Handler] /\ socket \in [Bridges -> {"null", "connecting", "open"}]
  BY DEF PtyConnected, IInv, LifeInv, HolderInv, TypeOK
<1>2. /\ socket' = [socket EXCEPT ![b] = "open"]
      /\ conn = "ready" => view' = [view EXCEPT ![PtyChan] = b]
      /\ conn # "ready" => view' = view
      /\ UNCHANGED <<kind, chan, finalized, conn>>
  BY DEF PtyConnected
<1>3. ASSUME NEW d \in Bridges, kind[d] = "exec", d \notin finalized
      PROVE  view'[chan[d]] = d
  <2>1. view[chan[d]] = d /\ chan[d] \in ChanIds
    BY <1>3 DEF ViewInv, IInv, TypeOK
  <2>2. chan[d] # PtyChan
    BY <1>1, <1>3 DEF IInv, HolderInv
  <2>3. QED
    BY <1>1, <1>2, <2>1, <2>2
<1>4. ASSUME NEW d \in Bridges, socket'[d] = "open", conn = "ready"
      PROVE  view'[PtyChan] = d
  <2>1. d = b
    BY <1>1, <1>2, <1>4 DEF IInv, HolderInv
  <2>2. QED
    BY <1>1, <1>2, <1>4, <2>1, ChanAssumption
<1>5. QED
  BY <1>2, <1>3, <1>4 DEF ViewInv

(* Whoever takes an id off the ledger, or gives it away, has closed what   *)
(* the registry held under it.                                             *)
LEMMA ViewStep == IInv /\ ViewInv /\ [Next]_vars => ViewInv'
<1> SUFFICES ASSUME IInv, ViewInv, [Next]_vars PROVE ViewInv'
  OBVIOUS
<1> USE NoneAssumption, ChanAssumption
        DEF IInv, TypeOK, LifeInv, HolderInv, ViewInv, Handler, bridgeVars
<1>1. ASSUME NEW i \in ChanIds, OpenRefused(i) PROVE ViewInv'
  BY <1>1 DEF OpenRefused
<1>2. ASSUME NEW i \in ChanIds, CloseChannel(i) PROVE ViewInv'
  BY <1>2
     DEF CloseChannel, CloseBridges, CloseExec, ExecIn, SocketsWithout,
         Registered, Occupied
<1>3. ASSUME NEW i \in ChanIds, NEW b \in Bridges, OpenSpawnFails(i, b)
      PROVE  ViewInv'
  BY <1>3 DEF OpenSpawnFails, RegistryAccepts
<1>4. ASSUME NEW i \in ChanIds, NEW b \in Bridges, OpenExecChannel(i, b)
      PROVE  ViewInv'
  BY <1>4 DEF OpenExecChannel, RegistryAccepts
<1>5. ASSUME NEW i \in ChanIds, NEW b \in Bridges, StdinEof(i, b)
      PROVE  ViewInv'
  BY <1>5 DEF StdinEof, ExecHears
<1>6. ASSUME NEW i \in ChanIds, NEW b \in Bridges, StdinWriteFails(i, b)
      PROVE  ViewInv'
  BY <1>6 DEF StdinWriteFails, ExecHears
<1>7. ASSUME NEW i \in ChanIds, NEW b \in Bridges, ProtocolError(i, b)
      PROVE  ViewInv'
  BY <1>7
     DEF ProtocolError, ExecHears, CloseBridges, CloseExec, ExecIn,
         SocketsWithout, Registered, Occupied
<1>8. CASE List
  BY <1>8
     DEF List, CloseBridges, CloseExec, ExecIn, SocketsWithout, Registered,
         Occupied
<1>9. CASE Spawn
  BY <1>9 DEF Spawn
<1>10. ASSUME NEW b \in Bridges, Attach(b) PROVE ViewInv'
  BY <1>10
     DEF Attach, BridgeSession, AttachThrows, CloseExec, ExecIn,
         SocketsWithout
<1>11. ASSUME NEW b \in Bridges, AttachAtLimit(b) PROVE ViewInv'
  <2>1. CASE TearsDownOnError
    BY <1>11, <2>1
       DEF AttachAtLimit, CloseBridges, CloseExec, ExecIn, SocketsWithout,
           Registered, Occupied, AttachThrows
  <2>2. CASE ~TearsDownOnError
    <3>1. /\ finalized' = finalized /\ csBridge' = b
          /\ \A c \in Bridges : socket'[c] # "null" => FALSE
          /\ kind' = [kind EXCEPT ![b] = "pty"] /\ conn' = "closed"
          /\ UNCHANGED <<registry, hasSession, chan>>
      BY <1>11, <2>2
         DEF AttachAtLimit, CloseBridges, CloseExec, ExecIn, SocketsWithout,
             AttachThrows
    <3>2. QED
      BY <1>11, <3>1 DEF AttachAtLimit
  <2>3. QED
    BY <2>1, <2>2
<1>12. ASSUME NEW b \in Bridges, ChildClosesStdin(b) PROVE ViewInv'
  BY <1>12 DEF ChildClosesStdin
<1>13. ASSUME NEW b \in Bridges, ChildDies(b) PROVE ViewInv'
  BY <1>13 DEF ChildDies
<1>14. ASSUME NEW b \in Bridges, ChildExit(b) PROVE ViewInv'
  BY <1>14, ViewAnnounced DEF ChildExit
<1>15. ASSUME NEW b \in Bridges, ChildError(b) PROVE ViewInv'
  BY <1>15, ViewAnnounced DEF ChildError
<1>16. ASSUME NEW b \in Bridges, ChildDrained(b) PROVE ViewInv'
  BY <1>16 DEF ChildDrained
<1>17. ASSUME NEW b \in Bridges, NEW n \in ChunkSizes, ChildOutput(b, n)
       PROVE  ViewInv'
  BY <1>17 DEF ChildOutput, CanSend
<1>18. CASE SpawnFails
  BY <1>18 DEF SpawnFails
<1>19. ASSUME NEW b \in Bridges, SpawnBridges(b) PROVE ViewInv'
  BY <1>19
     DEF SpawnBridges, BridgeSession, AttachThrows, CloseExec, ExecIn,
         SocketsWithout
<1>20. ASSUME NEW b \in Bridges, SpawnAtLimit(b) PROVE ViewInv'
  BY <1>20
     DEF SpawnAtLimit, CloseBridges, CloseExec, ExecIn, SocketsWithout,
         Registered, Occupied, AttachThrows
<1>21. ASSUME NEW b \in Bridges, PtyConnected(b) PROVE ViewInv'
  BY <1>21, ViewConnected
<1>22. ASSUME NEW b \in Bridges, PtyGone(b) PROVE ViewInv'
  BY <1>22 DEF PtyGone
<1>23. ASSUME NEW b \in Bridges, NEW n \in ChunkSizes, PtyData(b, n)
       PROVE  ViewInv'
  BY <1>23 DEF PtyData, CanSend
<1>24. CASE Disconnect
  BY <1>24
     DEF Disconnect, TeardownClient, CloseBridges, CloseExec, ExecIn,
         SocketsWithout, Registered, Occupied
<1>25. CASE DecryptFails
  <2>1. CASE TearsDownOnError
    BY <1>25, <2>1
       DEF DecryptFails, TeardownClient, CloseBridges, CloseExec, ExecIn,
           SocketsWithout, Registered, Occupied
  <2>2. CASE ~TearsDownOnError
    BY <1>25, <2>2 DEF DecryptFails
  <2>3. QED
    BY <2>1, <2>2
<1>26. CASE UNCHANGED vars
  BY <1>26 DEF vars
<1>27. QED
  BY <1>1, <1>2, <1>3, <1>4, <1>5, <1>6, <1>7, <1>8, <1>9, <1>10, <1>11,
     <1>12, <1>13, <1>14, <1>15, <1>16, <1>17, <1>18, <1>19, <1>20, <1>21,
     <1>22, <1>23, <1>24, <1>25, <1>26
     DEF Next, ClientFrame, ChildEvent, PtyEvent

(* All frames but those of two handlers are no output.                     *)
NoOutput(frames) == \A k \in DOMAIN frames : frames[k].t # "data"

LEMMA SilentFrames ==
  /\ NoOutput(<<>>)
  /\ \A t \in {"ack", "error", "close", "attached"} : \A i, b :
       NoOutput(<<Msg(t, i, b)>>)
  /\ \A i, b : NoOutput(<<Msg("exit", i, b), Msg("close", i, b)>>)
BY DEF NoOutput, Msg

LEMMA OutputChange ==
  ASSUME [Next]_vars
  PROVE  \/ UNCHANGED vars \/ NoOutput(out')
         \/ \E b \in Bridges, n \in ChunkSizes : ChildOutput(b, n) \/ PtyData(b, n)
<1> USE SilentFrames
<1>1. ASSUME ClientFrame PROVE NoOutput(out')
  <2>1. ASSUME NEW i \in ChanIds, OpenRefused(i) \/ CloseChannel(i)
        PROVE  NoOutput(out')
    BY <2>1 DEF OpenRefused, CloseChannel
  <2>2. ASSUME NEW i \in ChanIds, NEW b \in Bridges,
               \/ OpenSpawnFails(i, b) \/ OpenExecChannel(i, b)
               \/ StdinEof(i, b) \/ StdinWriteFails(i, b) \/ ProtocolError(i, b)
        PROVE  NoOutput(out')
    BY <2>2 DEF OpenSpawnFails, OpenExecChannel, StdinEof, StdinWriteFails,
                ProtocolError
  <2>3. ASSUME NEW b \in Bridges, Attach(b) \/ AttachAtLimit(b)
        PROVE  NoOutput(out')
    BY <2>3 DEF Attach, AttachAtLimit
  <2>4. CASE List \/ Spawn
    BY <2>4 DEF List, Spawn
  <2>5. QED
    BY <1>1, <2>1, <2>2, <2>3, <2>4 DEF ClientFrame
<1>2. ASSUME ChildEvent
      PROVE  NoOutput(out') \/ \E b \in Bridges, n \in ChunkSizes : ChildOutput(b, n)
  BY <1>2 DEF ChildEvent, ChildClosesStdin, ChildDies, ChildExit, ChildError,
              ChildDrained, Announce
<1>3. ASSUME PtyEvent
      PROVE  NoOutput(out') \/ \E b \in Bridges, n \in ChunkSizes : PtyData(b, n)
  BY <1>3 DEF PtyEvent, SpawnFails, SpawnBridges, SpawnAtLimit, PtyConnected,
              PtyGone
<1>4. CASE Disconnect \/ DecryptFails
  BY <1>4 DEF Disconnect, DecryptFails
<1>5. QED
  BY <1>1, <1>2, <1>3, <1>4 DEF Next

(* Output is sent under an id that the ledger gives to its bridge.         *)
Follows == PtyDataFollowsAttached /\ LiveExecDataFollowsAck

LEMMA FollowsStep == IInv /\ ViewInv /\ Follows /\ [Next]_vars => Follows'
<1> SUFFICES ASSUME IInv, ViewInv, Follows, [Next]_vars PROVE Follows'
  OBVIOUS
<1> USE DEF Follows, PtyDataFollowsAttached, LiveExecDataFollowsAck
<1>1. CASE UNCHANGED vars
  BY <1>1 DEF vars, bridgeVars
<1>2. CASE NoOutput(out')
  BY <1>2 DEF NoOutput
<1>3. ASSUME NEW b \in Bridges, NEW n \in ChunkSizes, ChildOutput(b, n)
      PROVE  Follows'
  <2>1. kind[b] = "exec"
    BY <1>3 DEF ChildOutput, IInv, LifeInv
  <2>2. /\ out' = <<>> \/ out' = <<Msg("data", chan[b], b)>>
        /\ UNCHANGED <<kind, finalized, view>>
    BY <1>3 DEF ChildOutput, bridgeVars
  <2>3. QED
    BY <2>1, <2>2 DEF ViewInv, Msg
<1>4. ASSUME NEW b \in Bridges, NEW n \in ChunkSizes, PtyData(b, n)
      PROVE  Follows'
  <2>1. kind[b] = "pty" /\ socket[b] = "open"
    BY <1>4 DEF PtyData, IInv, LifeInv
  <2>2. /\ out' = <<>> \/ (conn = "ready" /\ out' = <<Msg("data", PtyChan, b)>>)
        /\ UNCHANGED <<kind, finalized, view>>
    BY <1>4 DEF PtyData, CanSend
  <2>3. QED
    BY <2>1, <2>2 DEF ViewInv, Msg
<1>5. QED
  BY <1>1, <1>2, <1>3, <1>4, OutputChange

LEMMA OutputFollows == Spec => []Follows
<1>1. Init => ViewInv /\ Follows
  BY DEF Init, ViewInv, Follows, PtyDataFollowsAttached, LiveExecDataFollowsAck
<1>2. QED
  BY <1>1, ViewStep, FollowsStep, Invariance, PTL DEF Spec

(* Pty output is never shown under another session, whatever attach, list, *)
(* late spawns and exec channels on id 1 do (start-shared.ts,              *)
(* SessionBridge.attach).                                                  *)
THEOREM PtyFollows == Spec => []PtyDataFollowsAttached
<1>1. Follows => PtyDataFollowsAttached
  BY DEF Follows
<1>2. QED
  BY <1>1, OutputFollows, PTL

(* Output of an open exec channel has the id under which that very channel *)
(* was acknowledged, also when the id is used again (openExecChannel).     *)
THEOREM ExecFollows == Spec => []LiveExecDataFollowsAck
<1>1. Follows => LiveExecDataFollowsAck
  BY DEF Follows
<1>2. QED
  BY <1>1, OutputFollows, PTL

-----------------------------------------------------------------------------
(* ChannelMux implements ExecContract, for every value of the constants:   *)
(* each handler of the daemon is one step of the contract or none at all.  *)

(* What the refinement mapping says of one bridge.                         *)
LEMMA PhaseOf ==
  ASSUME IInv
  PROVE  \A b \in Bridges :
           /\ execPhase[b] \in {"fresh", "open", "exited", "closed"}
           /\ kind[b] # "exec" <=> execPhase[b] = "fresh"
           /\ kind[b] = "exec" /\ b \notin finalized <=> execPhase[b] = "open"
           /\ b \in execRunning => execPhase[b] = "open"
BY DEF IInv, TypeOK, LifeInv, execPhase, execRunning

(* A handler that leaves alone what the mapping reads is a stutter.        *)
LEMMA KeptIsStutter ==
  ASSUME UNCHANGED <<kind, child, finalized, termed>>
  PROVE  UNCHANGED Contract!contractVars
BY DEF execPhase, execRunning, Contract!contractVars

(* ExecBridge.close on any set of bridges abandons the channels among them *)
(* that were still open, and signals their children.                       *)
LEMMA CloseAbandons ==
  ASSUME IInv, NEW S \in SUBSET Bridges, CloseExec(S), child' = child,
         \A b \in Bridges : kind'[b] = "exec" <=> kind[b] = "exec"
  PROVE  Contract!Next
<1> DEFINE A == ExecIn(S) \ finalized
<1>1. /\ A \in SUBSET Bridges
      /\ \A b \in A : kind[b] = "exec" /\ child[b] # "none"
  BY DEF ExecIn, IInv, LifeInv
<1>2. \A b \in A : execPhase[b] = "open"
  BY <1>1, PhaseOf
<1>3. finalized' = finalized \cup ExecIn(S) /\ termed' = termed \cup A
  BY <1>1 DEF CloseExec
<1>4. \A b \in Bridges :
        (IF kind'[b] # "exec" THEN "fresh"
         ELSE IF b \notin finalized' THEN "open"
         ELSE IF b \in termed' \/ child'[b] = "none"
                            THEN "closed"
         ELSE "exited")
        = IF b \in A THEN "closed" ELSE execPhase[b]
  <2> SUFFICES ASSUME NEW b \in Bridges
               PROVE  (IF kind'[b] # "exec" THEN "fresh"
                       ELSE IF b \notin finalized' THEN "open"
                       ELSE IF b \in termed' \/ child'[b] = "none"
                            THEN "closed"
                       ELSE "exited")
                      = IF b \in A THEN "closed" ELSE execPhase[b]
    OBVIOUS
  <2>1. CASE b \in A
    BY <1>1, <1>3, <2>1
  <2>2. CASE b \notin A
    <3>1. /\ b \in finalized' <=>
               b \in finalized \/ (b \in ExecIn(S) /\ b \in finalized)
          /\ b \in termed' <=> b \in termed
      BY <1>3, <2>2
    <3>2. QED
      BY <2>2, <3>1 DEF execPhase
  <2>3. QED
    BY <2>1, <2>2
<1>5. execPhase' =
        [c \in Bridges |-> IF c \in A THEN "closed" ELSE execPhase[c]]
  BY <1>4 DEF execPhase
<1>6. execRunning' = execRunning \ A
  BY <1>3 DEF execRunning
<1>7. Contract!Abandon(A)
  BY <1>2, <1>5, <1>6 DEF Contract!Abandon
<1>8. QED
  BY <1>1, <1>7 DEF Contract!Next

(* The exit and error listeners report the exit of a channel that is still *)
(* open, and change nothing for one that was closed before.                *)
LEMMA AnnounceReports ==
  ASSUME IInv, NEW b \in Bridges, NEW c \in {"exited", "ended"},
         child[b] \in {"dead", "failing"},
         child' = [child EXCEPT ![b] = c], Announce(b)
  PROVE  [Contract!Next]_(Contract!contractVars)
<1>1. /\ finalized' = finalized \cup {b}
      /\ kind' = kind /\ termed' = termed
      /\ kind[b] = "exec" /\ b \notin execRunning
  BY DEF Announce, IInv, LifeInv, execRunning
<1>2. execRunning' = execRunning
  BY <1>1 DEF execRunning, IInv, TypeOK
<1>3. CASE b \in finalized
  <2>1. execPhase' = execPhase
    BY <1>1, <1>3 DEF execPhase, IInv, TypeOK
  <2>2. QED
    BY <1>2, <2>1 DEF Contract!contractVars
<1>4. CASE b \notin finalized
  <2>1. execPhase[b] = "open"
    BY <1>1, <1>4, PhaseOf
  <2>2. b \notin termed
    BY <1>4 DEF IInv, LifeInv
  <2>3. execPhase' = [execPhase EXCEPT ![b] = "exited"]
    BY <1>1, <1>4, <2>2 DEF execPhase, IInv, TypeOK
  <2>4. Contract!ReportExit(b)
    BY <1>1, <1>2, <2>1, <2>3 DEF Contract!ReportExit, Contract!Move
  <2>5. QED
    BY <2>4 DEF Contract!Next
<1>5. QED
  BY <1>3, <1>4

(* Opening an exec channel accepts it in the contract, or refuses it.      *)
LEMMA OpenRefines ==
  ASSUME IInv, NEW i \in ChanIds, NEW b \in Bridges,
         OpenSpawnFails(i, b) \/ OpenExecChannel(i, b)
  PROVE  Contract!Next
<1>1. /\ kind[b] = "unused" /\ child[b] = "none"
      /\ b \notin finalized /\ b \notin termed
      /\ kind' = [kind EXCEPT ![b] = "exec"] /\ termed' = termed
  BY DEF OpenSpawnFails, OpenExecChannel, IInv, LifeInv
<1>2. execPhase[b] = "fresh"
  BY <1>1 DEF execPhase
<1>3. CASE OpenSpawnFails(i, b)
  <2>1. finalized' = finalized \cup {b} /\ child' = child
    BY <1>3 DEF OpenSpawnFails
  <2>2. execPhase' = [execPhase EXCEPT ![b] = "closed"]
    BY <1>1, <2>1 DEF execPhase, IInv, TypeOK
  <2>3. execRunning' = execRunning
    BY <1>1, <2>1 DEF execRunning
  <2>4. Contract!Refuse(b)
    BY <1>2, <2>2, <2>3 DEF Contract!Refuse, Contract!Move
  <2>5. QED
    BY <2>4 DEF Contract!Next
<1>4. CASE OpenExecChannel(i, b)
  <2>1. PICK c \in {"running", "failing"} :
          finalized' = finalized /\ child' = [child EXCEPT ![b] = c]
    BY <1>4 DEF OpenExecChannel
  <2>2. execPhase' = [execPhase EXCEPT ![b] = "open"]
    BY <1>1, <2>1 DEF execPhase, IInv, TypeOK
  <2>3. execRunning' \in {execRunning, execRunning \cup {b}}
    BY <1>1, <2>1 DEF execRunning, IInv, TypeOK
  <2>4. Contract!Accept(b)
    BY <1>2, <2>2, <2>3 DEF Contract!Accept, Contract!Move
  <2>5. QED
    BY <2>4 DEF Contract!Next
<1>5. QED
  BY <1>3, <1>4

(* The death of a child is the contract's, unless it was signalled before. *)
LEMMA DeathRefines ==
  ASSUME IInv, NEW b \in Bridges, ChildDies(b)
  PROVE  [Contract!Next]_(Contract!contractVars)
<1>1. /\ child[b] = "running" /\ child' = [child EXCEPT ![b] = "dead"]
      /\ UNCHANGED <<kind, finalized, termed>>
  BY DEF ChildDies
<1>2. execPhase' = execPhase
  BY <1>1 DEF execPhase, IInv, TypeOK
<1>3. execRunning' = execRunning \ {b}
  BY <1>1 DEF execRunning, IInv, TypeOK
<1>4. CASE b \in execRunning
  <2>1. Contract!ChildEnds(b)
    BY <1>2, <1>3, <1>4, PhaseOf DEF Contract!ChildEnds
  <2>2. QED
    BY <2>1 DEF Contract!Next
<1>5. CASE b \notin execRunning
  BY <1>2, <1>3, <1>5 DEF Contract!contractVars
<1>6. QED
  BY <1>4, <1>5

(* Every handler is a step of the contract or a stutter.                   *)
LEMMA ContractStep ==
  IInv /\ [Next]_vars => [Contract!Next]_(Contract!contractVars)
<1> SUFFICES ASSUME IInv, [Next]_vars
             PROVE  [Contract!Next]_(Contract!contractVars)
  OBVIOUS
<1> USE DEF bridgeVars
<1>1. ASSUME NEW i \in ChanIds, NEW b \in Bridges,
             \/ OpenRefused(i) \/ StdinEof(i, b) \/ StdinWriteFails(i, b)
             \/ Spawn \/ SpawnFails \/ ChildClosesStdin(b)
             \/ \E n \in ChunkSizes : ChildOutput(b, n) \/ PtyData(b, n)
             \/ PtyConnected(b) \/ PtyGone(b) \/ UNCHANGED vars
      PROVE  UNCHANGED Contract!contractVars
  <2>1. UNCHANGED <<kind, child, finalized, termed>>
    BY <1>1 DEF OpenRefused, StdinEof, StdinWriteFails, Spawn, SpawnFails,
                ChildClosesStdin, ChildOutput, PtyData, PtyConnected, PtyGone,
                vars
  <2>2. QED
    BY <2>1, KeptIsStutter
<1>2. ASSUME NEW i \in ChanIds, NEW b \in Bridges,
             OpenSpawnFails(i, b) \/ OpenExecChannel(i, b)
      PROVE  Contract!Next
  BY <1>2, OpenRefines
<1>3. ASSUME NEW i \in ChanIds, CloseChannel(i)
      PROVE  Contract!Next
  <2>1. {registry[i]} \ {None} \in SUBSET Bridges
    BY DEF IInv, TypeOK, Handler
  <2>2. QED
    BY <1>3, <2>1, CloseAbandons DEF CloseChannel, CloseBridges
<1>4. ASSUME NEW i \in ChanIds, NEW b \in Bridges, ProtocolError(i, b)
      PROVE  Contract!Next
  <2>1. {b} \in SUBSET Bridges
    OBVIOUS
  <2>2. QED
    BY <1>4, <2>1, CloseAbandons DEF ProtocolError, CloseBridges
<1>5. ASSUME List
      PROVE  Contract!Next
  BY <1>5, HeldAreBridges, CloseAbandons DEF List, CloseBridges, IInv
<1>6. ASSUME NEW b \in Bridges, BridgeSession(b)
      PROVE  Contract!Next
  <2>1. {csBridge, registry[PtyChan]} \ {None} \in SUBSET Bridges
    BY ChanAssumption DEF IInv, TypeOK, Handler
  <2>2. \A c \in Bridges : kind'[c] = "exec" <=> kind[c] = "exec"
    BY <1>6 DEF BridgeSession, IInv, TypeOK
  <2>3. QED
    BY <1>6, <2>1, <2>2, CloseAbandons DEF BridgeSession
<1>7. ASSUME NEW b \in Bridges, AttachAtLimit(b) \/ SpawnAtLimit(b)
      PROVE  Contract!Next
  <2>1. \A c \in Bridges : kind'[c] = "exec" <=> kind[c] = "exec"
    BY <1>7 DEF AttachAtLimit, SpawnAtLimit, IInv, TypeOK
  <2>2. child' = child
    BY <1>7 DEF AttachAtLimit, SpawnAtLimit
  <2>3. PICK S \in SUBSET Bridges : CloseExec(S)
    BY <1>7, HeldAreBridges DEF AttachAtLimit, SpawnAtLimit, CloseBridges, IInv
  <2>4. QED
    BY <2>1, <2>2, <2>3, CloseAbandons
<1>8. ASSUME NEW b \in Bridges, ChildDies(b)
      PROVE  [Contract!Next]_(Contract!contractVars)
  BY <1>8, DeathRefines
<1>9. ASSUME NEW b \in Bridges, ChildExit(b) \/ ChildError(b)
      PROVE  [Contract!Next]_(Contract!contractVars)
  BY <1>9, AnnounceReports DEF ChildExit, ChildError
<1>10. ASSUME NEW b \in Bridges, ChildDrained(b)
       PROVE  UNCHANGED Contract!contractVars
  <2>1. UNCHANGED <<kind, finalized, termed>>
        /\ child[b] = "exited" /\ child' = [child EXCEPT ![b] = "ended"]
    BY <1>10 DEF ChildDrained
  <2>2. UNCHANGED execPhase /\ UNCHANGED execRunning
    BY <2>1 DEF execPhase, execRunning, IInv, TypeOK
  <2>3. QED
    BY <2>2 DEF Contract!contractVars
<1>11. ASSUME TeardownClient, UNCHANGED <<kind, child>>
       PROVE  Contract!Next
  BY <1>11, HeldAreBridges, CloseAbandons
     DEF TeardownClient, CloseBridges, IInv
<1>12. CASE Disconnect
  BY <1>11, <1>12 DEF Disconnect
<1>13. CASE DecryptFails
  BY <1>11, <1>13, KeptIsStutter DEF DecryptFails
<1>14. CASE \E b \in Bridges : Attach(b) \/ SpawnBridges(b)
  BY <1>6, <1>14 DEF Attach, SpawnBridges
<1>15. CASE Spawn \/ SpawnFails \/ UNCHANGED vars
  BY <1>15, KeptIsStutter DEF Spawn, SpawnFails, vars
<1>16. ASSUME NEW i \in ChanIds, OpenRefused(i)
       PROVE  UNCHANGED Contract!contractVars
  BY <1>16, KeptIsStutter DEF OpenRefused
<1>17. CASE \E b \in Bridges, n \in ChunkSizes :
              ChildOutput(b, n) \/ PtyData(b, n)
  BY <1>1, <1>17, ChanAssumption
<1>18. CASE \E b \in Bridges : \/ ChildClosesStdin(b)
                              \/ PtyConnected(b) \/ PtyGone(b)
  BY <1>1, <1>18, ChanAssumption
<1>19. QED
  BY <1>1, <1>2, <1>3, <1>4, <1>5, <1>7, <1>8, <1>9, <1>10, <1>12, <1>13,
     <1>14, <1>15, <1>16, <1>17, <1>18
     DEF Next, ClientFrame, ChildEvent, PtyEvent

(* ExecBridge, the registry and the ways a connection ends implement       *)
(* ExecContract: whatever the client, the children and the relay do, an    *)
(* accepted exec channel ends exactly once, its exit is reported only for  *)
(* a child that is gone, and no child runs on unsignalled once its channel *)
(* has ended.                                                              *)
THEOREM Refinement == Spec => KeepsExecContract
<1>1. Init => Contract!Init
  <2> SUFFICES ASSUME Init PROVE Contract!Init
    OBVIOUS
  <2>1. execPhase = [b \in Bridges |-> "fresh"]
    BY DEF Init, execPhase
  <2>2. execRunning = {}
    BY DEF Init, execRunning
  <2>3. QED
    BY <2>1, <2>2 DEF Contract!Init
<1>2. QED
  BY <1>1, ContractStep, Invariance, PTL
     DEF Spec, KeepsExecContract, Contract!Spec

=============================================================================
