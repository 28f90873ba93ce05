---------------------------- MODULE Tunnel_proofs ----------------------------
(***************************************************************************)
(* For every value of Tunnel's constants: both ends of a tunnel stay in    *)
(* step, and they are ready only on agreed terms.                          *)
(* The inductive invariant, IInv, says of each way (what waits in the two  *)
(* sockets together) which frames may still reach the far end: before the  *)
(* hello is read, nothing but the hello; then the frames sealed under one  *)
(* key at consecutive nonces, the first at the one the reader expects; and *)
(* as long as nothing is lost, all of them.  A step that loses frames cuts *)
(* off the end of what arrives and never its middle (Shrinks), which keeps *)
(* the first and makes the second void.                                    *)
(***************************************************************************)
EXTENDS Tunnel, FiniteSetTheorems, TLAPS

-----------------------------------------------------------------------------
(* What a handshake computes.                                              *)

(* Its values by the names of their parts, which the lemmas below rewrite. *)
Ss(ck, h, c) == [ck |-> ck, h |-> h, c |-> c]
Hi(p, s, rs, psk, e, re, nx, ss) ==
  [pattern |-> p, initiator |-> TRUE, s |-> s, rs |-> rs, psk |-> psk, e |-> e,
   re |-> re, next |-> nx, ss |-> ss]
Hr(p, s, rs, psk, e, re, nx, ss) ==
  [pattern |-> p, initiator |-> FALSE, s |-> s, rs |-> rs, psk |-> psk, e |-> e,
   re |-> re, next |-> nx, ss |-> ss]
Hashed(h, d) == Append(h, d)
KeyOf(ck) == Cipher(<<"k", ck>>)
PskOf(ck) == Cipher(<<"k3", ck>>)

LEMMA Append1 ==
  ASSUME NEW a, NEW b, NEW s, s = <<a>>
  PROVE  Append(s, b) = <<a, b>>
<1> DEFINE t == <<a, b>>
<1>1. s \in Seq({a, b}) /\ Len(s) = 1
  OBVIOUS
<1>2. s[1] = a
  OBVIOUS
<1>3. t \in Seq({a, b}) /\ Len(t) = 2
  OBVIOUS
<1>4. t[1] = a /\ t[2] = b
  OBVIOUS
<1> HIDE DEF t
<1>5. Append(s, b) = t
  BY <1>1, <1>2, <1>3, <1>4
<1> QED BY <1>5 DEF t

LEMMA Append2 ==
  ASSUME NEW a, NEW b, NEW c, NEW s, s = <<a, b>>
  PROVE  Append(s, c) = <<a, b, c>>
<1> DEFINE t == <<a, b, c>>
<1>1. s \in Seq({a, b, c}) /\ Len(s) = 2
  OBVIOUS
<1>2. s[1] = a /\ s[2] = b
  OBVIOUS
<1>3. t \in Seq({a, b, c}) /\ Len(t) = 3
  OBVIOUS
<1>4. t[1] = a /\ t[2] = b /\ t[3] = c
  OBVIOUS
<1> HIDE DEF t
<1>5. Append(s, c) = t
  BY <1>1, <1>2, <1>3, <1>4
<1> QED BY <1>5 DEF t

LEMMA Append3 ==
  ASSUME NEW a, NEW b, NEW c, NEW d, NEW s, s = <<a, b, c>>
  PROVE  Append(s, d) = <<a, b, c, d>>
<1> DEFINE t == <<a, b, c, d>>
<1>1. s \in Seq({a, b, c, d}) /\ Len(s) = 3
  OBVIOUS
<1>2. s[1] = a /\ s[2] = b /\ s[3] = c
  OBVIOUS
<1>3. t \in Seq({a, b, c, d}) /\ Len(t) = 4
  OBVIOUS
<1>4. t[1] = a /\ t[2] = b /\ t[3] = c /\ t[4] = d
  OBVIOUS
<1> HIDE DEF t
<1>5. Append(s, d) = t
  BY <1>1, <1>2, <1>3, <1>4
<1> QED BY <1>5 DEF t

LEMMA Append4 ==
  ASSUME NEW a, NEW b, NEW c, NEW d, NEW e, NEW s, s = <<a, b, c, d>>
  PROVE  Append(s, e) = <<a, b, c, d, e>>
<1> DEFINE t == <<a, b, c, d, e>>
<1>1. s \in Seq({a, b, c, d, e}) /\ Len(s) = 4
  OBVIOUS
<1>2. s[1] = a /\ s[2] = b /\ s[3] = c /\ s[4] = d
  OBVIOUS
<1>3. t \in Seq({a, b, c, d, e}) /\ Len(t) = 5
  OBVIOUS
<1>4. t[1] = a /\ t[2] = b /\ t[3] = c /\ t[4] = d /\ t[5] = e
  OBVIOUS
<1> HIDE DEF t
<1>5. Append(s, e) = t
  BY <1>1, <1>2, <1>3, <1>4
<1> QED BY <1>5 DEF t

LEMMA SsParts ==
  \A ck, h, c : /\ Ss(ck, h, c).ck = ck /\ Ss(ck, h, c).h = h
                /\ Ss(ck, h, c).c = c
BY DEF Ss

LEMMA HiParts ==
  ASSUME NEW p, NEW s, NEW rs, NEW psk, NEW e, NEW re, NEW nx, NEW ss
  PROVE  LET hs == Hi(p, s, rs, psk, e, re, nx, ss)
         IN /\ hs.pattern = p /\ hs.initiator = TRUE /\ hs.next = nx
            /\ hs.ss = ss
BY DEF Hi

LEMMA HrParts ==
  ASSUME NEW p, NEW s, NEW rs, NEW psk, NEW e, NEW re, NEW nx, NEW ss
  PROVE  LET hs == Hr(p, s, rs, psk, e, re, nx, ss)
         IN /\ hs.pattern = p /\ hs.initiator = FALSE /\ hs.next = nx
            /\ hs.ss = ss
BY DEF Hr

LEMMA MixedHash ==
  \A ck, h, c, d : MixHash(Ss(ck, h, c), d) = Ss(ck, Hashed(h, d), c)
<1> TAKE ck, h, c, d
<1>1. MixHash(Ss(ck, h, c), d)
        = [Ss(ck, h, c) EXCEPT !.h = Hashed(Ss(ck, h, c).h, d)]
  BY DEF MixHash, Hashed
<1>2. \A g : [Ss(ck, h, c) EXCEPT !.h = g] = Ss(ck, g, c)
  BY DEF Ss
<1> QED BY <1>1, <1>2, SsParts

LEMMA MixedKey ==
  \A ck, h, c, d :
    MixKey(Ss(ck, h, c), d) = Ss(Hkdf(ck, d), h, KeyOf(Hkdf(ck, d)))
<1> TAKE ck, h, c, d
<1>1. PICK ss : ss = Ss(ck, h, c)
  OBVIOUS
<1>2. PICK x : x = Hkdf(ck, d)
  OBVIOUS
<1>3. PICK k : k = KeyOf(x)
  OBVIOUS
<1>4. ss.ck = ck
  BY <1>1, SsParts
<1>5. MixKey(ss, d) = [ss EXCEPT !.ck = Hkdf(ss.ck, d),
                                 !.c = KeyOf(Hkdf(ss.ck, d))]
  BY DEF MixKey, KeyOf
<1>6. MixKey(ss, d) = [ss EXCEPT !.ck = x, !.c = k]
  BY <1>2, <1>3, <1>4, <1>5
<1>7. MixKey(ss, d) = Ss(x, h, k)
  BY <1>1, <1>6 DEF Ss
<1> QED BY <1>1, <1>2, <1>3, <1>7

LEMMA MixedPsk ==
  \A ck, h, c, d :
    MixKeyAndHash(Ss(ck, h, c), d)
      = Ss(Hkdf(ck, d), Hashed(h, <<"h", Hkdf(ck, d)>>), PskOf(Hkdf(ck, d)))
<1> TAKE ck, h, c, d
<1>1. MixKeyAndHash(Ss(ck, h, c), d)
        = Ss(Hkdf(Ss(ck, h, c).ck, d),
             Hashed(Ss(ck, h, c).h, <<"h", Hkdf(Ss(ck, h, c).ck, d)>>),
             PskOf(Hkdf(Ss(ck, h, c).ck, d)))
  BY DEF MixKeyAndHash, Ss, Hashed, PskOf
<1> QED BY <1>1, SsParts

LEMMA WriteEI ==
  ASSUME NEW p, NEW s, NEW rs, NEW psk, NEW e, NEW re, NEW nx, NEW ss, NEW f
  PROVE  WriteToken(Hi(p, s, rs, psk, e, re, nx, ss), "e", f)
           = Hi(p, s, rs, psk, f, re, nx, MixHash(ss, Pub(f)))
BY DEF Hi, WriteToken

LEMMA ReadEI ==
  ASSUME NEW p, NEW s, NEW rs, NEW psk, NEW e, NEW re, NEW nx, NEW ss, NEW m
  PROVE  ReadToken(Hi(p, s, rs, psk, e, re, nx, ss), "e", m)
           = Hi(p, s, rs, psk, e, m.e, nx, MixHash(ss, Pub(m.e)))
BY DEF Hi, ReadToken

LEMMA PskI ==
  ASSUME NEW p, NEW s, NEW rs, NEW psk, NEW e, NEW re, NEW nx, NEW ss, NEW f
  PROVE  LET hs == Hi(p, s, rs, psk, e, re, nx, ss)
             mixed == Hi(p, s, rs, None, e, re, nx,
                         MixKeyAndHash(ss, <<"psk", psk>>))
         IN WriteToken(hs, "psk", f) = mixed /\ ReadToken(hs, "psk", f) = mixed
BY DEF Hi, WriteToken, ReadToken, MixPsk

LEMMA WriteER ==
  ASSUME NEW p, NEW s, NEW rs, NEW psk, NEW e, NEW re, NEW nx, NEW ss, NEW f
  PROVE  WriteToken(Hr(p, s, rs, psk, e, re, nx, ss), "e", f)
           = Hr(p, s, rs, psk, f, re, nx, MixHash(ss, Pub(f)))
BY DEF Hr, WriteToken

LEMMA ReadER ==
  ASSUME NEW p, NEW s, NEW rs, NEW psk, NEW e, NEW re, NEW nx, NEW ss, NEW m
  PROVE  ReadToken(Hr(p, s, rs, psk, e, re, nx, ss), "e", m)
           = Hr(p, s, rs, psk, e, m.e, nx, MixHash(ss, Pub(m.e)))
BY DEF Hr, ReadToken

LEMMA PskR ==
  ASSUME NEW p, NEW s, NEW rs, NEW psk, NEW e, NEW re, NEW nx, NEW ss, NEW f
  PROVE  LET hs == Hr(p, s, rs, psk, e, re, nx, ss)
             mixed == Hr(p, s, rs, None, e, re, nx,
                         MixKeyAndHash(ss, <<"psk", psk>>))
         IN WriteToken(hs, "psk", f) = mixed /\ ReadToken(hs, "psk", f) = mixed
BY DEF Hr, WriteToken, ReadToken, MixPsk

(* Who contributes which key to a token.                                   *)
LEMMA DhI ==
  ASSUME NEW p, NEW s, NEW rs, NEW psk, NEW e, NEW re, NEW nx, NEW ss, NEW f,
         NEW t \in {"ee", "es", "se", "ss"},
         NEW a, a = IF t \in {"ee", "es"} THEN e ELSE s,
         NEW b, b = IF t \in {"ee", "se"} THEN re ELSE rs
  PROVE  LET hs == Hi(p, s, rs, psk, e, re, nx, ss)
             mixed == Hi(p, s, rs, psk, e, re, nx, MixKey(ss, Dh(a, b)))
         IN WriteToken(hs, t, f) = mixed /\ ReadToken(hs, t, f) = mixed
<1> DEFINE hs == Hi(p, s, rs, psk, e, re, nx, ss)
<1>1. hs.initiator = TRUE /\ hs.e = e /\ hs.s = s /\ hs.re = re /\ hs.rs = rs
      /\ hs.ss = ss
  BY DEF Hi
<1>2. PICK x : x = MixKey(ss, Dh(a, b))
  OBVIOUS
<1> HIDE DEF hs
<1>3. Own(hs, t) = a /\ Theirs(hs, t) = b
  BY <1>1 DEF Own, Theirs
<1>4. MixDh(hs, t) = [hs EXCEPT !.ss = MixKey(hs.ss, Dh(Own(hs, t), Theirs(hs, t)))]
  BY DEF MixDh
<1>5. MixDh(hs, t) = Hi(p, s, rs, psk, e, re, nx, MixKey(ss, Dh(a, b)))
  <2>1. MixDh(hs, t) = [hs EXCEPT !.ss = x]
    BY <1>1, <1>2, <1>3, <1>4
  <2>2. MixDh(hs, t) = Hi(p, s, rs, psk, e, re, nx, x)
    BY <2>1 DEF hs, Hi
  <2> QED BY <2>2, <1>2
<1>6. WriteToken(hs, t, f) = MixDh(hs, t) /\ ReadToken(hs, t, f) = MixDh(hs, t)
  BY DEF WriteToken, ReadToken
<1> QED BY <1>5, <1>6 DEF hs

LEMMA DhR ==
  ASSUME NEW p, NEW s, NEW rs, NEW psk, NEW e, NEW re, NEW nx, NEW ss, NEW f,
         NEW t \in {"ee", "es", "se", "ss"},
         NEW a, a = IF t \in {"ee", "se"} THEN e ELSE s,
         NEW b, b = IF t \in {"ee", "es"} THEN re ELSE rs
  PROVE  LET hs == Hr(p, s, rs, psk, e, re, nx, ss)
             mixed == Hr(p, s, rs, psk, e, re, nx, MixKey(ss, Dh(a, b)))
         IN WriteToken(hs, t, f) = mixed /\ ReadToken(hs, t, f) = mixed
<1> DEFINE hs == Hr(p, s, rs, psk, e, re, nx, ss)
<1>1. hs.initiator = FALSE /\ hs.e = e /\ hs.s = s /\ hs.re = re /\ hs.rs = rs
      /\ hs.ss = ss
  BY DEF Hr
<1>2. PICK x : x = MixKey(ss, Dh(a, b))
  OBVIOUS
<1> HIDE DEF hs
<1>3. Own(hs, t) = a /\ Theirs(hs, t) = b
  BY <1>1 DEF Own, Theirs
<1>4. MixDh(hs, t) = [hs EXCEPT !.ss = MixKey(hs.ss, Dh(Own(hs, t), Theirs(hs, t)))]
  BY DEF MixDh
<1>5. MixDh(hs, t) = Hr(p, s, rs, psk, e, re, nx, MixKey(ss, Dh(a, b)))
  <2>1. MixDh(hs, t) = [hs EXCEPT !.ss = x]
    BY <1>1, <1>2, <1>3, <1>4
  <2>2. MixDh(hs, t) = Hr(p, s, rs, psk, e, re, nx, x)
    BY <2>1 DEF hs, Hr
  <2> QED BY <2>2, <1>2
<1>6. WriteToken(hs, t, f) = MixDh(hs, t) /\ ReadToken(hs, t, f) = MixDh(hs, t)
  BY DEF WriteToken, ReadToken
<1> QED BY <1>5, <1>6 DEF hs

LEMMA eeI ==
  ASSUME NEW p, NEW s, NEW rs, NEW psk, NEW e, NEW re, NEW nx, NEW ss, NEW f
  PROVE  LET hs == Hi(p, s, rs, psk, e, re, nx, ss)
             mixed == Hi(p, s, rs, psk, e, re, nx, MixKey(ss, Dh(e, re)))
         IN WriteToken(hs, "ee", f) = mixed /\ ReadToken(hs, "ee", f) = mixed
BY DhI

LEMMA esI ==
  ASSUME NEW p, NEW s, NEW rs, NEW psk, NEW e, NEW re, NEW nx, NEW ss, NEW f
  PROVE  LET hs == Hi(p, s, rs, psk, e, re, nx, ss)
             mixed == Hi(p, s, rs, psk, e, re, nx, MixKey(ss, Dh(e, rs)))
         IN WriteToken(hs, "es", f) = mixed /\ ReadToken(hs, "es", f) = mixed
BY DhI

LEMMA seI ==
  ASSUME NEW p, NEW s, NEW rs, NEW psk, NEW e, NEW re, NEW nx, NEW ss, NEW f
  PROVE  LET hs == Hi(p, s, rs, psk, e, re, nx, ss)
             mixed == Hi(p, s, rs, psk, e, re, nx, MixKey(ss, Dh(s, re)))
         IN WriteToken(hs, "se", f) = mixed /\ ReadToken(hs, "se", f) = mixed
BY DhI

LEMMA ssI ==
  ASSUME NEW p, NEW s, NEW rs, NEW psk, NEW e, NEW re, NEW nx, NEW ss, NEW f
  PROVE  LET hs == Hi(p, s, rs, psk, e, re, nx, ss)
             mixed == Hi(p, s, rs, psk, e, re, nx, MixKey(ss, Dh(s, rs)))
         IN WriteToken(hs, "ss", f) = mixed /\ ReadToken(hs, "ss", f) = mixed
BY DhI

LEMMA eeR ==
  ASSUME NEW p, NEW s, NEW rs, NEW psk, NEW e, NEW re, NEW nx, NEW ss, NEW f
  PROVE  LET hs == Hr(p, s, rs, psk, e, re, nx, ss)
             mixed == Hr(p, s, rs, psk, e, re, nx, MixKey(ss, Dh(e, re)))
         IN WriteToken(hs, "ee", f) = mixed /\ ReadToken(hs, "ee", f) = mixed
BY DhR

LEMMA esR ==
  ASSUME NEW p, NEW s, NEW rs, NEW psk, NEW e, NEW re, NEW nx, NEW ss, NEW f
  PROVE  LET hs == Hr(p, s, rs, psk, e, re, nx, ss)
             mixed == Hr(p, s, rs, psk, e, re, nx, MixKey(ss, Dh(s, re)))
         IN WriteToken(hs, "es", f) = mixed /\ ReadToken(hs, "es", f) = mixed
BY DhR

LEMMA seR ==
  ASSUME NEW p, NEW s, NEW rs, NEW psk, NEW e, NEW re, NEW nx, NEW ss, NEW f
  PROVE  LET hs == Hr(p, s, rs, psk, e, re, nx, ss)
             mixed == Hr(p, s, rs, psk, e, re, nx, MixKey(ss, Dh(e, rs)))
         IN WriteToken(hs, "se", f) = mixed /\ ReadToken(hs, "se", f) = mixed
BY DhR

LEMMA ssR ==
  ASSUME NEW p, NEW s, NEW rs, NEW psk, NEW e, NEW re, NEW nx, NEW ss, NEW f
  PROVE  LET hs == Hr(p, s, rs, psk, e, re, nx, ss)
             mixed == Hr(p, s, rs, psk, e, re, nx, MixKey(ss, Dh(s, rs)))
         IN WriteToken(hs, "ss", f) = mixed /\ ReadToken(hs, "ss", f) = mixed
BY DhR

(* The tokens of a message of two or three, one after the other.           *)
LEMMA WriteTwo ==
  ASSUME NEW hs, NEW fresh, NEW t1, NEW t2, Tokens(hs) = <<t1, t2>>,
         NEW v1, v1 = WriteToken(hs, t1, fresh),
         NEW v2, v2 = WriteToken(v1, t2, fresh)
  PROVE  WriteTokens(hs, fresh) = v2
<1> DEFINE F == <<v1, v2>>
           S(i) == IF i = 0 THEN hs ELSE F[i]
           G == [i \in 0..2 |-> S(i)]
           Eq(f) == f = [i \in 0..2 |->
               IF i = 0 THEN hs ELSE WriteToken(f[i - 1], <<t1, t2>>[i], fresh)]
<1>1. /\ S(0) = hs /\ S(1) = v1 /\ S(2) = v2
      /\ <<t1, t2>>[1] = t1 /\ <<t1, t2>>[2] = t2
  OBVIOUS
<1> HIDE DEF S
<1>2. \A i \in 0..2 : S(i) = IF i = 0 THEN hs ELSE WriteToken(S(i - 1), <<t1, t2>>[i], fresh)
  <2> TAKE i \in 0..2
  <2>1. CASE i = 0
    BY <2>1, <1>1
  <2>2. CASE i = 1
    <3>1. i - 1 = 0 /\ i # 0
      BY <2>2
    <3> QED BY <2>2, <3>1, <1>1
  <2>3. CASE i = 2
    <3>1. i - 1 = 1 /\ i # 0
      BY <2>3
    <3> QED BY <2>3, <3>1, <1>1
  <2> QED BY <2>1, <2>2, <2>3
<1>3. Eq(G)
  BY <1>2
<1> HIDE DEF G
<1>4. ASSUME NEW g, Eq(g) PROVE g[2] = v2
  <2>1. \A i \in 0..2 : g[i] = IF i = 0 THEN hs
                            ELSE WriteToken(g[i - 1], <<t1, t2>>[i], fresh)
    BY <1>4
  <2> HIDE DEF Eq
  <2>2. g[0] = hs
    BY <2>1
  <2>3. g[1] = v1
    <3>1. 1 - 1 = 0 /\ 1 # 0 /\ 1 \in 0..2
      OBVIOUS
    <3> QED BY <2>1, <2>2, <3>1, <1>1
  <2>4. g[2] = v2
    <3>1. 2 - 1 = 1 /\ 2 # 0 /\ 2 \in 0..2
      OBVIOUS
    <3> QED BY <2>1, <2>3, <3>1, <1>1
  <2> QED BY <2>4
<1> DEFINE H == CHOOSE f : Eq(f)
<1>5. Eq(H)
  <2> HIDE DEF Eq
  <2> QED BY <1>3
<1>6. WriteTokens(hs, fresh) = H[2]
  <2>1. Len(<<t1, t2>>) = 2
    OBVIOUS
  <2> QED BY <2>1 DEF WriteTokens
<1> HIDE DEF H, Eq
<1> QED BY <1>4, <1>5, <1>6

LEMMA WriteThree ==
  ASSUME NEW hs, NEW fresh, NEW t1, NEW t2, NEW t3, Tokens(hs) = <<t1, t2, t3>>,
         NEW v1, v1 = WriteToken(hs, t1, fresh),
         NEW v2, v2 = WriteToken(v1, t2, fresh),
         NEW v3, v3 = WriteToken(v2, t3, fresh)
  PROVE  WriteTokens(hs, fresh) = v3
<1> DEFINE F == <<v1, v2, v3>>
           S(i) == IF i = 0 THEN hs ELSE F[i]
           G == [i \in 0..3 |-> S(i)]
           Eq(f) == f = [i \in 0..3 |->
               IF i = 0 THEN hs ELSE WriteToken(f[i - 1], <<t1, t2, t3>>[i], fresh)]
<1>1. /\ S(0) = hs /\ S(1) = v1 /\ S(2) = v2 /\ S(3) = v3
      /\ <<t1, t2, t3>>[1] = t1 /\ <<t1, t2, t3>>[2] = t2 /\ <<t1, t2, t3>>[3] = t3
  OBVIOUS
<1> HIDE DEF S
<1>2. \A i \in 0..3 : S(i) = IF i = 0 THEN hs ELSE WriteToken(S(i - 1), <<t1, t2, t3>>[i], fresh)
  <2> TAKE i \in 0..3
  <2>1. CASE i = 0
    BY <2>1, <1>1
  <2>2. CASE i = 1
    <3>1. i - 1 = 0 /\ i # 0
      BY <2>2
    <3> QED BY <2>2, <3>1, <1>1
  <2>3. CASE i = 2
    <3>1. i - 1 = 1 /\ i # 0
      BY <2>3
    <3> QED BY <2>3, <3>1, <1>1
  <2>4. CASE i = 3
    <3>1. i - 1 = 2 /\ i # 0
      BY <2>4
    <3> QED BY <2>4, <3>1, <1>1
  <2> QED BY <2>1, <2>2, <2>3, <2>4
<1>3. Eq(G)
  BY <1>2
<1> HIDE DEF G
<1>4. ASSUME NEW g, Eq(g) PROVE g[3] = v3
  <2>1. \A i \in 0..3 : g[i] = IF i = 0 THEN hs
                            ELSE WriteToken(g[i - 1], <<t1, t2, t3>>[i], fresh)
    BY <1>4
  <2> HIDE DEF Eq
  <2>2. g[0] = hs
    BY <2>1
  <2>3. g[1] = v1
    <3>1. 1 - 1 = 0 /\ 1 # 0 /\ 1 \in 0..3
      OBVIOUS
    <3> QED BY <2>1, <2>2, <3>1, <1>1
  <2>4. g[2] = v2
    <3>1. 2 - 1 = 1 /\ 2 # 0 /\ 2 \in 0..3
      OBVIOUS
    <3> QED BY <2>1, <2>3, <3>1, <1>1
  <2>5. g[3] = v3
    <3>1. 3 - 1 = 2 /\ 3 # 0 /\ 3 \in 0..3
      OBVIOUS
    <3> QED BY <2>1, <2>4, <3>1, <1>1
  <2> QED BY <2>5
<1> DEFINE H == CHOOSE f : Eq(f)
<1>5. Eq(H)
  <2> HIDE DEF Eq
  <2> QED BY <1>3
<1>6. WriteTokens(hs, fresh) = H[3]
  <2>1. Len(<<t1, t2, t3>>) = 3
    OBVIOUS
  <2> QED BY <2>1 DEF WriteTokens
<1> HIDE DEF H, Eq
<1> QED BY <1>4, <1>5, <1>6

LEMMA ReadTwo ==
  ASSUME NEW hs, NEW msg, NEW t1, NEW t2, Tokens(hs) = <<t1, t2>>,
         NEW v1, v1 = ReadToken(hs, t1, msg),
         NEW v2, v2 = ReadToken(v1, t2, msg)
  PROVE  ReadTokens(hs, msg) = v2
<1> DEFINE F == <<v1, v2>>
           S(i) == IF i = 0 THEN hs ELSE F[i]
           G == [i \in 0..2 |-> S(i)]
           Eq(f) == f = [i \in 0..2 |->
               IF i = 0 THEN hs ELSE ReadToken(f[i - 1], <<t1, t2>>[i], msg)]
<1>1. /\ S(0) = hs /\ S(1) = v1 /\ S(2) = v2
      /\ <<t1, t2>>[1] = t1 /\ <<t1, t2>>[2] = t2
  OBVIOUS
<1> HIDE DEF S
<1>2. \A i \in 0..2 : S(i) = IF i = 0 THEN hs ELSE ReadToken(S(i - 1), <<t1, t2>>[i], msg)
  <2> TAKE i \in 0..2
  <2>1. CASE i = 0
    BY <2>1, <1>1
  <2>2. CASE i = 1
    <3>1. i - 1 = 0 /\ i # 0
      BY <2>2
    <3> QED BY <2>2, <3>1, <1>1
  <2>3. CASE i = 2
    <3>1. i - 1 = 1 /\ i # 0
      BY <2>3
    <3> QED BY <2>3, <3>1, <1>1
  <2> QED BY <2>1, <2>2, <2>3
<1>3. Eq(G)
  BY <1>2
<1> HIDE DEF G
<1>4. ASSUME NEW g, Eq(g) PROVE g[2] = v2
  <2>1. \A i \in 0..2 : g[i] = IF i = 0 THEN hs
                            ELSE ReadToken(g[i - 1], <<t1, t2>>[i], msg)
    BY <1>4
  <2> HIDE DEF Eq
  <2>2. g[0] = hs
    BY <2>1
  <2>3. g[1] = v1
    <3>1. 1 - 1 = 0 /\ 1 # 0 /\ 1 \in 0..2
      OBVIOUS
    <3> QED BY <2>1, <2>2, <3>1, <1>1
  <2>4. g[2] = v2
    <3>1. 2 - 1 = 1 /\ 2 # 0 /\ 2 \in 0..2
      OBVIOUS
    <3> QED BY <2>1, <2>3, <3>1, <1>1
  <2> QED BY <2>4
<1> DEFINE H == CHOOSE f : Eq(f)
<1>5. Eq(H)
  <2> HIDE DEF Eq
  <2> QED BY <1>3
<1>6. ReadTokens(hs, msg) = H[2]
  <2>1. Len(<<t1, t2>>) = 2
    OBVIOUS
  <2> QED BY <2>1 DEF ReadTokens
<1> HIDE DEF H, Eq
<1> QED BY <1>4, <1>5, <1>6

LEMMA ReadThree ==
  ASSUME NEW hs, NEW msg, NEW t1, NEW t2, NEW t3, Tokens(hs) = <<t1, t2, t3>>,
         NEW v1, v1 = ReadToken(hs, t1, msg),
         NEW v2, v2 = ReadToken(v1, t2, msg),
         NEW v3, v3 = ReadToken(v2, t3, msg)
  PROVE  ReadTokens(hs, msg) = v3
<1> DEFINE F == <<v1, v2, v3>>
           S(i) == IF i = 0 THEN hs ELSE F[i]
           G == [i \in 0..3 |-> S(i)]
           Eq(f) == f = [i \in 0..3 |->
               IF i = 0 THEN hs ELSE ReadToken(f[i - 1], <<t1, t2, t3>>[i], msg)]
<1>1. /\ S(0) = hs /\ S(1) = v1 /\ S(2) = v2 /\ S(3) = v3
      /\ <<t1, t2, t3>>[1] = t1 /\ <<t1, t2, t3>>[2] = t2 /\ <<t1, t2, t3>>[3] = t3
  OBVIOUS
<1> HIDE DEF S
<1>2. \A i \in 0..3 : S(i) = IF i = 0 THEN hs ELSE ReadToken(S(i - 1), <<t1, t2, t3>>[i], msg)
  <2> TAKE i \in 0..3
  <2>1. CASE i = 0
    BY <2>1, <1>1
  <2>2. CASE i = 1
    <3>1. i - 1 = 0 /\ i # 0
      BY <2>2
    <3> QED BY <2>2, <3>1, <1>1
  <2>3. CASE i = 2
    <3>1. i - 1 = 1 /\ i # 0
      BY <2>3
    <3> QED BY <2>3, <3>1, <1>1
  <2>4. CASE i = 3
    <3>1. i - 1 = 2 /\ i # 0
      BY <2>4
    <3> QED BY <2>4, <3>1, <1>1
  <2> QED BY <2>1, <2>2, <2>3, <2>4
<1>3. Eq(G)
  BY <1>2
<1> HIDE DEF G
<1>4. ASSUME NEW g, Eq(g) PROVE g[3] = v3
  <2>1. \A i \in 0..3 : g[i] = IF i = 0 THEN hs
                            ELSE ReadToken(g[i - 1], <<t1, t2, t3>>[i], msg)
    BY <1>4
  <2> HIDE DEF Eq
  <2>2. g[0] = hs
    BY <2>1
  <2>3. g[1] = v1
    <3>1. 1 - 1 = 0 /\ 1 # 0 /\ 1 \in 0..3
      OBVIOUS
    <3> QED BY <2>1, <2>2, <3>1, <1>1
  <2>4. g[2] = v2
    <3>1. 2 - 1 = 1 /\ 2 # 0 /\ 2 \in 0..3
      OBVIOUS
    <3> QED BY <2>1, <2>3, <3>1, <1>1
  <2>5. g[3] = v3
    <3>1. 3 - 1 = 2 /\ 3 # 0 /\ 3 \in 0..3
      OBVIOUS
    <3> QED BY <2>1, <2>4, <3>1, <1>1
  <2> QED BY <2>5
<1> DEFINE H == CHOOSE f : Eq(f)
<1>5. Eq(H)
  <2> HIDE DEF Eq
  <2> QED BY <1>3
<1>6. ReadTokens(hs, msg) = H[3]
  <2>1. Len(<<t1, t2, t3>>) = 3
    OBVIOUS
  <2> QED BY <2>1 DEF ReadTokens
<1> HIDE DEF H, Eq
<1> QED BY <1>4, <1>5, <1>6

LEMMA KeysSeal ==
  \A ck : /\ HasKey(KeyOf(ck)) /\ HasKey(PskOf(ck))
          /\ KeyOf(ck).k = <<"k", ck>> /\ PskOf(ck).k = <<"k3", ck>>
<1>1. \A x : <<"k", x>> # <<"none">> /\ <<"k3", x>> # <<"none">>
  OBVIOUS
<1> QED BY <1>1 DEF HasKey, KeyOf, PskOf, Cipher, NoCipher

LEMMA Seals ==
  ASSUME NEW ck, NEW h, NEW c, HasKey(c), NEW ss, ss = Ss(ck, h, c)
  PROVE  /\ EncryptAndHash(ss).ct = Sealed(c, h, Payload)
         /\ EncryptAndHash(ss).ss
              = Ss(ck, Hashed(h, <<"ct", Sealed(c, h, Payload)>>), Stepped(c))
<1>1. ss.ck = ck /\ ss.h = h /\ ss.c = c
  BY SsParts
<1>2. \A g : [Ss(ck, g, c) EXCEPT !.c = IF HasKey(@) THEN Stepped(@) ELSE @]
               = Ss(ck, g, Stepped(c))
  <2> TAKE g
  <2>1. [Ss(ck, g, c) EXCEPT !.c = IF HasKey(@) THEN Stepped(@) ELSE @]
          = [Ss(ck, g, c) EXCEPT !.c = IF HasKey(c) THEN Stepped(c) ELSE c]
    BY SsParts
  <2>2. \A x : [Ss(ck, g, c) EXCEPT !.c = x] = Ss(ck, g, x)
    BY DEF Ss
  <2> QED BY <2>1, <2>2
<1>3. \A d : MixHash(ss, d) = Ss(ck, Hashed(h, d), c)
  BY MixedHash
<1>4. /\ EncryptAndHash(ss).ct = Sealed(ss.c, ss.h, Payload)
      /\ EncryptAndHash(ss).ss
           = [MixHash(ss, <<"ct", Sealed(ss.c, ss.h, Payload)>>) EXCEPT
                !.c = IF HasKey(@) THEN Stepped(@) ELSE @]
  BY DEF EncryptAndHash
<1>5. EncryptAndHash(ss).ct = Sealed(c, h, Payload)
  BY <1>1, <1>4
<1>6. EncryptAndHash(ss).ss
        = Ss(ck, Hashed(h, <<"ct", Sealed(c, h, Payload)>>), Stepped(c))
  BY <1>1, <1>2, <1>3, <1>4
<1> QED BY <1>5, <1>6

LEMMA UnsealsOnly ==
  ASSUME NEW ck, NEW h, NEW c, NEW ct, HasKey(c), NEW ss, ss = Ss(ck, h, c)
  PROVE  DecryptAndHash(ss, ct).ok => ct.k = c.k
<1>1. ss.ck = ck /\ ss.h = h /\ ss.c = c
  BY SsParts
<1>4. DecryptAndHash(ss, ct).ok = (~HasKey(ss.c) \/ Opens(ss.c, ss.h, ct))
  BY DEF DecryptAndHash
<1>5. Opens(ss.c, ss.h, ct) => ct.k = c.k
  BY <1>1 DEF Opens
<1>6. DecryptAndHash(ss, ct).ok => ct.k = c.k
  BY <1>1, <1>4, <1>5
<1> QED BY <1>6

LEMMA Unseals ==
  ASSUME NEW ck, NEW h, NEW c, NEW ct, HasKey(c), NEW ss, ss = Ss(ck, h, c)
  PROVE  DecryptAndHash(ss, ct).ss
           = Ss(ck, Hashed(h, <<"ct", ct>>), Stepped(c))
<1>1. ss.ck = ck /\ ss.h = h /\ ss.c = c
  BY SsParts
<1>2. \A g : [Ss(ck, g, c) EXCEPT !.c = IF HasKey(@) THEN Stepped(@) ELSE @]
               = Ss(ck, g, Stepped(c))
  <2> TAKE g
  <2>1. [Ss(ck, g, c) EXCEPT !.c = IF HasKey(@) THEN Stepped(@) ELSE @]
          = [Ss(ck, g, c) EXCEPT !.c = IF HasKey(c) THEN Stepped(c) ELSE c]
    BY SsParts
  <2>2. \A x : [Ss(ck, g, c) EXCEPT !.c = x] = Ss(ck, g, x)
    BY DEF Ss
  <2> QED BY <2>1, <2>2
<1>3. \A d : MixHash(ss, d) = Ss(ck, Hashed(h, d), c)
  BY MixedHash
<1>4. DecryptAndHash(ss, ct).ss
        = [MixHash(ss, <<"ct", ct>>) EXCEPT
             !.c = IF HasKey(@) THEN Stepped(@) ELSE @]
  BY DEF DecryptAndHash
<1>7. DecryptAndHash(ss, ct).ss = Ss(ck, Hashed(h, <<"ct", ct>>), Stepped(c))
  BY <1>2, <1>3, <1>4
<1> QED BY <1>7

LEMMA WritesI ==
  ASSUME NEW p, NEW s, NEW rs, NEW psk, NEW e, NEW re, NEW nx, NEW ck,
         NEW h, NEW c, NEW f, NEW hs, HasKey(c),
         WriteTokens(hs, f) = Hi(p, s, rs, psk, e, re, nx, Ss(ck, h, c))
  PROVE  /\ WriteMessage(hs, f).hs
              = Hi(p, s, rs, psk, e, re, nx + 1,
                   Ss(ck, Hashed(h, <<"ct", Sealed(c, h, Payload)>>), Stepped(c)))
         /\ WriteMessage(hs, f).msg = [e |-> f, ct |-> Sealed(c, h, Payload)]
<1> DEFINE mixed == WriteTokens(hs, f)
           out == EncryptAndHash(mixed.ss)
<1>1. mixed.ss = Ss(ck, h, c)
  BY DEF Hi
<1>2. /\ out.ct = Sealed(c, h, Payload)
      /\ out.ss = Ss(ck, Hashed(h, <<"ct", Sealed(c, h, Payload)>>), Stepped(c))
  BY <1>1, Seals
<1>4. WriteMessage(hs, f) =
        [hs |-> [mixed EXCEPT !.ss = out.ss, !.next = @ + 1],
         msg |-> [e |-> f, ct |-> out.ct]]
  BY DEF WriteMessage
<1> HIDE DEF out, mixed
<1>5. /\ WriteMessage(hs, f).hs = [mixed EXCEPT !.ss = out.ss, !.next = @ + 1]
      /\ WriteMessage(hs, f).msg = [e |-> f, ct |-> out.ct]
  BY <1>4
<1>6. WriteMessage(hs, f).hs = Hi(p, s, rs, psk, e, re, nx + 1, out.ss)
  <2>1. PICK y : y = WriteMessage(hs, f).hs
    OBVIOUS
  <2>2. y = [mixed EXCEPT !.ss = out.ss, !.next = @ + 1]
    BY <2>1, <1>5, Zenon
  <2>3. mixed = Hi(p, s, rs, psk, e, re, nx, Ss(ck, h, c))
    BY DEF mixed
  <2>4. y = Hi(p, s, rs, psk, e, re, nx + 1, out.ss)
    BY <2>2, <2>3 DEF Hi
  <2> QED BY <2>1, <2>4
<1> QED BY <1>2, <1>5, <1>6

LEMMA WritesR ==
  ASSUME NEW p, NEW s, NEW rs, NEW psk, NEW e, NEW re, NEW nx, NEW ck,
         NEW h, NEW c, NEW f, NEW hs, HasKey(c),
         WriteTokens(hs, f) = Hr(p, s, rs, psk, e, re, nx, Ss(ck, h, c))
  PROVE  /\ WriteMessage(hs, f).hs
              = Hr(p, s, rs, psk, e, re, nx + 1,
                   Ss(ck, Hashed(h, <<"ct", Sealed(c, h, Payload)>>), Stepped(c)))
         /\ WriteMessage(hs, f).msg = [e |-> f, ct |-> Sealed(c, h, Payload)]
<1> DEFINE mixed == WriteTokens(hs, f)
           out == EncryptAndHash(mixed.ss)
<1>1. mixed.ss = Ss(ck, h, c)
  BY DEF Hr
<1>2. /\ out.ct = Sealed(c, h, Payload)
      /\ out.ss = Ss(ck, Hashed(h, <<"ct", Sealed(c, h, Payload)>>), Stepped(c))
  BY <1>1, Seals
<1>4. WriteMessage(hs, f) =
        [hs |-> [mixed EXCEPT !.ss = out.ss, !.next = @ + 1],
         msg |-> [e |-> f, ct |-> out.ct]]
  BY DEF WriteMessage
<1> HIDE DEF out, mixed
<1>5. /\ WriteMessage(hs, f).hs = [mixed EXCEPT !.ss = out.ss, !.next = @ + 1]
      /\ WriteMessage(hs, f).msg = [e |-> f, ct |-> out.ct]
  BY <1>4
<1>6. WriteMessage(hs, f).hs = Hr(p, s, rs, psk, e, re, nx + 1, out.ss)
  <2>1. PICK y : y = WriteMessage(hs, f).hs
    OBVIOUS
  <2>2. y = [mixed EXCEPT !.ss = out.ss, !.next = @ + 1]
    BY <2>1, <1>5, Zenon
  <2>3. mixed = Hr(p, s, rs, psk, e, re, nx, Ss(ck, h, c))
    BY DEF mixed
  <2>4. y = Hr(p, s, rs, psk, e, re, nx + 1, out.ss)
    BY <2>2, <2>3 DEF Hr
  <2> QED BY <2>1, <2>4
<1> QED BY <1>2, <1>5, <1>6

LEMMA ReadsI ==
  ASSUME NEW p, NEW s, NEW rs, NEW psk, NEW e, NEW re, NEW nx, NEW ck,
         NEW h, NEW c, NEW m, NEW hs, HasKey(c),
         ReadTokens(hs, m) = Hi(p, s, rs, psk, e, re, nx, Ss(ck, h, c))
  PROVE  ReadMessage(hs, m).hs
           = Hi(p, s, rs, psk, e, re, nx + 1,
                Ss(ck, Hashed(h, <<"ct", m.ct>>), Stepped(c)))
<1> DEFINE mixed == ReadTokens(hs, m)
           in == DecryptAndHash(mixed.ss, m.ct)
<1>1. mixed.ss = Ss(ck, h, c)
  BY DEF Hi
<1>2. in.ss = Ss(ck, Hashed(h, <<"ct", m.ct>>), Stepped(c))
  <2> DEFINE ct == m.ct
             ss == mixed.ss
  <2>1. ss = Ss(ck, h, c)
    BY <1>1
  <2> HIDE DEF ct, mixed, ss
  <2>2. DecryptAndHash(ss, ct).ss = Ss(ck, Hashed(h, <<"ct", ct>>), Stepped(c))
    BY <2>1, Unseals
  <2> QED BY <2>2 DEF ct, ss
<1>4. ReadMessage(hs, m) =
        [ok |-> in.ok, hs |-> [mixed EXCEPT !.ss = in.ss, !.next = @ + 1]]
  BY DEF ReadMessage
<1> HIDE DEF in, mixed
<1>5. ReadMessage(hs, m).hs = [mixed EXCEPT !.ss = in.ss, !.next = @ + 1]
  BY <1>4
<1>6. ReadMessage(hs, m).hs = Hi(p, s, rs, psk, e, re, nx + 1, in.ss)
  <2>1. PICK y : y = ReadMessage(hs, m).hs
    OBVIOUS
  <2>2. y = [mixed EXCEPT !.ss = in.ss, !.next = @ + 1]
    BY <2>1, <1>5, Zenon
  <2>3. mixed = Hi(p, s, rs, psk, e, re, nx, Ss(ck, h, c))
    BY DEF mixed
  <2>4. y = Hi(p, s, rs, psk, e, re, nx + 1, in.ss)
    BY <2>2, <2>3 DEF Hi
  <2> QED BY <2>1, <2>4
<1> QED BY <1>2, <1>6

LEMMA OpensI ==
  ASSUME NEW p, NEW s, NEW rs, NEW psk, NEW e, NEW re, NEW nx, NEW ck,
         NEW h, NEW c, NEW m, NEW hs, HasKey(c),
         ReadTokens(hs, m) = Hi(p, s, rs, psk, e, re, nx, Ss(ck, h, c))
  PROVE  ReadMessage(hs, m).ok => m.ct.k = c.k
<1>1. PICK mixed : mixed = ReadTokens(hs, m)
  OBVIOUS
<1>2. mixed.ss = Ss(ck, h, c)
  BY <1>1 DEF Hi
<1>3. ReadMessage(hs, m).ok = DecryptAndHash(mixed.ss, m.ct).ok
  BY <1>1 DEF ReadMessage
<1>4. DecryptAndHash(mixed.ss, m.ct).ok => m.ct.k = c.k
  <2>1. PICK ct, ss : ct = m.ct /\ ss = mixed.ss
    OBVIOUS
  <2>2. ss = Ss(ck, h, c)
    BY <2>1, <1>2
  <2>3. DecryptAndHash(ss, ct).ok => ct.k = c.k
    BY <2>2, UnsealsOnly
  <2> QED BY <2>1, <2>3
<1> QED BY <1>3, <1>4

LEMMA ReadsR ==
  ASSUME NEW p, NEW s, NEW rs, NEW psk, NEW e, NEW re, NEW nx, NEW ck,
         NEW h, NEW c, NEW m, NEW hs, HasKey(c),
         ReadTokens(hs, m) = Hr(p, s, rs, psk, e, re, nx, Ss(ck, h, c))
  PROVE  ReadMessage(hs, m).hs
           = Hr(p, s, rs, psk, e, re, nx + 1,
                Ss(ck, Hashed(h, <<"ct", m.ct>>), Stepped(c)))
<1> DEFINE mixed == ReadTokens(hs, m)
           in == DecryptAndHash(mixed.ss, m.ct)
<1>1. mixed.ss = Ss(ck, h, c)
  BY DEF Hr
<1>2. in.ss = Ss(ck, Hashed(h, <<"ct", m.ct>>), Stepped(c))
  <2> DEFINE ct == m.ct
             ss == mixed.ss
  <2>1. ss = Ss(ck, h, c)
    BY <1>1
  <2> HIDE DEF ct, mixed, ss
  <2>2. DecryptAndHash(ss, ct).ss = Ss(ck, Hashed(h, <<"ct", ct>>), Stepped(c))
    BY <2>1, Unseals
  <2> QED BY <2>2 DEF ct, ss
<1>4. ReadMessage(hs, m) =
        [ok |-> in.ok, hs |-> [mixed EXCEPT !.ss = in.ss, !.next = @ + 1]]
  BY DEF ReadMessage
<1> HIDE DEF in, mixed
<1>5. ReadMessage(hs, m).hs = [mixed EXCEPT !.ss = in.ss, !.next = @ + 1]
  BY <1>4
<1>6. ReadMessage(hs, m).hs = Hr(p, s, rs, psk, e, re, nx + 1, in.ss)
  <2>1. PICK y : y = ReadMessage(hs, m).hs
    OBVIOUS
  <2>2. y = [mixed EXCEPT !.ss = in.ss, !.next = @ + 1]
    BY <2>1, <1>5, Zenon
  <2>3. mixed = Hr(p, s, rs, psk, e, re, nx, Ss(ck, h, c))
    BY DEF mixed
  <2>4. y = Hr(p, s, rs, psk, e, re, nx + 1, in.ss)
    BY <2>2, <2>3 DEF Hr
  <2> QED BY <2>1, <2>4
<1> QED BY <1>2, <1>6

LEMMA OpensR ==
  ASSUME NEW p, NEW s, NEW rs, NEW psk, NEW e, NEW re, NEW nx, NEW ck,
         NEW h, NEW c, NEW m, NEW hs, HasKey(c),
         ReadTokens(hs, m) = Hr(p, s, rs, psk, e, re, nx, Ss(ck, h, c))
  PROVE  ReadMessage(hs, m).ok => m.ct.k = c.k
<1>1. PICK mixed : mixed = ReadTokens(hs, m)
  OBVIOUS
<1>2. mixed.ss = Ss(ck, h, c)
  BY <1>1 DEF Hr
<1>3. ReadMessage(hs, m).ok = DecryptAndHash(mixed.ss, m.ct).ok
  BY <1>1 DEF ReadMessage
<1>4. DecryptAndHash(mixed.ss, m.ct).ok => m.ct.k = c.k
  <2>1. PICK ct, ss : ct = m.ct /\ ss = mixed.ss
    OBVIOUS
  <2>2. ss = Ss(ck, h, c)
    BY <2>1, <1>2
  <2>3. DecryptAndHash(ss, ct).ok => ct.k = c.k
    BY <2>2, UnsealsOnly
  <2> QED BY <2>1, <2>3
<1> QED BY <1>3, <1>4

LEMMA SealedKey == \A c, h, b : Sealed(c, h, b).k = c.k
BY DEF Sealed

(* The messages of the three patterns, as the initiator and the responder  *)
(* write and read them.                                                    *)

LEMMA HelloOut ==
  ASSUME NEW p, NEW s, NEW rs, NEW psk, NEW e, NEW re, NEW nx, NEW ck, NEW h,
         NEW c, NEW f, NEW hs, hs = Hi(p, s, rs, psk, e, re, nx, Ss(ck, h, c)),
         Tokens(hs) = <<"e", "es">>,
         NEW k1, k1 = Hkdf(ck, Dh(f, rs))
  PROVE  /\ \E g : WriteMessage(hs, f).hs
                = Hi(p, s, rs, psk, f, re, nx + 1,
                   Ss(k1, g, Stepped(KeyOf(k1))))
         /\ WriteMessage(hs, f).msg.e = f
         /\ WriteMessage(hs, f).msg.ct.k = KeyOf(k1).k
<1> DEFINE g == Hashed(h, Pub(f))
<1>1. PICK v1 : v1 = WriteToken(hs, "e", f)
  OBVIOUS
<1>2. v1 = Hi(p, s, rs, psk, f, re, nx, Ss(ck, g, c))
  BY <1>1, WriteEI, MixedHash
<1> HIDE DEF g
<1>3. PICK v2 : v2 = WriteToken(v1, "es", f)
  OBVIOUS
<1>4. v2 = Hi(p, s, rs, psk, f, re, nx, Ss(k1, g, KeyOf(k1)))
  BY <1>3, <1>2, esI, MixedKey
<1>5. WriteTokens(hs, f) = v2
  BY <1>1, <1>3, WriteTwo
<1>6. HasKey(KeyOf(k1))
  BY KeysSeal
<1>7. /\ WriteMessage(hs, f).hs
           = Hi(p, s, rs, psk, f, re, nx + 1,
                Ss(k1, Hashed(g, <<"ct", Sealed(KeyOf(k1), g, Payload)>>),
                   Stepped(KeyOf(k1))))
      /\ WriteMessage(hs, f).msg = [e |-> f, ct |-> Sealed(KeyOf(k1), g, Payload)]
  BY <1>4, <1>5, <1>6, WritesI
<1>8. WriteMessage(hs, f).msg.e = f /\ WriteMessage(hs, f).msg.ct.k = KeyOf(k1).k
  BY <1>7, SealedKey
<1> QED BY <1>7, <1>8

LEMMA HelloOutKK ==
  ASSUME NEW p, NEW s, NEW rs, NEW psk, NEW e, NEW re, NEW nx, NEW ck, NEW h,
         NEW c, NEW f, NEW hs, hs = Hi(p, s, rs, psk, e, re, nx, Ss(ck, h, c)),
         Tokens(hs) = <<"e", "es", "ss">>,
         NEW k1, k1 = Hkdf(ck, Dh(f, rs)),
         NEW k2, k2 = Hkdf(k1, Dh(s, rs))
  PROVE  /\ \E g : WriteMessage(hs, f).hs
                = Hi(p, s, rs, psk, f, re, nx + 1,
                   Ss(k2, g, Stepped(KeyOf(k2))))
         /\ WriteMessage(hs, f).msg.e = f
         /\ WriteMessage(hs, f).msg.ct.k = KeyOf(k2).k
<1> DEFINE g == Hashed(h, Pub(f))
<1>1. PICK v1 : v1 = WriteToken(hs, "e", f)
  OBVIOUS
<1>2. v1 = Hi(p, s, rs, psk, f, re, nx, Ss(ck, g, c))
  BY <1>1, WriteEI, MixedHash
<1> HIDE DEF g
<1>3. PICK v2 : v2 = WriteToken(v1, "es", f)
  OBVIOUS
<1>4. v2 = Hi(p, s, rs, psk, f, re, nx, Ss(k1, g, KeyOf(k1)))
  BY <1>3, <1>2, esI, MixedKey
<1>5. PICK v3 : v3 = WriteToken(v2, "ss", f)
  OBVIOUS
<1>6. v3 = Hi(p, s, rs, psk, f, re, nx, Ss(k2, g, KeyOf(k2)))
  BY <1>5, <1>4, ssI, MixedKey
<1>7. WriteTokens(hs, f) = v3
  BY <1>1, <1>3, <1>5, WriteThree
<1>8. HasKey(KeyOf(k2))
  BY KeysSeal
<1>9. /\ WriteMessage(hs, f).hs
           = Hi(p, s, rs, psk, f, re, nx + 1,
                Ss(k2, Hashed(g, <<"ct", Sealed(KeyOf(k2), g, Payload)>>),
                   Stepped(KeyOf(k2))))
      /\ WriteMessage(hs, f).msg = [e |-> f, ct |-> Sealed(KeyOf(k2), g, Payload)]
  BY <1>6, <1>7, <1>8, WritesI
<1>10. WriteMessage(hs, f).msg.e = f /\ WriteMessage(hs, f).msg.ct.k = KeyOf(k2).k
  BY <1>9, SealedKey
<1> QED BY <1>9, <1>10

LEMMA HelloIn ==
  ASSUME NEW p, NEW s, NEW rs, NEW psk, NEW e, NEW re, NEW nx, NEW ck, NEW h,
         NEW c, NEW m, NEW hs, hs = Hr(p, s, rs, psk, e, re, nx, Ss(ck, h, c)),
         Tokens(hs) = <<"e", "es">>,
         NEW k1, k1 = Hkdf(ck, Dh(s, m.e))
  PROVE  /\ \E g : ReadMessage(hs, m).hs
                = Hr(p, s, rs, psk, e, m.e, nx + 1,
                   Ss(k1, g, Stepped(KeyOf(k1))))
         /\ ReadMessage(hs, m).ok => m.ct.k = KeyOf(k1).k
<1> DEFINE g == Hashed(h, Pub(m.e))
<1>1. PICK v1 : v1 = ReadToken(hs, "e", m)
  OBVIOUS
<1>2. v1 = Hr(p, s, rs, psk, e, m.e, nx, Ss(ck, g, c))
  BY <1>1, ReadER, MixedHash
<1> HIDE DEF g
<1>3. PICK v2 : v2 = ReadToken(v1, "es", m)
  OBVIOUS
<1>4. v2 = Hr(p, s, rs, psk, e, m.e, nx, Ss(k1, g, KeyOf(k1)))
  BY <1>3, <1>2, esR, MixedKey
<1>5. ReadTokens(hs, m) = v2
  BY <1>1, <1>3, ReadTwo
<1>6. HasKey(KeyOf(k1))
  BY KeysSeal
<1>7. ReadMessage(hs, m).hs
        = Hr(p, s, rs, psk, e, m.e, nx + 1,
             Ss(k1, Hashed(g, <<"ct", m.ct>>), Stepped(KeyOf(k1))))
  BY <1>4, <1>5, <1>6, ReadsR
<1>8. ReadMessage(hs, m).ok => m.ct.k = KeyOf(k1).k
  BY <1>4, <1>5, <1>6, OpensR
<1> QED BY <1>7, <1>8

LEMMA HelloInKK ==
  ASSUME NEW p, NEW s, NEW rs, NEW psk, NEW e, NEW re, NEW nx, NEW ck, NEW h,
         NEW c, NEW m, NEW hs, hs = Hr(p, s, rs, psk, e, re, nx, Ss(ck, h, c)),
         Tokens(hs) = <<"e", "es", "ss">>,
         NEW k1, k1 = Hkdf(ck, Dh(s, m.e)),
         NEW k2, k2 = Hkdf(k1, Dh(s, rs))
  PROVE  /\ \E g : ReadMessage(hs, m).hs
                = Hr(p, s, rs, psk, e, m.e, nx + 1,
                   Ss(k2, g, Stepped(KeyOf(k2))))
         /\ ReadMessage(hs, m).ok => m.ct.k = KeyOf(k2).k
<1> DEFINE g == Hashed(h, Pub(m.e))
<1>1. PICK v1 : v1 = ReadToken(hs, "e", m)
  OBVIOUS
<1>2. v1 = Hr(p, s, rs, psk, e, m.e, nx, Ss(ck, g, c))
  BY <1>1, ReadER, MixedHash
<1> HIDE DEF g
<1>3. PICK v2 : v2 = ReadToken(v1, "es", m)
  OBVIOUS
<1>4. v2 = Hr(p, s, rs, psk, e, m.e, nx, Ss(k1, g, KeyOf(k1)))
  BY <1>3, <1>2, esR, MixedKey
<1>5. PICK v3 : v3 = ReadToken(v2, "ss", m)
  OBVIOUS
<1>6. v3 = Hr(p, s, rs, psk, e, m.e, nx, Ss(k2, g, KeyOf(k2)))
  BY <1>5, <1>4, ssR, MixedKey
<1>7. ReadTokens(hs, m) = v3
  BY <1>1, <1>3, <1>5, ReadThree
<1>8. HasKey(KeyOf(k2))
  BY KeysSeal
<1>9. ReadMessage(hs, m).hs
        = Hr(p, s, rs, psk, e, m.e, nx + 1,
             Ss(k2, Hashed(g, <<"ct", m.ct>>), Stepped(KeyOf(k2))))
  BY <1>6, <1>7, <1>8, ReadsR
<1>10. ReadMessage(hs, m).ok => m.ct.k = KeyOf(k2).k
  BY <1>6, <1>7, <1>8, OpensR
<1> QED BY <1>9, <1>10

LEMMA WelcomeOut ==
  ASSUME NEW p, NEW s, NEW rs, NEW psk, NEW e, NEW re, NEW nx, NEW ck, NEW h,
         NEW c, NEW f, NEW hs, hs = Hr(p, s, rs, psk, e, re, nx, Ss(ck, h, c)),
         Tokens(hs) = <<"e", "ee">>,
         NEW k1, k1 = Hkdf(ck, Dh(f, re))
  PROVE  /\ \E g : WriteMessage(hs, f).hs
                = Hr(p, s, rs, psk, f, re, nx + 1,
                   Ss(k1, g, Stepped(KeyOf(k1))))
         /\ WriteMessage(hs, f).msg.e = f
         /\ WriteMessage(hs, f).msg.ct.k = KeyOf(k1).k
<1> DEFINE g == Hashed(h, Pub(f))
<1>1. PICK v1 : v1 = WriteToken(hs, "e", f)
  OBVIOUS
<1>2. v1 = Hr(p, s, rs, psk, f, re, nx, Ss(ck, g, c))
  BY <1>1, WriteER, MixedHash
<1> HIDE DEF g
<1>3. PICK v2 : v2 = WriteToken(v1, "ee", f)
  OBVIOUS
<1>4. v2 = Hr(p, s, rs, psk, f, re, nx, Ss(k1, g, KeyOf(k1)))
  BY <1>3, <1>2, eeR, MixedKey
<1>5. WriteTokens(hs, f) = v2
  BY <1>1, <1>3, WriteTwo
<1>6. HasKey(KeyOf(k1))
  BY KeysSeal
<1>7. /\ WriteMessage(hs, f).hs
           = Hr(p, s, rs, psk, f, re, nx + 1,
                Ss(k1, Hashed(g, <<"ct", Sealed(KeyOf(k1), g, Payload)>>),
                   Stepped(KeyOf(k1))))
      /\ WriteMessage(hs, f).msg = [e |-> f, ct |-> Sealed(KeyOf(k1), g, Payload)]
  BY <1>4, <1>5, <1>6, WritesR
<1>8. WriteMessage(hs, f).msg.e = f /\ WriteMessage(hs, f).msg.ct.k = KeyOf(k1).k
  BY <1>7, SealedKey
<1> QED BY <1>7, <1>8

LEMMA WelcomeOutKK ==
  ASSUME NEW p, NEW s, NEW rs, NEW psk, NEW e, NEW re, NEW nx, NEW ck, NEW h,
         NEW c, NEW f, NEW hs, hs = Hr(p, s, rs, psk, e, re, nx, Ss(ck, h, c)),
         Tokens(hs) = <<"e", "ee", "se">>,
         NEW k1, k1 = Hkdf(ck, Dh(f, re)),
         NEW k2, k2 = Hkdf(k1, Dh(f, rs))
  PROVE  /\ \E g : WriteMessage(hs, f).hs
                = Hr(p, s, rs, psk, f, re, nx + 1,
                   Ss(k2, g, Stepped(KeyOf(k2))))
         /\ WriteMessage(hs, f).msg.e = f
         /\ WriteMessage(hs, f).msg.ct.k = KeyOf(k2).k
<1> DEFINE g == Hashed(h, Pub(f))
<1>1. PICK v1 : v1 = WriteToken(hs, "e", f)
  OBVIOUS
<1>2. v1 = Hr(p, s, rs, psk, f, re, nx, Ss(ck, g, c))
  BY <1>1, WriteER, MixedHash
<1> HIDE DEF g
<1>3. PICK v2 : v2 = WriteToken(v1, "ee", f)
  OBVIOUS
<1>4. v2 = Hr(p, s, rs, psk, f, re, nx, Ss(k1, g, KeyOf(k1)))
  BY <1>3, <1>2, eeR, MixedKey
<1>5. PICK v3 : v3 = WriteToken(v2, "se", f)
  OBVIOUS
<1>6. v3 = Hr(p, s, rs, psk, f, re, nx, Ss(k2, g, KeyOf(k2)))
  BY <1>5, <1>4, seR, MixedKey
<1>7. WriteTokens(hs, f) = v3
  BY <1>1, <1>3, <1>5, WriteThree
<1>8. HasKey(KeyOf(k2))
  BY KeysSeal
<1>9. /\ WriteMessage(hs, f).hs
           = Hr(p, s, rs, psk, f, re, nx + 1,
                Ss(k2, Hashed(g, <<"ct", Sealed(KeyOf(k2), g, Payload)>>),
                   Stepped(KeyOf(k2))))
      /\ WriteMessage(hs, f).msg = [e |-> f, ct |-> Sealed(KeyOf(k2), g, Payload)]
  BY <1>6, <1>7, <1>8, WritesR
<1>10. WriteMessage(hs, f).msg.e = f /\ WriteMessage(hs, f).msg.ct.k = KeyOf(k2).k
  BY <1>9, SealedKey
<1> QED BY <1>9, <1>10

LEMMA WelcomeOutPsk ==
  ASSUME NEW p, NEW s, NEW rs, NEW psk, NEW e, NEW re, NEW nx, NEW ck, NEW h,
         NEW c, NEW f, NEW hs, hs = Hr(p, s, rs, psk, e, re, nx, Ss(ck, h, c)),
         Tokens(hs) = <<"e", "ee", "psk">>,
         NEW k1, k1 = Hkdf(ck, Dh(f, re)),
         NEW k2, k2 = Hkdf(k1, <<"psk", psk>>)
  PROVE  /\ \E g : WriteMessage(hs, f).hs
                = Hr(p, s, rs, None, f, re, nx + 1,
                   Ss(k2, g, Stepped(PskOf(k2))))
         /\ WriteMessage(hs, f).msg.e = f
         /\ WriteMessage(hs, f).msg.ct.k = PskOf(k2).k
<1> DEFINE g == Hashed(h, Pub(f))
<1>1. PICK v1 : v1 = WriteToken(hs, "e", f)
  OBVIOUS
<1>2. v1 = Hr(p, s, rs, psk, f, re, nx, Ss(ck, g, c))
  BY <1>1, WriteER, MixedHash
<1> HIDE DEF g
<1>3. PICK v2 : v2 = WriteToken(v1, "ee", f)
  OBVIOUS
<1>4. v2 = Hr(p, s, rs, psk, f, re, nx, Ss(k1, g, KeyOf(k1)))
  BY <1>3, <1>2, eeR, MixedKey
<1>5. PICK v3 : v3 = WriteToken(v2, "psk", f)
  OBVIOUS
<1>6. v3 = Hr(p, s, rs, None, f, re, nx, Ss(k2, Hashed(g, <<"h", k2>>), PskOf(k2)))
  BY <1>5, <1>4, PskR, MixedPsk
<1>7. WriteTokens(hs, f) = v3
  BY <1>1, <1>3, <1>5, WriteThree
<1>8. HasKey(PskOf(k2))
  BY KeysSeal
<1>9. /\ WriteMessage(hs, f).hs
           = Hr(p, s, rs, None, f, re, nx + 1,
                Ss(k2, Hashed(Hashed(g, <<"h", k2>>), <<"ct", Sealed(PskOf(k2), Hashed(g, <<"h", k2>>), Payload)>>),
                   Stepped(PskOf(k2))))
      /\ WriteMessage(hs, f).msg = [e |-> f, ct |-> Sealed(PskOf(k2), Hashed(g, <<"h", k2>>), Payload)]
  BY <1>6, <1>7, <1>8, WritesR
<1>10. WriteMessage(hs, f).msg.e = f /\ WriteMessage(hs, f).msg.ct.k = PskOf(k2).k
  BY <1>9, SealedKey
<1> QED BY <1>9, <1>10

LEMMA WelcomeIn ==
  ASSUME NEW p, NEW s, NEW rs, NEW psk, NEW e, NEW re, NEW nx, NEW ck, NEW h,
         NEW c, NEW m, NEW hs, hs = Hi(p, s, rs, psk, e, re, nx, Ss(ck, h, c)),
         Tokens(hs) = <<"e", "ee">>,
         NEW k1, k1 = Hkdf(ck, Dh(e, m.e))
  PROVE  /\ \E g : ReadMessage(hs, m).hs
                = Hi(p, s, rs, psk, e, m.e, nx + 1,
                   Ss(k1, g, Stepped(KeyOf(k1))))
         /\ ReadMessage(hs, m).ok => m.ct.k = KeyOf(k1).k
<1> DEFINE g == Hashed(h, Pub(m.e))
<1>1. PICK v1 : v1 = ReadToken(hs, "e", m)
  OBVIOUS
<1>2. v1 = Hi(p, s, rs, psk, e, m.e, nx, Ss(ck, g, c))
  BY <1>1, ReadEI, MixedHash
<1> HIDE DEF g
<1>3. PICK v2 : v2 = ReadToken(v1, "ee", m)
  OBVIOUS
<1>4. v2 = Hi(p, s, rs, psk, e, m.e, nx, Ss(k1, g, KeyOf(k1)))
  BY <1>3, <1>2, eeI, MixedKey
<1>5. ReadTokens(hs, m) = v2
  BY <1>1, <1>3, ReadTwo
<1>6. HasKey(KeyOf(k1))
  BY KeysSeal
<1>7. ReadMessage(hs, m).hs
        = Hi(p, s, rs, psk, e, m.e, nx + 1,
             Ss(k1, Hashed(g, <<"ct", m.ct>>), Stepped(KeyOf(k1))))
  BY <1>4, <1>5, <1>6, ReadsI
<1>8. ReadMessage(hs, m).ok => m.ct.k = KeyOf(k1).k
  BY <1>4, <1>5, <1>6, OpensI
<1> QED BY <1>7, <1>8

LEMMA WelcomeInKK ==
  ASSUME NEW p, NEW s, NEW rs, NEW psk, NEW e, NEW re, NEW nx, NEW ck, NEW h,
         NEW c, NEW m, NEW hs, hs = Hi(p, s, rs, psk, e, re, nx, Ss(ck, h, c)),
         Tokens(hs) = <<"e", "ee", "se">>,
         NEW k1, k1 = Hkdf(ck, Dh(e, m.e)),
         NEW k2, k2 = Hkdf(k1, Dh(s, m.e))
  PROVE  /\ \E g : ReadMessage(hs, m).hs
                = Hi(p, s, rs, psk, e, m.e, nx + 1,
                   Ss(k2, g, Stepped(KeyOf(k2))))
         /\ ReadMessage(hs, m).ok => m.ct.k = KeyOf(k2).k
<1> DEFINE g == Hashed(h, Pub(m.e))
<1>1. PICK v1 : v1 = ReadToken(hs, "e", m)
  OBVIOUS
<1>2. v1 = Hi(p, s, rs, psk, e, m.e, nx, Ss(ck, g, c))
  BY <1>1, ReadEI, MixedHash
<1> HIDE DEF g
<1>3. PICK v2 : v2 = ReadToken(v1, "ee", m)
  OBVIOUS
<1>4. v2 = Hi(p, s, rs, psk, e, m.e, nx, Ss(k1, g, KeyOf(k1)))
  BY <1>3, <1>2, eeI, MixedKey
<1>5. PICK v3 : v3 = ReadToken(v2, "se", m)
  OBVIOUS
<1>6. v3 = Hi(p, s, rs, psk, e, m.e, nx, Ss(k2, g, KeyOf(k2)))
  BY <1>5, <1>4, seI, MixedKey
<1>7. ReadTokens(hs, m) = v3
  BY <1>1, <1>3, <1>5, ReadThree
<1>8. HasKey(KeyOf(k2))
  BY KeysSeal
<1>9. ReadMessage(hs, m).hs
        = Hi(p, s, rs, psk, e, m.e, nx + 1,
             Ss(k2, Hashed(g, <<"ct", m.ct>>), Stepped(KeyOf(k2))))
  BY <1>6, <1>7, <1>8, ReadsI
<1>10. ReadMessage(hs, m).ok => m.ct.k = KeyOf(k2).k
  BY <1>6, <1>7, <1>8, OpensI
<1> QED BY <1>9, <1>10

LEMMA WelcomeInPsk ==
  ASSUME NEW p, NEW s, NEW rs, NEW psk, NEW e, NEW re, NEW nx, NEW ck, NEW h,
         NEW c, NEW m, NEW hs, hs = Hi(p, s, rs, psk, e, re, nx, Ss(ck, h, c)),
         Tokens(hs) = <<"e", "ee", "psk">>,
         NEW k1, k1 = Hkdf(ck, Dh(e, m.e)),
         NEW k2, k2 = Hkdf(k1, <<"psk", psk>>)
  PROVE  /\ \E g : ReadMessage(hs, m).hs
                = Hi(p, s, rs, None, e, m.e, nx + 1,
                   Ss(k2, g, Stepped(PskOf(k2))))
         /\ ReadMessage(hs, m).ok => m.ct.k = PskOf(k2).k
<1> DEFINE g == Hashed(h, Pub(m.e))
<1>1. PICK v1 : v1 = ReadToken(hs, "e", m)
  OBVIOUS
<1>2. v1 = Hi(p, s, rs, psk, e, m.e, nx, Ss(ck, g, c))
  BY <1>1, ReadEI, MixedHash
<1> HIDE DEF g
<1>3. PICK v2 : v2 = ReadToken(v1, "ee", m)
  OBVIOUS
<1>4. v2 = Hi(p, s, rs, psk, e, m.e, nx, Ss(k1, g, KeyOf(k1)))
  BY <1>3, <1>2, eeI, MixedKey
<1>5. PICK v3 : v3 = ReadToken(v2, "psk", m)
  OBVIOUS
<1>6. v3 = Hi(p, s, rs, None, e, m.e, nx, Ss(k2, Hashed(g, <<"h", k2>>), PskOf(k2)))
  BY <1>5, <1>4, PskI, MixedPsk
<1>7. ReadTokens(hs, m) = v3
  BY <1>1, <1>3, <1>5, ReadThree
<1>8. HasKey(PskOf(k2))
  BY KeysSeal
<1>9. ReadMessage(hs, m).hs
        = Hi(p, s, rs, None, e, m.e, nx + 1,
             Ss(k2, Hashed(Hashed(g, <<"h", k2>>), <<"ct", m.ct>>), Stepped(PskOf(k2))))
  BY <1>6, <1>7, <1>8, ReadsI
<1>10. ReadMessage(hs, m).ok => m.ct.k = PskOf(k2).k
  BY <1>6, <1>7, <1>8, OpensI
<1> QED BY <1>9, <1>10

-----------------------------------------------------------------------------
(* A handshake of two ends, message by message: the hello.                 *)

Begun(p, s, rs, psk) == NewHandshake(p, TRUE, s, rs, psk)
Awaited(p, s, rs, psk) == NewHandshake(p, FALSE, s, rs, psk)

LEMMA NewI ==
  ASSUME NEW p, NEW s, NEW rs, NEW psk
  PROVE  \E h : Begun(p, s, rs, psk)
                  = Hi(p, s, rs, psk, None, None, 1,
                       Ss(<<<<"name", p.name>>>>, h, NoCipher))
<1>1. PICK h : h = Begun(p, s, rs, psk).ss.h
  OBVIOUS
<1>2. Begun(p, s, rs, psk).ss
        = Ss(<<<<"name", p.name>>>>, h, NoCipher)
  BY <1>1 DEF Begun, NewHandshake, Start, Ss
<1>3. Begun(p, s, rs, psk)
        = Hi(p, s, rs, psk, None, None, 1, Begun(p, s, rs, psk).ss)
  BY DEF Begun, NewHandshake, Hi
<1> QED BY <1>2, <1>3

LEMMA NewR ==
  ASSUME NEW p, NEW s, NEW rs, NEW psk
  PROVE  \E h : Awaited(p, s, rs, psk)
                  = Hr(p, s, rs, psk, None, None, 1,
                       Ss(<<<<"name", p.name>>>>, h, NoCipher))
<1>1. PICK h : h = Awaited(p, s, rs, psk).ss.h
  OBVIOUS
<1>2. Awaited(p, s, rs, psk).ss
        = Ss(<<<<"name", p.name>>>>, h, NoCipher)
  BY <1>1 DEF Awaited, NewHandshake, Start, Ss
<1>3. Awaited(p, s, rs, psk)
        = Hr(p, s, rs, psk, None, None, 1, Awaited(p, s, rs, psk).ss)
  BY DEF Awaited, NewHandshake, Hr
<1> QED BY <1>2, <1>3

LEMMA KeyOfIs == \A ck : KeyOf(ck).k = <<"k", ck>> /\ PskOf(ck).k = <<"k3", ck>>
BY DEF KeyOf, PskOf, Cipher

LEMMA FirstTokens ==
  /\ NK.messages[1] = <<"e", "es">> /\ NKpsk2.messages[1] = <<"e", "es">>
  /\ KK.messages[1] = <<"e", "es", "ss">>
  /\ NK.name = "NK" /\ NKpsk2.name = "NKpsk2" /\ KK.name = "KK"
BY DEF NK, NKpsk2, KK

LEMMA SecondTokens ==
  /\ NK.messages[2] = <<"e", "ee">> /\ NKpsk2.messages[2] = <<"e", "ee", "psk">>
  /\ KK.messages[2] = <<"e", "ee", "se">>
BY DEF NK, NKpsk2, KK

LEMMA TokensI ==
  ASSUME NEW p, NEW s, NEW rs, NEW psk, NEW e, NEW re, NEW nx, NEW ss
  PROVE  Tokens(Hi(p, s, rs, psk, e, re, nx, ss)) = p.messages[nx]
BY DEF Tokens, Hi

LEMMA TokensR ==
  ASSUME NEW p, NEW s, NEW rs, NEW psk, NEW e, NEW re, NEW nx, NEW ss
  PROVE  Tokens(Hr(p, s, rs, psk, e, re, nx, ss)) = p.messages[nx]
BY DEF Tokens, Hr

(* The two messages as each end has them, for NK and NKpsk2, for KK, and   *)
(* for the page.                                                           *)

LEMMA HelloFrom ==
  ASSUME NEW p \in {NK, NKpsk2}, NEW s, NEW rs, NEW psk, NEW n,
         n = <<"name", p.name>>, NEW k, k = <<n, Dh("eC", rs)>>
  PROVE  LET out == WriteMessage(Begun(p, s, rs, psk), "eC")
         IN /\ \E g, c : out.hs = Hi(p, s, rs, psk, "eC", None, 2, Ss(k, g, c))
            /\ out.msg.e = "eC" /\ out.msg.ct.k = <<"k", k>>
<1>1. PICK h : Begun(p, s, rs, psk)
                 = Hi(p, s, rs, psk, None, None, 1, Ss(<<n>>, h, NoCipher))
  BY NewI
<1>2. PICK hs : hs = Begun(p, s, rs, psk)
  OBVIOUS
<1>3. PICK ck : ck = <<n>>
  OBVIOUS
<1>6. hs = Hi(p, s, rs, psk, None, None, 1, Ss(ck, h, NoCipher))
  BY <1>1, <1>2, <1>3
<1>4. Tokens(hs) = <<"e", "es">>
  BY <1>6, TokensI, FirstTokens
<1>5. k = Hkdf(ck, Dh("eC", rs))
  BY <1>3, Append1 DEF Hkdf
<1>7. /\ \E g : WriteMessage(hs, "eC").hs
                  = Hi(p, s, rs, psk, "eC", None, 1 + 1, Ss(k, g, Stepped(KeyOf(k))))
      /\ WriteMessage(hs, "eC").msg.e = "eC"
      /\ WriteMessage(hs, "eC").msg.ct.k = KeyOf(k).k
  BY <1>4, <1>5, <1>6, HelloOut
<1>8. 1 + 1 = 2
  OBVIOUS
<1> QED BY <1>2, <1>7, <1>8, KeyOfIs

LEMMA HelloFromKK ==
  ASSUME NEW s, NEW rs, NEW psk, NEW n,
         n = <<"name", "KK">>, NEW k, k = <<n, Dh("eC", rs), Dh(s, rs)>>
  PROVE  LET out == WriteMessage(Begun(KK, s, rs, psk), "eC")
         IN /\ \E g, c : out.hs = Hi(KK, s, rs, psk, "eC", None, 2, Ss(k, g, c))
            /\ out.msg.e = "eC" /\ out.msg.ct.k = <<"k", k>>
<1>1. PICK h : Begun(KK, s, rs, psk)
                 = Hi(KK, s, rs, psk, None, None, 1, Ss(<<n>>, h, NoCipher))
  BY NewI, FirstTokens
<1>2. PICK hs : hs = Begun(KK, s, rs, psk)
  OBVIOUS
<1>3. PICK ck : ck = <<n>>
  OBVIOUS
<1>6. hs = Hi(KK, s, rs, psk, None, None, 1, Ss(ck, h, NoCipher))
  BY <1>1, <1>2, <1>3
<1>4. Tokens(hs) = <<"e", "es", "ss">>
  BY <1>6, TokensI, FirstTokens
<1>5. PICK k1 : k1 = <<n, Dh("eC", rs)>>
  OBVIOUS
<1>a. k1 = Hkdf(ck, Dh("eC", rs))
  BY <1>3, <1>5, Append1 DEF Hkdf
<1>b. k = Hkdf(k1, Dh(s, rs))
  BY <1>5, Append2 DEF Hkdf
<1>7. /\ \E g : WriteMessage(hs, "eC").hs
                  = Hi(KK, s, rs, psk, "eC", None, 1 + 1, Ss(k, g, Stepped(KeyOf(k))))
      /\ WriteMessage(hs, "eC").msg.e = "eC"
      /\ WriteMessage(hs, "eC").msg.ct.k = KeyOf(k).k
  BY <1>4, <1>a, <1>b, <1>6, HelloOutKK
<1>8. 1 + 1 = 2
  OBVIOUS
<1> QED BY <1>2, <1>7, <1>8, KeyOfIs

LEMMA HelloTo ==
  ASSUME NEW p \in {NK, NKpsk2}, NEW s, NEW rs, NEW psk, NEW n,
         n = <<"name", p.name>>, NEW m, m.e = "eC", NEW k, k = <<n, Dh(s, "eC")>>
  PROVE  LET in == ReadMessage(Awaited(p, s, rs, psk), m)
         IN /\ \E g, c : in.hs = Hr(p, s, rs, psk, None, "eC", 2, Ss(k, g, c))
            /\ in.ok => m.ct.k = <<"k", k>>
<1>1. PICK h : Awaited(p, s, rs, psk)
                 = Hr(p, s, rs, psk, None, None, 1, Ss(<<n>>, h, NoCipher))
  BY NewR
<1>2. PICK hs : hs = Awaited(p, s, rs, psk)
  OBVIOUS
<1>3. PICK ck : ck = <<n>>
  OBVIOUS
<1>6. hs = Hr(p, s, rs, psk, None, None, 1, Ss(ck, h, NoCipher))
  BY <1>1, <1>2, <1>3
<1>4. Tokens(hs) = <<"e", "es">>
  BY <1>6, TokensR, FirstTokens
<1>5. k = Hkdf(ck, Dh(s, m.e))
  BY <1>3, Append1 DEF Hkdf
<1>7. \E g : ReadMessage(hs, m).hs
                  = Hr(p, s, rs, psk, None, m.e, 1 + 1, Ss(k, g, Stepped(KeyOf(k))))
  BY <1>4, <1>5, <1>6, HelloIn
<1>c. ReadMessage(hs, m).ok => m.ct.k = KeyOf(k).k
  BY <1>4, <1>5, <1>6, HelloIn
<1>8. 1 + 1 = 2
  OBVIOUS
<1>9. \E g : ReadMessage(hs, m).hs
               = Hr(p, s, rs, psk, None, "eC", 2, Ss(k, g, Stepped(KeyOf(k))))
  BY <1>7, <1>8
<1>10. ReadMessage(hs, m).ok => m.ct.k = <<"k", k>>
  BY <1>c, KeyOfIs
<1> QED BY <1>2, <1>9, <1>10

LEMMA HelloToKK ==
  ASSUME NEW s, NEW rs, NEW psk, NEW n, n = <<"name", "KK">>,
         NEW m, m.e = "eC", NEW k, k = <<n, Dh(s, "eC"), Dh(s, rs)>>
  PROVE  LET in == ReadMessage(Awaited(KK, s, rs, psk), m)
         IN /\ \E g, c : in.hs = Hr(KK, s, rs, psk, None, "eC", 2, Ss(k, g, c))
            /\ in.ok => m.ct.k = <<"k", k>>
<1>1. PICK h : Awaited(KK, s, rs, psk)
                 = Hr(KK, s, rs, psk, None, None, 1, Ss(<<n>>, h, NoCipher))
  BY NewR, FirstTokens
<1>2. PICK hs : hs = Awaited(KK, s, rs, psk)
  OBVIOUS
<1>3. PICK ck : ck = <<n>>
  OBVIOUS
<1>6. hs = Hr(KK, s, rs, psk, None, None, 1, Ss(ck, h, NoCipher))
  BY <1>1, <1>2, <1>3
<1>4. Tokens(hs) = <<"e", "es", "ss">>
  BY <1>6, TokensR, FirstTokens
<1>5. PICK k1 : k1 = <<n, Dh(s, "eC")>>
  OBVIOUS
<1>a. k1 = Hkdf(ck, Dh(s, m.e))
  BY <1>3, <1>5, Append1 DEF Hkdf
<1>b. k = Hkdf(k1, Dh(s, rs))
  BY <1>5, Append2 DEF Hkdf
<1>7. \E g : ReadMessage(hs, m).hs
                  = Hr(KK, s, rs, psk, None, m.e, 1 + 1, Ss(k, g, Stepped(KeyOf(k))))
  BY <1>4, <1>a, <1>b, <1>6, HelloInKK
<1>c. ReadMessage(hs, m).ok => m.ct.k = KeyOf(k).k
  BY <1>4, <1>a, <1>b, <1>6, HelloInKK
<1>8. 1 + 1 = 2
  OBVIOUS
<1>9. \E g : ReadMessage(hs, m).hs
               = Hr(KK, s, rs, psk, None, "eC", 2, Ss(k, g, Stepped(KeyOf(k))))
  BY <1>7, <1>8
<1>10. ReadMessage(hs, m).ok => m.ct.k = <<"k", k>>
  BY <1>c, KeyOfIs
<1> QED BY <1>2, <1>9, <1>10

-----------------------------------------------------------------------------
(* The welcome.                                                            *)

Shared(psk) == <<"psk", psk>>

LEMMA WelcomeFrom ==
  ASSUME NEW s, NEW rs, NEW psk, NEW ck, NEW g, NEW c,
         NEW k, k = Hkdf(ck, Dh("eD", "eC")), NEW hs,
         hs = Hr(NK, s, rs, psk, None, "eC", 2, Ss(ck, g, c))
  PROVE  LET out == WriteMessage(hs, "eD")
         IN /\ \E g1, c1 : out.hs = Hr(NK, s, rs, psk, "eD", "eC", 3, Ss(k, g1, c1))
            /\ out.msg.e = "eD" /\ out.msg.ct.k = <<"k", k>>
<1>2. Tokens(hs) = <<"e", "ee">>
  <2>1. Tokens(hs) = NK.messages[2]
    BY TokensR
  <2> QED BY <2>1, SecondTokens
<1>3. k = Hkdf(ck, Dh("eD", "eC"))
  OBVIOUS
<1>6. hs = Hr(NK, s, rs, psk, None, "eC", 2, Ss(ck, g, c))
  OBVIOUS
<1>7. /\ \E g1 : WriteMessage(hs, "eD").hs
                   = Hr(NK, s, rs, psk, "eD", "eC", 2 + 1, Ss(k, g1, Stepped(KeyOf(k))))
      /\ WriteMessage(hs, "eD").msg.e = "eD"
      /\ WriteMessage(hs, "eD").msg.ct.k = KeyOf(k).k
  BY <1>2, <1>3, <1>6, WelcomeOut
<1>8. 2 + 1 = 3
  OBVIOUS
<1> QED BY <1>7, <1>8, KeyOfIs

LEMMA WelcomeFromPsk ==
  ASSUME NEW s, NEW rs, NEW psk, NEW ck, NEW g, NEW c,
         NEW k1, k1 = Hkdf(ck, Dh("eD", "eC")),
         NEW k, k = Hkdf(k1, Shared(psk)), NEW hs,
         hs = Hr(NKpsk2, s, rs, psk, None, "eC", 2, Ss(ck, g, c))
  PROVE  LET out == WriteMessage(hs, "eD")
         IN /\ \E g1, c1 : out.hs = Hr(NKpsk2, s, rs, None, "eD", "eC", 3, Ss(k, g1, c1))
            /\ out.msg.e = "eD" /\ out.msg.ct.k = <<"k3", k>>
<1>2. Tokens(hs) = <<"e", "ee", "psk">>
  <2>1. Tokens(hs) = NKpsk2.messages[2]
    BY TokensR
  <2> QED BY <2>1, SecondTokens
<1>4. k1 = Hkdf(ck, Dh("eD", "eC"))
  OBVIOUS
<1>5. k = Hkdf(k1, <<"psk", psk>>)
  BY DEF Shared
<1>6. hs = Hr(NKpsk2, s, rs, psk, None, "eC", 2, Ss(ck, g, c))
  OBVIOUS
<1>7. /\ \E g1 : WriteMessage(hs, "eD").hs
                   = Hr(NKpsk2, s, rs, None, "eD", "eC", 2 + 1, Ss(k, g1, Stepped(PskOf(k))))
      /\ WriteMessage(hs, "eD").msg.e = "eD"
      /\ WriteMessage(hs, "eD").msg.ct.k = PskOf(k).k
  BY <1>2, <1>4, <1>5, <1>6, WelcomeOutPsk
<1>8. 2 + 1 = 3
  OBVIOUS
<1> QED BY <1>7, <1>8, KeyOfIs

LEMMA WelcomeFromKK ==
  ASSUME NEW s, NEW rs, NEW psk, NEW ck, NEW g, NEW c,
         NEW k1, k1 = Hkdf(ck, Dh("eD", "eC")),
         NEW k, k = Hkdf(k1, Dh("eD", rs)), NEW hs,
         hs = Hr(KK, s, rs, psk, None, "eC", 2, Ss(ck, g, c))
  PROVE  LET out == WriteMessage(hs, "eD")
         IN /\ \E g1, c1 : out.hs = Hr(KK, s, rs, psk, "eD", "eC", 3, Ss(k, g1, c1))
            /\ out.msg.e = "eD" /\ out.msg.ct.k = <<"k", k>>
<1>2. Tokens(hs) = <<"e", "ee", "se">>
  <2>1. Tokens(hs) = KK.messages[2]
    BY TokensR
  <2> QED BY <2>1, SecondTokens
<1>4. k1 = Hkdf(ck, Dh("eD", "eC"))
  OBVIOUS
<1>5. k = Hkdf(k1, Dh("eD", rs))
  OBVIOUS
<1>6. hs = Hr(KK, s, rs, psk, None, "eC", 2, Ss(ck, g, c))
  OBVIOUS
<1>7. /\ \E g1 : WriteMessage(hs, "eD").hs
                   = Hr(KK, s, rs, psk, "eD", "eC", 2 + 1, Ss(k, g1, Stepped(KeyOf(k))))
      /\ WriteMessage(hs, "eD").msg.e = "eD"
      /\ WriteMessage(hs, "eD").msg.ct.k = KeyOf(k).k
  BY <1>2, <1>4, <1>5, <1>6, WelcomeOutKK
<1>8. 2 + 1 = 3
  OBVIOUS
<1> QED BY <1>7, <1>8, KeyOfIs

LEMMA WelcomeTo ==
  ASSUME NEW s, NEW rs, NEW psk, NEW ck, NEW g, NEW c,
         NEW m, m.e = "eD", NEW k, k = Hkdf(ck, Dh("eC", "eD")), NEW hs,
         hs = Hi(NK, s, rs, psk, "eC", None, 2, Ss(ck, g, c))
  PROVE  LET in == ReadMessage(hs, m)
         IN /\ \E g1, c1 : in.hs = Hi(NK, s, rs, psk, "eC", "eD", 3, Ss(k, g1, c1))
            /\ in.ok => m.ct.k = <<"k", k>>
<1>2. Tokens(hs) = <<"e", "ee">>
  <2>1. Tokens(hs) = NK.messages[2]
    BY TokensI
  <2> QED BY <2>1, SecondTokens
<1>3. k = Hkdf(ck, Dh("eC", m.e))
  OBVIOUS
<1>6. hs = Hi(NK, s, rs, psk, "eC", None, 2, Ss(ck, g, c))
  OBVIOUS
<1>7. \E g1 : ReadMessage(hs, m).hs
                = Hi(NK, s, rs, psk, "eC", m.e, 2 + 1, Ss(k, g1, Stepped(KeyOf(k))))
  <2>1. PICK nx, x : nx = 2 /\ x = ReadMessage(hs, m).hs
    OBVIOUS
  <2>2. hs = Hi(NK, s, rs, psk, "eC", None, nx, Ss(ck, g, c))
    BY <1>6, <2>1
  <2>3. \E g1 : x = Hi(NK, s, rs, psk, "eC", m.e, nx + 1, Ss(k, g1, Stepped(KeyOf(k))))
    BY <1>2, <1>3, <2>1, <2>2, WelcomeIn
  <2> QED BY <2>1, <2>3
<1>8. ReadMessage(hs, m).ok => m.ct.k = KeyOf(k).k
  BY <1>2, <1>3, <1>6, WelcomeIn
<1>9. 2 + 1 = 3
  OBVIOUS
<1>10. \E g1 : ReadMessage(hs, m).hs
                 = Hi(NK, s, rs, psk, "eC", "eD", 3, Ss(k, g1, Stepped(KeyOf(k))))
  BY <1>7, <1>9
<1>11. ReadMessage(hs, m).ok => m.ct.k = <<"k", k>>
  BY <1>8, KeyOfIs
<1> QED BY <1>10, <1>11

LEMMA WelcomeToPsk ==
  ASSUME NEW s, NEW rs, NEW psk, NEW ck, NEW g, NEW c,
         NEW m, m.e = "eD", NEW k1, k1 = Hkdf(ck, Dh("eC", "eD")),
         NEW k, k = Hkdf(k1, Shared(psk)), NEW hs,
         hs = Hi(NKpsk2, s, rs, psk, "eC", None, 2, Ss(ck, g, c))
  PROVE  LET in == ReadMessage(hs, m)
         IN /\ \E g1, c1 : in.hs = Hi(NKpsk2, s, rs, None, "eC", "eD", 3, Ss(k, g1, c1))
            /\ in.ok => m.ct.k = <<"k3", k>>
<1>2. Tokens(hs) = <<"e", "ee", "psk">>
  <2>1. Tokens(hs) = NKpsk2.messages[2]
    BY TokensI
  <2> QED BY <2>1, SecondTokens
<1>4. k1 = Hkdf(ck, Dh("eC", m.e))
  OBVIOUS
<1>5. k = Hkdf(k1, <<"psk", psk>>)
  BY DEF Shared
<1>6. hs = Hi(NKpsk2, s, rs, psk, "eC", None, 2, Ss(ck, g, c))
  OBVIOUS
<1>7. \E g1 : ReadMessage(hs, m).hs
                = Hi(NKpsk2, s, rs, None, "eC", m.e, 2 + 1, Ss(k, g1, Stepped(PskOf(k))))
  <2>1. PICK nx, x : nx = 2 /\ x = ReadMessage(hs, m).hs
    OBVIOUS
  <2>2. hs = Hi(NKpsk2, s, rs, psk, "eC", None, nx, Ss(ck, g, c))
    BY <1>6, <2>1
  <2>3. \E g1 : x = Hi(NKpsk2, s, rs, None, "eC", m.e, nx + 1, Ss(k, g1, Stepped(PskOf(k))))
    BY <1>2, <1>4, <1>5, <2>1, <2>2, WelcomeInPsk
  <2> QED BY <2>1, <2>3
<1>8. ReadMessage(hs, m).ok => m.ct.k = PskOf(k).k
  BY <1>2, <1>4, <1>5, <1>6, WelcomeInPsk
<1>9. 2 + 1 = 3
  OBVIOUS
<1>10. \E g1 : ReadMessage(hs, m).hs
                 = Hi(NKpsk2, s, rs, None, "eC", "eD", 3, Ss(k, g1, Stepped(PskOf(k))))
  BY <1>7, <1>9
<1>11. ReadMessage(hs, m).ok => m.ct.k = <<"k3", k>>
  BY <1>8, KeyOfIs
<1> QED BY <1>10, <1>11

LEMMA WelcomeToKK ==
  ASSUME NEW s, NEW rs, NEW psk, NEW ck, NEW g, NEW c,
         NEW m, m.e = "eD", NEW k1, k1 = Hkdf(ck, Dh("eC", "eD")),
         NEW k, k = Hkdf(k1, Dh(s, "eD")), NEW hs,
         hs = Hi(KK, s, rs, psk, "eC", None, 2, Ss(ck, g, c))
  PROVE  LET in == ReadMessage(hs, m)
         IN /\ \E g1, c1 : in.hs = Hi(KK, s, rs, psk, "eC", "eD", 3, Ss(k, g1, c1))
            /\ in.ok => m.ct.k = <<"k", k>>
<1>2. Tokens(hs) = <<"e", "ee", "se">>
  <2>1. Tokens(hs) = KK.messages[2]
    BY TokensI
  <2> QED BY <2>1, SecondTokens
<1>4. k1 = Hkdf(ck, Dh("eC", m.e))
  OBVIOUS
<1>5. k = Hkdf(k1, Dh(s, m.e))
  OBVIOUS
<1>6. hs = Hi(KK, s, rs, psk, "eC", None, 2, Ss(ck, g, c))
  OBVIOUS
<1>7. \E g1 : ReadMessage(hs, m).hs
                = Hi(KK, s, rs, psk, "eC", m.e, 2 + 1, Ss(k, g1, Stepped(KeyOf(k))))
  <2>1. PICK nx, x : nx = 2 /\ x = ReadMessage(hs, m).hs
    OBVIOUS
  <2>2. hs = Hi(KK, s, rs, psk, "eC", None, nx, Ss(ck, g, c))
    BY <1>6, <2>1
  <2>3. \E g1 : x = Hi(KK, s, rs, psk, "eC", m.e, nx + 1, Ss(k, g1, Stepped(KeyOf(k))))
    BY <1>2, <1>4, <1>5, <2>1, <2>2, WelcomeInKK
  <2> QED BY <2>1, <2>3
<1>8. ReadMessage(hs, m).ok => m.ct.k = KeyOf(k).k
  BY <1>2, <1>4, <1>5, <1>6, WelcomeInKK
<1>9. 2 + 1 = 3
  OBVIOUS
<1>10. \E g1 : ReadMessage(hs, m).hs
                 = Hi(KK, s, rs, psk, "eC", "eD", 3, Ss(k, g1, Stepped(KeyOf(k))))
  BY <1>7, <1>9
<1>11. ReadMessage(hs, m).ok => m.ct.k = <<"k", k>>
  BY <1>8, KeyOfIs
<1> QED BY <1>10, <1>11

LEMMA PageGreets ==
  ASSUME NEW rs, NEW n, n = <<"name", "NK">>, NEW k, k = <<n, Dh("eC", rs)>>
  PROVE  LET out == PageHello(rs, "eC")
         IN /\ \E g, c : out.hs = Page(Ss(k, g, c), "eC")
            /\ out.msg.e = "eC" /\ out.msg.ct.k = <<"k", k>>
<1>1. PICK ck, g : /\ ck = <<n>>
                   /\ MixHash(MixHash(Start("NK"), Pub(rs)), Pub("eC"))
                        = Ss(ck, g, NoCipher)
  <2>1. PICK h : Start("NK") = Ss(<<n>>, h, NoCipher)
    BY DEF Start, Ss
  <2> QED BY <2>1, MixedHash
<1>2. k = Hkdf(ck, Dh("eC", rs))
  BY <1>1, Append1 DEF Hkdf
<1>3. PICK ss : /\ ss = MixKey(MixHash(MixHash(Start("NK"), Pub(rs)), Pub("eC")), Dh("eC", rs))
                /\ ss = Ss(k, g, KeyOf(k))
  BY <1>1, <1>2, MixedKey
<1>4. HasKey(KeyOf(k))
  BY KeysSeal
<1>5. /\ EncryptAndHash(ss).ct = Sealed(KeyOf(k), g, Payload)
      /\ \E g1, c1 : EncryptAndHash(ss).ss = Ss(k, g1, c1)
  <2>1. /\ EncryptAndHash(ss).ct = Sealed(KeyOf(k), g, Payload)
        /\ EncryptAndHash(ss).ss
             = Ss(k, Hashed(g, <<"ct", Sealed(KeyOf(k), g, Payload)>>), Stepped(KeyOf(k)))
    BY <1>3, <1>4, Seals
  <2> QED BY <2>1
<1>6. PICK o : o = EncryptAndHash(ss)
  OBVIOUS
<1>7. PageHello(rs, "eC") = [hs |-> Page(o.ss, "eC"), msg |-> [e |-> "eC", ct |-> o.ct]]
  BY <1>3, <1>6 DEF PageHello
<1>8. o.ct.k = <<"k", k>>
  BY <1>5, <1>6, SealedKey, KeyOfIs
<1> QED BY <1>5, <1>6, <1>7, <1>8

LEMMA PageMeets ==
  ASSUME NEW ck, NEW g, NEW c, NEW m, m.e = "eD",
         NEW k, k = Hkdf(ck, Dh("eC", "eD")),
         NEW hs, hs = Page(Ss(ck, g, c), "eC")
  PROVE  LET in == ReadWelcome(hs, m)
         IN /\ \E g1, c1 : in.hs = Page(Ss(k, g1, c1), "eC")
            /\ in.ok => m.ct.k = <<"k", k>>
<1>2. hs.e = "eC" /\ hs.ss = Ss(ck, g, c)
  BY DEF Page
<1>4. PICK g2, ss : /\ ss = MixKey(MixHash(hs.ss, Pub(m.e)), Dh(hs.e, m.e))
                    /\ ss = Ss(k, g2, KeyOf(k))
  BY <1>2, MixedHash, MixedKey
<1>5. HasKey(KeyOf(k))
  BY KeysSeal
<1>6. PICK ct, in : ct = m.ct /\ in = DecryptAndHash(ss, ct)
  OBVIOUS
<1>7. PICK g3, c3 : in.ss = Ss(k, g3, c3)
  <2>1. DecryptAndHash(ss, ct).ss = Ss(k, Hashed(g2, <<"ct", ct>>), Stepped(KeyOf(k)))
    BY <1>4, <1>5, Unseals
  <2> QED BY <2>1, <1>6
<1>8. in.ok => ct.k = KeyOf(k).k
  BY <1>4, <1>5, <1>6, UnsealsOnly
<1>9. ReadWelcome(hs, m) = [ok |-> in.ok, hs |-> [hs EXCEPT !.ss = in.ss]]
  BY <1>4, <1>6 DEF ReadWelcome
<1>10. ReadWelcome(hs, m).hs = Page(Ss(k, g3, c3), "eC")
  BY <1>7, <1>9 DEF Page
<1>11. ReadWelcome(hs, m).ok => m.ct.k = <<"k", k>>
  <2>1. ReadWelcome(hs, m).ok = in.ok
    BY <1>9
  <2> QED BY <2>1, <1>6, <1>8, KeyOfIs
<1> QED BY <1>10, <1>11

-----------------------------------------------------------------------------
(* What the configurations come to.                                        *)

Greeted == IF cfg.kind = "page" THEN PageHello(cfg.pin, "eC")
           ELSE WriteMessage(Initiator, "eC")
Heard == ReadMessage(Responder, Greeted.msg)
Answered == WriteMessage(Heard.hs, "eD")
Understands == IF cfg.kind = "page" THEN ReadWelcome(Greeted.hs, Answered.msg)
               ELSE ReadMessage(Greeted.hs, Answered.msg)
CkD == Answered.hs.ss.ck
CkC == Understands.hs.ss.ck
Willing == Choice \in {"NK", "KK", "NKpsk2"}

LEMMA PatternsDiffer == NK # NKpsk2 /\ KK # NKpsk2
<1>1. NK.name = "NK" /\ KK.name = "KK" /\ NKpsk2.name = "NKpsk2"
  BY FirstTokens
<1> QED BY <1>1

LEMMA KindsAre ==
  ASSUME cfg \in Configs
  PROVE  /\ cfg.kind \in {"connect", "public", "page", "join"}
         /\ cfg.pin \in {"D", "X"}
         /\ cfg.kind # "connect" => cfg.cpsk = None
         /\ cfg.kind \in {"public", "join"} => cfg.dpsk = None
         /\ cfg.kind = "public" => cfg.reg \in {"C", "C'", "none"}
         /\ cfg = [kind |-> cfg.kind, pin |-> cfg.pin, cpsk |-> cfg.cpsk,
                   dpsk |-> cfg.dpsk, reg |-> cfg.reg, token |-> cfg.token]
BY DEF Configs, Config, Pins

LEMMA ChoiceIs ==
  ASSUME cfg \in Configs, Willing
  PROVE  /\ Choice = "KK" => cfg.kind = "public" /\ cfg.reg \in {"C", "C'"}
         /\ Choice = "NKpsk2" => cfg.kind = "connect" /\ cfg.cpsk # None
         /\ Choice = "NK" => /\ cfg.kind \in {"connect", "page", "join"}
                             /\ cfg.cpsk = None /\ cfg.dpsk = None
<1>1. cfg.kind \in {"connect", "public", "page", "join"}
      /\ (cfg.kind # "connect" => cfg.cpsk = None)
      /\ (cfg.kind = "public" => cfg.reg \in {"C", "C'", "none"})
  BY KindsAre
<1>2. CASE cfg.kind = "public"
  <2>1. PatternOf(cfg) # NKpsk2
    BY <1>2, PatternsDiffer DEF PatternOf
  <2>2. Choice = IF cfg.reg = "none" THEN "bad key" ELSE "KK"
    BY <1>2, <2>1 DEF Choice
  <2> QED BY <1>1, <1>2, <2>2 DEF Willing
<1>3. CASE cfg.kind # "public" /\ cfg.kind = "connect" /\ cfg.cpsk # None
  <2>1. PatternOf(cfg) = NKpsk2
    BY <1>3 DEF PatternOf
  <2>2. Choice = IF cfg.dpsk = None THEN "refused" ELSE "NKpsk2"
    BY <1>3, <2>1 DEF Choice
  <2> QED BY <1>1, <1>3, <2>2 DEF Willing
<1>4. CASE cfg.kind # "public" /\ ~(cfg.kind = "connect" /\ cfg.cpsk # None)
  <2>1. PatternOf(cfg) = NK
    BY <1>4 DEF PatternOf
  <2>2. Choice = IF cfg.dpsk # None THEN "refused" ELSE "NK"
    BY <1>4, <2>1, PatternsDiffer DEF Choice
  <2> QED BY <1>1, <1>4, <2>2 DEF Willing
<1> QED BY <1>2, <1>3, <1>4

LEMMA SplitI ==
  ASSUME NEW p, NEW s, NEW rs, NEW psk, NEW e, NEW re, NEW nx, NEW ck, NEW h,
         NEW c, NEW hs, hs = Hi(p, s, rs, psk, e, re, nx, Ss(ck, h, c))
  PROVE  Split(hs) = [send |-> Cipher(<<"k1", ck>>), recv |-> Cipher(<<"k2", ck>>)]
<1>1. hs.initiator /\ hs.ss = Ss(ck, h, c)
  BY DEF Hi
<1>2. SplitKeys(hs.ss) = <<Cipher(<<"k1", ck>>), Cipher(<<"k2", ck>>)>>
  BY <1>1, SsParts DEF SplitKeys
<1> QED BY <1>1, <1>2 DEF Split

LEMMA SplitR ==
  ASSUME NEW p, NEW s, NEW rs, NEW psk, NEW e, NEW re, NEW nx, NEW ck, NEW h,
         NEW c, NEW hs, hs = Hr(p, s, rs, psk, e, re, nx, Ss(ck, h, c))
  PROVE  Split(hs) = [send |-> Cipher(<<"k2", ck>>), recv |-> Cipher(<<"k1", ck>>)]
<1>1. ~hs.initiator /\ hs.ss = Ss(ck, h, c)
  BY DEF Hr
<1>2. SplitKeys(hs.ss) = <<Cipher(<<"k1", ck>>), Cipher(<<"k2", ck>>)>>
  BY <1>1, SsParts DEF SplitKeys
<1> QED BY <1>1, <1>2 DEF Split

LEMMA CkI ==
  ASSUME NEW p, NEW s, NEW rs, NEW psk, NEW e, NEW re, NEW nx, NEW ck, NEW h,
         NEW c, NEW hs, hs = Hi(p, s, rs, psk, e, re, nx, Ss(ck, h, c))
  PROVE  hs.ss.ck = ck
BY SsParts DEF Hi

LEMMA CkR ==
  ASSUME NEW p, NEW s, NEW rs, NEW psk, NEW e, NEW re, NEW nx, NEW ck, NEW h,
         NEW c, NEW hs, hs = Hr(p, s, rs, psk, e, re, nx, Ss(ck, h, c))
  PROVE  hs.ss.ck = ck
BY SsParts DEF Hr

LEMMA SameDh ==
  ASSUME NEW a, NEW b, NEW c, NEW d, Dh(a, b) = Dh(c, d)
  PROVE  /\ a \in {c, d} /\ b \in {c, d} /\ c \in {a, b} /\ d \in {a, b}
<1>1. {a, b} = {c, d}
  BY DEF Dh
<1> QED BY <1>1

(* What a run of the handshake comes to, whatever the pattern.             *)
Sound ==
  /\ Heard.ok => Matched([cfg EXCEPT !.cpsk = IF @ = None THEN None ELSE cfg.dpsk])
  /\ Split(Answered.hs) = [send |-> Cipher(<<"k2", CkD>>), recv |-> Cipher(<<"k1", CkD>>)]
  /\ Understands.ok => CkC = CkD /\ Matched(cfg)
  /\ (IF cfg.kind = "page" THEN PageSplit(Understands.hs) ELSE Split(Understands.hs))
       = [send |-> Cipher(<<"k1", CkC>>), recv |-> Cipher(<<"k2", CkC>>)]

LEMMA PlainSound ==
  ASSUME cfg \in Configs, Choice = "NK", cfg.kind # "page"
  PROVE  Sound
<1>1. /\ cfg.kind \in {"connect", "join"} /\ cfg.pin \in {"D", "X"}
      /\ cfg.cpsk = None /\ cfg.dpsk = None
  BY ChoiceIs, KindsAre DEF Willing
<1>2. PatternOf(cfg) = NK
  BY <1>1 DEF PatternOf
<1>3. Greeted = WriteMessage(Begun(NK, None, cfg.pin, None), "eC")
  BY <1>1, <1>2 DEF Greeted, Initiator, Begun
<1>4. Responder = Awaited(NK, "D", None, None)
  BY DEF Responder, Awaited
<1> DEFINE n == <<"name", "NK">>
           c1 == <<n, Dh("eC", cfg.pin)>>
           d1 == <<n, Dh("D", "eC")>>
           c2 == <<n, Dh("eC", cfg.pin), Dh("eC", "eD")>>
           d2 == <<n, Dh("D", "eC"), Dh("eD", "eC")>>
<1>5. PICK g1, h1 : /\ Greeted.hs = Hi(NK, None, cfg.pin, None, "eC", None, 2, Ss(c1, g1, h1))
                    /\ Greeted.msg.e = "eC" /\ Greeted.msg.ct.k = <<"k", c1>>
  BY <1>3, HelloFrom, FirstTokens
<1>6. PICK g2, h2 : /\ Heard.hs = Hr(NK, "D", None, None, None, "eC", 2, Ss(d1, g2, h2))
                    /\ Heard.ok => Greeted.msg.ct.k = <<"k", d1>>
  BY <1>4, <1>5, HelloTo, FirstTokens DEF Heard
<1>7. PICK g3, h3 : /\ Answered.hs = Hr(NK, "D", None, None, "eD", "eC", 3, Ss(d2, g3, h3))
                    /\ Answered.msg.e = "eD" /\ Answered.msg.ct.k = <<"k", d2>>
  <2>1. PICK hs : hs = Heard.hs
    OBVIOUS
  <2>2. hs = Hr(NK, "D", None, None, None, "eC", 2, Ss(d1, g2, h2))
    BY <1>6, <2>1
  <2>3. d2 = Hkdf(d1, Dh("eD", "eC"))
    BY Append2 DEF Hkdf
  <2> HIDE DEF d2, d1, n
  <2>4. /\ \E g3, h3 : WriteMessage(hs, "eD").hs
                          = Hr(NK, "D", None, None, "eD", "eC", 3, Ss(d2, g3, h3))
        /\ WriteMessage(hs, "eD").msg.e = "eD"
        /\ WriteMessage(hs, "eD").msg.ct.k = <<"k", d2>>
    BY <2>2, <2>3, WelcomeFrom
  <2> QED BY <2>1, <2>4 DEF Answered
<1>8. PICK g4, h4 : /\ Understands.hs = Hi(NK, None, cfg.pin, None, "eC", "eD", 3, Ss(c2, g4, h4))
                    /\ Understands.ok => Answered.msg.ct.k = <<"k", c2>>
  <2>1. PICK hs, m : hs = Greeted.hs /\ m = Answered.msg
    OBVIOUS
  <2>2. hs = Hi(NK, None, cfg.pin, None, "eC", None, 2, Ss(c1, g1, h1))
    BY <1>5, <2>1
  <2>3. c2 = Hkdf(c1, Dh("eC", "eD"))
    BY Append2 DEF Hkdf
  <2> HIDE DEF c2, c1, n
  <2>4. PICK x : x = ReadMessage(hs, m).hs
    OBVIOUS
  <2>7. \E g4, h4 : x = Hi(NK, None, cfg.pin, None, "eC", "eD", 3, Ss(c2, g4, h4))
    BY <1>7, <2>1, <2>2, <2>3, <2>4, WelcomeTo
  <2>5. ReadMessage(hs, m).ok => m.ct.k = <<"k", c2>>
    BY <1>7, <2>1, <2>2, <2>3, WelcomeTo
  <2>6. Understands = ReadMessage(hs, m)
    BY <2>1 DEF Understands
  <2> QED BY <2>1, <2>4, <2>5, <2>6, <2>7
<1>9. CkD = d2 /\ CkC = c2
  BY <1>7, <1>8, CkI, CkR DEF CkC, CkD
<1>10. c1 = d1 => cfg.pin = "D"
  <2> SUFFICES ASSUME c1 = d1 PROVE cfg.pin = "D"
    OBVIOUS
  <2>1. Dh("eC", cfg.pin) = Dh("D", "eC")
    OBVIOUS
  <2> QED BY <2>1, <1>1, SameDh
<1>11. c2 = d2 => cfg.pin = "D"
  <2> SUFFICES ASSUME c2 = d2 PROVE cfg.pin = "D"
    OBVIOUS
  <2>1. Dh("eC", cfg.pin) = Dh("D", "eC")
    OBVIOUS
  <2> QED BY <2>1, <1>1, SameDh
<1>12. Heard.ok => cfg.pin = "D"
  BY <1>5, <1>6, <1>10
<1>13. Understands.ok => CkC = CkD /\ cfg.pin = "D"
  BY <1>7, <1>8, <1>9, <1>11
<1> HIDE DEF n, c1, c2, d1, d2
<1>14. Split(Answered.hs) = [send |-> Cipher(<<"k2", CkD>>), recv |-> Cipher(<<"k1", CkD>>)]
  BY <1>7, <1>9, SplitR
<1>15. Split(Understands.hs) = [send |-> Cipher(<<"k1", CkC>>), recv |-> Cipher(<<"k2", CkC>>)]
  BY <1>8, <1>9, SplitI
<1>16. Matched(cfg) <=> cfg.pin = "D"
  BY <1>1 DEF Matched
<1>17. cfg.pin = "D" => Matched([cfg EXCEPT !.cpsk = IF @ = None THEN None ELSE cfg.dpsk])
  BY <1>1, KindsAre DEF Matched
<1> QED BY <1>12, <1>13, <1>14, <1>15, <1>16, <1>17 DEF Sound

-----------------------------------------------------------------------------
(* Both ends' keys agree.                                                  *)

LEMMA PageSound ==
  ASSUME cfg \in Configs, Choice = "NK", cfg.kind = "page"
  PROVE  Sound
<1>1. /\ cfg.kind = "page" /\ cfg.pin \in {"D", "X"}
      /\ cfg.cpsk = None /\ cfg.dpsk = None
  BY ChoiceIs, KindsAre DEF Willing
<1>3. Greeted = PageHello(cfg.pin, "eC")
  BY <1>1 DEF Greeted
<1>4. Responder = Awaited(NK, "D", None, None)
  BY DEF Responder, Awaited
<1> DEFINE n == <<"name", "NK">>
           c1 == <<n, Dh("eC", cfg.pin)>>
           d1 == <<n, Dh("D", "eC")>>
           c2 == <<n, Dh("eC", cfg.pin), Dh("eC", "eD")>>
           d2 == <<n, Dh("D", "eC"), Dh("eD", "eC")>>
<1>5. PICK g1, h1 : /\ Greeted.hs = Page(Ss(c1, g1, h1), "eC")
                    /\ Greeted.msg.e = "eC" /\ Greeted.msg.ct.k = <<"k", c1>>
  BY <1>3, PageGreets
<1>6. PICK g2, h2 : /\ Heard.hs = Hr(NK, "D", None, None, None, "eC", 2, Ss(d1, g2, h2))
                    /\ Heard.ok => Greeted.msg.ct.k = <<"k", d1>>
  BY <1>4, <1>5, HelloTo, FirstTokens DEF Heard
<1>7. PICK g3, h3 : /\ Answered.hs = Hr(NK, "D", None, None, "eD", "eC", 3, Ss(d2, g3, h3))
                    /\ Answered.msg.e = "eD" /\ Answered.msg.ct.k = <<"k", d2>>
  <2>1. PICK hs : hs = Heard.hs
    OBVIOUS
  <2>2. hs = Hr(NK, "D", None, None, None, "eC", 2, Ss(d1, g2, h2))
    BY <1>6, <2>1
  <2>3. d2 = Hkdf(d1, Dh("eD", "eC"))
    BY Append2 DEF Hkdf
  <2> HIDE DEF d2, d1, n
  <2>4. /\ \E g3, h3 : WriteMessage(hs, "eD").hs
                          = Hr(NK, "D", None, None, "eD", "eC", 3, Ss(d2, g3, h3))
        /\ WriteMessage(hs, "eD").msg.e = "eD"
        /\ WriteMessage(hs, "eD").msg.ct.k = <<"k", d2>>
    BY <2>2, <2>3, WelcomeFrom
  <2> QED BY <2>1, <2>4 DEF Answered
<1>8. PICK g4, h4 : /\ Understands.hs = Page(Ss(c2, g4, h4), "eC")
                    /\ Understands.ok => Answered.msg.ct.k = <<"k", c2>>
  <2>1. PICK hs, m : hs = Greeted.hs /\ m = Answered.msg
    OBVIOUS
  <2>2. hs = Page(Ss(c1, g1, h1), "eC")
    BY <1>5, <2>1
  <2>3. c2 = Hkdf(c1, Dh("eC", "eD"))
    BY Append2 DEF Hkdf
  <2> HIDE DEF c2, c1, n
  <2>4. PICK x : x = ReadWelcome(hs, m).hs
    OBVIOUS
  <2>7. \E g4, h4 : x = Page(Ss(c2, g4, h4), "eC")
    BY <1>7, <2>1, <2>2, <2>3, <2>4, PageMeets
  <2>5. ReadWelcome(hs, m).ok => m.ct.k = <<"k", c2>>
    BY <1>7, <2>1, <2>2, <2>3, PageMeets
  <2>6. Understands = ReadWelcome(hs, m)
    BY <1>1, <2>1 DEF Understands
  <2> QED BY <2>1, <2>4, <2>5, <2>6, <2>7
<1>9. CkD = d2 /\ CkC = c2
  <2>1. CkD = d2
    BY <1>7, CkR DEF CkD
  <2>2. CkC = c2
    BY <1>8, SsParts DEF CkC, Page
  <2> QED BY <2>1, <2>2
<1>10. c1 = d1 => cfg.pin = "D"
  <2> SUFFICES ASSUME c1 = d1 PROVE cfg.pin = "D"
    OBVIOUS
  <2>1. Dh("eC", cfg.pin) = Dh("D", "eC")
    OBVIOUS
  <2> QED BY <2>1, <1>1, SameDh
<1>11. c2 = d2 => cfg.pin = "D"
  <2> SUFFICES ASSUME c2 = d2 PROVE cfg.pin = "D"
    OBVIOUS
  <2>1. Dh("eC", cfg.pin) = Dh("D", "eC")
    OBVIOUS
  <2> QED BY <2>1, <1>1, SameDh
<1>12. Heard.ok => cfg.pin = "D"
  BY <1>5, <1>6, <1>10
<1>13. Understands.ok => CkC = CkD /\ cfg.pin = "D"
  BY <1>7, <1>8, <1>9, <1>11
<1> HIDE DEF n, c1, c2, d1, d2
<1>14. Split(Answered.hs) = [send |-> Cipher(<<"k2", CkD>>), recv |-> Cipher(<<"k1", CkD>>)]
  BY <1>7, <1>9, SplitR
<1>15. PageSplit(Understands.hs) = [send |-> Cipher(<<"k1", CkC>>), recv |-> Cipher(<<"k2", CkC>>)]
  BY <1>8, <1>9, SsParts DEF PageSplit, Page, SplitKeys
<1>16. Matched(cfg) <=> cfg.pin = "D"
  BY <1>1 DEF Matched
<1>17. cfg.pin = "D" => Matched([cfg EXCEPT !.cpsk = IF @ = None THEN None ELSE cfg.dpsk])
  BY <1>1, KindsAre DEF Matched
<1> QED BY <1>1, <1>12, <1>13, <1>14, <1>15, <1>16, <1>17 DEF Sound
LEMMA PskSound ==
  ASSUME cfg \in Configs, Choice = "NKpsk2"
  PROVE  Sound
<1>1. /\ cfg.kind = "connect" /\ cfg.pin \in {"D", "X"}
      /\ cfg.cpsk # None
  BY ChoiceIs, KindsAre DEF Willing
<1>2. PatternOf(cfg) = NKpsk2
  BY <1>1 DEF PatternOf
<1>3. Greeted = WriteMessage(Begun(NKpsk2, None, cfg.pin, cfg.cpsk), "eC")
  BY <1>1, <1>2 DEF Greeted, Initiator, Begun
<1>4. Responder = Awaited(NKpsk2, "D", None, cfg.dpsk)
  BY DEF Responder, Awaited
<1> DEFINE n == <<"name", "NKpsk2">>
           c1 == <<n, Dh("eC", cfg.pin)>>
           ck == <<n, Dh("eC", cfg.pin), Dh("eC", "eD")>>
           dk == <<n, Dh("D", "eC"), Dh("eD", "eC")>>
           d1 == <<n, Dh("D", "eC")>>
           c2 == <<n, Dh("eC", cfg.pin), Dh("eC", "eD"), <<"psk", cfg.cpsk>>>>
           d2 == <<n, Dh("D", "eC"), Dh("eD", "eC"), <<"psk", cfg.dpsk>>>>
<1>5. PICK g1, h1 : /\ Greeted.hs = Hi(NKpsk2, None, cfg.pin, cfg.cpsk, "eC", None, 2, Ss(c1, g1, h1))
                    /\ Greeted.msg.e = "eC" /\ Greeted.msg.ct.k = <<"k", c1>>
  BY <1>3, HelloFrom, FirstTokens
<1>6. PICK g2, h2 : /\ Heard.hs = Hr(NKpsk2, "D", None, cfg.dpsk, None, "eC", 2, Ss(d1, g2, h2))
                    /\ Heard.ok => Greeted.msg.ct.k = <<"k", d1>>
  BY <1>4, <1>5, HelloTo, FirstTokens DEF Heard
<1>7. PICK g3, h3 : /\ Answered.hs = Hr(NKpsk2, "D", None, None, "eD", "eC", 3, Ss(d2, g3, h3))
                    /\ Answered.msg.e = "eD" /\ Answered.msg.ct.k = <<"k3", d2>>
  <2>1. PICK hs : hs = Heard.hs
    OBVIOUS
  <2>2. hs = Hr(NKpsk2, "D", None, cfg.dpsk, None, "eC", 2, Ss(d1, g2, h2))
    BY <1>6, <2>1
  <2>3. dk = Hkdf(d1, Dh("eD", "eC"))
    BY Append2 DEF Hkdf
  <2>5. d2 = Hkdf(dk, Shared(cfg.dpsk))
    BY Append3 DEF Hkdf, Shared
  <2> HIDE DEF d2, dk, d1, n
  <2>4. /\ \E g3, h3 : WriteMessage(hs, "eD").hs
                          = Hr(NKpsk2, "D", None, None, "eD", "eC", 3, Ss(d2, g3, h3))
        /\ WriteMessage(hs, "eD").msg.e = "eD"
        /\ WriteMessage(hs, "eD").msg.ct.k = <<"k3", d2>>
    BY <2>2, <2>3, <2>5, WelcomeFromPsk
  <2> QED BY <2>1, <2>4 DEF Answered
<1>8. PICK g4, h4 : /\ Understands.hs = Hi(NKpsk2, None, cfg.pin, None, "eC", "eD", 3, Ss(c2, g4, h4))
                    /\ Understands.ok => Answered.msg.ct.k = <<"k3", c2>>
  <2>1. PICK hs, m : hs = Greeted.hs /\ m = Answered.msg
    OBVIOUS
  <2>2. hs = Hi(NKpsk2, None, cfg.pin, cfg.cpsk, "eC", None, 2, Ss(c1, g1, h1))
    BY <1>5, <2>1
  <2>3. ck = Hkdf(c1, Dh("eC", "eD"))
    BY Append2 DEF Hkdf
  <2>8. c2 = Hkdf(ck, Shared(cfg.cpsk))
    BY Append3 DEF Hkdf, Shared
  <2> HIDE DEF c2, ck, c1, n
  <2>4. PICK x : x = ReadMessage(hs, m).hs
    OBVIOUS
  <2>7. \E g4, h4 : x = Hi(NKpsk2, None, cfg.pin, None, "eC", "eD", 3, Ss(c2, g4, h4))
    BY <1>7, <2>1, <2>2, <2>3, <2>4, <2>8, WelcomeToPsk
  <2>5. ReadMessage(hs, m).ok => m.ct.k = <<"k3", c2>>
    BY <1>7, <2>1, <2>2, <2>3, <2>8, WelcomeToPsk
  <2>6. Understands = ReadMessage(hs, m)
    BY <1>1, <2>1 DEF Understands
  <2> QED BY <2>1, <2>4, <2>5, <2>6, <2>7
<1>9. CkD = d2 /\ CkC = c2
  BY <1>7, <1>8, CkI, CkR DEF CkC, CkD
<1>10. c1 = d1 => cfg.pin = "D"
  <2> SUFFICES ASSUME c1 = d1 PROVE cfg.pin = "D"
    OBVIOUS
  <2>1. Dh("eC", cfg.pin) = Dh("D", "eC")
    OBVIOUS
  <2> QED BY <2>1, <1>1, SameDh
<1>11. c2 = d2 => cfg.pin = "D" /\ cfg.cpsk = cfg.dpsk
  <2> SUFFICES ASSUME c2 = d2 PROVE cfg.pin = "D" /\ cfg.cpsk = cfg.dpsk
    OBVIOUS
  <2>2. <<"psk", cfg.cpsk>> = <<"psk", cfg.dpsk>>
    OBVIOUS
  <2>3. cfg.cpsk = cfg.dpsk
    BY <2>2
  <2>1. Dh("eC", cfg.pin) = Dh("D", "eC")
    OBVIOUS
  <2> QED BY <2>1, <2>3, <1>1, SameDh
<1>12. Heard.ok => cfg.pin = "D"
  BY <1>5, <1>6, <1>10
<1>13. Understands.ok => CkC = CkD /\ cfg.pin = "D" /\ cfg.cpsk = cfg.dpsk
  BY <1>7, <1>8, <1>9, <1>11
<1> HIDE DEF n, ck, dk, c1, c2, d1, d2
<1>14. Split(Answered.hs) = [send |-> Cipher(<<"k2", CkD>>), recv |-> Cipher(<<"k1", CkD>>)]
  BY <1>7, <1>9, SplitR
<1>15. Split(Understands.hs) = [send |-> Cipher(<<"k1", CkC>>), recv |-> Cipher(<<"k2", CkC>>)]
  BY <1>8, <1>9, SplitI
<1>16. Matched(cfg) <=> cfg.pin = "D" /\ cfg.cpsk = cfg.dpsk
  BY <1>1 DEF Matched
<1>17. cfg.pin = "D" => Matched([cfg EXCEPT !.cpsk = IF @ = None THEN None ELSE cfg.dpsk])
  BY <1>1, KindsAre DEF Matched
<1> QED BY <1>1, <1>12, <1>13, <1>14, <1>15, <1>16, <1>17 DEF Sound
LEMMA KKSound ==
  ASSUME cfg \in Configs, Choice = "KK"
  PROVE  Sound
<1>1. /\ cfg.kind = "public" /\ cfg.reg \in {"C", "C'"} /\ cfg.pin \in {"D", "X"}
      /\ cfg.cpsk = None /\ cfg.dpsk = None
  BY ChoiceIs, KindsAre DEF Willing
<1>2. PatternOf(cfg) = KK
  BY <1>1 DEF PatternOf
<1>3. Greeted = WriteMessage(Begun(KK, "C", cfg.pin, None), "eC")
  BY <1>1, <1>2 DEF Greeted, Initiator, Begun
<1>4. Responder = Awaited(KK, "D", cfg.reg, None)
  BY DEF Responder, Awaited
<1> DEFINE n == <<"name", "KK">>
           c1 == <<n, Dh("eC", cfg.pin), Dh("C", cfg.pin)>>
           d1 == <<n, Dh("D", "eC"), Dh("D", cfg.reg)>>
           c2 == <<n, Dh("eC", cfg.pin), Dh("C", cfg.pin), Dh("eC", "eD"), Dh("C", "eD")>>
           ck == <<n, Dh("eC", cfg.pin), Dh("C", cfg.pin), Dh("eC", "eD")>>
           dk == <<n, Dh("D", "eC"), Dh("D", cfg.reg), Dh("eD", "eC")>>
           d2 == <<n, Dh("D", "eC"), Dh("D", cfg.reg), Dh("eD", "eC"), Dh("eD", cfg.reg)>>
<1>5. PICK g1, h1 : /\ Greeted.hs = Hi(KK, "C", cfg.pin, None, "eC", None, 2, Ss(c1, g1, h1))
                    /\ Greeted.msg.e = "eC" /\ Greeted.msg.ct.k = <<"k", c1>>
  BY <1>3, HelloFromKK
<1>6. PICK g2, h2 : /\ Heard.hs = Hr(KK, "D", cfg.reg, None, None, "eC", 2, Ss(d1, g2, h2))
                    /\ Heard.ok => Greeted.msg.ct.k = <<"k", d1>>
  BY <1>4, <1>5, HelloToKK DEF Heard
<1>7. PICK g3, h3 : /\ Answered.hs = Hr(KK, "D", cfg.reg, None, "eD", "eC", 3, Ss(d2, g3, h3))
                    /\ Answered.msg.e = "eD" /\ Answered.msg.ct.k = <<"k", d2>>
  <2>1. PICK hs : hs = Heard.hs
    OBVIOUS
  <2>2. hs = Hr(KK, "D", cfg.reg, None, None, "eC", 2, Ss(d1, g2, h2))
    BY <1>6, <2>1
  <2>3. dk = Hkdf(d1, Dh("eD", "eC"))
    BY Append3 DEF Hkdf
  <2>5. d2 = Hkdf(dk, Dh("eD", cfg.reg))
    BY Append4 DEF Hkdf
  <2> HIDE DEF d2, dk, d1, n
  <2>4. /\ \E g3, h3 : WriteMessage(hs, "eD").hs
                          = Hr(KK, "D", cfg.reg, None, "eD", "eC", 3, Ss(d2, g3, h3))
        /\ WriteMessage(hs, "eD").msg.e = "eD"
        /\ WriteMessage(hs, "eD").msg.ct.k = <<"k", d2>>
    BY <2>2, <2>3, <2>5, WelcomeFromKK
  <2> QED BY <2>1, <2>4 DEF Answered
<1>8. PICK g4, h4 : /\ Understands.hs = Hi(KK, "C", cfg.pin, None, "eC", "eD", 3, Ss(c2, g4, h4))
                    /\ Understands.ok => Answered.msg.ct.k = <<"k", c2>>
  <2>1. PICK hs, m : hs = Greeted.hs /\ m = Answered.msg
    OBVIOUS
  <2>2. hs = Hi(KK, "C", cfg.pin, None, "eC", None, 2, Ss(c1, g1, h1))
    BY <1>5, <2>1
  <2>3. ck = Hkdf(c1, Dh("eC", "eD"))
    BY Append3 DEF Hkdf
  <2>8. c2 = Hkdf(ck, Dh("C", "eD"))
    BY Append4 DEF Hkdf
  <2> HIDE DEF c2, ck, c1, n
  <2>4. PICK x : x = ReadMessage(hs, m).hs
    OBVIOUS
  <2>7. \E g4, h4 : x = Hi(KK, "C", cfg.pin, None, "eC", "eD", 3, Ss(c2, g4, h4))
    BY <1>7, <2>1, <2>2, <2>3, <2>4, <2>8, WelcomeToKK
  <2>5. ReadMessage(hs, m).ok => m.ct.k = <<"k", c2>>
    BY <1>7, <2>1, <2>2, <2>3, <2>8, WelcomeToKK
  <2>6. Understands = ReadMessage(hs, m)
    BY <1>1, <2>1 DEF Understands
  <2> QED BY <2>1, <2>4, <2>5, <2>6, <2>7
<1>9. CkD = d2 /\ CkC = c2
  BY <1>7, <1>8, CkI, CkR DEF CkC, CkD
<1>10. Dh("eC", cfg.pin) = Dh("D", "eC") => cfg.pin = "D"
  BY <1>1, SameDh
<1>a. Dh("C", "D") = Dh("D", cfg.reg) => cfg.reg = "C"
  BY <1>1, SameDh
<1>11. c1 = d1 \/ c2 = d2 => cfg.pin = "D" /\ cfg.reg = "C"
  <2>1. c1 = d1 \/ c2 = d2 => /\ Dh("eC", cfg.pin) = Dh("D", "eC")
                             /\ Dh("C", cfg.pin) = Dh("D", cfg.reg)
    OBVIOUS
  <2> QED BY <2>1, <1>10, <1>a
<1>12. Heard.ok => cfg.pin = "D" /\ cfg.reg = "C"
  <2>1. Heard.ok => c1 = d1
    BY <1>5, <1>6
  <2> QED BY <2>1, <1>11
<1>13. Understands.ok => CkC = CkD /\ cfg.pin = "D" /\ cfg.reg = "C"
  <2>1. Understands.ok => c2 = d2
    BY <1>7, <1>8
  <2> QED BY <2>1, <1>9, <1>11
<1> HIDE DEF n, ck, dk, c1, c2, d1, d2
<1>14. Split(Answered.hs) = [send |-> Cipher(<<"k2", CkD>>), recv |-> Cipher(<<"k1", CkD>>)]
  BY <1>7, <1>9, SplitR
<1>15. Split(Understands.hs) = [send |-> Cipher(<<"k1", CkC>>), recv |-> Cipher(<<"k2", CkC>>)]
  BY <1>8, <1>9, SplitI
<1>16. Matched(cfg) <=> cfg.pin = "D" /\ cfg.reg = "C"
  BY <1>1 DEF Matched
<1>17. cfg.pin = "D" /\ cfg.reg = "C" => Matched([cfg EXCEPT !.cpsk = IF @ = None THEN None ELSE cfg.dpsk])
  BY <1>1, KindsAre DEF Matched
<1> QED BY <1>1, <1>12, <1>13, <1>14, <1>15, <1>16, <1>17 DEF Sound
LEMMA RunIsSound == cfg \in Configs /\ Willing => Sound
BY PlainSound, PageSound, PskSound, KKSound DEF Willing

-----------------------------------------------------------------------------
(* Queues.                                                                 *)

(* Queues, of messages whatever they carry.                                *)
Queue(q) == \E S : q \in Seq(S)

LEMMA QueueIs == \A q : Queue(q) => Len(q) \in Nat /\ DOMAIN q = 1..Len(q)
BY DEF Queue

LEMMA EmptyQueue == Queue(<<>>) /\ Len(<<>>) = 0
<1>1. <<>> \in Seq({}) /\ Len(<<>>) = 0
  OBVIOUS
<1> QED BY <1>1 DEF Queue

LEMMA NoneLeft == \A q : Queue(q) => (q = <<>> <=> Len(q) = 0)
BY DEF Queue

LEMMA OneQueue == \A m : Queue(<<m>>) /\ Len(<<m>>) = 1 /\ <<m>>[1] = m
<1> TAKE m
<1>1. <<m>> \in Seq({m}) /\ Len(<<m>>) = 1 /\ <<m>>[1] = m
  OBVIOUS
<1> QED BY <1>1 DEF Queue

LEMMA QueueAppend ==
  ASSUME NEW q, Queue(q), NEW m
  PROVE  /\ Queue(Append(q, m)) /\ Len(Append(q, m)) = Len(q) + 1
         /\ \A i \in 1..Len(q) : Append(q, m)[i] = q[i]
         /\ Append(q, m)[Len(q) + 1] = m
<1>1. PICK S : q \in Seq(S)
  BY DEF Queue
<1>2. q \in Seq(S \cup {m})
  BY <1>1
<1>3. Append(q, m) \in Seq(S \cup {m})
  BY <1>2
<1> QED BY <1>2, <1>3 DEF Queue

LEMMA QueueTail ==
  ASSUME NEW q, Queue(q), q # <<>>
  PROVE  /\ Queue(Tail(q)) /\ Len(q) \in Nat \ {0} /\ Len(Tail(q)) = Len(q) - 1
         /\ \A i \in 1..(Len(q) - 1) : Tail(q)[i] = q[i + 1]
         /\ Head(q) = q[1]
<1>1. PICK S : q \in Seq(S)
  BY DEF Queue
<1>2. Tail(q) \in Seq(S)
  BY <1>1
<1> QED BY <1>1, <1>2 DEF Queue

LEMMA QueueCat ==
  ASSUME NEW q, Queue(q), NEW r, Queue(r)
  PROVE  /\ Queue(q \o r) /\ Len(q \o r) = Len(q) + Len(r)
         /\ \A i \in 1..Len(q) : (q \o r)[i] = q[i]
         /\ \A i \in (Len(q) + 1)..(Len(q) + Len(r)) : (q \o r)[i] = r[i - Len(q)]
<1>1. PICK S, T : q \in Seq(S) /\ r \in Seq(T)
  BY DEF Queue
<1>2. q \in Seq(S \cup T) /\ r \in Seq(S \cup T)
  BY <1>1
<1>3. q \o r \in Seq(S \cup T)
  BY <1>2
<1> QED BY <1>2, <1>3 DEF Queue

LEMMA SameQueue ==
  ASSUME NEW q, Queue(q), NEW r, Queue(r), Len(q) = Len(r),
         \A i \in 1..Len(q) : q[i] = r[i]
  PROVE  q = r
<1>1. PICK S, T : q \in Seq(S) /\ r \in Seq(T)
  BY DEF Queue
<1>2. q \in Seq(S \cup T) /\ r \in Seq(S \cup T)
  BY <1>1
<1> QED BY <1>2

(* Of two queues in a row.                                                 *)
LEMMA MovesOn ==
  ASSUME NEW q, Queue(q), NEW r, Queue(r), r # <<>>
  PROVE  Append(q, Head(r)) \o Tail(r) = q \o r
<1> DEFINE a == Append(q, Head(r))
           b == Tail(r)
<1>1. /\ Queue(a) /\ Len(a) = Len(q) + 1 /\ \A i \in 1..Len(q) : a[i] = q[i]
      /\ a[Len(q) + 1] = Head(r)
  BY QueueAppend
<1>2. /\ Queue(b) /\ Len(r) \in Nat \ {0} /\ Len(b) = Len(r) - 1 /\ Head(r) = r[1]
      /\ \A i \in 1..(Len(r) - 1) : b[i] = r[i + 1]
  BY QueueTail
<1> HIDE DEF a, b
<1>3. /\ Queue(a \o b) /\ Len(a \o b) = Len(a) + Len(b)
      /\ \A i \in 1..Len(a) : (a \o b)[i] = a[i]
      /\ \A i \in (Len(a) + 1)..(Len(a) + Len(b)) : (a \o b)[i] = b[i - Len(a)]
  BY <1>1, <1>2, QueueCat
<1>4. /\ Queue(q \o r) /\ Len(q \o r) = Len(q) + Len(r)
      /\ \A i \in 1..Len(q) : (q \o r)[i] = q[i]
      /\ \A i \in (Len(q) + 1)..(Len(q) + Len(r)) : (q \o r)[i] = r[i - Len(q)]
  BY QueueCat
<1>5. Len(q) \in Nat
  BY QueueIs
<1>6. Len(a \o b) = Len(q \o r)
  BY <1>1, <1>2, <1>3, <1>4, <1>5
<1>7. ASSUME NEW i \in 1..Len(a \o b) PROVE (a \o b)[i] = (q \o r)[i]
  <2>1. CASE i <= Len(q)
    BY <2>1, <1>1, <1>3, <1>4, <1>5
  <2>2. CASE i = Len(q) + 1
    <3>1. (a \o b)[i] = r[1]
      BY <2>2, <1>1, <1>2, <1>3, <1>5
    <3>2. (q \o r)[i] = r[i - Len(q)] /\ i - Len(q) = 1
      BY <2>2, <1>2, <1>4, <1>5
    <3> QED BY <3>1, <3>2
  <2>3. CASE i > Len(q) + 1
    <3>1. (a \o b)[i] = b[i - Len(a)] /\ i - Len(a) \in 1..(Len(r) - 1)
      BY <2>3, <1>1, <1>2, <1>3, <1>5
    <3>2. b[i - Len(a)] = r[(i - Len(a)) + 1]
      BY <3>1, <1>2
    <3>3. (q \o r)[i] = r[i - Len(q)]
      BY <2>3, <1>1, <1>2, <1>3, <1>4, <1>5
    <3>4. (i - Len(a)) + 1 = i - Len(q)
      BY <1>1, <1>5
    <3> QED BY <3>1, <3>2, <3>3, <3>4
  <2>4. i \in Nat /\ i >= 1
    BY <1>3, <1>1, <1>2, <1>5
  <2> QED BY <2>1, <2>2, <2>3, <2>4, <1>1, <1>2, <1>3, <1>5
<1> QED BY <1>3, <1>4, <1>6, <1>7, SameQueue DEF a, b

LEMMA TailOfCat ==
  ASSUME NEW q, Queue(q), q # <<>>, NEW r, Queue(r)
  PROVE  Tail(q) \o r = Tail(q \o r) /\ q \o r # <<>> /\ Head(q) = (q \o r)[1]
<1> DEFINE a == Tail(q)
           s == q \o r
           b == Tail(s)
<1>1. /\ Queue(a) /\ Len(q) \in Nat \ {0} /\ Len(a) = Len(q) - 1 /\ Head(q) = q[1]
      /\ \A i \in 1..(Len(q) - 1) : a[i] = q[i + 1]
  BY QueueTail
<1>2. /\ Queue(s) /\ Len(s) = Len(q) + Len(r)
      /\ \A i \in 1..Len(q) : s[i] = q[i]
      /\ \A i \in (Len(q) + 1)..(Len(q) + Len(r)) : s[i] = r[i - Len(q)]
  BY QueueCat
<1>3. Len(r) \in Nat
  BY QueueIs
<1>4. s # <<>> /\ Head(q) = s[1]
  <2> HIDE DEF s
  <2> QED BY <1>1, <1>2, <1>3, NoneLeft
<1>5. /\ Queue(b) /\ Len(b) = Len(s) - 1
      /\ \A i \in 1..(Len(s) - 1) : b[i] = s[i + 1]
  <2> HIDE DEF s
  <2> QED BY <1>2, <1>4, QueueTail DEF b
<1> HIDE DEF a, b
<1>6. /\ Queue(a \o r) /\ Len(a \o r) = Len(a) + Len(r)
      /\ \A i \in 1..Len(a) : (a \o r)[i] = a[i]
      /\ \A i \in (Len(a) + 1)..(Len(a) + Len(r)) : (a \o r)[i] = r[i - Len(a)]
  BY <1>1, QueueCat
<1> HIDE DEF s
<1>7. Len(a \o r) = Len(b)
  BY <1>1, <1>2, <1>3, <1>5, <1>6
<1>8. ASSUME NEW i \in 1..Len(a \o r) PROVE (a \o r)[i] = b[i]
  <2>1. b[i] = s[i + 1] /\ i \in Nat
    BY <1>1, <1>2, <1>3, <1>5, <1>6
  <2>2. CASE i <= Len(a)
    <3>1. (a \o r)[i] = q[i + 1]
      BY <2>2, <2>1, <1>1, <1>6
    <3>2. s[i + 1] = q[i + 1]
      BY <2>2, <2>1, <1>1, <1>2
    <3> QED BY <2>1, <3>1, <3>2
  <2>3. CASE i > Len(a)
    <3>1. (a \o r)[i] = r[i - Len(a)]
      BY <2>3, <2>1, <1>1, <1>3, <1>6
    <3>2. s[i + 1] = r[(i + 1) - Len(q)]
      BY <2>3, <2>1, <1>1, <1>2, <1>3, <1>6
    <3>3. (i + 1) - Len(q) = i - Len(a)
      BY <2>1, <1>1
    <3> QED BY <2>1, <3>1, <3>2, <3>3
  <2> QED BY <2>1, <2>2, <2>3, <1>1
<1>9. a \o r = b
  BY <1>5, <1>6, <1>7, <1>8, SameQueue
<1> QED BY <1>4, <1>9 DEF a, b, s

LEMMA AppendToCat ==
  ASSUME NEW q, Queue(q), NEW r, Queue(r), NEW m
  PROVE  q \o Append(r, m) = Append(q \o r, m)
<1> DEFINE a == Append(r, m)
           s == q \o r
           b == Append(s, m)
<1>1. /\ Queue(a) /\ Len(a) = Len(r) + 1 /\ \A i \in 1..Len(r) : a[i] = r[i]
      /\ a[Len(r) + 1] = m
  BY QueueAppend
<1>2. /\ Queue(s) /\ Len(s) = Len(q) + Len(r)
      /\ \A i \in 1..Len(q) : s[i] = q[i]
      /\ \A i \in (Len(q) + 1)..(Len(q) + Len(r)) : s[i] = r[i - Len(q)]
  BY QueueCat
<1>3. /\ Queue(b) /\ Len(b) = Len(s) + 1 /\ \A i \in 1..Len(s) : b[i] = s[i]
      /\ b[Len(s) + 1] = m
  <2> HIDE DEF s
  <2> QED BY <1>2, QueueAppend DEF b
<1> HIDE DEF a, b, s
<1>4. /\ Queue(q \o a) /\ Len(q \o a) = Len(q) + Len(a)
      /\ \A i \in 1..Len(q) : (q \o a)[i] = q[i]
      /\ \A i \in (Len(q) + 1)..(Len(q) + Len(a)) : (q \o a)[i] = a[i - Len(q)]
  BY <1>1, QueueCat
<1>5. Len(q) \in Nat /\ Len(r) \in Nat
  BY QueueIs
<1>6. Len(q \o a) = Len(b)
  BY <1>1, <1>2, <1>3, <1>4, <1>5
<1>7. ASSUME NEW i \in 1..Len(q \o a) PROVE (q \o a)[i] = b[i]
  <2>1. CASE i <= Len(q)
    BY <2>1, <1>1, <1>2, <1>3, <1>4, <1>5
  <2>2. CASE i > Len(q) /\ i <= Len(q) + Len(r)
    <3>1. (q \o a)[i] = a[i - Len(q)] /\ i - Len(q) \in 1..Len(r)
      BY <2>2, <1>1, <1>4, <1>5
    <3>2. b[i] = s[i] /\ s[i] = r[i - Len(q)]
      BY <2>2, <1>2, <1>3, <1>5
    <3> QED BY <3>1, <3>2, <1>1
  <2>3. CASE i = Len(q) + Len(r) + 1
    <3>1. (q \o a)[i] = a[i - Len(q)] /\ i - Len(q) = Len(r) + 1
      BY <2>3, <1>1, <1>4, <1>5
    <3>2. b[i] = m
      BY <2>3, <1>2, <1>3
    <3> QED BY <3>1, <3>2, <1>1
  <2> QED BY <2>1, <2>2, <2>3, <1>1, <1>4, <1>5
<1> QED BY <1>3, <1>4, <1>6, <1>7, SameQueue DEF a, b, s

-----------------------------------------------------------------------------
(* What may be said of a queue.                                            *)

(* What may be said of a queue.                                            *)
Ends(s) == \E k \in 1..Len(s) : s[k].t = "end"
Bare(s) == \A k \in 1..Len(s) : s[k].t # "bin"
Filled(s) == \A k \in 1..Len(s) : s[k].t = "bin"
Calls(s) == Len(s) > 0 /\ s[1].t = "paired"
OnceFirst(s) == \A k \in 1..Len(s) :
  s[k].t = "paired" /\ (\A j \in 1..k : s[j].t # "end") => k = 1
Plain(s) == \A k \in 1..Len(s) : s[k].t \in {"bin", "end"}
Reached(s) == \E i \in 1..Len(s) : Arrives(s, i)

(* Less of it arrives, in the same order.                                  *)
Shrinks(s, r) ==
  \A i \in 1..Len(r) : Arrives(r, i) =>
    i \in 1..Len(s) /\ \A j \in 1..i : r[j] = s[j]

LEMMA Shrunk ==
  ASSUME NEW s, Queue(s), NEW r, Queue(r), Shrinks(s, r),
         NEW i \in 1..Len(r), Arrives(r, i)
  PROVE  i \in 1..Len(s) /\ Arrives(s, i) /\ s[i] = r[i]
         /\ \A j \in 1..i : s[j] = r[j]
<1>1. i \in 1..i /\ i \in Nat
  BY QueueIs
<1> QED BY <1>1 DEF Shrinks, Arrives

LEMMA ShrinksSame == \A s : Queue(s) => Shrinks(s, s)
BY DEF Shrinks

LEMMA EndsAppend ==
  ASSUME NEW q, Queue(q), NEW m
  PROVE  /\ Ends(Append(q, m)) <=> Ends(q) \/ m.t = "end"
         /\ Bare(Append(q, m)) <=> Bare(q) /\ m.t # "bin"
         /\ Filled(Append(q, m)) <=> Filled(q) /\ m.t = "bin"
         /\ Plain(Append(q, m)) <=> Plain(q) /\ m.t \in {"bin", "end"}
<1> DEFINE a == Append(q, m)
<1>1. /\ Len(a) = Len(q) + 1 /\ \A i \in 1..Len(q) : a[i] = q[i]
      /\ a[Len(q) + 1] = m
  BY QueueAppend
<1>2. Len(q) \in Nat
  BY QueueIs
<1> HIDE DEF a
<1>3. 1..Len(a) = 1..Len(q) \cup {Len(q) + 1}
  BY <1>1, <1>2
<1>4. Ends(a) <=> Ends(q) \/ m.t = "end"
  BY <1>1, <1>3 DEF Ends
<1>5. Bare(a) <=> Bare(q) /\ m.t # "bin"
  BY <1>1, <1>3 DEF Bare
<1>6. Filled(a) <=> Filled(q) /\ m.t = "bin"
  BY <1>1, <1>3 DEF Filled
<1>7. Plain(a) <=> Plain(q) /\ m.t \in {"bin", "end"}
  BY <1>1, <1>3 DEF Plain
<1> QED BY <1>4, <1>5, <1>6, <1>7 DEF a

LEMMA EndsTail ==
  ASSUME NEW q, Queue(q), q # <<>>
  PROVE  /\ Ends(q) <=> Ends(Tail(q)) \/ Head(q).t = "end"
         /\ Bare(q) <=> Bare(Tail(q)) /\ Head(q).t # "bin"
         /\ Filled(q) <=> Filled(Tail(q)) /\ Head(q).t = "bin"
         /\ Plain(q) <=> Plain(Tail(q)) /\ Head(q).t \in {"bin", "end"}
<1> DEFINE b == Tail(q)
<1>1. /\ Len(q) \in Nat \ {0} /\ Len(b) = Len(q) - 1 /\ Head(q) = q[1]
      /\ \A i \in 1..(Len(q) - 1) : b[i] = q[i + 1]
  BY QueueTail
<1> HIDE DEF b
<1>2. \A k \in 1..Len(q) : k = 1 \/ (k - 1 \in 1..Len(b) /\ b[k - 1] = q[k])
  <2> TAKE k \in 1..Len(q)
  <2>1. CASE k # 1
    <3>1. k - 1 \in 1..(Len(q) - 1) /\ (k - 1) + 1 = k
      BY <2>1, <1>1
    <3> QED BY <3>1, <1>1
  <2> QED BY <2>1
<1>3. \A i \in 1..Len(b) : i + 1 \in 1..Len(q) /\ b[i] = q[i + 1]
  BY <1>1
<1>4. 1 \in 1..Len(q)
  BY <1>1
<1>5. Ends(q) <=> Ends(b) \/ Head(q).t = "end"
  BY <1>1, <1>2, <1>3, <1>4 DEF Ends
<1>6. Bare(q) <=> Bare(b) /\ Head(q).t # "bin"
  BY <1>1, <1>2, <1>3, <1>4 DEF Bare
<1>7. Filled(q) <=> Filled(b) /\ Head(q).t = "bin"
  BY <1>1, <1>2, <1>3, <1>4 DEF Filled
<1>8. Plain(q) <=> Plain(b) /\ Head(q).t \in {"bin", "end"}
  BY <1>1, <1>2, <1>3, <1>4 DEF Plain
<1> QED BY <1>5, <1>6, <1>7, <1>8 DEF b

LEMMA EndsCat ==
  ASSUME NEW q, Queue(q), NEW r, Queue(r)
  PROVE  /\ Ends(q \o r) <=> Ends(q) \/ Ends(r)
         /\ Bare(q \o r) <=> Bare(q) /\ Bare(r)
         /\ Filled(q \o r) <=> Filled(q) /\ Filled(r)
<1> DEFINE c == q \o r
<1>1. /\ Len(c) = Len(q) + Len(r)
      /\ \A i \in 1..Len(q) : c[i] = q[i]
      /\ \A i \in (Len(q) + 1)..(Len(q) + Len(r)) : c[i] = r[i - Len(q)]
  BY QueueCat
<1>2. Len(q) \in Nat /\ Len(r) \in Nat
  BY QueueIs
<1> HIDE DEF c
<1>3. \A i \in 1..Len(c) : \/ i \in 1..Len(q) /\ c[i] = q[i]
                           \/ i - Len(q) \in 1..Len(r) /\ c[i] = r[i - Len(q)]
  BY <1>1, <1>2
<1>4. \A i \in 1..Len(q) : i \in 1..Len(c) /\ c[i] = q[i]
  BY <1>1, <1>2
<1>5. \A i \in 1..Len(r) : i + Len(q) \in 1..Len(c) /\ c[i + Len(q)] = r[i]
  <2> TAKE i \in 1..Len(r)
  <2>1. i + Len(q) \in (Len(q) + 1)..(Len(q) + Len(r)) /\ (i + Len(q)) - Len(q) = i
    BY <1>2
  <2>2. c[i + Len(q)] = r[i]
    BY <1>1, <2>1
  <2> QED BY <2>1, <2>2, <1>1, <1>2
<1>6. Ends(c) <=> Ends(q) \/ Ends(r)
  BY <1>3, <1>4, <1>5 DEF Ends
<1>7. Bare(c) <=> Bare(q) /\ Bare(r)
  <2>1. Bare(c) => Bare(q)
    BY <1>4 DEF Bare
  <2>2. Bare(c) => Bare(r)
    BY <1>5 DEF Bare
  <2>3. Bare(q) /\ Bare(r) => Bare(c)
    BY <1>3 DEF Bare
  <2> QED BY <2>1, <2>2, <2>3
<1>8. Filled(c) <=> Filled(q) /\ Filled(r)
  BY <1>3, <1>4, <1>5 DEF Filled
<1> QED BY <1>6, <1>7, <1>8 DEF c

LEMMA EndsNothing == ~Ends(<<>>) /\ Bare(<<>>) /\ Filled(<<>>) /\ Plain(<<>>) /\ OnceFirst(<<>>)
                     /\ ~Calls(<<>>)
<1>1. Len(<<>>) = 0 /\ 1..0 = {}
  BY EmptyQueue
<1> QED BY <1>1 DEF Ends, Bare, Filled, Plain, OnceFirst, Calls

LEMMA EndsOne ==
  ASSUME NEW m, m.t = "end"
  PROVE  Ends(<<m>>) /\ Bare(<<m>>) /\ Plain(<<m>>) /\ OnceFirst(<<m>>) /\ ~Calls(<<m>>)
<1>1. Len(<<m>>) = 1 /\ <<m>>[1] = m /\ 1..1 = {1}
  BY OneQueue
<1> QED BY <1>1 DEF Ends, Bare, Plain, OnceFirst, Calls

LEMMA CallsAppend ==
  ASSUME NEW q, Queue(q), NEW m
  PROVE  /\ m.t # "paired" => (Calls(Append(q, m)) <=> Calls(q))
         /\ OnceFirst(q) /\ (m.t # "paired" \/ q = <<>> \/ Ends(q)) => OnceFirst(Append(q, m))
<1> DEFINE a == Append(q, m)
<1>1. /\ Len(a) = Len(q) + 1 /\ \A i \in 1..Len(q) : a[i] = q[i]
      /\ a[Len(q) + 1] = m
  BY QueueAppend
<1>2. Len(q) \in Nat /\ (q = <<>> <=> Len(q) = 0)
  BY QueueIs, NoneLeft
<1> HIDE DEF a
<1>3. m.t # "paired" => (Calls(a) <=> Calls(q))
  BY <1>1, <1>2 DEF Calls
<1>4. ASSUME OnceFirst(q), m.t # "paired" \/ q = <<>> \/ Ends(q) PROVE OnceFirst(a)
  <2> SUFFICES ASSUME NEW k \in 1..Len(a), a[k].t = "paired",
                      \A j \in 1..k : a[j].t # "end"
               PROVE  k = 1
    BY DEF OnceFirst
  <2>1. CASE k \in 1..Len(q)
    <3>1. \A j \in 1..k : a[j] = q[j]
      BY <2>1, <1>1, <1>2
    <3> QED BY <3>1, <2>1, <1>1, <1>4 DEF OnceFirst
  <2>2. CASE k = Len(q) + 1
    <3>1. m.t = "paired"
      BY <2>2, <1>1
    <3>2. ~Ends(q)
      BY <2>2, <1>1, <1>2 DEF Ends
    <3> QED BY <3>1, <3>2, <1>2, <1>4, <2>2
  <2> QED BY <2>1, <2>2, <1>1, <1>2
<1> QED BY <1>3, <1>4 DEF a

LEMMA CallsTail ==
  ASSUME NEW q, Queue(q), q # <<>>, OnceFirst(q), Head(q).t # "end"
  PROVE  ~Calls(Tail(q)) /\ OnceFirst(Tail(q)) /\ (Calls(q) <=> Head(q).t = "paired")
<1> DEFINE b == Tail(q)
<1>1. /\ Len(q) \in Nat \ {0} /\ Len(b) = Len(q) - 1 /\ Head(q) = q[1]
      /\ \A i \in 1..(Len(q) - 1) : b[i] = q[i + 1]
  BY QueueTail
<1> HIDE DEF b
<1>2. ASSUME NEW k \in 1..Len(b), b[k].t = "paired", \A j \in 1..k : b[j].t # "end"
      PROVE  FALSE
  <2>1. k + 1 \in 1..Len(q) /\ q[k + 1].t = "paired"
    BY <1>1, <1>2
  <2>2. ASSUME NEW j \in 1..(k + 1) PROVE q[j].t # "end"
    <3>1. CASE j = 1
      BY <3>1, <1>1
    <3>2. CASE j # 1
      <4>1. j - 1 \in 1..k /\ j - 1 \in 1..(Len(q) - 1) /\ (j - 1) + 1 = j
        BY <3>2, <1>1
      <4> QED BY <4>1, <1>1, <1>2
    <3> QED BY <3>1, <3>2
  <2>3. k + 1 = 1
    BY <2>1, <2>2 DEF OnceFirst
  <2> QED BY <2>3, <1>1
<1>3. OnceFirst(b)
  BY <1>2 DEF OnceFirst
<1>4. ~Calls(b)
  <2> SUFFICES ASSUME Calls(b) PROVE FALSE
    OBVIOUS
  <2>1. Len(b) > 0 /\ b[1].t = "paired" /\ 1..1 = {1}
    BY DEF Calls
  <2>2. 1 \in 1..Len(b)
    BY <2>1, <1>1
  <2> QED BY <2>1, <2>2, <1>2
<1> QED BY <1>1, <1>3, <1>4 DEF b, Calls

-----------------------------------------------------------------------------
(* Queues of ciphertexts, and what becomes of them.                        *)

(* What arrives of a queue: the hello before all else; then ciphertexts,   *)
(* in the order of their nonces, after the welcome on the way down.        *)
HelloFlow(s, m) == \A i \in 1..Len(s) : Arrives(s, i) =>
   s[i].c = m /\ \A j \in 1..(i - 1) : s[j].t # "bin"
Under(ct, k, n) == ct.k = k /\ ct.n = n /\ ct.ad = <<>>
Flow(s, k, n) ==
  \A i \in 1..Len(s) : Arrives(s, i) =>
     /\ \A j \in 1..(i - 1) : s[j].t = "bin"
     /\ Under(s[i].c.ct, k, n + i - 1)
DFlow(s, got, m, k) ==
  \A i \in 1..Len(s) : Arrives(s, i) =>
     /\ \A j \in 1..(i - 1) : s[j].t = "bin"
     /\ IF got + i = 1 THEN s[i].c = m ELSE Under(s[i].c.ct, k, got + i - 2)

LEMMA ShrinksHello ==
  ASSUME NEW s, Queue(s), NEW r, Queue(r), Shrinks(s, r), NEW m, HelloFlow(s, m)
  PROVE  HelloFlow(r, m)
<1> SUFFICES ASSUME NEW i \in 1..Len(r), Arrives(r, i)
             PROVE  r[i].c = m /\ \A j \in 1..(i - 1) : r[j].t # "bin"
  BY DEF HelloFlow
<1>1. i \in 1..Len(s) /\ Arrives(s, i) /\ s[i] = r[i] /\ \A j \in 1..i : s[j] = r[j]
  BY Shrunk
<1>2. s[i].c = m /\ \A j \in 1..(i - 1) : s[j].t # "bin"
  BY <1>1 DEF HelloFlow
<1>3. Len(r) \in Nat /\ \A j \in 1..(i - 1) : j \in 1..i
  BY QueueIs
<1> QED BY <1>1, <1>2, <1>3

LEMMA ShrinksFlow ==
  ASSUME NEW s, Queue(s), NEW r, Queue(r), Shrinks(s, r), NEW k, NEW n, Flow(s, k, n)
  PROVE  Flow(r, k, n)
<1> SUFFICES ASSUME NEW i \in 1..Len(r), Arrives(r, i)
             PROVE  (\A j \in 1..(i - 1) : r[j].t = "bin") /\ Under(r[i].c.ct, k, n + i - 1)
  BY DEF Flow
<1>1. i \in 1..Len(s) /\ Arrives(s, i) /\ s[i] = r[i] /\ \A j \in 1..i : s[j] = r[j]
  BY Shrunk
<1>2. (\A j \in 1..(i - 1) : s[j].t = "bin") /\ Under(s[i].c.ct, k, n + i - 1)
  BY <1>1 DEF Flow
<1>3. Len(r) \in Nat /\ \A j \in 1..(i - 1) : j \in 1..i
  BY QueueIs
<1> QED BY <1>1, <1>2, <1>3

LEMMA ShrinksDFlow ==
  ASSUME NEW s, Queue(s), NEW r, Queue(r), Shrinks(s, r), NEW got, NEW m, NEW k,
         DFlow(s, got, m, k)
  PROVE  DFlow(r, got, m, k)
<1> SUFFICES ASSUME NEW i \in 1..Len(r), Arrives(r, i)
             PROVE  /\ \A j \in 1..(i - 1) : r[j].t = "bin"
                    /\ IF got + i = 1 THEN r[i].c = m
                       ELSE Under(r[i].c.ct, k, got + i - 2)
  BY DEF DFlow
<1>1. i \in 1..Len(s) /\ Arrives(s, i) /\ s[i] = r[i] /\ \A j \in 1..i : s[j] = r[j]
  BY Shrunk
<1>2. /\ \A j \in 1..(i - 1) : s[j].t = "bin"
      /\ IF got + i = 1 THEN s[i].c = m ELSE Under(s[i].c.ct, k, got + i - 2)
  BY <1>1 DEF DFlow
<1>3. Len(r) \in Nat /\ \A j \in 1..(i - 1) : j \in 1..i
  BY QueueIs
<1>4. \A j \in 1..(i - 1) : r[j].t = "bin"
  BY <1>1, <1>2, <1>3
<1>5. IF got + i = 1 THEN r[i].c = m ELSE Under(r[i].c.ct, k, got + i - 2)
  BY <1>1, <1>2
<1> QED BY <1>4, <1>5

LEMMA ShrinksReached ==
  ASSUME NEW s, Queue(s), NEW r, Queue(r), Shrinks(s, r), Reached(r)
  PROVE  Reached(s)
<1>1. PICK i \in 1..Len(r) : Arrives(r, i)
  BY DEF Reached
<1> QED BY <1>1, Shrunk DEF Reached

LEMMA BareFlows ==
  ASSUME NEW s, Queue(s), Bare(s)
  PROVE  /\ ~Reached(s) /\ \A m : HelloFlow(s, m)
         /\ \A k, n : Flow(s, k, n)
         /\ \A got, m, k : DFlow(s, got, m, k)
<1>1. \A i \in 1..Len(s) : ~Arrives(s, i)
  BY DEF Bare, Arrives
<1> QED BY <1>1 DEF Reached, HelloFlow, Flow, DFlow

LEMMA NothingFlows ==
  ASSUME NEW s, ~Reached(s)
  PROVE  (\A m : HelloFlow(s, m)) /\ (\A k, n : Flow(s, k, n))
         /\ \A got, m, k : DFlow(s, got, m, k)
BY DEF Reached, HelloFlow, Flow, DFlow

LEMMA TailArrives ==
  ASSUME NEW s, Queue(s), s # <<>>, s[1].t # "end",
         NEW i \in 1..Len(Tail(s)), Arrives(Tail(s), i)
  PROVE  /\ i + 1 \in 1..Len(s) /\ Arrives(s, i + 1)
         /\ \A j \in 1..i : Tail(s)[j] = s[j + 1]
<1> DEFINE b == Tail(s)
<1>1. /\ Len(s) \in Nat \ {0} /\ Len(b) = Len(s) - 1
      /\ \A j \in 1..(Len(s) - 1) : b[j] = s[j + 1]
  BY QueueTail
<1>2. b[i].t = "bin" /\ \A j \in 1..i : b[j].t # "end"
  BY DEF Arrives
<1> HIDE DEF b
<1>3. i \in 1..(Len(s) - 1)
  BY <1>1 DEF b
<1>4. \A j \in 1..i : b[j] = s[j + 1]
  BY <1>1, <1>3
<1>5. ASSUME NEW j \in 1..(i + 1) PROVE s[j].t # "end"
  <2>1. CASE j # 1
    <3>1. j - 1 \in 1..i /\ (j - 1) + 1 = j
      BY <2>1, <1>1, <1>3
    <3> QED BY <3>1, <1>2, <1>4
  <2> QED BY <2>1
<1>6. s[i + 1].t = "bin"
  BY <1>2, <1>3, <1>4
<1>7. Arrives(s, i + 1)
  BY <1>5, <1>6 DEF Arrives
<1> QED BY <1>1, <1>3, <1>4, <1>7 DEF b

LEMMA HelloTail ==
  ASSUME NEW s, Queue(s), s # <<>>, s[1].t \notin {"end", "bin"}, NEW m, HelloFlow(s, m)
  PROVE  HelloFlow(Tail(s), m)
<1> SUFFICES ASSUME NEW i \in 1..Len(Tail(s)), Arrives(Tail(s), i)
             PROVE  Tail(s)[i].c = m /\ \A j \in 1..(i - 1) : Tail(s)[j].t # "bin"
  BY DEF HelloFlow
<1>1. /\ i + 1 \in 1..Len(s) /\ Arrives(s, i + 1)
      /\ \A j \in 1..i : Tail(s)[j] = s[j + 1]
  BY TailArrives
<1>2. s[i + 1].c = m /\ \A j \in 1..((i + 1) - 1) : s[j].t # "bin"
  BY <1>1 DEF HelloFlow
<1>3. Len(Tail(s)) \in Nat
  BY QueueTail
<1>4. \A j \in 1..(i - 1) : j \in 1..i /\ j + 1 \in 1..((i + 1) - 1)
  BY <1>3
<1> QED BY <1>1, <1>2, <1>3, <1>4

LEMMA HelloTaken ==
  ASSUME NEW s, Queue(s), s # <<>>, s[1].t = "bin", NEW m, HelloFlow(s, m)
  PROVE  s[1].c = m /\ ~Reached(Tail(s)) /\ (Filled(s) => Len(s) = 1)
<1>1. Len(s) \in Nat \ {0}
  BY QueueTail
<1>2. 1 \in 1..Len(s) /\ 1..1 = {1}
  BY <1>1
<1>3. s[1].c = m
  BY <1>2 DEF HelloFlow, Arrives
<1>4. ~Reached(Tail(s))
  <2> SUFFICES ASSUME NEW i \in 1..Len(Tail(s)), Arrives(Tail(s), i) PROVE FALSE
    BY DEF Reached
  <2>1. i + 1 \in 1..Len(s) /\ Arrives(s, i + 1)
    BY TailArrives
  <2>2. \A j \in 1..((i + 1) - 1) : s[j].t # "bin"
    BY <2>1 DEF HelloFlow
  <2>3. 1 \in 1..((i + 1) - 1)
    BY QueueTail
  <2> QED BY <2>2, <2>3
<1>5. ASSUME Filled(s), Len(s) # 1 PROVE FALSE
  <2>0. Len(s) \in Nat /\ Len(s) >= 2
    BY <1>1, <1>5
  <2>1. 2 \in 1..Len(s) /\ 1 \in 1..(2 - 1) /\ \A j \in 1..2 : j \in 1..Len(s)
    BY <2>0
  <2>2. Arrives(s, 2)
    BY <1>5, <2>1 DEF Filled, Arrives
  <2>3. \A j \in 1..(2 - 1) : s[j].t # "bin"
    BY <2>1, <2>2 DEF HelloFlow
  <2> QED BY <2>1, <2>3
<1> QED BY <1>3, <1>4, <1>5

LEMMA FlowTail ==
  ASSUME NEW s, Queue(s), s # <<>>, s[1].t = "bin", NEW k, NEW n \in Nat, Flow(s, k, n)
  PROVE  Flow(Tail(s), k, n + 1)
<1> SUFFICES ASSUME NEW i \in 1..Len(Tail(s)), Arrives(Tail(s), i)
             PROVE  /\ \A j \in 1..(i - 1) : Tail(s)[j].t = "bin"
                    /\ Under(Tail(s)[i].c.ct, k, (n + 1) + i - 1)
  BY DEF Flow
<1>1. /\ i + 1 \in 1..Len(s) /\ Arrives(s, i + 1)
      /\ \A j \in 1..i : Tail(s)[j] = s[j + 1]
  BY TailArrives
<1>2. /\ \A j \in 1..((i + 1) - 1) : s[j].t = "bin"
      /\ Under(s[i + 1].c.ct, k, n + (i + 1) - 1)
  BY <1>1 DEF Flow
<1>3. Len(Tail(s)) \in Nat
  BY QueueTail
<1>4. \A j \in 1..(i - 1) : j \in 1..i /\ j + 1 \in 1..((i + 1) - 1)
  BY <1>3
<1>5. i \in 1..i /\ n + (i + 1) - 1 = (n + 1) + i - 1
  BY <1>3
<1> QED BY <1>1, <1>2, <1>4, <1>5

LEMMA DFlowTail ==
  ASSUME NEW s, Queue(s), s # <<>>, s[1].t = "bin", NEW m, NEW k, NEW got \in Nat,
         DFlow(s, got, m, k)
  PROVE  DFlow(Tail(s), got + 1, m, k)
<1> SUFFICES ASSUME NEW i \in 1..Len(Tail(s)), Arrives(Tail(s), i)
             PROVE  /\ \A j \in 1..(i - 1) : Tail(s)[j].t = "bin"
                    /\ IF (got + 1) + i = 1 THEN Tail(s)[i].c = m
                       ELSE Under(Tail(s)[i].c.ct, k, (got + 1) + i - 2)
  BY DEF DFlow
<1>1. /\ i + 1 \in 1..Len(s) /\ Arrives(s, i + 1)
      /\ \A j \in 1..i : Tail(s)[j] = s[j + 1]
  BY TailArrives
<1>2. /\ \A j \in 1..((i + 1) - 1) : s[j].t = "bin"
      /\ IF got + (i + 1) = 1 THEN s[i + 1].c = m
         ELSE Under(s[i + 1].c.ct, k, got + (i + 1) - 2)
  BY <1>1 DEF DFlow
<1>3. Len(Tail(s)) \in Nat
  BY QueueTail
<1>4. \A j \in 1..(i - 1) : j \in 1..i /\ j + 1 \in 1..((i + 1) - 1)
  BY <1>3
<1>5. i \in 1..i /\ got + (i + 1) = (got + 1) + i
  BY <1>3
<1>6. \A j \in 1..(i - 1) : Tail(s)[j].t = "bin"
  BY <1>1, <1>2, <1>4
<1>7. Tail(s)[i] = s[i + 1]
  BY <1>1, <1>5
<1>8. IF (got + 1) + i = 1 THEN Tail(s)[i].c = m
      ELSE Under(Tail(s)[i].c.ct, k, (got + 1) + i - 2)
  BY <1>2, <1>5, <1>7
<1> QED BY <1>6, <1>8

LEMMA DFlowHead ==
  ASSUME NEW s, Queue(s), s # <<>>, s[1].t = "bin", NEW m, NEW k, DFlow(s, 0, m, k)
  PROVE  s[1].c = m
<1>1. Len(s) \in Nat \ {0}
  BY QueueTail
<1>2. 1 \in 1..Len(s) /\ 1..1 = {1} /\ 0 + 1 = 1
  BY <1>1
<1>3. Arrives(s, 1)
  BY <1>2 DEF Arrives
<1> QED BY <1>2, <1>3 DEF DFlow

LEMMA HeadReached ==
  ASSUME NEW s, Queue(s), s # <<>>, s[1].t = "bin"
  PROVE  Reached(s)
<1>1. Len(s) \in Nat \ {0}
  BY QueueTail
<1>2. 1 \in 1..Len(s) /\ 1..1 = {1}
  BY <1>1
<1> QED BY <1>2 DEF Reached, Arrives

LEMMA TailReached ==
  ASSUME NEW s, Queue(s), s # <<>>, s[1].t # "end", Reached(Tail(s))
  PROVE  Reached(s)
<1>1. PICK i \in 1..Len(Tail(s)) : Arrives(Tail(s), i)
  BY DEF Reached
<1> QED BY <1>1, TailArrives DEF Reached

(* Appending: behind an end nothing arrives.                               *)
LEMMA AppendArrives ==
  ASSUME NEW s, Queue(s), NEW m, NEW i \in 1..Len(Append(s, m)),
         Arrives(Append(s, m), i)
  PROVE  /\ \A j \in 1..(i - 1) : j \in 1..Len(s) /\ Append(s, m)[j] = s[j]
         /\ \/ i \in 1..Len(s) /\ Arrives(s, i) /\ Append(s, m)[i] = s[i]
            \/ i = Len(s) + 1 /\ ~Ends(s) /\ m.t = "bin" /\ Append(s, m)[i] = m
<1> DEFINE a == Append(s, m)
<1>1. /\ Len(a) = Len(s) + 1 /\ \A j \in 1..Len(s) : a[j] = s[j]
      /\ a[Len(s) + 1] = m
  BY QueueAppend
<1>2. Len(s) \in Nat
  BY QueueIs
<1>3. a[i].t = "bin" /\ \A j \in 1..i : a[j].t # "end"
  BY DEF Arrives
<1>4. i \in 1..Len(a)
  OBVIOUS
<1> HIDE DEF a
<1>5. \A j \in 1..(i - 1) : j \in 1..Len(s) /\ a[j] = s[j]
  BY <1>1, <1>2, <1>4
<1>6. CASE i \in 1..Len(s)
  <2>1. \A j \in 1..i : j \in 1..Len(s) /\ a[j] = s[j]
    BY <1>1, <1>2, <1>6
  <2>2. i \in 1..i
    BY <1>6, <1>2
  <2>3. Arrives(s, i)
    BY <1>3, <2>1, <2>2 DEF Arrives
  <2> QED BY <1>5, <1>6, <2>1, <2>2, <2>3 DEF a
<1>7. CASE i = Len(s) + 1
  <2>1. ~Ends(s)
    BY <1>1, <1>2, <1>3, <1>7 DEF Ends
  <2> QED BY <1>1, <1>3, <1>5, <1>7, <2>1 DEF a
<1> QED BY <1>1, <1>2, <1>4, <1>6, <1>7

LEMMA AppendShrinks ==
  ASSUME NEW s, Queue(s), NEW m, Ends(s) \/ m.t # "bin"
  PROVE  Shrinks(s, Append(s, m))
<1> SUFFICES ASSUME NEW i \in 1..Len(Append(s, m)), Arrives(Append(s, m), i)
             PROVE  i \in 1..Len(s) /\ \A j \in 1..i : Append(s, m)[j] = s[j]
  BY DEF Shrinks
<1>1. /\ \A j \in 1..(i - 1) : j \in 1..Len(s) /\ Append(s, m)[j] = s[j]
      /\ i \in 1..Len(s) /\ Append(s, m)[i] = s[i]
  BY AppendArrives
<1>2. \A j \in 1..i : j = i \/ j \in 1..(i - 1)
  BY <1>1, QueueIs
<1> QED BY <1>1, <1>2

LEMMA HelloAppend ==
  ASSUME NEW s, Queue(s), Bare(s), NEW m
  PROVE  HelloFlow(Append(s, m), m.c)
<1> SUFFICES ASSUME NEW i \in 1..Len(Append(s, m)), Arrives(Append(s, m), i)
             PROVE  /\ Append(s, m)[i].c = m.c
                    /\ \A j \in 1..(i - 1) : Append(s, m)[j].t # "bin"
  BY DEF HelloFlow
<1>1. /\ \A j \in 1..(i - 1) : j \in 1..Len(s) /\ Append(s, m)[j] = s[j]
      /\ \/ i \in 1..Len(s) /\ Arrives(s, i)
         \/ i = Len(s) + 1 /\ Append(s, m)[i] = m
  BY AppendArrives
<1>2. ~(i \in 1..Len(s) /\ Arrives(s, i))
  BY DEF Bare, Arrives
<1> QED BY <1>1, <1>2 DEF Bare

LEMMA FlowAppend ==
  ASSUME NEW s, Queue(s), Filled(s), NEW m, NEW k, NEW n \in Nat, Flow(s, k, n),
         Under(m.c.ct, k, n + Len(s))
  PROVE  Flow(Append(s, m), k, n)
<1> SUFFICES ASSUME NEW i \in 1..Len(Append(s, m)), Arrives(Append(s, m), i)
             PROVE  /\ \A j \in 1..(i - 1) : Append(s, m)[j].t = "bin"
                    /\ Under(Append(s, m)[i].c.ct, k, n + i - 1)
  BY DEF Flow
<1>1. /\ \A j \in 1..(i - 1) : j \in 1..Len(s) /\ Append(s, m)[j] = s[j]
      /\ \/ i \in 1..Len(s) /\ Arrives(s, i) /\ Append(s, m)[i] = s[i]
         \/ i = Len(s) + 1 /\ Append(s, m)[i] = m
  BY AppendArrives
<1>2. \A j \in 1..(i - 1) : Append(s, m)[j].t = "bin"
  BY <1>1 DEF Filled
<1>3. CASE i \in 1..Len(s) /\ Arrives(s, i) /\ Append(s, m)[i] = s[i]
  <2>1. Under(s[i].c.ct, k, n + i - 1)
    BY <1>3 DEF Flow
  <2> QED BY <1>2, <1>3, <2>1
<1>4. CASE i = Len(s) + 1 /\ Append(s, m)[i] = m
  <2>1. n + i - 1 = n + Len(s)
    BY <1>4, QueueIs
  <2> QED BY <1>2, <1>4, <2>1
<1> QED BY <1>1, <1>3, <1>4

LEMMA DFlowAppend ==
  ASSUME NEW s, Queue(s), Filled(s), NEW m, NEW w, NEW k, NEW got \in Nat,
         DFlow(s, got, w, k),
         IF got + Len(s) = 0 THEN m.c = w ELSE Under(m.c.ct, k, got + Len(s) - 1)
  PROVE  DFlow(Append(s, m), got, w, k)
<1> SUFFICES ASSUME NEW i \in 1..Len(Append(s, m)), Arrives(Append(s, m), i)
             PROVE  /\ \A j \in 1..(i - 1) : Append(s, m)[j].t = "bin"
                    /\ IF got + i = 1 THEN Append(s, m)[i].c = w
                       ELSE Under(Append(s, m)[i].c.ct, k, got + i - 2)
  BY DEF DFlow
<1>1. /\ \A j \in 1..(i - 1) : j \in 1..Len(s) /\ Append(s, m)[j] = s[j]
      /\ \/ i \in 1..Len(s) /\ Arrives(s, i) /\ Append(s, m)[i] = s[i]
         \/ i = Len(s) + 1 /\ Append(s, m)[i] = m
  BY AppendArrives
<1>2. \A j \in 1..(i - 1) : Append(s, m)[j].t = "bin"
  BY <1>1 DEF Filled
<1>3. CASE i \in 1..Len(s) /\ Arrives(s, i) /\ Append(s, m)[i] = s[i]
  <2>1. IF got + i = 1 THEN s[i].c = w ELSE Under(s[i].c.ct, k, got + i - 2)
    BY <1>3 DEF DFlow
  <2> QED BY <1>2, <1>3, <2>1
<1>4. CASE i = Len(s) + 1 /\ Append(s, m)[i] = m
  <2>1. /\ got + i = 1 <=> got + Len(s) = 0
        /\ got + i - 2 = got + Len(s) - 1
    BY <1>4, QueueIs
  <2> QED BY <1>2, <1>4, <2>1
<1> QED BY <1>1, <1>3, <1>4

-----------------------------------------------------------------------------
(* What a socket's operations do.                                          *)

(* One socket.                                                             *)
Socket(w) ==
  /\ w = [peer |-> w.peer, relay |-> w.relay, up |-> w.up, down |-> w.down]
  /\ Queue(w.up) /\ Queue(w.down)
  /\ w.peer \in {"open", "closing", "closed"}
  /\ w.relay \in {"idle", "open", "closing", "closed"}

(* An end is on its way to whoever has not heard of the other's closing.   *)
SockOk(w) ==
  /\ Socket(w)
  /\ w.relay \in {"closing", "closed"} => w.peer = "closed" \/ Ends(w.down)
  /\ w.peer # "open" => w.relay = "closed" \/ Ends(w.up)
  /\ w.peer = "closed" => w.down = <<>>
  /\ w.relay = "idle" => w.peer = "open" /\ w.down = <<>>
  /\ OnceFirst(w.down) /\ Plain(w.up)

LEMMA ToRelayIs ==
  ASSUME NEW w, Socket(w), NEW m, NEW r, r = ToRelay(w, m)
  PROVE  /\ r.peer = w.peer /\ r.relay = w.relay /\ r.down = w.down
         /\ r.up = IF w.peer = "open" /\ w.relay # "closed" THEN Append(w.up, m)
                   ELSE w.up
         /\ Socket(r)
<1>1. Queue(Append(w.up, m))
  BY QueueAppend DEF Socket
<1>2. CASE w.peer = "open" /\ w.relay # "closed"
  <2>1. r = [w EXCEPT !.up = Append(w.up, m)]
    BY <1>2 DEF ToRelay
  <2>2. r = [peer |-> w.peer, relay |-> w.relay, up |-> Append(w.up, m), down |-> w.down]
    BY <2>1 DEF Socket
  <2> QED BY <1>1, <1>2, <2>2 DEF Socket
<1>3. CASE ~(w.peer = "open" /\ w.relay # "closed")
  BY <1>3 DEF ToRelay
<1> QED BY <1>2, <1>3

LEMMA ToPeerIs ==
  ASSUME NEW w, Socket(w), NEW m, NEW r, r = ToPeer(w, m)
  PROVE  /\ r.peer = w.peer /\ r.relay = w.relay /\ r.up = w.up
         /\ r.down = IF w.relay = "open" /\ w.peer # "closed" THEN Append(w.down, m)
                     ELSE w.down
         /\ Socket(r)
<1>1. Queue(Append(w.down, m))
  BY QueueAppend DEF Socket
<1>2. CASE w.relay = "open" /\ w.peer # "closed"
  <2>1. r = [w EXCEPT !.down = Append(w.down, m)]
    BY <1>2 DEF ToPeer
  <2>2. r = [peer |-> w.peer, relay |-> w.relay, up |-> w.up, down |-> Append(w.down, m)]
    BY <2>1 DEF Socket
  <2> QED BY <1>1, <1>2, <2>2 DEF Socket
<1>3. CASE ~(w.relay = "open" /\ w.peer # "closed")
  BY <1>3 DEF ToPeer
<1> QED BY <1>2, <1>3

LEMMA PeerTakesIs ==
  ASSUME NEW w, Socket(w), w.down # <<>>, NEW r, r = PeerTakes(w)
  PROVE  /\ r.peer = w.peer /\ r.relay = w.relay /\ r.up = w.up
         /\ r.down = Tail(w.down) /\ Socket(r)
<1>1. Queue(Tail(w.down))
  BY QueueTail DEF Socket
<1>2. r = [w EXCEPT !.down = Tail(w.down)]
  BY DEF PeerTakes
<1>3. r = [peer |-> w.peer, relay |-> w.relay, up |-> w.up, down |-> Tail(w.down)]
  BY <1>2 DEF Socket
<1> QED BY <1>1, <1>3 DEF Socket

LEMMA RelayTakesIs ==
  ASSUME NEW w, Socket(w), w.up # <<>>, NEW r, r = RelayTakes(w)
  PROVE  /\ r.peer = w.peer /\ r.relay = w.relay /\ r.down = w.down
         /\ r.up = Tail(w.up) /\ Socket(r)
<1>1. Queue(Tail(w.up))
  BY QueueTail DEF Socket
<1>2. r = [w EXCEPT !.up = Tail(w.up)]
  BY DEF RelayTakes
<1>3. r = [peer |-> w.peer, relay |-> w.relay, up |-> Tail(w.up), down |-> w.down]
  BY <1>2 DEF Socket
<1> QED BY <1>1, <1>3 DEF Socket

LEMMA PeerClosesIs ==
  ASSUME NEW w, Socket(w), NEW c, NEW r, r = PeerCloses(w, c)
  PROVE  /\ w.relay = "idle" => /\ r.peer = "closed" /\ r.relay = "closed"
                                /\ r.down = <<>> /\ r.up = w.up
         /\ w.relay # "idle" =>
              /\ r.peer = IF w.peer = "open" THEN "closing" ELSE w.peer
              /\ r.relay = w.relay /\ r.down = w.down
              /\ r.up = IF w.peer = "open" /\ w.relay # "closed"
                          THEN Append(w.up, End(c)) ELSE w.up
         /\ Socket(r)
<1>1. CASE w.relay = "idle"
  <2>1. r = [w EXCEPT !.peer = "closed", !.relay = "closed", !.down = <<>>]
    BY <1>1 DEF PeerCloses
  <2>2. r = [peer |-> "closed", relay |-> "closed", up |-> w.up, down |-> <<>>]
    BY <2>1 DEF Socket
  <2> QED BY <1>1, <2>2, EmptyQueue DEF Socket
<1>2. CASE w.relay # "idle" /\ w.peer = "open"
  <2>1. PICK v : v = ToRelay(w, End(c))
    OBVIOUS
  <2>2. /\ v.peer = w.peer /\ v.relay = w.relay /\ v.down = w.down
        /\ v.up = IF w.peer = "open" /\ w.relay # "closed" THEN Append(w.up, End(c))
                  ELSE w.up
        /\ Socket(v)
    BY <2>1, ToRelayIs
  <2>3. r = [v EXCEPT !.peer = "closing"]
    BY <1>2, <2>1 DEF PeerCloses
  <2>4. r = [peer |-> "closing", relay |-> v.relay, up |-> v.up, down |-> v.down]
    BY <2>2, <2>3 DEF Socket
  <2> QED BY <1>2, <2>2, <2>4 DEF Socket
<1>3. CASE w.relay # "idle" /\ w.peer # "open"
  BY <1>3 DEF PeerCloses
<1> QED BY <1>1, <1>2, <1>3

LEMMA RelayClosesIs ==
  ASSUME NEW w, Socket(w), NEW c, NEW r, r = RelayCloses(w, c)
  PROVE  /\ r.peer = w.peer /\ r.up = w.up
         /\ r.relay = IF w.relay = "open" THEN "closing" ELSE w.relay
         /\ r.down = IF w.relay = "open" /\ w.peer # "closed"
                       THEN Append(w.down, End(c)) ELSE w.down
         /\ Socket(r)
<1>1. CASE w.relay = "open"
  <2>1. PICK v : v = ToPeer(w, End(c))
    OBVIOUS
  <2>2. /\ v.peer = w.peer /\ v.relay = w.relay /\ v.up = w.up
        /\ v.down = IF w.relay = "open" /\ w.peer # "closed" THEN Append(w.down, End(c))
                    ELSE w.down
        /\ Socket(v)
    BY <2>1, ToPeerIs
  <2>3. r = [v EXCEPT !.relay = "closing"]
    BY <1>1, <2>1 DEF RelayCloses
  <2>4. r = [peer |-> v.peer, relay |-> "closing", up |-> v.up, down |-> v.down]
    BY <2>2, <2>3 DEF Socket
  <2> QED BY <1>1, <2>2, <2>4 DEF Socket
<1>2. CASE w.relay # "open"
  BY <1>2 DEF RelayCloses
<1> QED BY <1>1, <1>2

LEMMA PeerEndsIs ==
  ASSUME NEW w, Socket(w), NEW c, NEW r, r = PeerEnds(w, c)
  PROVE  /\ r.peer = "closed" /\ r.relay = w.relay /\ r.down = <<>>
         /\ r.up = IF w.peer = "open" /\ w.relay # "closed"
                     THEN Append(w.up, End(c)) ELSE w.up
         /\ Socket(r)
<1>1. PICK v : v = ToRelay(w, End(c))
  OBVIOUS
<1>2. /\ v.peer = w.peer /\ v.relay = w.relay /\ v.down = w.down
      /\ v.up = IF w.peer = "open" /\ w.relay # "closed" THEN Append(w.up, End(c))
                ELSE w.up
      /\ Socket(v)
  BY <1>1, ToRelayIs
<1>3. r = [v EXCEPT !.peer = "closed", !.down = <<>>]
  BY <1>1 DEF PeerEnds
<1>4. r = [peer |-> "closed", relay |-> v.relay, up |-> v.up, down |-> <<>>]
  BY <1>2, <1>3 DEF Socket
<1> QED BY <1>2, <1>4, EmptyQueue DEF Socket

LEMMA RelayEndsIs ==
  ASSUME NEW w, Socket(w), NEW c, NEW r, r = RelayEnds(w, c)
  PROVE  /\ r.peer = w.peer /\ r.relay = "closed" /\ r.up = <<>>
         /\ r.down = IF w.relay = "open" /\ w.peer # "closed"
                       THEN Append(w.down, End(c)) ELSE w.down
         /\ Socket(r)
<1>1. PICK v : v = ToPeer(w, End(c))
  OBVIOUS
<1>2. /\ v.peer = w.peer /\ v.relay = w.relay /\ v.up = w.up
      /\ v.down = IF w.relay = "open" /\ w.peer # "closed" THEN Append(w.down, End(c))
                  ELSE w.down
      /\ Socket(v)
  BY <1>1, ToPeerIs
<1>3. r = [v EXCEPT !.relay = "closed", !.up = <<>>]
  BY <1>1 DEF RelayEnds
<1>4. r = [peer |-> v.peer, relay |-> "closed", up |-> <<>>, down |-> v.down]
  BY <1>2, <1>3 DEF Socket
<1> QED BY <1>2, <1>4, EmptyQueue DEF Socket

LEMMA BrokenIs ==
  ASSUME NEW w, Socket(w), NEW c, NEW r, r = Broken(w, c)
  PROVE  /\ r.peer = w.peer /\ r.down = <<End(c)>>
         /\ r.relay = IF w.relay = "idle" THEN "closed" ELSE w.relay
         /\ r.up = IF w.relay = "idle" THEN <<>> ELSE <<End(c)>>
         /\ Socket(r)
<1>1. r = [w EXCEPT !.up = IF w.relay = "idle" THEN <<>> ELSE <<End(c)>>,
                    !.relay = IF w.relay = "idle" THEN "closed" ELSE w.relay,
                    !.down = <<End(c)>>]
  BY DEF Broken, Socket
<1>2. r = [peer |-> w.peer, relay |-> IF w.relay = "idle" THEN "closed" ELSE w.relay,
           up |-> IF w.relay = "idle" THEN <<>> ELSE <<End(c)>>, down |-> <<End(c)>>]
  BY <1>1 DEF Socket
<1>3. Queue(<<End(c)>>) /\ Queue(<<>>)
  BY OneQueue, EmptyQueue
<1> QED BY <1>2, <1>3 DEF Socket

LEMMA AcceptIs ==
  ASSUME NEW w, Socket(w), NEW r, r = Accept(w)
  PROVE  /\ r.peer = w.peer /\ r.relay = "open" /\ r.up = w.up /\ r.down = w.down
         /\ Socket(r)
<1>1. r = [w EXCEPT !.relay = "open"]
  BY DEF Accept
<1>2. r = [peer |-> w.peer, relay |-> "open", up |-> w.up, down |-> w.down]
  BY <1>1 DEF Socket
<1> QED BY <1>2 DEF Socket

-----------------------------------------------------------------------------
(* The operations keep a socket in order.                                  *)

LEMMA EndIs == \A c : End(c).t = "end"
BY DEF End, Msg

LEMMA ToRelayOk ==
  ASSUME NEW w, SockOk(w), NEW m, m.t \in {"bin", "end"}, NEW r, r = ToRelay(w, m)
  PROVE  SockOk(r)
<1>1. Socket(w) /\ Queue(w.up)
  BY DEF SockOk, Socket
<1>2. /\ r.peer = w.peer /\ r.relay = w.relay /\ r.down = w.down
      /\ r.up = IF w.peer = "open" /\ w.relay # "closed" THEN Append(w.up, m)
                ELSE w.up
      /\ Socket(r)
  BY <1>1, ToRelayIs
<1>3. /\ Ends(w.up) => Ends(r.up)
      /\ Plain(w.up) => Plain(r.up)
  BY <1>1, <1>2, EndsAppend
<1> QED BY <1>2, <1>3 DEF SockOk

LEMMA ToPeerOk ==
  ASSUME NEW w, SockOk(w), NEW m, NEW r, r = ToPeer(w, m),
         m.t # "paired" \/ w.down = <<>> \/ Ends(w.down)
  PROVE  SockOk(r)
<1>1. Socket(w) /\ Queue(w.down)
  BY DEF SockOk, Socket
<1>2. /\ r.peer = w.peer /\ r.relay = w.relay /\ r.up = w.up
      /\ r.down = IF w.relay = "open" /\ w.peer # "closed" THEN Append(w.down, m)
                  ELSE w.down
      /\ Socket(r)
  BY <1>1, ToPeerIs
<1>3. /\ Ends(w.down) => Ends(r.down)
      /\ OnceFirst(w.down) => OnceFirst(r.down)
  BY <1>1, <1>2, EndsAppend, CallsAppend
<1> QED BY <1>2, <1>3 DEF SockOk

LEMMA PeerTakesOk ==
  ASSUME NEW w, SockOk(w), w.down # <<>>, Head(w.down).t # "end", NEW r, r = PeerTakes(w)
  PROVE  SockOk(r) /\ ~Calls(r.down)
         /\ (Calls(w.down) <=> Head(w.down).t = "paired")
<1>1. Socket(w) /\ Queue(w.down) /\ OnceFirst(w.down)
  BY DEF SockOk, Socket
<1>2. /\ r.peer = w.peer /\ r.relay = w.relay /\ r.up = w.up
      /\ r.down = Tail(w.down) /\ Socket(r)
  BY <1>1, PeerTakesIs
<1>3. /\ Ends(w.down) => Ends(r.down)
      /\ OnceFirst(r.down) /\ ~Calls(r.down)
      /\ Calls(w.down) <=> Head(w.down).t = "paired"
  BY <1>1, <1>2, EndsTail, CallsTail
<1> QED BY <1>2, <1>3 DEF SockOk

LEMMA RelayTakesOk ==
  ASSUME NEW w, SockOk(w), w.up # <<>>, Head(w.up).t # "end", NEW r, r = RelayTakes(w)
  PROVE  SockOk(r)
<1>1. Socket(w) /\ Queue(w.up)
  BY DEF SockOk, Socket
<1>2. /\ r.peer = w.peer /\ r.relay = w.relay /\ r.down = w.down
      /\ r.up = Tail(w.up) /\ Socket(r)
  BY <1>1, RelayTakesIs
<1>3. /\ Ends(w.up) => Ends(r.up)
      /\ Plain(w.up) => Plain(r.up)
  BY <1>1, <1>2, EndsTail
<1> QED BY <1>2, <1>3 DEF SockOk

LEMMA PeerClosesOk ==
  ASSUME NEW w, SockOk(w), NEW c, NEW r, r = PeerCloses(w, c)
  PROVE  SockOk(r)
<1>1. Socket(w) /\ Queue(w.up)
  BY DEF SockOk, Socket
<1>2. /\ w.relay = "idle" => /\ r.peer = "closed" /\ r.relay = "closed"
                             /\ r.down = <<>> /\ r.up = w.up
      /\ w.relay # "idle" =>
           /\ r.peer = IF w.peer = "open" THEN "closing" ELSE w.peer
           /\ r.relay = w.relay /\ r.down = w.down
           /\ r.up = IF w.peer = "open" /\ w.relay # "closed"
                       THEN Append(w.up, End(c)) ELSE w.up
      /\ Socket(r)
  BY <1>1, PeerClosesIs
<1>3. CASE w.relay = "idle"
  <2>1. OnceFirst(r.down) /\ Plain(r.up)
    BY <1>2, <1>3, EndsNothing DEF SockOk
  <2> QED BY <1>2, <1>3, <2>1 DEF SockOk
<1>4. CASE w.relay # "idle" /\ w.peer = "open" /\ w.relay # "closed"
  <2>1. Ends(r.up) /\ Plain(r.up)
    <3>1. End(c).t = "end" /\ r.up = Append(w.up, End(c)) /\ Plain(w.up)
      BY <1>2, <1>4, EndIs DEF SockOk
    <3> QED BY <1>1, <3>1, EndsAppend
  <2>2. r.peer = "closing" /\ r.relay = w.relay /\ r.down = w.down
    BY <1>2, <1>4
  <2> QED BY <1>2, <1>4, <2>1, <2>2 DEF SockOk
<1>5. CASE w.relay = "closed" \/ (w.relay # "idle" /\ w.peer # "open")
  <2>1. r.up = w.up /\ r.relay = w.relay /\ r.down = w.down
        /\ r.peer = IF w.peer = "open" THEN "closing" ELSE w.peer
    BY <1>2, <1>5
  <2> QED BY <1>2, <1>5, <2>1 DEF SockOk
<1> QED BY <1>3, <1>4, <1>5

LEMMA RelayClosesOk ==
  ASSUME NEW w, SockOk(w), NEW c, NEW r, r = RelayCloses(w, c)
  PROVE  SockOk(r)
<1>1. Socket(w) /\ Queue(w.down)
  BY DEF SockOk, Socket
<1>2. /\ r.peer = w.peer /\ r.up = w.up
      /\ r.relay = IF w.relay = "open" THEN "closing" ELSE w.relay
      /\ r.down = IF w.relay = "open" /\ w.peer # "closed"
                    THEN Append(w.down, End(c)) ELSE w.down
      /\ Socket(r)
  BY <1>1, RelayClosesIs
<1>3. CASE w.relay = "open" /\ w.peer # "closed"
  <2>1. r.down = Append(w.down, End(c))
    BY <1>2, <1>3
  <2>2. Ends(r.down) /\ OnceFirst(r.down)
    <3>1. End(c).t = "end"
      BY EndIs
    <3> QED BY <1>1, <2>1, <3>1, EndsAppend, CallsAppend DEF SockOk
  <2> QED BY <1>2, <1>3, <2>2 DEF SockOk
<1>4. CASE ~(w.relay = "open" /\ w.peer # "closed")
  BY <1>2, <1>4 DEF SockOk
<1> QED BY <1>3, <1>4

LEMMA PeerEndsOk ==
  ASSUME NEW w, SockOk(w), w.relay # "idle", NEW c, NEW r, r = PeerEnds(w, c)
  PROVE  SockOk(r)
<1>1. Socket(w) /\ Queue(w.up)
  BY DEF SockOk, Socket
<1>2. /\ r.peer = "closed" /\ r.relay = w.relay /\ r.down = <<>>
      /\ r.up = IF w.peer = "open" /\ w.relay # "closed"
                  THEN Append(w.up, End(c)) ELSE w.up
      /\ Socket(r)
  BY <1>1, PeerEndsIs
<1>3. OnceFirst(r.down)
  BY <1>2, EndsNothing
<1>4. CASE w.peer = "open" /\ w.relay # "closed"
  <2>1. Ends(r.up) /\ Plain(r.up)
    BY <1>1, <1>2, <1>4, EndsAppend, EndIs DEF SockOk
  <2> QED BY <1>2, <1>3, <2>1 DEF SockOk
<1>5. CASE ~(w.peer = "open" /\ w.relay # "closed")
  BY <1>2, <1>3, <1>5 DEF SockOk
<1> QED BY <1>4, <1>5

LEMMA RelayEndsOk ==
  ASSUME NEW w, SockOk(w), w.relay # "idle", NEW c, NEW r, r = RelayEnds(w, c)
  PROVE  SockOk(r)
<1>1. Socket(w) /\ Queue(w.down)
  BY DEF SockOk, Socket
<1>2. /\ r.peer = w.peer /\ r.relay = "closed" /\ r.up = <<>>
      /\ r.down = IF w.relay = "open" /\ w.peer # "closed"
                    THEN Append(w.down, End(c)) ELSE w.down
      /\ Socket(r)
  BY <1>1, RelayEndsIs
<1>3. Plain(r.up)
  BY <1>2, EndsNothing
<1>4. CASE w.relay = "open" /\ w.peer # "closed"
  <2>1. r.down = Append(w.down, End(c))
    BY <1>2, <1>4
  <2>2. Ends(r.down) /\ OnceFirst(r.down)
    <3>1. End(c).t = "end"
      BY EndIs
    <3> QED BY <1>1, <2>1, <3>1, EndsAppend, CallsAppend DEF SockOk
  <2> QED BY <1>2, <1>3, <1>4, <2>2 DEF SockOk
<1>5. CASE ~(w.relay = "open" /\ w.peer # "closed")
  <2>1. r.down = w.down
    BY <1>2, <1>5
  <2>2. w.peer = "closed" \/ Ends(w.down)
    BY <1>5, <1>1 DEF SockOk, Socket
  <2> QED BY <1>2, <1>3, <2>1, <2>2 DEF SockOk
<1> QED BY <1>4, <1>5

LEMMA BrokenOk ==
  ASSUME NEW w, SockOk(w), Breakable(w), NEW c, NEW r, r = Broken(w, c)
  PROVE  SockOk(r)
<1>1. Socket(w)
  BY DEF SockOk
<1>2. /\ r.peer = w.peer /\ r.down = <<End(c)>>
      /\ r.relay = IF w.relay = "idle" THEN "closed" ELSE w.relay
      /\ r.up = IF w.relay = "idle" THEN <<>> ELSE <<End(c)>>
      /\ Socket(r)
  BY <1>1, BrokenIs
<1>3. End(c).t = "end"
  BY EndIs
<1>4. Ends(r.down) /\ OnceFirst(r.down) /\ Plain(r.up)
      /\ (w.relay # "idle" => Ends(r.up))
  BY <1>2, <1>3, EndsOne, EndsNothing
<1>5. r.peer # "closed"
  BY <1>2 DEF Breakable
<1> QED BY <1>2, <1>4, <1>5 DEF SockOk

LEMMA AcceptOk ==
  ASSUME NEW w, SockOk(w), w.relay = "idle", NEW r, r = Accept(w)
  PROVE  SockOk(r)
<1>1. Socket(w)
  BY DEF SockOk
<1>2. /\ r.peer = w.peer /\ r.relay = "open" /\ r.up = w.up /\ r.down = w.down
      /\ Socket(r)
  BY <1>1, AcceptIs
<1> QED BY <1>2 DEF SockOk

-----------------------------------------------------------------------------
(* What the operations do to the way through two sockets.                  *)

LEMMA BareShrinks ==
  ASSUME NEW s, Queue(s), NEW r, Queue(r), Bare(r)
  PROVE  Shrinks(s, r)
BY DEF Bare, Shrinks, Arrives

LEMMA ShrinksTwice ==
  ASSUME NEW s, Queue(s), NEW r, Queue(r), NEW q, Queue(q), Shrinks(s, r), Shrinks(r, q)
  PROVE  Shrinks(s, q)
<1> SUFFICES ASSUME NEW i \in 1..Len(q), Arrives(q, i)
             PROVE  i \in 1..Len(s) /\ \A j \in 1..i : q[j] = s[j]
  BY DEF Shrinks
<1>1. i \in 1..Len(r) /\ Arrives(r, i) /\ \A j \in 1..i : r[j] = q[j]
  BY Shrunk
<1>2. i \in 1..Len(s) /\ \A j \in 1..i : s[j] = r[j]
  BY <1>1, Shrunk
<1> QED BY <1>1, <1>2

(* Behind an end nothing arrives.                                          *)
LEMMA Cut ==
  ASSUME NEW p, Queue(p), NEW q, Queue(q), NEW a, Queue(a), NEW b, Queue(b),
         Shrinks(p, a), Ends(a)
  PROVE  Shrinks(p \o q, a \o b)
<1> DEFINE s == p \o q
           r == a \o b
<1>1. /\ Queue(s) /\ Len(s) = Len(p) + Len(q)
      /\ \A i \in 1..Len(p) : s[i] = p[i]
  BY QueueCat
<1>2. /\ Queue(r) /\ Len(r) = Len(a) + Len(b)
      /\ \A i \in 1..Len(a) : r[i] = a[i]
  BY QueueCat
<1>3. Len(p) \in Nat /\ Len(q) \in Nat /\ Len(a) \in Nat /\ Len(b) \in Nat
  BY QueueIs
<1> HIDE DEF s, r
<1>4. ASSUME NEW i \in 1..Len(r), Arrives(r, i)
      PROVE  i \in 1..Len(s) /\ \A j \in 1..i : r[j] = s[j]
  <2>1. PICK k \in 1..Len(a) : a[k].t = "end"
    BY DEF Ends
  <2>2. r[k].t = "end" /\ k \in Nat /\ k <= Len(a)
    BY <2>1, <1>2, <1>3
  <2>3. \A j \in 1..i : r[j].t # "end"
    BY <1>4 DEF Arrives
  <2>4. i \in Nat /\ i >= 1 /\ i < k
    BY <2>1, <2>2, <2>3, <1>2, <1>3
  <2>5. i \in 1..Len(a) /\ \A j \in 1..i : j \in 1..Len(a) /\ r[j] = a[j]
    BY <2>2, <2>4, <1>2, <1>3
  <2>6. Arrives(a, i)
    BY <2>4, <2>5, <1>4 DEF Arrives
  <2>7. i \in 1..Len(p) /\ \A j \in 1..i : p[j] = a[j]
    BY <2>5, <2>6, Shrunk
  <2>8. \A j \in 1..i : j \in 1..Len(p) /\ s[j] = p[j]
    BY <2>4, <2>7, <1>1, <1>3
  <2> QED BY <2>4, <2>5, <2>7, <2>8, <1>1, <1>3
<1> QED BY <1>4 DEF Shrinks, s, r

LEMMA BareBehind ==
  ASSUME NEW p, Queue(p), NEW q, Queue(q), NEW b, Queue(b), Bare(b)
  PROVE  Shrinks(p \o q, p \o b)
<1> DEFINE s == p \o q
           r == p \o b
<1>1. /\ Queue(s) /\ Len(s) = Len(p) + Len(q)
      /\ \A i \in 1..Len(p) : s[i] = p[i]
  BY QueueCat
<1>2. /\ Queue(r) /\ Len(r) = Len(p) + Len(b)
      /\ \A i \in 1..Len(p) : r[i] = p[i]
      /\ \A i \in (Len(p) + 1)..(Len(p) + Len(b)) : r[i] = b[i - Len(p)]
  BY QueueCat
<1>3. Len(p) \in Nat /\ Len(q) \in Nat /\ Len(b) \in Nat
  BY QueueIs
<1> HIDE DEF s, r
<1>4. ASSUME NEW i \in 1..Len(r), Arrives(r, i)
      PROVE  i \in 1..Len(s) /\ \A j \in 1..i : r[j] = s[j]
  <2>1. r[i].t = "bin"
    BY <1>4 DEF Arrives
  <2>2. CASE i > Len(p)
    <3>1. r[i] = b[i - Len(p)] /\ i - Len(p) \in 1..Len(b)
      BY <2>2, <1>2, <1>3
    <3> QED BY <2>1, <3>1 DEF Bare
  <2>3. CASE i <= Len(p)
    BY <2>3, <1>1, <1>2, <1>3
  <2> QED BY <2>2, <2>3, <1>2, <1>3
<1> QED BY <1>4 DEF Shrinks, s, r

LEMMA AppendBehind ==
  ASSUME NEW p, Queue(p), NEW q, Queue(q), NEW m, m.t # "bin" \/ Ends(p) \/ Ends(q)
  PROVE  Shrinks(p \o q, p \o Append(q, m))
<1>1. Queue(p \o q)
  BY QueueCat
<1>2. Ends(p \o q) \/ m.t # "bin"
  BY EndsCat
<1>3. p \o Append(q, m) = Append(p \o q, m)
  BY AppendToCat
<1> QED BY <1>1, <1>2, <1>3, AppendShrinks

(* No binary frame and no `paired` is put on the socket.                   *)
Milder(w, r) ==
  /\ Bare(w.up) => Bare(r.up)
  /\ Bare(w.down) => Bare(r.down)
  /\ Calls(r.down) => Calls(w.down)
  /\ r.relay = "idle" => w.relay = "idle"

LEMMA MilderSame == \A w : Milder(w, w)
BY DEF Milder

LEMMA MilderTwice ==
  ASSUME NEW w, NEW v, NEW r, Milder(w, v), Milder(v, r)
  PROVE  Milder(w, r)
BY DEF Milder

LEMMA ToPeerMilder ==
  ASSUME NEW w, Socket(w), NEW m, m.t \notin {"bin", "paired"}, NEW r, r = ToPeer(w, m)
  PROVE  Milder(w, r)
<1>1. Queue(w.down)
  BY DEF Socket
<1>2. /\ r.relay = w.relay /\ r.up = w.up
      /\ r.down = w.down \/ r.down = Append(w.down, m)
  BY ToPeerIs
<1>4. /\ Bare(w.down) => Bare(Append(w.down, m))
      /\ Calls(Append(w.down, m)) => Calls(w.down)
  BY <1>1, EndsAppend, CallsAppend
<1>3. /\ Bare(w.down) => Bare(r.down)
      /\ Calls(r.down) => Calls(w.down)
  BY <1>2, <1>4
<1> QED BY <1>2, <1>3 DEF Milder

LEMMA PeerTakesMilder ==
  ASSUME NEW w, SockOk(w), w.down # <<>>, Head(w.down).t # "end", NEW r, r = PeerTakes(w)
  PROVE  Milder(w, r)
<1>1. Socket(w) /\ Queue(w.down)
  BY DEF SockOk, Socket
<1>2. /\ r.relay = w.relay /\ r.up = w.up /\ r.down = Tail(w.down)
  BY <1>1, PeerTakesIs
<1>3. ~Calls(r.down)
  BY PeerTakesOk
<1>4. Bare(w.down) => Bare(r.down)
  BY <1>1, <1>2, EndsTail
<1> QED BY <1>2, <1>3, <1>4 DEF Milder

LEMMA RelayTakesMilder ==
  ASSUME NEW w, Socket(w), w.up # <<>>, NEW r, r = RelayTakes(w)
  PROVE  Milder(w, r)
<1>1. Queue(w.up)
  BY DEF Socket
<1>2. /\ r.relay = w.relay /\ r.down = w.down /\ r.up = Tail(w.up)
  BY RelayTakesIs
<1>3. Bare(w.up) => Bare(r.up)
  BY <1>1, <1>2, EndsTail
<1> QED BY <1>2, <1>3 DEF Milder

LEMMA EndAppended ==
  ASSUME NEW q, Queue(q), NEW c
  PROVE  /\ Ends(Append(q, End(c))) /\ Queue(Append(q, End(c)))
         /\ Bare(q) => Bare(Append(q, End(c)))
         /\ Calls(Append(q, End(c))) => Calls(q)
         /\ Shrinks(q, Append(q, End(c)))
<1>1. End(c).t = "end"
  BY EndIs
<1>2. /\ Ends(Append(q, End(c)))
      /\ Bare(q) => Bare(Append(q, End(c)))
  BY <1>1, EndsAppend
<1>3. Calls(Append(q, End(c))) => Calls(q)
  BY <1>1, CallsAppend
<1>4. Shrinks(q, Append(q, End(c)))
  BY <1>1, AppendShrinks
<1> QED BY <1>2, <1>3, <1>4, QueueAppend

LEMMA PeerClosesMilder ==
  ASSUME NEW w, Socket(w), NEW c, NEW r, r = PeerCloses(w, c)
  PROVE  Milder(w, r)
<1>1. Queue(w.up)
  BY DEF Socket
<1>2. /\ r.down = w.down \/ r.down = <<>>
      /\ r.up = w.up \/ r.up = Append(w.up, End(c))
      /\ r.relay = "idle" => w.relay = "idle"
  <2>1. CASE w.relay = "idle"
    BY <2>1, PeerClosesIs
  <2>2. CASE w.relay # "idle"
    <3>1. /\ r.relay = w.relay /\ r.down = w.down
          /\ r.up = IF w.peer = "open" /\ w.relay # "closed"
                      THEN Append(w.up, End(c)) ELSE w.up
      BY <2>2, PeerClosesIs
    <3> QED BY <2>2, <3>1
  <2> QED BY <2>1, <2>2
<1>3. Bare(w.up) => Bare(r.up)
  BY <1>1, <1>2, EndAppended
<1>4. Bare(<<>>) /\ ~Calls(<<>>)
  BY EndsNothing
<1> QED BY <1>2, <1>3, <1>4 DEF Milder

LEMMA RelayClosesMilder ==
  ASSUME NEW w, Socket(w), NEW c, NEW r, r = RelayCloses(w, c)
  PROVE  Milder(w, r)
<1>1. Queue(w.down)
  BY DEF Socket
<1>2. /\ r.up = w.up
      /\ r.down = w.down \/ r.down = Append(w.down, End(c))
      /\ r.relay = "idle" => w.relay = "idle"
  BY RelayClosesIs
<1>3. /\ Bare(w.down) => Bare(r.down)
      /\ Calls(r.down) => Calls(w.down)
  BY <1>1, <1>2, EndAppended
<1> QED BY <1>2, <1>3 DEF Milder

LEMMA PeerEndsMilder ==
  ASSUME NEW w, Socket(w), NEW c, NEW r, r = PeerEnds(w, c)
  PROVE  Milder(w, r)
<1>1. Queue(w.up)
  BY DEF Socket
<1>2. /\ r.down = <<>> /\ r.relay = w.relay
      /\ r.up = w.up \/ r.up = Append(w.up, End(c))
  BY PeerEndsIs
<1>3. Bare(w.up) => Bare(r.up)
  BY <1>1, <1>2, EndAppended
<1>4. Bare(<<>>) /\ ~Calls(<<>>)
  BY EndsNothing
<1> QED BY <1>2, <1>3, <1>4 DEF Milder

LEMMA RelayEndsMilder ==
  ASSUME NEW w, Socket(w), NEW c, NEW r, r = RelayEnds(w, c)
  PROVE  Milder(w, r)
<1>1. Queue(w.down)
  BY DEF Socket
<1>2. /\ r.up = <<>> /\ r.relay = "closed"
      /\ r.down = w.down \/ r.down = Append(w.down, End(c))
  BY RelayEndsIs
<1>3. /\ Bare(w.down) => Bare(r.down)
      /\ Calls(r.down) => Calls(w.down)
  BY <1>1, <1>2, EndAppended
<1>4. Bare(<<>>)
  BY EndsNothing
<1> QED BY <1>2, <1>3, <1>4 DEF Milder

LEMMA BrokenMilder ==
  ASSUME NEW w, Socket(w), NEW c, NEW r, r = Broken(w, c)
  PROVE  Milder(w, r)
<1>1. /\ r.down = <<End(c)>>
      /\ r.up = <<>> \/ r.up = <<End(c)>>
      /\ r.relay = "idle" => w.relay = "idle"
  BY BrokenIs
<1>2. End(c).t = "end"
  BY EndIs
<1>3. Bare(<<>>) /\ Bare(<<End(c)>>) /\ ~Calls(<<End(c)>>)
  BY <1>2, EndsNothing, EndsOne
<1> QED BY <1>1, <1>3 DEF Milder

-----------------------------------------------------------------------------
(* The invariant.                                                          *)

LEMMA Fixed ==
  ASSUME cfg' = cfg
  PROVE  /\ Greeted' = Greeted /\ Responder' = Responder /\ Answered' = Answered
         /\ CkC' = CkC /\ CkD' = CkD /\ Choice' = Choice
         /\ Matched(cfg)' = Matched(cfg)
<1>1. Initiator' = Initiator
  BY DEF Initiator, PatternOf
<1>2. Greeted' = Greeted
  BY <1>1 DEF Greeted
<1>3. Choice' = Choice
  BY DEF Choice, PatternOf
<1>4. Responder' = Responder
  BY <1>3 DEF Responder
<1>5. Heard' = Heard
  BY <1>2, <1>4 DEF Heard
<1>6. Answered' = Answered
  BY <1>5 DEF Answered
<1>7. Understands' = Understands
  BY <1>2, <1>6 DEF Understands
<1>8. CkC' = CkC /\ CkD' = CkD
  BY <1>6, <1>7 DEF CkC, CkD
<1>9. Matched(cfg)' = Matched(cfg)
  BY DEF Matched
<1> QED BY <1>2, <1>3, <1>4, <1>6, <1>8, <1>9

UpKey == <<"k1", CkC>>
DownKey == <<"k2", CkD>>
Rough == Matched([cfg EXCEPT !.cpsk = IF @ = None THEN None ELSE cfg.dpsk])

LEMMA FixedKeys ==
  ASSUME cfg' = cfg
  PROVE  UpKey' = UpKey /\ DownKey' = DownKey /\ (Willing' <=> Willing) /\ (Rough' <=> Rough)
BY Fixed DEF UpKey, DownKey, Willing, Rough, Matched

(* Two ciphers with their counters.                                        *)
Transport(tr) ==
  /\ tr = [send |-> tr.send, recv |-> tr.recv]
  /\ tr.send = [k |-> tr.send.k, n |-> tr.send.n]
  /\ tr.recv = [k |-> tr.recv.k, n |-> tr.recv.n]
  /\ tr.send.n \in Nat /\ tr.recv.n \in Nat

(* Types, and that each end's state is one of its class's.                 *)
Typed ==
  /\ cfg \in Configs
  /\ cl = [st |-> cl.st, hs |-> cl.hs, tr |-> cl.tr, join |-> cl.join]
  /\ cl.st \in {"waiting", "handshaking", "ready", "closed"}
  /\ cl.st = "ready" => Transport(cl.tr)
  /\ dm = [st |-> dm.st, hs |-> dm.hs, tr |-> dm.tr]
  /\ dm.st \in {"connecting", "waiting", "handshaking", "ready", "closed"}
  /\ dm.st = "ready" => Transport(dm.tr)
  /\ entry \in BOOLEAN

(* The two sockets and the relay's entry.                                  *)
Links ==
  /\ SockOk(client) /\ SockOk(data)
  /\ client.relay \in {"open", "closed"}
  /\ member \in {"waiting", "paired", "out"}
  /\ member = "paired" <=> data.relay = "open"
  /\ member = "out" <=> client.relay = "closed"
  /\ data.relay = "closing" => client.relay = "closed"
  /\ data.relay = "idle" =>
       \A k \in 1..Len(client.down) : client.down[k].t = "end"

(* A socket that is closed, and the state of its end.                      *)
Ties ==
  /\ data.peer = "closed" => dm.st = "closed"
  /\ client.peer = "closed" => cl.st = "closed"
  /\ cfg.kind = "page" /\ cl.st \in {"handshaking", "ready"} => client.peer = "open"

(* All that is under way to the daemon, and to the client; live, nothing   *)
(* of it is lost yet.                                                      *)
Up == data.down \o client.up
Down == client.down \o data.up
UpLive == /\ data.relay = "open" /\ data.peer # "closed"
          /\ ~Ends(data.down) /\ ~Ends(client.up)
DownLive == /\ data.relay = "open" /\ client.peer # "closed"
            /\ ~Ends(client.down) /\ ~Ends(data.up)

(* The client has not sent its hello, the daemon has not read it.          *)
CPre == data.relay = "idle" \/ Calls(client.down)
Pre == data.relay = "idle" \/ Calls(data.down) \/ dm.st = "handshaking"
Got == IF cl.st = "ready" THEN cl.tr.recv.n + 1 ELSE 0

(* The client has not read `paired` yet: nothing is sealed, nothing        *)
(* reaches an end but the two notices.                                     *)
NotBegun == CPre =>
  /\ Bare(Up) /\ Bare(Down)
  /\ cl.st \in {"waiting", "closed"} /\ dm.st # "ready"
  /\ DownLive => Len(Down) <= 1
(* The daemon waits for the hello: what reaches it is that hello first,    *)
(* and nothing has reached the client.                                     *)
HelloOnly == Pre =>
  /\ Bare(Down) /\ cl.st # "ready" /\ dm.st # "ready"
  /\ HelloFlow(Up, Greeted.msg)
  /\ UpLive => \A k \in 1..Len(Up) : Up[k].t = "bin" \/ (k = 1 /\ Up[k].t = "paired")
  /\ dm.st = "handshaking" => ~Calls(data.down)
(* The daemon is ready: what reaches it is sealed under its key, at the    *)
(* nonces it expects in a row; and with nothing lost, the frames under way *)
(* are those the client counted beyond what the daemon has.                *)
UpFlows == dm.st = "ready" /\ cl.st \in {"handshaking", "ready"} =>
  /\ Flow(Up, UpKey, dm.tr.recv.n)
  /\ UpLive => /\ Filled(Up)
               /\ dm.tr.recv.n + Len(Up) = IF cl.st = "ready" THEN cl.tr.send.n ELSE 0
(* The same towards the client, whose first frame is the welcome.          *)
DownFlows == cl.st \in {"handshaking", "ready"} =>
  /\ Reached(Down) => Willing
  /\ DFlow(Down, Got, Answered.msg, DownKey)
  /\ DownLive => Filled(Down)
  /\ DownLive /\ dm.st = "ready" => Got + Len(Down) = dm.tr.send.n + 1
(* The states of both ends are those that the handshake computes, and an   *)
(* end is ready only on the terms of ReadyAgree.                           *)
TermsAgree ==
  /\ dm.st = "handshaking" => Willing /\ dm.hs = Responder
  /\ dm.st = "ready" =>
       Willing /\ dm.tr.send.k = DownKey /\ dm.tr.recv.k = <<"k1", CkD>> /\ Rough
  /\ cl.st = "handshaking" => cl.hs = Greeted.hs
  /\ cl.st = "ready" =>
       /\ Willing /\ Matched(cfg) /\ CkC = CkD
       /\ cl.tr.send.k = UpKey /\ cl.tr.recv.k = <<"k2", CkC>>

(* The inductive invariant.                                                *)
IInv == Typed /\ Links /\ Ties /\ NotBegun /\ HelloOnly /\ UpFlows /\ DownFlows /\ TermsAgree

-----------------------------------------------------------------------------
(* Steps that send nothing.                                                *)

UpCalm == Shrinks(Up, Up') /\ (UpLive' => UpLive /\ Up' = Up)
DownCalm == Shrinks(Down, Down') /\ (DownLive' => DownLive /\ Down' = Down)
UpSkips == Up # <<>> /\ Up' = Tail(Up) /\ Up[1].t \notin {"bin", "end"}
           /\ (UpLive' => UpLive)
DownSkips == Down # <<>> /\ Down' = Tail(Down) /\ Down[1].t \notin {"bin", "end"}
             /\ (DownLive' => DownLive)
UpVoid == ~Pre' /\ dm'.st # "ready"
DownVoid == /\ cl'.st \notin {"handshaking", "ready"}
            /\ DownLive' => DownLive /\ Len(Down') <= Len(Down)
UpQuiet == UpCalm \/ UpSkips \/ UpVoid
DownQuiet == DownCalm \/ DownSkips \/ DownVoid

ClKept == cl'.st \in {"handshaking", "ready"} =>
  cl'.st = cl.st /\ cl'.hs = cl.hs /\ cl'.tr = cl.tr
DmKept == dm'.st \in {"handshaking", "ready"} =>
  dm'.st = dm.st /\ dm'.hs = dm.hs /\ dm'.tr = dm.tr
Mild == /\ (CPre' => CPre) /\ (Pre' => Pre)
        /\ (Calls(data.down') => Calls(data.down))
        /\ (Bare(Up) => Bare(Up')) /\ (Bare(Down) => Bare(Down'))

LEMMA Queues ==
  ASSUME Links
  PROVE  /\ Queue(data.down) /\ Queue(client.up) /\ Queue(client.down) /\ Queue(data.up)
         /\ Queue(Up) /\ Queue(Down)
<1>1. Queue(data.down) /\ Queue(client.up) /\ Queue(client.down) /\ Queue(data.up)
  BY DEF Links, SockOk, Socket
<1> QED BY <1>1, QueueCat DEF Up, Down

LEMMA QueuesNext ==
  ASSUME Links'
  PROVE  /\ Queue(data'.down) /\ Queue(client'.up) /\ Queue(client'.down) /\ Queue(data'.up)
         /\ Queue(Up') /\ Queue(Down')
<1>1. Queue(data'.down) /\ Queue(client'.up) /\ Queue(client'.down) /\ Queue(data'.up)
  BY DEF Links, SockOk, Socket
<1> QED BY <1>1, QueueCat DEF Up, Down

LEMMA SkipsFlow ==
  ASSUME NEW s, Queue(s), s # <<>>, s[1].t \notin {"bin", "end"}
  PROVE  /\ \A k, n : Flow(s, k, n) => \A kk, nn : Flow(Tail(s), kk, nn)
         /\ \A got, m, k : DFlow(s, got, m, k) =>
              ~Reached(Tail(s)) /\ DFlow(Tail(s), got, m, k)
<1>1. Queue(Tail(s)) /\ Len(s) \in Nat \ {0}
  BY QueueTail
<1>2. 1 \in 1..Len(s)
  BY <1>1
<1>3. ASSUME Reached(Tail(s))
      PROVE  \E i \in 1..Len(s) : Arrives(s, i) /\ 1 \in 1..(i - 1)
  <2>1. PICK i \in 1..Len(Tail(s)) : Arrives(Tail(s), i)
    BY <1>3 DEF Reached
  <2>2. i + 1 \in 1..Len(s) /\ Arrives(s, i + 1)
    BY <2>1, TailArrives
  <2>3. 1 \in 1..((i + 1) - 1)
    BY <1>1, QueueTail
  <2> QED BY <2>2, <2>3
<1>4. ASSUME NEW k, NEW n, Flow(s, k, n) PROVE ~Reached(Tail(s))
  BY <1>3, <1>4 DEF Flow
<1>5. ASSUME NEW got, NEW m, NEW k, DFlow(s, got, m, k) PROVE ~Reached(Tail(s))
  BY <1>3, <1>5 DEF DFlow
<1> QED BY <1>1, <1>4, <1>5, NothingFlows

-----------------------------------------------------------------------------
(* Steps that send nothing keep the invariant.                             *)

LEMMA QuietFirst ==
  ASSUME Links, Links', Typed', NotBegun, ClKept, DmKept, Mild, DownQuiet
  PROVE  NotBegun'
<1> SUFFICES ASSUME CPre'
             PROVE  /\ Bare(Up') /\ Bare(Down')
                    /\ cl'.st \in {"waiting", "closed"} /\ dm'.st # "ready"
                    /\ DownLive' => Len(Down') <= 1
  BY DEF NotBegun
<1>1. /\ Bare(Up) /\ Bare(Down) /\ cl.st \in {"waiting", "closed"} /\ dm.st # "ready"
      /\ DownLive => Len(Down) <= 1
  BY DEF NotBegun, Mild
<1>2. Bare(Up') /\ Bare(Down')
  BY <1>1 DEF Mild
<1>3. cl'.st \in {"waiting", "closed"} /\ dm'.st # "ready"
  BY <1>1 DEF ClKept, DmKept, Typed
<1>4. ASSUME DownLive' PROVE Len(Down') <= 1
  <2>1. Len(Down) \in Nat /\ Len(Down') \in Nat
    BY Queues, QueuesNext, QueueIs
  <2>2. CASE DownCalm
    BY <1>1, <1>4, <2>2 DEF DownCalm
  <2>3. CASE DownSkips
    <3>1. Len(Down') = Len(Down) - 1 /\ DownLive
      BY <1>4, <2>3, Queues, QueueTail DEF DownSkips
    <3> QED BY <1>1, <2>1, <3>1
  <2>4. CASE DownVoid
    BY <1>1, <1>4, <2>1, <2>4 DEF DownVoid
  <2> QED BY <2>2, <2>3, <2>4 DEF DownQuiet
<1> QED BY <1>2, <1>3, <1>4

LEMMA QuietHello ==
  ASSUME Links, Links', Typed', HelloOnly, ClKept, DmKept, Mild, UpQuiet, cfg' = cfg
  PROVE  HelloOnly'
<1> SUFFICES ASSUME Pre'
             PROVE  /\ Bare(Down') /\ cl'.st # "ready" /\ dm'.st # "ready"
                    /\ HelloFlow(Up', Greeted.msg)
                    /\ UpLive' => \A k \in 1..Len(Up') :
                         Up'[k].t = "bin" \/ (k = 1 /\ Up'[k].t = "paired")
                    /\ dm'.st = "handshaking" => ~Calls(data'.down)
  BY Fixed DEF HelloOnly
<1>1. /\ Bare(Down) /\ cl.st # "ready" /\ dm.st # "ready"
      /\ HelloFlow(Up, Greeted.msg)
      /\ UpLive => \A k \in 1..Len(Up) : Up[k].t = "bin" \/ (k = 1 /\ Up[k].t = "paired")
      /\ dm.st = "handshaking" => ~Calls(data.down)
  BY DEF HelloOnly, Mild
<1>2. Bare(Down') /\ cl'.st # "ready" /\ dm'.st # "ready"
      /\ (dm'.st = "handshaking" => ~Calls(data'.down))
  BY <1>1 DEF ClKept, DmKept, Mild
<1>3. Queue(Up) /\ Queue(Up')
  BY Queues, QueuesNext
<1>4. CASE UpCalm
  <2>1. HelloFlow(Up', Greeted.msg)
    <3>1. PICK m : m = Greeted.msg
      OBVIOUS
    <3>2. Shrinks(Up, Up') /\ HelloFlow(Up, m)
      BY <1>1, <1>4, <3>1 DEF UpCalm
    <3>3. HelloFlow(Up', m)
      BY <1>3, <3>2, ShrinksHello
    <3> QED BY <3>1, <3>3
  <2>2. UpLive' => UpLive /\ Up' = Up
    BY <1>4 DEF UpCalm
  <2> QED BY <1>1, <1>2, <2>1, <2>2
<1>5. CASE UpSkips
  <2>1. Up # <<>> /\ Up' = Tail(Up) /\ Up[1].t \notin {"bin", "end"}
        /\ (UpLive' => UpLive)
    BY <1>5 DEF UpSkips
  <2>2. HelloFlow(Up', Greeted.msg)
    <3>1. PICK m : m = Greeted.msg
      OBVIOUS
    <3>2. HelloFlow(Up, m)
      BY <1>1, <3>1
    <3>3. HelloFlow(Up', m)
      BY <1>3, <2>1, <3>2, HelloTail
    <3> QED BY <3>1, <3>3
  <2>3. ASSUME UpLive', NEW k \in 1..Len(Up') PROVE Up'[k].t = "bin"
    <3>1. /\ Len(Up) \in Nat \ {0} /\ Len(Up') = Len(Up) - 1
          /\ \A i \in 1..(Len(Up) - 1) : Up'[i] = Up[i + 1]
      BY <1>3, <2>1, QueueTail
    <3>2. k + 1 \in 1..Len(Up) /\ k + 1 # 1 /\ Up'[k] = Up[k + 1]
      BY <3>1
    <3> QED BY <1>1, <2>1, <2>3, <3>2
  <2> QED BY <1>2, <2>2, <2>3
<1>6. CASE UpVoid
  BY <1>6 DEF UpVoid
<1> QED BY <1>4, <1>5, <1>6 DEF UpQuiet

LEMMA QuietUp ==
  ASSUME Links, Links', UpFlows, ClKept, DmKept, UpQuiet, cfg' = cfg
  PROVE  UpFlows'
<1> SUFFICES ASSUME dm'.st = "ready", cl'.st \in {"handshaking", "ready"}
             PROVE  /\ Flow(Up', UpKey, dm'.tr.recv.n)
                    /\ UpLive' =>
                         /\ Filled(Up')
                         /\ dm'.tr.recv.n + Len(Up')
                              = IF cl'.st = "ready" THEN cl'.tr.send.n ELSE 0
  BY FixedKeys DEF UpFlows
<1>1. dm'.st = dm.st /\ dm'.tr = dm.tr /\ cl'.st = cl.st /\ cl'.tr = cl.tr
  BY DEF ClKept, DmKept
<1> DEFINE n == dm.tr.recv.n
           x == IF cl.st = "ready" THEN cl.tr.send.n ELSE 0
<1>2. /\ Flow(Up, UpKey, n)
      /\ UpLive => Filled(Up) /\ n + Len(Up) = x
  BY <1>1 DEF UpFlows
<1>3. Queue(Up) /\ Queue(Up')
  BY Queues, QueuesNext
<1>4. CASE UpCalm
  <2>1. Flow(Up', UpKey, n)
    <3> HIDE DEF n, x
    <3> QED BY <1>2, <1>3, <1>4, ShrinksFlow DEF UpCalm
  <2> QED BY <1>1, <1>2, <1>4, <2>1 DEF UpCalm
<1>5. CASE UpSkips
  <2>1. Up # <<>> /\ Up' = Tail(Up) /\ Up[1].t \notin {"bin", "end"}
        /\ (UpLive' => UpLive)
    BY <1>5 DEF UpSkips
  <2>2. Flow(Up', UpKey, n)
    <3> HIDE DEF n, x
    <3> QED BY <1>2, <1>3, <2>1, SkipsFlow
  <2>3. ~UpLive'
    <3>1. 1 \in 1..Len(Up)
      BY <1>3, <2>1, QueueTail
    <3> QED BY <1>2, <2>1, <3>1 DEF Filled
  <2> QED BY <1>1, <2>2, <2>3
<1>6. CASE UpVoid
  BY <1>6 DEF UpVoid
<1> QED BY <1>4, <1>5, <1>6 DEF UpQuiet

LEMMA QuietDown ==
  ASSUME Links, Links', DownFlows, ClKept, DmKept, DownQuiet, cfg' = cfg
  PROVE  DownFlows'
<1> SUFFICES ASSUME cl'.st \in {"handshaking", "ready"}
             PROVE  /\ Reached(Down') => Willing
                    /\ DFlow(Down', Got', Answered.msg, DownKey)
                    /\ DownLive' => Filled(Down')
                    /\ DownLive' /\ dm'.st = "ready" => Got' + Len(Down') = dm'.tr.send.n + 1
  BY Fixed, FixedKeys DEF DownFlows
<1>1. cl'.st = cl.st /\ cl'.tr = cl.tr /\ (dm'.st = "ready" => dm.st = "ready" /\ dm'.tr = dm.tr)
  BY DEF ClKept, DmKept
<1>2. PICK m, g : m = Answered.msg /\ g = Got
  OBVIOUS
<1>3. Got' = g
  BY <1>1, <1>2 DEF Got
<1>4. /\ Reached(Down) => Willing
      /\ DFlow(Down, g, m, DownKey)
      /\ DownLive => Filled(Down)
      /\ DownLive /\ dm.st = "ready" => g + Len(Down) = dm.tr.send.n + 1
  BY <1>1, <1>2 DEF DownFlows
<1>5. Queue(Down) /\ Queue(Down')
  BY Queues, QueuesNext
<1>6. CASE DownCalm
  <2>1. /\ DFlow(Down', g, m, DownKey)
        /\ Reached(Down') => Reached(Down)
    BY <1>4, <1>5, <1>6, ShrinksDFlow, ShrinksReached DEF DownCalm
  <2>2. DownLive' => DownLive /\ Down' = Down
    BY <1>6 DEF DownCalm
  <2> QED BY <1>1, <1>2, <1>3, <1>4, <2>1, <2>2
<1>7. CASE DownSkips
  <2>1. Down # <<>> /\ Down' = Tail(Down) /\ Down[1].t \notin {"bin", "end"}
        /\ (DownLive' => DownLive)
    BY <1>7 DEF DownSkips
  <2>2. DFlow(Down', g, m, DownKey) /\ ~Reached(Down')
    BY <1>4, <1>5, <2>1, SkipsFlow
  <2>3. ~DownLive'
    <3>1. 1 \in 1..Len(Down)
      BY <1>5, <2>1, QueueTail
    <3> QED BY <1>4, <2>1, <3>1 DEF Filled
  <2> QED BY <1>2, <1>3, <2>2, <2>3
<1>8. CASE DownVoid
  BY <1>8 DEF DownVoid
<1> QED BY <1>6, <1>7, <1>8 DEF DownQuiet

LEMMA QuietEnds ==
  ASSUME TermsAgree, ClKept, DmKept, cfg' = cfg
  PROVE  TermsAgree'
<1>1. /\ Responder' = Responder /\ Greeted' = Greeted /\ CkC' = CkC /\ CkD' = CkD
      /\ Matched(cfg)' = Matched(cfg) /\ UpKey' = UpKey /\ DownKey' = DownKey
      /\ (Willing' <=> Willing) /\ (Rough' <=> Rough)
  BY Fixed, FixedKeys
<1>2. dm'.st = "handshaking" => Willing /\ dm'.hs = Responder
  BY DEF TermsAgree, DmKept
<1>3. dm'.st = "ready" =>
        Willing /\ dm'.tr.send.k = DownKey /\ dm'.tr.recv.k = <<"k1", CkD>> /\ Rough
  BY DEF TermsAgree, DmKept
<1>4. cl'.st = "handshaking" => cl'.hs = Greeted.hs
  BY DEF TermsAgree, ClKept
<1>5. cl'.st = "ready" =>
        /\ Willing /\ Matched(cfg) /\ CkC = CkD
        /\ cl'.tr.send.k = UpKey /\ cl'.tr.recv.k = <<"k2", CkC>>
  BY DEF TermsAgree, ClKept
<1> QED BY <1>1, <1>2, <1>3, <1>4, <1>5 DEF TermsAgree

LEMMA Quiet ==
  ASSUME IInv, Typed', Links', ClKept, DmKept, Mild, UpQuiet, DownQuiet, cfg' = cfg
  PROVE  NotBegun' /\ HelloOnly' /\ UpFlows' /\ DownFlows' /\ TermsAgree'
<1> USE DEF IInv
<1>1. NotBegun'
  BY QuietFirst
<1>2. HelloOnly'
  BY QuietHello
<1>3. UpFlows'
  BY QuietUp
<1>4. DownFlows'
  BY QuietDown
<1>5. TermsAgree'
  BY QuietEnds
<1> QED BY <1>1, <1>2, <1>3, <1>4, <1>5

-----------------------------------------------------------------------------
(* How a step of one socket moves the two ways.                            *)

LEMMA LinksData ==
  ASSUME Links, client' = client, member' = member, SockOk(data'),
         data'.relay = data.relay \/ (data.relay # "open" /\ data'.relay = "closed")
  PROVE  Links'
BY DEF Links

LEMMA LinksClient ==
  ASSUME Links, data' = data, member' = member, SockOk(client'),
         client'.relay = client.relay,
         data.relay = "idle" => \A k \in 1..Len(client'.down) : client'.down[k].t = "end"
  PROVE  Links'
BY DEF Links

LEMMA UpFromClient ==
  ASSUME Links, Links', data' = data,
         \/ client'.up = client.up
         \/ client'.up = Append(client.up, End(None))
         \/ client'.up = <<End(None)>>
  PROVE  UpCalm
<1> DEFINE p == data.down
           q == client.up
           e == End(None)
<1>1. Queue(p) /\ Queue(q) /\ e.t = "end" /\ data'.down = p
      /\ Queue(p \o q) /\ Queue(<<e>>)
  BY Queues, EndIs, QueueCat, OneQueue
<1>2. CASE client'.up = q
  <2>1. Up' = Up
    BY <1>1, <1>2 DEF Up
  <2>2. Shrinks(Up, Up')
    BY <2>1, <1>1, ShrinksSame DEF Up
  <2>3. UpLive' => UpLive
    BY <1>2 DEF UpLive
  <2> QED BY <2>1, <2>2, <2>3 DEF UpCalm
<1>3. CASE client'.up = Append(q, e)
  <2>1. Up' = p \o Append(q, e)
    BY <1>1, <1>3 DEF Up
  <2>2. Shrinks(p \o q, p \o Append(q, e))
    <3> HIDE DEF p, q, e
    <3> QED BY <1>1, AppendBehind
  <2>3. Ends(client'.up)
    BY <1>1, <1>3, EndAppended
  <2> QED BY <2>1, <2>2, <2>3 DEF UpCalm, Up, UpLive
<1>4. CASE client'.up = <<e>>
  <2>0. Bare(<<e>>) /\ Ends(<<e>>)
    BY <1>1, EndsOne
  <2>1. Up' = p \o <<e>>
    BY <1>1, <1>4 DEF Up
  <2>2. Shrinks(p \o q, p \o <<e>>)
    <3> HIDE DEF p, q, e
    <3> QED BY <1>1, <2>0, BareBehind
  <2> QED BY <1>4, <2>0, <2>1, <2>2 DEF UpCalm, Up, UpLive
<1> QED BY <1>2, <1>3, <1>4

LEMMA DownFromData ==
  ASSUME Links, Links', client' = client,
         data'.relay = "open" => data.relay = "open",
         \/ data'.up = data.up
         \/ data'.up = Append(data.up, End(None))
         \/ data'.up = <<End(None)>>
         \/ data'.up = <<>> /\ data'.relay # "open"
  PROVE  DownCalm
<1> DEFINE p == client.down
           q == data.up
           e == End(None)
<1>1. Queue(p) /\ Queue(q) /\ e.t = "end" /\ client'.down = p
      /\ Queue(p \o q) /\ Queue(<<e>>) /\ Queue(<<>>)
  BY Queues, EndIs, QueueCat, OneQueue, EmptyQueue
<1>2. CASE data'.up = q
  <2>1. Down' = Down
    BY <1>1, <1>2 DEF Down
  <2>2. Shrinks(Down, Down')
    BY <2>1, <1>1, ShrinksSame DEF Down
  <2>3. DownLive' => DownLive
    BY <1>2 DEF DownLive
  <2> QED BY <2>1, <2>2, <2>3 DEF DownCalm
<1>3. CASE data'.up = Append(q, e)
  <2>1. Down' = p \o Append(q, e)
    BY <1>1, <1>3 DEF Down
  <2>2. Shrinks(p \o q, p \o Append(q, e))
    <3> HIDE DEF p, q, e
    <3> QED BY <1>1, AppendBehind
  <2>3. Ends(data'.up)
    BY <1>1, <1>3, EndAppended
  <2> QED BY <2>1, <2>2, <2>3 DEF DownCalm, Down, DownLive
<1>4. CASE data'.up = <<e>>
  <2>0. Bare(<<e>>) /\ Ends(<<e>>)
    BY <1>1, EndsOne
  <2>1. Down' = p \o <<e>>
    BY <1>1, <1>4 DEF Down
  <2>2. Shrinks(p \o q, p \o <<e>>)
    <3> HIDE DEF p, q, e
    <3> QED BY <1>1, <2>0, BareBehind
  <2> QED BY <1>4, <2>0, <2>1, <2>2 DEF DownCalm, Down, DownLive
<1>5. CASE data'.up = <<>> /\ data'.relay # "open"
  <2>0. Bare(<<>>)
    BY EndsNothing
  <2>1. Down' = p \o <<>>
    BY <1>1, <1>5 DEF Down
  <2>2. Shrinks(p \o q, p \o <<>>)
    <3> HIDE DEF p, q, e
    <3> QED BY <1>1, <2>0, BareBehind
  <2> QED BY <1>5, <2>1, <2>2 DEF DownCalm, Down, DownLive
<1> QED BY <1>2, <1>3, <1>4, <1>5

LEMMA UpCut ==
  ASSUME Links, Links', Ends(data'.down), Shrinks(data.down, data'.down)
  PROVE  UpCalm
<1>1. /\ Queue(data.down) /\ Queue(client.up)
      /\ Queue(data'.down) /\ Queue(client'.up)
  BY Queues, QueuesNext
<1>2. Shrinks(Up, Up')
  BY <1>1, Cut DEF Up
<1> QED BY <1>2 DEF UpCalm, UpLive

LEMMA DownCut ==
  ASSUME Links, Links', Ends(client'.down), Shrinks(client.down, client'.down)
  PROVE  DownCalm
<1>1. /\ Queue(client.down) /\ Queue(data.up)
      /\ Queue(client'.down) /\ Queue(data'.up)
  BY Queues, QueuesNext
<1>2. Shrinks(Down, Down')
  BY <1>1, Cut DEF Down
<1> QED BY <1>2 DEF DownCalm, DownLive

LEMMA MildOnes ==
  ASSUME Links, Milder(client, client'), Milder(data, data'), DmKept, Links'
  PROVE  Mild
<1>1. /\ Bare(Up) <=> Bare(data.down) /\ Bare(client.up)
      /\ Bare(Down) <=> Bare(client.down) /\ Bare(data.up)
  BY Queues, EndsCat DEF Up, Down
<1>2. /\ Bare(Up') <=> Bare(data'.down) /\ Bare(client'.up)
      /\ Bare(Down') <=> Bare(client'.down) /\ Bare(data'.up)
  BY QueuesNext, EndsCat DEF Up, Down
<1>3. /\ Calls(data'.down) => Calls(data.down)
      /\ Calls(client'.down) => Calls(client.down)
      /\ data'.relay = "idle" => data.relay = "idle"
      /\ Bare(Up) => Bare(Up')
      /\ Bare(Down) => Bare(Down')
  BY <1>1, <1>2 DEF Milder
<1>4. dm'.st = "handshaking" => dm.st = "handshaking"
  BY DEF DmKept
<1> QED BY <1>3, <1>4 DEF Mild, CPre, Pre

(* A process takes a message, and may close the socket at once.            *)
LEMMA Took ==
  ASSUME NEW w, SockOk(w), NEW t, t # "end", Hears(w, t), NEW r, r = PeerTakes(w)
  PROVE  /\ SockOk(r) /\ Milder(w, r) /\ ~Calls(r.down) /\ (Calls(w.down) <=> t = "paired")
         /\ r.peer = w.peer /\ r.relay = w.relay /\ r.up = w.up /\ r.down = Tail(w.down)
         /\ w.relay # "idle" /\ w.down # <<>> /\ w.down[1] = Head(w.down)
         /\ w.peer # "closed" /\ Head(w.down).t = t
         /\ \E k \in 1..Len(w.down) : w.down[k].t # "end"
<1>1. w.peer \in {"open", "closing"} /\ w.down # <<>> /\ Head(w.down).t = t
  BY DEF Hears
<1>2. Socket(w) /\ Queue(w.down)
  BY DEF SockOk, Socket
<1>3. SockOk(r) /\ ~Calls(r.down) /\ (Calls(w.down) <=> t = "paired")
  BY <1>1, PeerTakesOk
<1>4. Milder(w, r)
  BY <1>1, PeerTakesMilder
<1>5. r.peer = w.peer /\ r.relay = w.relay /\ r.up = w.up /\ r.down = Tail(w.down)
  BY <1>1, <1>2, PeerTakesIs
<1>6. w.relay # "idle"
  BY <1>1 DEF SockOk
<1>7. w.down[1] = Head(w.down) /\ 1 \in 1..Len(w.down)
  BY <1>1, <1>2, QueueTail
<1>8. \E k \in 1..Len(w.down) : w.down[k].t # "end"
  BY <1>1, <1>7
<1> QED BY <1>1, <1>3, <1>4, <1>5, <1>6, <1>7, <1>8

LEMMA TookAndCloses ==
  ASSUME NEW w, SockOk(w), NEW t, t # "end", Hears(w, t), NEW r,
         r = PeerCloses(PeerTakes(w), None)
  PROVE  /\ SockOk(r) /\ Milder(w, r) /\ ~Calls(r.down) /\ (Calls(w.down) <=> t = "paired")
         /\ r.peer # "closed" /\ r.relay = w.relay /\ r.down = Tail(w.down)
         /\ r.up = w.up \/ r.up = Append(w.up, End(None))
         /\ w.relay # "idle" /\ w.down # <<>> /\ w.down[1] = Head(w.down)
         /\ w.peer # "closed" /\ Head(w.down).t = t
         /\ \E k \in 1..Len(w.down) : w.down[k].t # "end"
<1>1. PICK v : v = PeerTakes(w)
  OBVIOUS
<1>2. /\ SockOk(v) /\ Milder(w, v) /\ ~Calls(v.down) /\ (Calls(w.down) <=> t = "paired")
      /\ v.peer = w.peer /\ v.relay = w.relay /\ v.up = w.up /\ v.down = Tail(w.down)
      /\ w.relay # "idle" /\ w.down # <<>> /\ w.down[1] = Head(w.down)
      /\ w.peer # "closed" /\ Head(w.down).t = t
      /\ \E k \in 1..Len(w.down) : w.down[k].t # "end"
  BY <1>1, Took
<1>3. r = PeerCloses(v, None) /\ Socket(v)
  BY <1>1, <1>2 DEF SockOk
<1>4. SockOk(r)
  BY <1>2, <1>3, PeerClosesOk
<1>5. Milder(w, r)
  BY <1>2, <1>3, PeerClosesMilder, MilderTwice
<1>6. /\ r.peer = IF v.peer = "open" THEN "closing" ELSE v.peer
      /\ r.relay = v.relay /\ r.down = v.down
      /\ r.up = IF v.peer = "open" /\ v.relay # "closed"
                  THEN Append(v.up, End(None)) ELSE v.up
  BY <1>2, <1>3, PeerClosesIs
<1> QED BY <1>2, <1>4, <1>5, <1>6

LEMMA UpTail ==
  ASSUME Links, data.down # <<>>, data'.down = Tail(data.down), client'.up = client.up
  PROVE  Up # <<>> /\ Up' = Tail(Up) /\ Up[1] = Head(data.down) /\ Queue(Up)
         /\ (data'.relay = data.relay /\ UpLive' => UpLive \/ data.peer = "closed"
                                                   \/ Head(data.down).t = "end")
<1>1. Queue(data.down) /\ Queue(client.up) /\ Queue(Up)
  BY Queues
<1>2. Tail(data.down) \o client.up = Tail(Up) /\ Up # <<>> /\ Head(data.down) = Up[1]
  BY <1>1, TailOfCat DEF Up
<1>3. Up' = Tail(Up)
  BY <1>2 DEF Up
<1>4. Ends(data.down) <=> Ends(Tail(data.down)) \/ Head(data.down).t = "end"
  BY <1>1, EndsTail
<1> QED BY <1>1, <1>2, <1>3, <1>4 DEF UpLive

LEMMA DownTail ==
  ASSUME Links, client.down # <<>>, client'.down = Tail(client.down), data'.up = data.up
  PROVE  Down # <<>> /\ Down' = Tail(Down) /\ Down[1] = Head(client.down) /\ Queue(Down)
         /\ (data'.relay = data.relay /\ DownLive' => DownLive \/ client.peer = "closed"
                                                     \/ Head(client.down).t = "end")
<1>1. Queue(client.down) /\ Queue(data.up) /\ Queue(Down)
  BY Queues
<1>2. Tail(client.down) \o data.up = Tail(Down) /\ Down # <<>> /\ Head(client.down) = Down[1]
  BY <1>1, TailOfCat DEF Down
<1>3. Down' = Tail(Down)
  BY <1>2 DEF Down
<1>4. Ends(client.down) <=> Ends(Tail(client.down)) \/ Head(client.down).t = "end"
  BY <1>1, EndsTail
<1> QED BY <1>1, <1>2, <1>3, <1>4 DEF DownLive

-----------------------------------------------------------------------------
(* Frames that are dropped or end a side.                                  *)

LEMMA DaemonQuits ==
  ASSUME IInv, Typed', DmKept, cfg' = cfg, cl' = cl, client' = client, member' = member,
         NEW t, t # "end", Hears(data, t),
         data' = PeerTakes(data) \/ data' = PeerCloses(PeerTakes(data), None),
         t # "bin" \/ dm'.st \notin {"handshaking", "ready"}
  PROVE  IInv'
<1>1. SockOk(data) /\ SockOk(client)
  BY DEF IInv, Links
<1>2. /\ SockOk(data') /\ Milder(data, data') /\ ~Calls(data'.down)
      /\ data'.relay = data.relay /\ data'.down = Tail(data.down)
      /\ data'.up = data.up \/ data'.up = Append(data.up, End(None))
      /\ data.relay # "idle" /\ data.down # <<>> /\ Head(data.down).t = t
      /\ data.peer # "closed" /\ data'.peer # "closed"
  <2>1. CASE data' = PeerTakes(data)
    BY <1>1, <2>1, Took
  <2>2. CASE data' = PeerCloses(PeerTakes(data), None)
    BY <1>1, <2>2, TookAndCloses
  <2> QED BY <2>1, <2>2
<1>3. Links'
  BY <1>2, LinksData DEF IInv
<1>4. Ties'
  BY <1>2 DEF IInv, Ties
<1>5. DownCalm
  BY <1>2, <1>3, DownFromData DEF IInv
<1>6. UpQuiet
  <2>1. CASE dm'.st \notin {"handshaking", "ready"}
    BY <1>2, <2>1 DEF UpQuiet, UpVoid, Pre
  <2>2. CASE t # "bin"
    <3>1. /\ Up # <<>> /\ Up' = Tail(Up) /\ Up[1] = Head(data.down)
          /\ UpLive' => UpLive
      BY <1>2, UpTail DEF IInv
    <3> QED BY <1>2, <2>2, <3>1 DEF UpQuiet, UpSkips
  <2> QED BY <2>1, <2>2
<1>7. Mild
  BY <1>2, <1>3, MilderSame, MildOnes DEF IInv
<1>8. ClKept
  BY DEF ClKept
<1> QED BY <1>3, <1>4, <1>5, <1>6, <1>7, <1>8, Quiet DEF IInv, DownQuiet

LEMMA ClientQuits ==
  ASSUME IInv, Typed', Ties', ClKept, cfg' = cfg, dm' = dm, data' = data, member' = member,
         NEW t, t # "end", Hears(client, t),
         client' = PeerTakes(client) \/ client' = PeerCloses(PeerTakes(client), None),
         t # "bin" \/ cl'.st \notin {"handshaking", "ready"}
  PROVE  IInv'
<1>1. SockOk(data) /\ SockOk(client)
  BY DEF IInv, Links
<1>2. /\ SockOk(client') /\ Milder(client, client')
      /\ client'.relay = client.relay /\ client'.down = Tail(client.down)
      /\ client'.up = client.up \/ client'.up = Append(client.up, End(None))
      /\ client.down # <<>> /\ Head(client.down).t = t
      /\ client.peer # "closed"
      /\ \E k \in 1..Len(client.down) : client.down[k].t # "end"
  <2>1. CASE client' = PeerTakes(client)
    BY <1>1, <2>1, Took
  <2>2. CASE client' = PeerCloses(PeerTakes(client), None)
    BY <1>1, <2>2, TookAndCloses
  <2> QED BY <2>1, <2>2
<1>3. Links'
  <2>1. data.relay # "idle"
    BY <1>2 DEF IInv, Links
  <2> QED BY <1>2, <2>1, LinksClient DEF IInv
<1>4. UpCalm
  BY <1>2, <1>3, UpFromClient DEF IInv
<1>5. DownQuiet
  <2>1. /\ Down # <<>> /\ Down' = Tail(Down) /\ Down[1] = Head(client.down) /\ Queue(Down)
        /\ DownLive' => DownLive
    BY <1>2, DownTail DEF IInv
  <2>2. CASE cl'.st \notin {"handshaking", "ready"}
    <3>1. Len(Down') <= Len(Down)
      BY <2>1, QueueTail
    <3> QED BY <2>1, <2>2, <3>1 DEF DownQuiet, DownVoid
  <2>3. CASE t # "bin"
    BY <1>2, <2>1, <2>3 DEF DownQuiet, DownSkips
  <2> QED BY <2>2, <2>3
<1>6. DmKept
  BY DEF DmKept
<1>7. Mild
  BY <1>2, <1>3, <1>6, MilderSame, MildOnes DEF IInv
<1> QED BY <1>3, <1>4, <1>5, <1>6, <1>7, Quiet DEF IInv, UpQuiet

(* What the records become.                                                *)
LEMMA DmClosed ==
  ASSUME Typed, cl' = cl, cfg' = cfg, dm' = Close(dm), entry' \in BOOLEAN
  PROVE  Typed' /\ dm'.st = "closed" /\ DmKept
<1>1. dm' = [st |-> "closed", hs |-> dm.hs, tr |-> dm.tr]
  BY DEF Typed, Close
<1> QED BY <1>1 DEF Typed, DmKept

LEMMA ClClosed ==
  ASSUME Typed, cfg' = cfg, cl' = GivesUp(cl), dm' = dm, entry' = entry
  PROVE  Typed' /\ cl'.st = "closed" /\ ClKept
<1>1. PICK j : cl' = [cl EXCEPT !.st = "closed", !.join = j]
  BY DEF GivesUp, Typed
<1>2. cl' = [st |-> "closed", hs |-> cl.hs, tr |-> cl.tr, join |-> j]
  BY <1>1 DEF Typed
<1> QED BY <1>2 DEF Typed, ClKept

LEMMA ErrorIs ==
  ASSUME Typed
  PROVE  AfterError \in BOOLEAN
BY DEF AfterError, Typed

LEMMA StepDaemonDrops == IInv /\ DaemonDrops => IInv'
<1> SUFFICES ASSUME IInv, DaemonDrops PROVE IInv'
  OBVIOUS
<1>1. Typed' /\ DmKept
  BY DEF IInv, Typed, DaemonDrops, DmKept
<1>2. /\ cfg' = cfg /\ cl' = cl /\ client' = client /\ member' = member
      /\ Hears(data, "bin") /\ data' = PeerTakes(data)
      /\ dm'.st \notin {"handshaking", "ready"}
  BY DEF DaemonDrops
<1> QED BY <1>1, <1>2, DaemonQuits

LEMMA StepPeerLost == IInv /\ PeerLost => IInv'
<1> SUFFICES ASSUME IInv, PeerLost PROVE IInv'
  OBVIOUS
<1>1. /\ cfg' = cfg /\ cl' = cl /\ client' = client /\ member' = member
      /\ Hears(data, "peer_disconnected")
      /\ data' = PeerTakes(data) \/ data' = PeerCloses(PeerTakes(data), None)
      /\ entry' = FALSE
  BY DEF PeerLost
<1>2. PICK d : d = [dm EXCEPT !.st = "waiting", !.hs = NoHandshake, !.tr = NoTunnel]
  OBVIOUS
<1>3. d = [st |-> "waiting", hs |-> NoHandshake, tr |-> NoTunnel]
  BY <1>2 DEF IInv, Typed
<1>4. dm' = d \/ dm' = [d EXCEPT !.st = "closed"]
  BY <1>2 DEF PeerLost, Teardown, Close
<1>5. dm' = [st |-> dm'.st, hs |-> dm'.hs, tr |-> dm'.tr] /\ dm'.st \in {"waiting", "closed"}
  BY <1>3, <1>4
<1>6. Typed' /\ DmKept
  BY <1>1, <1>5 DEF IInv, Typed, DmKept
<1> QED BY <1>1, <1>5, <1>6, DaemonQuits

LEMMA StepDataError == IInv /\ DataError => IInv'
<1> SUFFICES ASSUME IInv, DataError PROVE IInv'
  OBVIOUS
<1>1. /\ cfg' = cfg /\ cl' = cl /\ client' = client /\ member' = member
      /\ Hears(data, "error") /\ entry' = AfterError
      /\ data' = PeerTakes(data) \/ data' = PeerCloses(PeerTakes(data), None)
      /\ dm' = dm \/ dm' = Close(dm)
  BY DEF DataError
<1>2. entry' \in BOOLEAN
  BY <1>1, ErrorIs DEF IInv
<1>3. Typed' /\ DmKept
  <2>1. CASE dm' = dm
    BY <1>1, <1>2, <2>1 DEF IInv, Typed, DmKept
  <2>2. CASE dm' = Close(dm)
    BY <1>1, <1>2, <2>2, DmClosed DEF IInv
  <2> QED BY <1>1, <2>1, <2>2
<1> QED BY <1>1, <1>3, DaemonQuits

LEMMA StepClientDrops == IInv /\ ClientDrops => IInv'
<1> SUFFICES ASSUME IInv, ClientDrops PROVE IInv'
  OBVIOUS
<1>1. /\ cfg' = cfg /\ dm' = dm /\ data' = data /\ member' = member /\ cl' = cl
      /\ Hears(client, "bin") /\ client' = PeerTakes(client) /\ entry' = entry
      /\ ~Listens \/ cl.st \notin {"handshaking", "ready"}
  BY DEF ClientDrops
<1>2. Typed' /\ ClKept
  BY <1>1 DEF IInv, Typed, ClKept
<1>3. client'.peer = client.peer
  BY <1>1, Took DEF IInv, Links
<1>4. cl'.st \notin {"handshaking", "ready"}
  BY <1>1 DEF IInv, Ties, Listens
<1>5. Ties'
  BY <1>1, <1>3 DEF IInv, Ties
<1> QED BY <1>1, <1>2, <1>4, <1>5, ClientQuits

LEMMA StepUnheard == IInv /\ Unheard => IInv'
<1> SUFFICES ASSUME IInv, Unheard PROVE IInv'
  OBVIOUS
<1>1. /\ cfg' = cfg /\ dm' = dm /\ data' = data /\ member' = member /\ cl' = cl
      /\ Hears(client, "paired") /\ client' = PeerTakes(client) /\ entry' = entry
  BY DEF Unheard
<1>2. Typed' /\ ClKept
  BY <1>1 DEF IInv, Typed, ClKept
<1>3. client'.peer = client.peer
  BY <1>1, Took DEF IInv, Links
<1>5. Ties'
  BY <1>1, <1>3 DEF IInv, Ties
<1> QED BY <1>1, <1>2, <1>5, ClientQuits

LEMMA StepClientTold == IInv /\ ClientTold => IInv'
<1> SUFFICES ASSUME IInv, ClientTold PROVE IInv'
  OBVIOUS
<1>1. /\ cfg' = cfg /\ dm' = dm /\ data' = data /\ member' = member /\ entry' = entry
      /\ Hears(client, "peer_disconnected")
      /\ client' = PeerTakes(client)
         \/ (cfg.kind = "page" /\ client' = PeerCloses(PeerTakes(client), None))
      /\ (cl' = cl /\ (cfg.kind = "join" \/ ~Listens))
         \/ cl' = [cl EXCEPT !.st = "closed", !.tr = NoTunnel]
  BY DEF ClientTold
<1>2. SockOk(client)
  BY DEF IInv, Links
<1>3. client.peer # "closed"
  BY <1>1, <1>2, Took
<1>4. /\ client'.peer # "closed"
      /\ cfg.kind # "page" => client'.peer = client.peer
  <2>1. CASE client' = PeerTakes(client)
    BY <1>1, <1>2, <1>3, <2>1, Took
  <2>2. CASE cfg.kind = "page" /\ client' = PeerCloses(PeerTakes(client), None)
    BY <1>1, <1>2, <2>2, TookAndCloses
  <2> QED BY <1>1, <2>1, <2>2
<1>5. CASE cl' = cl /\ (cfg.kind = "join" \/ ~Listens)
  <2>1. Typed' /\ ClKept
    BY <1>1, <1>5 DEF IInv, Typed, ClKept
  <2>2. Ties'
    BY <1>1, <1>4, <1>5 DEF IInv, Ties, Listens
  <2> QED BY <1>1, <2>1, <2>2, ClientQuits
<1>6. CASE cl' = [cl EXCEPT !.st = "closed", !.tr = NoTunnel]
  <2>1. cl' = [st |-> "closed", hs |-> cl.hs, tr |-> NoTunnel, join |-> cl.join]
    BY <1>6 DEF IInv, Typed
  <2>2. Typed' /\ ClKept
    BY <1>1, <2>1 DEF IInv, Typed, ClKept
  <2>3. Ties'
    BY <1>1, <1>4, <2>1 DEF IInv, Ties
  <2> QED BY <1>1, <2>2, <2>3, ClientQuits
<1> QED BY <1>1, <1>5, <1>6

-----------------------------------------------------------------------------
(* Sides that close or break.                                              *)

LEMMA StepDataEnds == IInv /\ DataEnds => IInv'
<1> SUFFICES ASSUME IInv, DataEnds PROVE IInv'
  OBVIOUS
<1>1. /\ cfg' = cfg /\ cl' = cl /\ client' = client /\ member' = member
      /\ Hears(data, "end") /\ data' = PeerEnds(data, None) /\ dm' = Close(dm)
      /\ entry' = entry \/ entry' = FALSE
  BY DEF DataEnds
<1>2. Typed' /\ dm'.st = "closed" /\ DmKept
  BY <1>1, DmClosed DEF IInv, Typed
<1>3. SockOk(data) /\ Socket(data) /\ data.relay # "idle"
  BY <1>1 DEF IInv, Links, SockOk, Hears
<1>4. /\ data'.peer = "closed" /\ data'.relay = data.relay /\ data'.down = <<>>
      /\ data'.up = data.up \/ data'.up = Append(data.up, End(None))
  BY <1>1, <1>3, PeerEndsIs
<1>5. SockOk(data') /\ Milder(data, data')
  BY <1>1, <1>3, PeerEndsOk, PeerEndsMilder
<1>6. Links'
  BY <1>1, <1>4, <1>5, LinksData DEF IInv
<1>7. Ties'
  BY <1>1, <1>2, <1>4 DEF IInv, Ties
<1>8. DownCalm
  BY <1>1, <1>4, <1>6, DownFromData DEF IInv
<1>9. UpVoid
  <2>1. ~Calls(data'.down)
    BY <1>4, EndsNothing
  <2> QED BY <1>2, <1>3, <1>4, <2>1 DEF UpVoid, Pre
<1>10. Mild
  BY <1>1, <1>2, <1>5, <1>6, MilderSame, MildOnes DEF IInv
<1>11. ClKept
  BY <1>1 DEF ClKept
<1> QED BY <1>1, <1>2, <1>6, <1>7, <1>8, <1>9, <1>10, <1>11, Quiet
        DEF IInv, UpQuiet, DownQuiet

LEMMA StepSevers == IInv /\ Severs => IInv'
<1> SUFFICES ASSUME IInv, Severs PROVE IInv'
  OBVIOUS
<1>1. /\ cfg' = cfg /\ cl' = cl /\ client' = client /\ member' = member
      /\ data' = PeerCloses(data, None) /\ dm' = Close(dm) /\ entry' = FALSE
  BY DEF Severs
<1>2. Typed' /\ dm'.st = "closed" /\ DmKept
  BY <1>1, DmClosed DEF IInv
<1>3. SockOk(data) /\ Socket(data)
  BY DEF IInv, Links, SockOk
<1>4. /\ data'.down = data.down
      /\ data'.up = data.up \/ data'.up = Append(data.up, End(None))
      /\ data'.relay = data.relay \/ (data.relay = "idle" /\ data'.relay = "closed")
      /\ data'.relay = "open" /\ data'.peer # "closed" => data.peer # "closed"
  <2>1. CASE data.relay = "idle"
    BY <1>1, <1>3, <2>1, PeerClosesIs DEF SockOk
  <2>2. CASE data.relay # "idle"
    <3>1. /\ data'.peer = IF data.peer = "open" THEN "closing" ELSE data.peer
          /\ data'.relay = data.relay /\ data'.down = data.down
          /\ data'.up = IF data.peer = "open" /\ data.relay # "closed"
                          THEN Append(data.up, End(None)) ELSE data.up
      BY <1>1, <1>3, <2>2, PeerClosesIs
    <3> QED BY <3>1
  <2> QED BY <2>1, <2>2
<1>5. SockOk(data') /\ Milder(data, data')
  BY <1>1, <1>3, PeerClosesOk, PeerClosesMilder
<1>6. Links'
  BY <1>1, <1>4, <1>5, LinksData DEF IInv
<1>7. Ties'
  BY <1>1, <1>2 DEF IInv, Ties
<1>8. DownCalm
  BY <1>1, <1>4, <1>6, DownFromData DEF IInv
<1>9. UpCalm
  <2>1. Up' = Up
    BY <1>1, <1>4 DEF Up
  <2>2. UpLive' => UpLive
    BY <1>1, <1>4 DEF UpLive
  <2> QED BY <2>1, <2>2, Queues, ShrinksSame DEF UpCalm, IInv
<1>10. Mild
  BY <1>1, <1>2, <1>5, <1>6, MilderSame, MildOnes DEF IInv
<1>11. ClKept
  BY <1>1 DEF ClKept
<1> QED BY <1>1, <1>2, <1>6, <1>7, <1>8, <1>9, <1>10, <1>11, Quiet
        DEF IInv, UpQuiet, DownQuiet

LEMMA StepDataBreaks == IInv /\ DataBreaks => IInv'
<1> SUFFICES ASSUME IInv, DataBreaks PROVE IInv'
  OBVIOUS
<1>1. /\ cfg' = cfg /\ cl' = cl /\ dm' = dm /\ client' = client /\ member' = member
      /\ entry' = entry /\ Breakable(data) /\ data' = Broken(data, None)
  BY DEF DataBreaks
<1>2. Typed' /\ DmKept /\ ClKept
  BY <1>1 DEF IInv, Typed, DmKept, ClKept
<1>3. SockOk(data) /\ Socket(data) /\ Queue(data.down)
  BY DEF IInv, Links, SockOk, Socket
<1>4. /\ data'.peer = data.peer /\ data'.down = <<End(None)>>
      /\ data'.relay = IF data.relay = "idle" THEN "closed" ELSE data.relay
      /\ data'.up = IF data.relay = "idle" THEN <<>> ELSE <<End(None)>>
  BY <1>1, <1>3, BrokenIs
<1>5. SockOk(data') /\ Milder(data, data')
  BY <1>1, <1>3, BrokenOk, BrokenMilder
<1>6. Links'
  BY <1>1, <1>4, <1>5, LinksData DEF IInv
<1>7. Ties'
  BY <1>1, <1>4 DEF IInv, Ties
<1>8. DownCalm
  BY <1>1, <1>4, <1>6, DownFromData DEF IInv
<1>9. UpCalm
  <2>1. End(None).t = "end" /\ Queue(<<End(None)>>)
    BY EndIs, OneQueue
  <2>2. Ends(data'.down) /\ Bare(data'.down) /\ Queue(data'.down)
    BY <1>4, <2>1, EndsOne
  <2>3. Shrinks(data.down, data'.down)
    BY <1>3, <2>2, BareShrinks
  <2> QED BY <1>6, <2>2, <2>3, UpCut DEF IInv
<1>10. Mild
  BY <1>1, <1>2, <1>5, <1>6, MilderSame, MildOnes DEF IInv
<1> QED BY <1>1, <1>2, <1>6, <1>7, <1>8, <1>9, <1>10, Quiet
        DEF IInv, UpQuiet, DownQuiet

LEMMA StepClientEnds == IInv /\ ClientEnds => IInv'
<1> SUFFICES ASSUME IInv, ClientEnds PROVE IInv'
  OBVIOUS
<1>1. /\ cfg' = cfg /\ dm' = dm /\ data' = data /\ member' = member /\ entry' = entry
      /\ Hears(client, "end") /\ client' = PeerEnds(client, None) /\ cl' = GivesUp(cl)
  BY DEF ClientEnds
<1>2. Typed' /\ cl'.st = "closed" /\ ClKept
  BY <1>1, ClClosed DEF IInv
<1>3. SockOk(client) /\ Socket(client) /\ client.relay # "idle"
  BY DEF IInv, Links, SockOk
<1>4. /\ client'.peer = "closed" /\ client'.relay = client.relay /\ client'.down = <<>>
      /\ client'.up = client.up \/ client'.up = Append(client.up, End(None))
  BY <1>1, <1>3, PeerEndsIs
<1>5. SockOk(client') /\ Milder(client, client')
  BY <1>1, <1>3, PeerEndsOk, PeerEndsMilder
<1>6. Links'
  <2>1. \A k \in 1..Len(client'.down) : client'.down[k].t = "end"
    <3>1. Len(client'.down) = 0 /\ 1..0 = {}
      BY <1>4, EmptyQueue
    <3> QED BY <3>1
  <2> QED BY <1>1, <1>4, <1>5, <2>1, LinksClient DEF IInv
<1>7. Ties'
  BY <1>1, <1>2, <1>4 DEF IInv, Ties
<1>8. UpCalm
  BY <1>1, <1>4, <1>6, UpFromClient DEF IInv
<1>9. DownVoid
  BY <1>2, <1>4 DEF DownVoid, DownLive
<1>10. DmKept
  BY <1>1 DEF DmKept
<1>11. Mild
  BY <1>1, <1>5, <1>6, <1>10, MilderSame, MildOnes DEF IInv
<1> QED BY <1>1, <1>2, <1>6, <1>7, <1>8, <1>9, <1>10, <1>11, Quiet
        DEF IInv, UpQuiet, DownQuiet

LEMMA StepClientLeaves == IInv /\ ClientLeaves => IInv'
<1> SUFFICES ASSUME IInv, ClientLeaves PROVE IInv'
  OBVIOUS
<1>1. /\ cfg' = cfg /\ dm' = dm /\ data' = data /\ member' = member /\ entry' = entry
      /\ client' = PeerCloses(client, None) /\ cl' = GivesUp(cl)
      /\ client.peer = "open"
  BY DEF ClientLeaves
<1>2. Typed' /\ cl'.st = "closed" /\ ClKept
  BY <1>1, ClClosed DEF IInv
<1>3. SockOk(client) /\ Socket(client) /\ client.relay # "idle"
  BY DEF IInv, Links, SockOk
<1>4. /\ client'.peer = "closing" /\ client'.relay = client.relay
      /\ client'.down = client.down
      /\ client'.up = client.up \/ client'.up = Append(client.up, End(None))
  <2>1. /\ client'.peer = IF client.peer = "open" THEN "closing" ELSE client.peer
        /\ client'.relay = client.relay /\ client'.down = client.down
        /\ client'.up = IF client.peer = "open" /\ client.relay # "closed"
                          THEN Append(client.up, End(None)) ELSE client.up
    BY <1>1, <1>3, PeerClosesIs
  <2> QED BY <1>1, <2>1
<1>5. SockOk(client') /\ Milder(client, client')
  BY <1>1, <1>3, PeerClosesOk, PeerClosesMilder
<1>6. Links'
  BY <1>1, <1>4, <1>5, LinksClient DEF IInv, Links
<1>7. Ties'
  BY <1>1, <1>2, <1>4 DEF IInv, Ties
<1>8. UpCalm
  BY <1>1, <1>4, <1>6, UpFromClient DEF IInv
<1>9. DownCalm
  <2>1. Down' = Down
    BY <1>1, <1>4 DEF Down
  <2>2. DownLive' => DownLive
    BY <1>1, <1>4 DEF DownLive
  <2> QED BY <2>1, <2>2, Queues, ShrinksSame DEF DownCalm, IInv
<1>10. DmKept
  BY <1>1 DEF DmKept
<1>11. Mild
  BY <1>1, <1>5, <1>6, <1>10, MilderSame, MildOnes DEF IInv
<1> QED BY <1>1, <1>2, <1>6, <1>7, <1>8, <1>9, <1>10, <1>11, Quiet
        DEF IInv, UpQuiet, DownQuiet

LEMMA StepClientBreaks == IInv /\ ClientBreaks => IInv'
<1> SUFFICES ASSUME IInv, ClientBreaks PROVE IInv'
  OBVIOUS
<1>1. /\ cfg' = cfg /\ cl' = cl /\ dm' = dm /\ data' = data /\ member' = member
      /\ entry' = entry /\ Breakable(client) /\ client' = Broken(client, None)
  BY DEF ClientBreaks
<1>2. Typed' /\ DmKept /\ ClKept
  BY <1>1 DEF IInv, Typed, DmKept, ClKept
<1>3. SockOk(client) /\ Socket(client) /\ Queue(client.down) /\ client.relay # "idle"
  BY DEF IInv, Links, SockOk, Socket
<1>4. /\ client'.peer = client.peer /\ client'.down = <<End(None)>>
      /\ client'.relay = client.relay /\ client'.up = <<End(None)>>
  BY <1>1, <1>3, BrokenIs
<1>5. SockOk(client') /\ Milder(client, client')
  BY <1>1, <1>3, BrokenOk, BrokenMilder
<1>a. End(None).t = "end" /\ Queue(<<End(None)>>) /\ Len(<<End(None)>>) = 1
      /\ <<End(None)>>[1] = End(None) /\ 1..1 = {1}
  BY EndIs, OneQueue
<1>6. Links'
  <2>1. \A k \in 1..Len(client'.down) : client'.down[k].t = "end"
    BY <1>4, <1>a
  <2> QED BY <1>1, <1>4, <1>5, <2>1, LinksClient DEF IInv
<1>7. Ties'
  BY <1>1, <1>4 DEF IInv, Ties
<1>8. UpCalm
  BY <1>1, <1>4, <1>6, UpFromClient DEF IInv
<1>9. DownCalm
  <2>2. Ends(client'.down) /\ Bare(client'.down) /\ Queue(client'.down)
    BY <1>4, <1>a, EndsOne
  <2>3. Shrinks(client.down, client'.down)
    BY <1>3, <2>2, BareShrinks
  <2> QED BY <1>6, <2>2, <2>3, DownCut DEF IInv
<1>10. Mild
  BY <1>1, <1>2, <1>5, <1>6, MilderSame, MildOnes DEF IInv
<1> QED BY <1>1, <1>2, <1>6, <1>7, <1>8, <1>9, <1>10, Quiet
        DEF IInv, UpQuiet, DownQuiet

-----------------------------------------------------------------------------
(* The relay forwards.                                                     *)

LEMMA UpSame ==
  ASSUME Links, data'.down = data.down, client'.up = client.up,
         data'.relay = "open" => data.relay = "open",
         data'.peer = data.peer
  PROVE  UpCalm
<1>1. Up' = Up
  BY DEF Up
<1>2. UpLive' => UpLive
  BY DEF UpLive
<1> QED BY <1>1, <1>2, Queues, ShrinksSame DEF UpCalm

LEMMA DownSame ==
  ASSUME Links, client'.down = client.down, data'.up = data.up,
         data'.relay = "open" => data.relay = "open",
         client'.peer = client.peer
  PROVE  DownCalm
<1>1. Down' = Down
  BY DEF Down
<1>2. DownLive' => DownLive
  BY DEF DownLive
<1> QED BY <1>1, <1>2, Queues, ShrinksSame DEF DownCalm

LEMMA ToPeerBin ==
  ASSUME NEW w, Socket(w), NEW m, m.t = "bin", NEW r, r = ToPeer(w, m)
  PROVE  /\ Ends(r.down) <=> Ends(w.down)
         /\ Calls(r.down) => Calls(w.down)
<1>1. Queue(w.down)
  BY DEF Socket
<1>2. r.down = w.down \/ r.down = Append(w.down, m)
  BY ToPeerIs
<1>3. /\ Ends(Append(w.down, m)) <=> Ends(w.down)
      /\ Calls(Append(w.down, m)) => Calls(w.down)
  BY <1>1, EndsAppend, CallsAppend
<1> QED BY <1>2, <1>3

LEMMA BareSplit ==
  ASSUME Links
  PROVE  /\ Bare(Up) <=> Bare(data.down) /\ Bare(client.up)
         /\ Bare(Down) <=> Bare(client.down) /\ Bare(data.up)
BY Queues, EndsCat DEF Up, Down

LEMMA BareSplitNext ==
  ASSUME Links'
  PROVE  /\ Bare(Up') <=> Bare(data'.down) /\ Bare(client'.up)
         /\ Bare(Down') <=> Bare(client'.down) /\ Bare(data'.up)
BY QueuesNext, EndsCat DEF Up, Down

LEMMA StepForwardUp == IInv /\ ForwardUp => IInv'
<1> SUFFICES ASSUME IInv, ForwardUp PROVE IInv'
  OBVIOUS
<1>1. /\ cfg' = cfg /\ cl' = cl /\ dm' = dm /\ member' = member /\ entry' = entry
      /\ client' = RelayTakes(client)
      /\ data' = IF member = "paired" THEN ToPeer(data, Head(client.up)) ELSE data
      /\ client.relay \in {"open", "closing"} /\ client.up # <<>>
      /\ Head(client.up).t = "bin"
  BY DEF ForwardUp, Gets
<1>2. Typed' /\ DmKept /\ ClKept
  BY <1>1 DEF IInv, Typed, DmKept, ClKept
<1>3. /\ SockOk(data) /\ SockOk(client) /\ Socket(data) /\ Socket(client)
      /\ Queue(client.up) /\ Queue(data.down) /\ Links
  BY DEF IInv, Links, SockOk, Socket
<1>4. /\ client'.peer = client.peer /\ client'.relay = client.relay
      /\ client'.down = client.down /\ client'.up = Tail(client.up)
      /\ SockOk(client')
  BY <1>1, <1>3, RelayTakesIs, RelayTakesOk
<1>5. /\ data'.peer = data.peer /\ data'.relay = data.relay /\ data'.up = data.up
      /\ data'.down = IF member = "paired" /\ data.relay = "open" /\ data.peer # "closed"
                        THEN Append(data.down, Head(client.up)) ELSE data.down
      /\ SockOk(data') /\ (Calls(data'.down) => Calls(data.down))
      /\ (Ends(data'.down) <=> Ends(data.down))
  <2>1. CASE member = "paired"
    <3>1. PICK m : m = Head(client.up)
      OBVIOUS
    <3>2. data' = ToPeer(data, m) /\ m.t = "bin"
      BY <1>1, <2>1, <3>1
    <3>3. /\ data'.peer = data.peer /\ data'.relay = data.relay /\ data'.up = data.up
          /\ data'.down = IF data.relay = "open" /\ data.peer # "closed"
                            THEN Append(data.down, m) ELSE data.down
      BY <1>3, <3>2, ToPeerIs
    <3>4. SockOk(data')
      BY <1>3, <3>2, ToPeerOk
    <3>5. /\ Ends(data'.down) <=> Ends(data.down)
          /\ Calls(data'.down) => Calls(data.down)
      BY <1>3, <3>2, ToPeerBin
    <3> QED BY <2>1, <3>1, <3>3, <3>4, <3>5
  <2>2. CASE member # "paired"
    BY <1>1, <1>3, <2>2
  <2> QED BY <2>1, <2>2
<1>6. Links'
  BY <1>1, <1>3, <1>4, <1>5 DEF Links
<1>7. Ties'
  BY <1>1, <1>4, <1>5 DEF IInv, Ties
<1>8. ~Bare(Up)
  BY <1>1, <1>3, BareSplit, EndsTail
<1>9. DownCalm
  BY <1>3, <1>4, <1>5, DownSame
<1>10. Mild
  <2>1. Bare(Down) => Bare(Down')
    BY <1>3, <1>4, <1>5, <1>6, BareSplit, BareSplitNext
  <2> QED BY <1>1, <1>4, <1>5, <1>8, <2>1 DEF Mild, CPre, Pre
<1>11. UpQuiet
  <2>1. CASE data.peer = "closed" /\ data.relay # "idle"
    <3>1. ~Calls(data.down) /\ dm.st = "closed"
      BY <1>3, <2>1, EndsNothing DEF IInv, Ties, SockOk
    <3>2. UpVoid
      BY <1>1, <1>5, <2>1, <3>1 DEF UpVoid, Pre
    <3> QED BY <3>2 DEF UpQuiet
  <2>2. CASE member = "paired" /\ data.peer # "closed"
    <3>1. data'.down = Append(data.down, Head(client.up))
      BY <1>3, <1>5, <2>2 DEF Links
    <3>2. Up' = Up
      BY <1>1, <1>3, <1>4, <3>1, MovesOn DEF Up
    <3>3. Ends(client.up) <=> Ends(client'.up)
      BY <1>1, <1>3, <1>4, EndsTail
    <3>4. UpLive' => UpLive
      BY <1>5, <3>3 DEF UpLive
    <3>5. UpCalm
      BY <1>3, <3>2, <3>4, Queues, ShrinksSame DEF UpCalm
    <3> QED BY <3>5 DEF UpQuiet
  <2>3. CASE member # "paired" /\ data.peer # "closed"
    <3>1. data.relay # "idle"
      BY <1>8 DEF IInv, NotBegun, CPre
    <3>2. data.relay = "closed"
      BY <1>1, <1>3, <2>3, <3>1 DEF Links, Socket
    <3>3. Ends(data.down) /\ data'.down = data.down
      BY <1>3, <1>5, <2>3, <3>2 DEF SockOk
    <3>4. UpCalm
      BY <1>3, <1>6, <3>3, ShrinksSame, UpCut
    <3> QED BY <3>4 DEF UpQuiet
  <2>4. data.relay # "idle"
    BY <1>8 DEF IInv, NotBegun, CPre
  <2> QED BY <2>1, <2>2, <2>3, <2>4
<1> QED BY <1>1, <1>2, <1>6, <1>7, <1>9, <1>10, <1>11, Quiet DEF IInv, DownQuiet

LEMMA StepForwardDown == IInv /\ ForwardDown => IInv'
<1> SUFFICES ASSUME IInv, ForwardDown PROVE IInv'
  OBVIOUS
<1>1. /\ cfg' = cfg /\ cl' = cl /\ dm' = dm /\ member' = member /\ entry' = entry
      /\ data' = RelayTakes(data)
      /\ client' = ToPeer(client, Head(data.up))
      /\ data.relay \in {"open", "closing"} /\ data.up # <<>>
      /\ Head(data.up).t = "bin"
  BY DEF ForwardDown, Gets
<1>2. Typed' /\ DmKept /\ ClKept
  BY <1>1 DEF IInv, Typed, DmKept, ClKept
<1>3. /\ SockOk(data) /\ SockOk(client) /\ Socket(data) /\ Socket(client)
      /\ Queue(data.up) /\ Queue(client.down) /\ Links
  BY DEF IInv, Links, SockOk, Socket
<1>4. /\ data'.peer = data.peer /\ data'.relay = data.relay
      /\ data'.down = data.down /\ data'.up = Tail(data.up)
      /\ SockOk(data')
  BY <1>1, <1>3, RelayTakesIs, RelayTakesOk
<1>5. /\ client'.peer = client.peer /\ client'.relay = client.relay
      /\ client'.up = client.up
      /\ client'.down = IF client.relay = "open" /\ client.peer # "closed"
                          THEN Append(client.down, Head(data.up)) ELSE client.down
      /\ SockOk(client') /\ (Calls(client'.down) => Calls(client.down))
      /\ (Ends(client'.down) <=> Ends(client.down))
  BY <1>1, <1>3, ToPeerIs, ToPeerOk, ToPeerBin
<1>6. Links'
  BY <1>1, <1>3, <1>4, <1>5 DEF Links
<1>7. Ties'
  BY <1>1, <1>4, <1>5 DEF IInv, Ties
<1>8. ~Bare(Down)
  BY <1>1, <1>3, BareSplit, EndsTail
<1>9. UpCalm
  BY <1>3, <1>4, <1>5, UpSame
<1>10. Mild
  <2>1. Bare(Up) => Bare(Up')
    BY <1>3, <1>4, <1>5, <1>6, BareSplit, BareSplitNext
  <2> QED BY <1>1, <1>4, <1>5, <1>8, <2>1 DEF Mild, CPre, Pre
<1>11. DownQuiet
  <2>1. CASE client.peer = "closed"
    <3>2. DownVoid
      BY <1>1, <1>5, <2>1 DEF DownVoid, DownLive, IInv, Ties
    <3> QED BY <3>2 DEF DownQuiet
  <2>2. CASE client.relay = "open" /\ client.peer # "closed"
    <3>1. client'.down = Append(client.down, Head(data.up))
      BY <1>5, <2>2
    <3>2. Down' = Down
      BY <1>1, <1>3, <1>4, <3>1, MovesOn DEF Down
    <3>3. Ends(data.up) <=> Ends(data'.up)
      BY <1>1, <1>3, <1>4, EndsTail
    <3>4. DownLive' => DownLive
      BY <1>4, <1>5, <3>3 DEF DownLive
    <3>5. DownCalm
      BY <1>3, <3>2, <3>4, Queues, ShrinksSame DEF DownCalm
    <3> QED BY <3>5 DEF DownQuiet
  <2>3. CASE client.relay # "open" /\ client.peer # "closed"
    <3>3. Ends(client.down) /\ client'.down = client.down
      BY <1>3, <1>5, <2>3 DEF SockOk, Links
    <3>4. DownCalm
      BY <1>3, <1>6, <3>3, ShrinksSame, DownCut
    <3> QED BY <3>4 DEF DownQuiet
  <2> QED BY <2>1, <2>2, <2>3
<1> QED BY <1>1, <1>2, <1>6, <1>7, <1>9, <1>10, <1>11, Quiet DEF IInv, UpQuiet

-----------------------------------------------------------------------------
(* The relay sees a side go.                                               *)

LEMMA NothingBehind ==
  ASSUME NEW p, Queue(p)
  PROVE  p \o <<>> = p
<1> DEFINE r == p \o <<>>
<1>1. Queue(<<>>) /\ Len(<<>>) = 0
  BY EmptyQueue
<1>2. /\ Queue(r) /\ Len(r) = Len(p) + 0
      /\ \A i \in 1..Len(p) : r[i] = p[i]
  BY <1>1, QueueCat
<1>3. Len(p) \in Nat
  BY QueueIs
<1> HIDE DEF r
<1>4. Len(r) = Len(p)
  BY <1>2, <1>3
<1>5. r = p
  BY <1>2, <1>4, SameQueue
<1> QED BY <1>5 DEF r

LEMMA StepClientGone == IInv /\ ClientGone => IInv'
<1> SUFFICES ASSUME IInv, ClientGone PROVE IInv'
  OBVIOUS
<1>1. /\ cfg' = cfg /\ cl' = cl /\ dm' = dm /\ member' = "out" /\ entry' = entry
      /\ client' = RelayEnds(client, None)
      /\ data' = IF member = "paired"
                   THEN RelayCloses(ToPeer(data, Text("peer_disconnected")), None)
                 ELSE data
      /\ client.relay \in {"open", "closing"}
  BY DEF ClientGone, Gets
<1>2. Typed' /\ DmKept /\ ClKept
  BY <1>1 DEF IInv, Typed, DmKept, ClKept
<1>3. /\ SockOk(data) /\ SockOk(client) /\ Socket(data) /\ Socket(client)
      /\ Queue(client.down) /\ Queue(data.down) /\ Queue(client.up) /\ Links
      /\ client.relay = "open"
  BY <1>1 DEF IInv, Links, SockOk, Socket
<1>4. /\ client'.peer = client.peer /\ client'.relay = "closed" /\ client'.up = <<>>
      /\ client'.down = IF client.relay = "open" /\ client.peer # "closed"
                          THEN Append(client.down, End(None)) ELSE client.down
  BY <1>1, <1>3, RelayEndsIs
<1>5. SockOk(client') /\ Milder(client, client')
  BY <1>1, <1>3, RelayEndsOk, RelayEndsMilder
<1>6. PICK v : v = ToPeer(data, Text("peer_disconnected"))
  OBVIOUS
<1>7. Text("peer_disconnected").t = "peer_disconnected"
  BY DEF Text, Msg
<1>8. /\ v.peer = data.peer /\ v.relay = data.relay /\ v.up = data.up
      /\ v.down = IF data.relay = "open" /\ data.peer # "closed"
                    THEN Append(data.down, Text("peer_disconnected")) ELSE data.down
      /\ Socket(v)
  BY <1>3, <1>6, ToPeerIs
<1>9. SockOk(v) /\ Milder(data, v)
  BY <1>3, <1>6, <1>7, ToPeerOk, ToPeerMilder
<1>10. /\ SockOk(data') /\ Milder(data, data') /\ data'.peer = data.peer
       /\ data'.up = data.up
       /\ IF member = "paired"
            THEN /\ data'.relay = "closing"
                 /\ data.peer # "closed" => data'.down = Append(v.down, End(None))
                 /\ data.peer = "closed" => data'.down = data.down
            ELSE data' = data
  <2>1. CASE member = "paired"
    <3>1. data' = RelayCloses(v, None) /\ data.relay = "open"
      BY <1>1, <1>3, <1>6, <2>1 DEF Links
    <3>2. /\ data'.peer = v.peer /\ data'.up = v.up
          /\ data'.relay = IF v.relay = "open" THEN "closing" ELSE v.relay
          /\ data'.down = IF v.relay = "open" /\ v.peer # "closed"
                            THEN Append(v.down, End(None)) ELSE v.down
      BY <1>8, <3>1, RelayClosesIs
    <3>3. SockOk(data')
      BY <1>9, <3>1, RelayClosesOk
    <3>4. Milder(data, data')
      BY <1>8, <1>9, <3>1, RelayClosesMilder, MilderTwice
    <3> QED BY <1>8, <2>1, <3>1, <3>2, <3>3, <3>4
  <2>2. CASE member # "paired"
    BY <1>1, <1>3, <2>2, MilderSame
  <2> QED BY <2>1, <2>2
<1>11. Links'
  <2>1. ASSUME data'.relay = "idle", NEW k \in 1..Len(client'.down)
        PROVE  client'.down[k].t = "end"
    <3>1. \A i \in 1..Len(client.down) : client.down[i].t = "end"
      BY <1>3, <1>10, <2>1 DEF Links
    <3>2. CASE client'.down = client.down
      BY <2>1, <3>1, <3>2
    <3>3. CASE client'.down = Append(client.down, End(None))
      <4>1. /\ Len(client'.down) = Len(client.down) + 1
            /\ \A i \in 1..Len(client.down) : client'.down[i] = client.down[i]
            /\ client'.down[Len(client.down) + 1] = End(None)
        BY <1>3, <3>3, QueueAppend
      <4>2. Len(client.down) \in Nat
        BY <1>3, QueueIs
      <4>3. k \in 1..Len(client.down) \/ k = Len(client.down) + 1
        BY <4>1, <4>2
      <4> QED BY <4>1, <4>3, <3>1, EndIs
    <3> QED BY <1>4, <3>2, <3>3
  <2>2. data'.relay # "open"
    BY <1>3, <1>10 DEF Links
  <2> QED BY <1>1, <1>4, <1>5, <1>10, <2>1, <2>2 DEF Links
<1>12. Ties'
  BY <1>1, <1>4, <1>10 DEF IInv, Ties
<1>13. UpQuiet
  <2>1. CASE member = "paired" /\ data.peer # "closed"
    <3>1. /\ Ends(data'.down) /\ Shrinks(v.down, data'.down) /\ Queue(data'.down)
          /\ Queue(v.down)
      <4>1. data'.down = Append(v.down, End(None)) /\ Queue(v.down)
        BY <1>8, <1>10, <2>1 DEF Socket
      <4> QED BY <4>1, EndAppended
    <3>2. v.down = Append(data.down, Text("peer_disconnected"))
      BY <1>3, <1>8, <2>1 DEF Links
    <3>3. Shrinks(data.down, v.down)
      BY <1>3, <1>7, <3>2, AppendShrinks
    <3>4. Shrinks(data.down, data'.down)
      BY <1>3, <3>1, <3>3, ShrinksTwice
    <3>5. UpCalm
      BY <1>3, <1>11, <3>1, <3>4, UpCut
    <3> QED BY <3>5 DEF UpQuiet
  <2>2. CASE member = "paired" /\ data.peer = "closed"
    <3>1. data.down = <<>> /\ dm.st = "closed"
      BY <1>3, <2>2 DEF SockOk, IInv, Ties
    <3>2. ~Calls(data'.down) /\ data'.relay # "idle"
      BY <1>10, <2>2, <3>1, EndsNothing
    <3>3. UpVoid
      BY <1>1, <3>1, <3>2 DEF UpVoid, Pre
    <3> QED BY <3>3 DEF UpQuiet
  <2>3. CASE member # "paired"
    <3>1. data'.down = data.down /\ data'.relay # "open"
      BY <1>3, <1>10, <2>3 DEF Links
    <3>2. Bare(<<>>) /\ Queue(<<>>)
      BY EndsNothing, EmptyQueue
    <3>3. Shrinks(Up, Up')
      BY <1>3, <1>4, <3>1, <3>2, BareBehind DEF Up
    <3>4. UpCalm
      BY <3>1, <3>3 DEF UpCalm, UpLive
    <3> QED BY <3>4 DEF UpQuiet
  <2> QED BY <2>1, <2>2, <2>3
<1>14. DownQuiet
  <2>1. CASE client.peer = "closed"
    <3>2. DownVoid
      BY <1>1, <1>4, <2>1 DEF DownVoid, DownLive, IInv, Ties
    <3> QED BY <3>2 DEF DownQuiet
  <2>2. CASE client.peer # "closed"
    <3>1. client'.down = Append(client.down, End(None))
      BY <1>3, <1>4, <2>2
    <3>2. Ends(client'.down) /\ Shrinks(client.down, client'.down)
      BY <1>3, <3>1, EndAppended
    <3>3. DownCalm
      BY <1>3, <1>11, <3>2, DownCut
    <3> QED BY <3>3 DEF DownQuiet
  <2> QED BY <2>1, <2>2
<1>15. Mild
  BY <1>2, <1>3, <1>5, <1>10, <1>11, MildOnes
<1> QED BY <1>1, <1>2, <1>11, <1>12, <1>13, <1>14, <1>15, Quiet DEF IInv

LEMMA StepDataGone == IInv /\ DataGone => IInv'
<1> SUFFICES ASSUME IInv, DataGone PROVE IInv'
  OBVIOUS
<1>1. /\ cfg' = cfg /\ cl' = cl /\ dm' = dm /\ entry' = entry
      /\ data' = RelayEnds(data, None)
      /\ IF member = "paired"
           THEN /\ client' = ToPeer(client, Text("peer_disconnected"))
                /\ member' = "waiting"
         ELSE client' = client /\ member' = member
      /\ data.relay \in {"open", "closing"}
  BY DEF DataGone, Gets
<1>2. Typed' /\ DmKept /\ ClKept
  BY <1>1 DEF IInv, Typed, DmKept, ClKept
<1>3. /\ SockOk(data) /\ SockOk(client) /\ Socket(data) /\ Socket(client)
      /\ Queue(client.down) /\ Queue(data.down) /\ Queue(data.up) /\ Links
  BY DEF IInv, Links, SockOk, Socket
<1>4. /\ data'.peer = data.peer /\ data'.relay = "closed" /\ data'.up = <<>>
      /\ data'.down = IF data.relay = "open" /\ data.peer # "closed"
                        THEN Append(data.down, End(None)) ELSE data.down
  BY <1>1, <1>3, RelayEndsIs
<1>5. SockOk(data') /\ Milder(data, data')
  BY <1>1, <1>3, RelayEndsOk, RelayEndsMilder
<1>6. PICK m : m = Text("peer_disconnected")
  OBVIOUS
<1>7. m.t = "peer_disconnected"
  BY <1>6 DEF Text, Msg
<1>8. /\ SockOk(client') /\ Milder(client, client')
      /\ client'.peer = client.peer /\ client'.relay = client.relay
      /\ client'.up = client.up
      /\ client'.down = client.down \/ client'.down = Append(client.down, m)
  <2>1. CASE member = "paired"
    <3>1. client' = ToPeer(client, m)
      BY <1>1, <1>6, <2>1
    <3>2. SockOk(client') /\ Milder(client, client')
      BY <1>3, <1>7, <3>1, ToPeerOk, ToPeerMilder
    <3>3. /\ client'.peer = client.peer /\ client'.relay = client.relay
          /\ client'.up = client.up
          /\ client'.down = IF client.relay = "open" /\ client.peer # "closed"
                              THEN Append(client.down, m) ELSE client.down
      BY <1>3, <3>1, ToPeerIs
    <3> QED BY <3>2, <3>3
  <2>2. CASE member # "paired"
    BY <1>1, <1>3, <2>2, MilderSame
  <2> QED BY <2>1, <2>2
<1>9. Links'
  BY <1>1, <1>3, <1>4, <1>5, <1>8 DEF Links
<1>10. Ties'
  BY <1>1, <1>4, <1>8 DEF IInv, Ties
<1>11. UpQuiet
  <2>1. CASE data.peer = "closed"
    <3>1. data.down = <<>> /\ dm.st = "closed"
      BY <1>3, <2>1 DEF SockOk, IInv, Ties
    <3>2. ~Calls(data'.down) /\ data'.relay # "idle"
      BY <1>4, <2>1, <3>1, EndsNothing
    <3>3. UpVoid
      BY <1>1, <3>1, <3>2 DEF UpVoid, Pre
    <3> QED BY <3>3 DEF UpQuiet
  <2>2. CASE data.peer # "closed" /\ data.relay = "open"
    <3>1. data'.down = Append(data.down, End(None))
      BY <1>4, <2>2
    <3>2. Ends(data'.down) /\ Shrinks(data.down, data'.down)
      BY <1>3, <3>1, EndAppended
    <3>3. UpCalm
      BY <1>3, <1>9, <3>2, UpCut
    <3> QED BY <3>3 DEF UpQuiet
  <2>3. CASE data.peer # "closed" /\ data.relay = "closing"
    <3>1. data'.down = data.down /\ Ends(data.down)
      BY <1>3, <1>4, <2>3 DEF SockOk
    <3>3. UpCalm
      BY <1>3, <1>9, <3>1, ShrinksSame, UpCut
    <3> QED BY <3>3 DEF UpQuiet
  <2> QED BY <1>1, <2>1, <2>2, <2>3
<1>12. DownQuiet
  <2>1. Bare(<<>>) /\ Queue(<<>>)
    BY EndsNothing, EmptyQueue
  <2>2. Shrinks(Down, Down')
    <3>1. CASE client'.down = client.down
      BY <1>3, <1>4, <2>1, <3>1, BareBehind DEF Down
    <3>2. CASE client'.down = Append(client.down, m)
      <4>1. Queue(Append(client.down, m)) /\ Queue(Append(<<>>, m))
        BY <1>3, <2>1, QueueAppend
      <4>2. Bare(Append(<<>>, m))
        BY <1>7, <2>1, EndsAppend
      <4>3. Down' = Append(client.down, m)
        BY <1>4, <3>2, <4>1, NothingBehind DEF Down
      <4>4. client.down \o Append(<<>>, m) = Append(client.down, m)
        <5>1. client.down \o <<>> = client.down
          BY <1>3, NothingBehind
        <5> QED BY <1>3, <2>1, <5>1, AppendToCat
      <4>5. Shrinks(client.down \o data.up, client.down \o Append(<<>>, m))
        BY <1>3, <4>1, <4>2, BareBehind
      <4> QED BY <4>3, <4>4, <4>5 DEF Down
    <3> QED BY <1>8, <3>1, <3>2
  <2> QED BY <1>4, <2>2 DEF DownQuiet, DownCalm, DownLive
<1>13. Mild
  BY <1>2, <1>3, <1>5, <1>8, <1>9, MildOnes
<1> QED BY <1>1, <1>2, <1>9, <1>10, <1>11, <1>12, <1>13, Quiet DEF IInv

-----------------------------------------------------------------------------
(* The pairing, and the handshake that it begins.                          *)

LEMMA PairOut ==
  ASSUME IInv, Pair, member # "waiting"
  PROVE  IInv'
<1>1. /\ cfg' = cfg /\ cl' = cl /\ entry' = entry /\ client' = client /\ member' = member
      /\ data.peer = "open" /\ data.relay = "idle"
      /\ data' = RelayCloses(ToPeer(Accept(data), Text("error")), None)
      /\ dm' = [dm EXCEPT !.st = "waiting"]
  BY DEF Pair
<1>2. Typed' /\ DmKept /\ ClKept /\ dm'.st = "waiting"
  <2>1. dm' = [st |-> "waiting", hs |-> dm.hs, tr |-> dm.tr]
    BY <1>1 DEF IInv, Typed
  <2> QED BY <1>1, <2>1 DEF IInv, Typed, DmKept, ClKept
<1>3. /\ SockOk(data) /\ Socket(data) /\ Links /\ data.down = <<>> /\ member = "out"
  BY <1>1 DEF IInv, Links, SockOk
<1>4. PICK v, u, m : v = Accept(data) /\ u = ToPeer(v, m) /\ m = Text("error")
  OBVIOUS
<1>5. m.t = "error"
  BY <1>4 DEF Text, Msg
<1>6. /\ v.peer = "open" /\ v.relay = "open" /\ v.up = data.up /\ v.down = <<>>
      /\ Socket(v) /\ SockOk(v)
  BY <1>1, <1>3, <1>4, AcceptIs, AcceptOk
<1>7. /\ u.peer = "open" /\ u.relay = "open" /\ u.up = data.up
      /\ Socket(u)
  BY <1>4, <1>6, ToPeerIs
<1>8. SockOk(u) /\ Milder(v, u)
  BY <1>4, <1>5, <1>6, ToPeerOk, ToPeerMilder
<1>9. data' = RelayCloses(u, None)
  BY <1>1, <1>4
<1>10. /\ data'.peer = "open" /\ data'.relay = "closing" /\ data'.up = data.up
  BY <1>7, <1>9, RelayClosesIs
<1>11. SockOk(data') /\ Milder(u, data')
  BY <1>7, <1>8, <1>9, RelayClosesOk, RelayClosesMilder
<1>12. Milder(data, v)
  BY <1>3, <1>6 DEF Milder
<1>13. Milder(data, data')
  BY <1>8, <1>11, <1>12, MilderTwice
<1>14. Links'
  BY <1>1, <1>3, <1>10, <1>11 DEF Links
<1>15. Ties'
  BY <1>1, <1>10 DEF IInv, Ties
<1>16. DownCalm
  BY <1>1, <1>3, <1>10, <1>14, DownFromData
<1>17. UpVoid
  <2>1. ~Calls(data'.down)
    BY <1>3, <1>13, EndsNothing DEF Milder
  <2> QED BY <1>2, <1>10, <2>1 DEF UpVoid, Pre
<1>18. Mild
  BY <1>1, <1>2, <1>3, <1>13, <1>14, MilderSame, MildOnes
<1> QED BY <1>1, <1>2, <1>14, <1>15, <1>16, <1>17, <1>18, Quiet
        DEF IInv, UpQuiet, DownQuiet

(* What is empty but for ends, and has none.                               *)
LEMMA BarePlain ==
  ASSUME NEW q, Queue(q), Bare(q), ~Ends(q), \A k \in 1..Len(q) : q[k].t \in {"bin", "end"}
  PROVE  q = <<>>
<1>1. \A k \in 1..Len(q) : FALSE
  BY DEF Bare, Ends
<1>2. Len(q) \in Nat
  BY QueueIs
<1>3. Len(q) = 0
  <2> SUFFICES ASSUME Len(q) # 0 PROVE FALSE
    OBVIOUS
  <2>1. 1 \in 1..Len(q)
    BY <1>2
  <2> QED BY <1>1, <2>1
<1> QED BY <1>3, NoneLeft

LEMMA OneAppended ==
  ASSUME NEW m
  PROVE  /\ Queue(Append(<<>>, m)) /\ Len(Append(<<>>, m)) = 1
         /\ Append(<<>>, m)[1] = m
         /\ \A k \in 1..Len(Append(<<>>, m)) : k = 1
<1>1. Queue(<<>>) /\ Len(<<>>) = 0
  BY EmptyQueue
<1>2. /\ Queue(Append(<<>>, m)) /\ Len(Append(<<>>, m)) = 0 + 1
      /\ Append(<<>>, m)[0 + 1] = m
  BY <1>1, QueueAppend
<1> QED BY <1>2

LEMMA PairIn ==
  ASSUME IInv, Pair, member = "waiting"
  PROVE  IInv'
<1>1. /\ cfg' = cfg /\ cl' = cl /\ entry' = entry /\ member' = "paired"
      /\ data.peer = "open" /\ data.relay = "idle"
      /\ data' = ToPeer(Accept(data), Text("paired"))
      /\ client' = ToPeer(client, Text("paired"))
      /\ dm' = [dm EXCEPT !.st = "waiting"]
  BY DEF Pair
<1>2. Typed' /\ dm'.st = "waiting"
  <2>1. dm' = [st |-> "waiting", hs |-> dm.hs, tr |-> dm.tr]
    BY <1>1 DEF IInv, Typed
  <2> QED BY <1>1, <2>1 DEF IInv, Typed
<1>3. /\ SockOk(data) /\ SockOk(client) /\ Socket(data) /\ Socket(client) /\ Links
      /\ data.down = <<>> /\ client.relay = "open"
      /\ Queue(client.down) /\ Queue(client.up) /\ Queue(data.up)
      /\ Plain(client.up) /\ Plain(data.up)
      /\ \A k \in 1..Len(client.down) : client.down[k].t = "end"
  BY <1>1 DEF IInv, Links, SockOk, Socket
<1>4. PICK v, m : v = Accept(data) /\ m = Text("paired")
  OBVIOUS
<1>5. m.t = "paired" /\ Queue(<<>>) /\ Bare(<<>>) /\ ~Ends(<<>>)
  BY <1>4, EmptyQueue, EndsNothing DEF Text, Msg
<1>6. /\ v.peer = "open" /\ v.relay = "open" /\ v.up = data.up /\ v.down = <<>>
      /\ Socket(v) /\ SockOk(v)
  BY <1>1, <1>3, <1>4, AcceptIs, AcceptOk
<1>7. data' = ToPeer(v, m) /\ client' = ToPeer(client, m)
  BY <1>1, <1>4
<1>8. /\ data'.peer = "open" /\ data'.relay = "open" /\ data'.up = data.up
      /\ data'.down = Append(<<>>, m)
  <2>1. /\ data'.peer = "open" /\ data'.relay = "open" /\ data'.up = data.up
        /\ data'.down = Append(v.down, m)
    BY <1>6, <1>7, ToPeerIs
  <2>2. Append(v.down, m) = Append(<<>>, m)
    BY <1>6, Zenon
  <2> QED BY <2>1, <2>2
<1>9. SockOk(data')
  BY <1>6, <1>7, ToPeerOk
<1>10. /\ client'.peer = client.peer /\ client'.relay = client.relay
       /\ client'.up = client.up
       /\ client'.down = IF client.peer # "closed" THEN Append(client.down, m)
                         ELSE client.down
  BY <1>3, <1>7, ToPeerIs
<1>11. client.down = <<>> \/ Ends(client.down)
  <2>1. CASE Len(client.down) = 0
    BY <1>3, <2>1, NoneLeft
  <2>2. CASE Len(client.down) # 0
    <3>1. 1 \in 1..Len(client.down)
      BY <1>3, <2>2, QueueIs
    <3> QED BY <1>3, <3>1 DEF Ends
  <2> QED BY <2>1, <2>2
<1>12. SockOk(client')
  BY <1>3, <1>7, <1>11, ToPeerOk
<1>13. Links'
  BY <1>1, <1>3, <1>8, <1>9, <1>10, <1>12 DEF Links
<1>14. Ties'
  BY <1>1, <1>8, <1>10 DEF IInv, Ties
<1>15. /\ Bare(Up) /\ Bare(Down) /\ cl.st \in {"waiting", "closed"}
  BY <1>1 DEF IInv, NotBegun, CPre
<1>16. /\ Bare(data.down) /\ Bare(client.up) /\ Bare(client.down) /\ Bare(data.up)
  BY <1>3, <1>15, BareSplit
<1>17. Bare(data'.down) /\ Bare(client'.down)
  <2>1. Bare(Append(<<>>, m)) /\ Bare(Append(client.down, m))
    BY <1>3, <1>5, <1>16, EndsAppend
  <2> QED BY <1>8, <1>10, <1>16, <2>1
<1>18. Bare(Up') /\ Bare(Down')
  BY <1>8, <1>10, <1>13, <1>16, <1>17, BareSplitNext
<1>19. DownLive' => Len(Down') <= 1
  <2> SUFFICES ASSUME DownLive' PROVE Len(Down') <= 1
    OBVIOUS
  <2>1. client.peer # "closed" /\ client'.down = Append(client.down, m)
        /\ ~Ends(client'.down) /\ ~Ends(data.up)
    BY <1>8, <1>10 DEF DownLive
  <2>2. client.down = <<>>
    BY <1>3, <1>11, <2>1, EndsAppend
  <2>3. data.up = <<>>
    BY <1>3, <1>16, <2>1, BarePlain DEF Plain
  <2>4. Down' = Append(<<>>, m)
    <3>1. Queue(Append(<<>>, m))
      BY OneAppended
    <3> QED BY <1>8, <2>1, <2>2, <2>3, <3>1, NothingBehind DEF Down
  <2> QED BY <2>4, OneAppended
<1>20. NotBegun'
  BY <1>1, <1>2, <1>15, <1>18, <1>19 DEF NotBegun
<1>21. UpLive' => \A k \in 1..Len(Up') : Up'[k].t = "bin" \/ (k = 1 /\ Up'[k].t = "paired")
  <2> SUFFICES ASSUME UpLive', NEW k \in 1..Len(Up')
               PROVE  k = 1 /\ Up'[k].t = "paired"
    OBVIOUS
  <2>1. ~Ends(client.up)
    BY <1>10 DEF UpLive
  <2>2. client.up = <<>>
    BY <1>3, <1>16, <2>1, BarePlain DEF Plain
  <2>3. Up' = Append(<<>>, m)
    <3>1. Queue(Append(<<>>, m))
      BY OneAppended
    <3> QED BY <1>8, <1>10, <2>2, <3>1, NothingBehind DEF Up
  <2>4. k = 1
    BY <2>3, OneAppended
  <2> QED BY <1>5, <2>3, <2>4, OneAppended
<1>22. HelloOnly'
  <2>1. HelloFlow(Up', Greeted')
    BY <1>13, <1>18, QueuesNext, BareFlows
  <2>2. HelloFlow(Up', Greeted'.msg)
    BY <1>13, <1>18, QueuesNext, BareFlows
  <2> QED BY <1>1, <1>2, <1>15, <1>18, <1>21, <2>2 DEF HelloOnly
<1>23. UpFlows' /\ DownFlows'
  BY <1>1, <1>2, <1>15 DEF UpFlows, DownFlows
<1>24. TermsAgree'
  BY <1>1, <1>2, <1>15 DEF TermsAgree
<1> QED BY <1>2, <1>13, <1>14, <1>20, <1>22, <1>23, <1>24 DEF IInv

LEMMA StepPair == IInv /\ Pair => IInv'
BY PairIn, PairOut

LEMMA StepBegins == IInv /\ Begins => IInv'
<1> SUFFICES ASSUME IInv, Begins PROVE IInv'
  OBVIOUS
<1>1. /\ cfg' = cfg /\ cl' = cl /\ client' = client /\ member' = member
      /\ Hears(data, "paired")
  BY DEF Begins
<1>2. CASE Choice \in {"refused", "bad key"}
  <2>1. /\ dm' = Close(dm) /\ data' = PeerCloses(PeerTakes(data), None)
        /\ entry' = AfterError
    BY <1>2 DEF Begins
  <2>2. entry' \in BOOLEAN
    BY <2>1, ErrorIs DEF IInv
  <2>3. Typed' /\ DmKept /\ dm'.st = "closed"
    BY <1>1, <2>1, <2>2, DmClosed DEF IInv
  <2> QED BY <1>1, <2>1, <2>3, DaemonQuits
<1>3. CASE Choice \notin {"refused", "bad key"}
  <2>1. /\ dm' = [dm EXCEPT !.st = "handshaking", !.hs = Responder]
        /\ data' = PeerTakes(data) /\ entry' = entry
    BY <1>3 DEF Begins
  <2>2. dm' = [st |-> "handshaking", hs |-> Responder, tr |-> dm.tr]
    BY <2>1 DEF IInv, Typed
  <2>3. Typed'
    BY <1>1, <2>1, <2>2 DEF IInv, Typed
  <2>4. SockOk(data) /\ Links
    BY DEF IInv, Links
  <2>5. /\ SockOk(data') /\ Milder(data, data') /\ ~Calls(data'.down) /\ Calls(data.down)
        /\ data'.peer = data.peer /\ data'.relay = data.relay /\ data'.up = data.up
        /\ data'.down = Tail(data.down) /\ data.relay # "idle" /\ data.down # <<>>
        /\ data.peer # "closed" /\ Head(data.down).t = "paired"
    BY <1>1, <2>1, <2>4, Took
  <2>6. Links'
    BY <1>1, <2>4, <2>5, LinksData
  <2>7. Ties'
    BY <1>1, <2>2, <2>5 DEF IInv, Ties
  <2>8. /\ Up # <<>> /\ Up' = Tail(Up) /\ Up[1].t = "paired" /\ Queue(Up)
        /\ UpLive' => UpLive
    BY <1>1, <2>4, <2>5, UpTail
  <2>9. DownCalm
    BY <1>1, <2>4, <2>5, DownSame
  <2>10. Down' = Down /\ (DownLive' => DownLive)
    BY <1>1, <2>5 DEF Down, DownLive
  <2>11. /\ Bare(Down) /\ cl.st # "ready" /\ dm.st # "ready"
         /\ HelloFlow(Up, Greeted.msg)
         /\ UpLive => \A k \in 1..Len(Up) : Up[k].t = "bin" \/ (k = 1 /\ Up[k].t = "paired")
    BY <2>5 DEF IInv, HelloOnly, Pre
  <2>12. NotBegun'
    <3> SUFFICES ASSUME CPre' PROVE NotBegun'
      BY DEF NotBegun
    <3>1. CPre
      BY <1>1, <2>5 DEF CPre
    <3>2. /\ Bare(Up) /\ Bare(Down) /\ cl.st \in {"waiting", "closed"}
          /\ DownLive => Len(Down) <= 1
      BY <3>1 DEF IInv, NotBegun
    <3>3. Bare(Up')
      BY <2>8, <3>2, EndsTail
    <3> QED BY <1>1, <2>2, <2>10, <3>2, <3>3 DEF NotBegun
  <2>13. HelloOnly'
    <3>1. HelloFlow(Up', Greeted.msg)
      <4>1. PICK m : m = Greeted.msg
        OBVIOUS
      <4>2. HelloFlow(Tail(Up), m)
        BY <2>8, <2>11, <4>1, HelloTail
      <4> QED BY <2>8, <4>1, <4>2
    <3>2. ASSUME UpLive', NEW k \in 1..Len(Up') PROVE Up'[k].t = "bin"
      <4>1. /\ Len(Up) \in Nat \ {0} /\ Len(Up') = Len(Up) - 1
            /\ \A i \in 1..(Len(Up) - 1) : Up'[i] = Up[i + 1]
        BY <2>8, QueueTail
      <4>2. k + 1 \in 1..Len(Up) /\ k + 1 # 1 /\ Up'[k] = Up[k + 1]
        BY <4>1
      <4> QED BY <2>8, <2>11, <3>2, <4>2
    <3> QED BY <1>1, <2>2, <2>5, <2>10, <2>11, <3>1, <3>2, Fixed DEF HelloOnly
  <2>14. UpFlows'
    BY <2>2 DEF UpFlows
  <2>15. DownFlows'
    <3> SUFFICES ASSUME cl'.st \in {"handshaking", "ready"} PROVE DownFlows'
      BY DEF DownFlows
    <3>2. /\ Reached(Down) => Willing
          /\ DFlow(Down, Got, Answered.msg, DownKey)
          /\ DownLive => Filled(Down)
      BY <1>1 DEF IInv, DownFlows
    <3>3. Got' = Got
      BY <1>1 DEF Got
    <3> QED BY <1>1, <2>2, <2>10, <3>2, <3>3, Fixed, FixedKeys DEF DownFlows
  <2>16. TermsAgree'
    <3>1. Willing
      BY <1>3 DEF Willing, Choice
    <3>2. cl'.st # "ready" /\ (cl'.st = "handshaking" => cl'.hs = Greeted.hs)
      BY <1>1, <2>11 DEF IInv, TermsAgree
    <3> QED BY <1>1, <2>2, <3>1, <3>2, Fixed, FixedKeys DEF TermsAgree
  <2> QED BY <2>3, <2>6, <2>7, <2>12, <2>13, <2>14, <2>15, <2>16 DEF IInv
<1> QED BY <1>2, <1>3

-----------------------------------------------------------------------------
(* The daemon sends.                                                       *)

LEMMA SentIs ==
  ASSUME NEW tr, Transport(tr), NEW r, r = Sent(tr)
  PROVE  /\ Transport(r) /\ r.recv = tr.recv /\ r.send.k = tr.send.k
         /\ r.send.n = tr.send.n + 1
<1>1. PICK s : s = Stepped(tr.send)
  OBVIOUS
<1>2. s = [k |-> tr.send.k, n |-> tr.send.n + 1]
  BY <1>1 DEF Stepped, Transport
<1>3. r = [tr EXCEPT !.send = s]
  BY <1>1 DEF Sent, Transport
<1>4. r = [send |-> s, recv |-> tr.recv]
  BY <1>3 DEF Transport
<1> QED BY <1>2, <1>4 DEF Transport

LEMMA ReceivedIs ==
  ASSUME NEW tr, Transport(tr), NEW r, r = Received(tr)
  PROVE  /\ Transport(r) /\ r.send = tr.send /\ r.recv.k = tr.recv.k
         /\ r.recv.n = tr.recv.n + 1
<1>1. PICK s : s = Stepped(tr.recv)
  OBVIOUS
<1>2. s = [k |-> tr.recv.k, n |-> tr.recv.n + 1]
  BY <1>1 DEF Stepped, Transport
<1>3. r = [tr EXCEPT !.recv = s]
  BY <1>1 DEF Received, Transport
<1>4. r = [send |-> tr.send, recv |-> s]
  BY <1>3 DEF Transport
<1> QED BY <1>2, <1>4 DEF Transport

LEMMA NewTransport ==
  ASSUME NEW a, NEW b, NEW tr, tr = [send |-> Cipher(a), recv |-> Cipher(b)]
  PROVE  /\ Transport(tr) /\ tr.send.k = a /\ tr.recv.k = b
         /\ tr.send.n = 0 /\ tr.recv.n = 0
BY DEF Transport, Cipher

LEMMA SealedUnder ==
  ASSUME NEW tr, NEW body, NEW m, m = Bin(Encrypted(tr, body))
  PROVE  m.t = "bin" /\ Under(m.c.ct, tr.send.k, tr.send.n)
BY DEF Bin, Msg, Encrypted, Sealed, Under

LEMMA BinIs == \A c : Bin(c).t = "bin" /\ Bin(c).c = c
BY DEF Bin, Msg

(* c: the receiver's socket, d: the sender's; what is sent while the way   *)
(* is live is behind all else, and what is sent later does not arrive.     *)
DLive(c, d) == d.relay = "open" /\ c.peer # "closed" /\ ~Ends(c.down) /\ ~Ends(d.up)

LEMMA DaemonSendsIs ==
  ASSUME NEW d, SockOk(d), NEW m, m.t = "bin", NEW r, r = ToRelay(d, m)
  PROVE  /\ SockOk(r) /\ r.peer = d.peer /\ r.relay = d.relay /\ r.down = d.down
         /\ r.up = IF d.peer = "open" /\ d.relay # "closed" THEN Append(d.up, m)
                   ELSE d.up
         /\ Ends(r.up) <=> Ends(d.up)
<1>1. Socket(d) /\ Queue(d.up)
  BY DEF SockOk, Socket
<1>2. /\ r.peer = d.peer /\ r.relay = d.relay /\ r.down = d.down
      /\ r.up = IF d.peer = "open" /\ d.relay # "closed" THEN Append(d.up, m)
                ELSE d.up
  BY <1>1, ToRelayIs
<1>3. SockOk(r)
  BY ToRelayOk
<1>4. Ends(Append(d.up, m)) <=> Ends(d.up)
  BY <1>1, EndsAppend
<1> QED BY <1>2, <1>3, <1>4

Grows(s, z, m) == z = Append(s, m)

LEMMA DaemonSendsLive ==
  ASSUME NEW c, SockOk(c), NEW d, SockOk(d), DLive(c, d),
         NEW m, m.t = "bin", NEW r, r = ToRelay(d, m),
         NEW s, s = c.down \o d.up, NEW z, z = c.down \o r.up
  PROVE  Grows(s, z, m)
<1>1. r.up = Append(d.up, m)
  <2>1. d.peer = "open" /\ d.relay # "closed"
    BY DEF DLive, SockOk
  <2>2. r.up = IF d.peer = "open" /\ d.relay # "closed" THEN Append(d.up, m)
               ELSE d.up
    BY DaemonSendsIs
  <2> QED BY <2>1, <2>2
<1>2. PICK p, q : p = c.down /\ q = d.up
  OBVIOUS
<1>3. Queue(p) /\ Queue(q)
  BY <1>2 DEF SockOk, Socket
<1>4. p \o Append(q, m) = Append(p \o q, m)
  BY <1>3, AppendToCat
<1>5. r.up = Append(q, m)
  BY <1>1, <1>2
<1>6. z = Append(s, m)
  BY <1>2, <1>4, <1>5
<1> QED BY <1>6 DEF Grows

LEMMA DaemonStaysLive ==
  ASSUME NEW c, NEW d, SockOk(d), DLive(c, d),
         NEW m, m.t = "bin", NEW r, r = ToRelay(d, m)
  PROVE  DLive(c, r)
BY DaemonSendsIs DEF DLive

LEMMA DaemonSendsLate ==
  ASSUME NEW c, SockOk(c), NEW d, SockOk(d), ~DLive(c, d),
         d.relay # "idle", c.peer # "closed", d.relay = "closing" => c.relay = "closed",
         NEW m, m.t = "bin", NEW r, r = ToRelay(d, m),
         NEW s, s = c.down \o d.up, NEW z, z = c.down \o r.up
  PROVE  Shrinks(s, z) /\ ~DLive(c, r)
<1>1. /\ Socket(d) /\ Socket(c) /\ Queue(d.up) /\ Queue(c.down)
      /\ Queue(c.down \o d.up)
  BY QueueCat DEF SockOk, Socket
<1>2. /\ r.peer = d.peer /\ r.relay = d.relay /\ r.down = d.down
      /\ r.up = IF d.peer = "open" /\ d.relay # "closed" THEN Append(d.up, m)
                ELSE d.up
      /\ Ends(r.up) <=> Ends(d.up)
  BY DaemonSendsIs
<1>3. ~DLive(c, r)
  BY <1>2 DEF DLive
<1>4. CASE ~(d.peer = "open" /\ d.relay # "closed")
  <2>1. r.up = d.up
    BY <1>2, <1>4
  <2>2. Shrinks(c.down \o d.up, c.down \o r.up)
    BY <1>1, <2>1, ShrinksSame
  <2> QED BY <1>3, <2>2
<1>5. CASE d.peer = "open" /\ d.relay # "closed"
  <2>1. r.up = Append(d.up, m)
    BY <1>2, <1>5
  <2>2. Ends(c.down) \/ Ends(d.up)
    <3>1. CASE d.relay = "open"
      BY <3>1 DEF DLive
    <3>2. CASE d.relay # "open"
      BY <1>1, <1>5, <3>2 DEF Socket, SockOk
    <3> QED BY <3>1, <3>2
  <2>3. Shrinks(c.down \o d.up, c.down \o r.up)
    BY <1>1, <2>1, <2>2, AppendBehind
  <2> QED BY <1>3, <2>3
<1> QED BY <1>4, <1>5

LEMMA StepDaemonSays == IInv /\ DaemonSays => IInv'
<1> SUFFICES ASSUME IInv, DaemonSays PROVE IInv'
  OBVIOUS
<1>1. /\ cfg' = cfg /\ cl' = cl /\ entry' = entry /\ client' = client /\ member' = member
      /\ dm.st = "ready" /\ dm' = [dm EXCEPT !.tr = Sent(dm.tr)]
      /\ data' = ToRelay(data, Bin(Encrypted(dm.tr, App(TRUE, "output"))))
  BY DEF DaemonSays
<1>2. PICK m, tr : m = Bin(Encrypted(dm.tr, App(TRUE, "output"))) /\ tr = Sent(dm.tr)
  OBVIOUS
<1>3. dm' = [st |-> "ready", hs |-> dm.hs, tr |-> tr]
  BY <1>1, <1>2 DEF IInv, Typed
<1>4. /\ Transport(dm.tr) /\ Transport(tr) /\ tr.recv = dm.tr.recv
      /\ tr.send.k = dm.tr.send.k /\ tr.send.n = dm.tr.send.n + 1
  BY <1>1, <1>2, SentIs DEF IInv, Typed
<1>5. Typed'
  BY <1>1, <1>3, <1>4 DEF IInv, Typed
<1>6. m.t = "bin" /\ Under(m.c.ct, dm.tr.send.k, dm.tr.send.n)
  BY <1>2, SealedUnder
<1>7. SockOk(data) /\ SockOk(client) /\ Socket(data) /\ Links
  BY DEF IInv, Links, SockOk
<1>8. /\ data'.peer = data.peer /\ data'.relay = data.relay /\ data'.down = data.down
  BY <1>1, <1>7, ToRelayIs
<1>9. SockOk(data')
  <2>1. data' = ToRelay(data, m)
    BY <1>1, <1>2
  <2> QED BY <1>6, <1>7, <2>1, ToRelayOk
<1>10. Links'
  BY <1>1, <1>7, <1>8, <1>9, LinksData
<1>11. Ties'
  BY <1>1, <1>3, <1>8 DEF IInv, Ties
<1>12. ~CPre /\ ~Pre
  BY <1>1 DEF IInv, NotBegun, HelloOnly
<1>13. NotBegun' /\ HelloOnly'
  BY <1>1, <1>3, <1>8, <1>12 DEF NotBegun, HelloOnly, CPre, Pre
<1>14. UpFlows'
  <2>1. Up' = Up /\ (UpLive' <=> UpLive)
    BY <1>1, <1>8 DEF Up, UpLive
  <2> QED BY <1>1, <1>3, <1>4, <2>1, FixedKeys DEF IInv, UpFlows
<1>15. Willing /\ dm.tr.send.k = DownKey /\ dm.tr.recv.k = <<"k1", CkD>> /\ Rough
  BY <1>1 DEF IInv, TermsAgree
<1>16. TermsAgree'
  <2>1. /\ cl'.st = "handshaking" => cl'.hs = Greeted.hs
        /\ cl'.st = "ready" =>
             /\ Willing /\ Matched(cfg) /\ CkC = CkD
             /\ cl'.tr.send.k = UpKey /\ cl'.tr.recv.k = <<"k2", CkC>>
    BY <1>1 DEF IInv, TermsAgree
  <2> QED BY <1>1, <1>3, <1>4, <1>15, <2>1, Fixed, FixedKeys DEF TermsAgree
<1>17. DownFlows'
  <2> SUFFICES ASSUME cl.st \in {"handshaking", "ready"}
               PROVE  /\ DFlow(Down', Got, Answered.msg, DownKey)
                      /\ DownLive' => Filled(Down')
                      /\ DownLive' => Got + Len(Down') = tr.send.n + 1
    <3>1. Got' = Got
      BY <1>1 DEF Got
    <3> QED BY <1>1, <1>3, <1>15, <3>1, Fixed, FixedKeys DEF DownFlows
  <2>1. /\ DFlow(Down, Got, Answered.msg, DownKey)
        /\ DownLive => Filled(Down)
        /\ DownLive => Got + Len(Down) = dm.tr.send.n + 1
    BY <1>1 DEF IInv, DownFlows
  <2>2. client.peer # "closed" /\ data.relay # "idle"
    BY <1>12 DEF IInv, Ties, CPre
  <2>3. /\ DLive(client, data) => Down' = Append(Down, m) /\ DLive(client, data')
        /\ ~DLive(client, data) => Shrinks(Down, Down') /\ ~DLive(client, data')
    <3>1. data' = ToRelay(data, m) /\ (data.relay = "closing" => client.relay = "closed")
      BY <1>1, <1>2, <1>7 DEF Links
    <3>2. Down = client.down \o data.up /\ Down' = client.down \o data'.up
      BY <1>1 DEF Down
    <3>3. PICK c, d, r, s, z : c = client /\ d = data /\ r = data' /\ s = Down /\ z = Down'
      OBVIOUS
    <3>4. /\ SockOk(c) /\ SockOk(d) /\ d.relay # "idle" /\ c.peer # "closed"
          /\ d.relay = "closing" => c.relay = "closed"
          /\ r = ToRelay(d, m)
          /\ s = c.down \o d.up /\ z = c.down \o r.up
      BY <1>7, <2>2, <3>1, <3>2, <3>3
    <3>5. ASSUME DLive(c, d) PROVE z = Append(s, m) /\ DLive(c, r)
      <4>1. z = Append(s, m)
        <5>1. Grows(s, z, m)
          BY <1>6, <3>4, <3>5, DaemonSendsLive
        <5> QED BY <5>1 DEF Grows
      <4>2. DLive(c, r)
        BY <1>6, <3>4, <3>5, DaemonStaysLive
      <4> QED BY <4>1, <4>2
    <3>6. ASSUME ~DLive(c, d) PROVE Shrinks(s, z) /\ ~DLive(c, r)
      BY <1>6, <3>4, <3>6, DaemonSendsLate
    <3> QED BY <3>3, <3>5, <3>6
  <2>4. (DownLive <=> DLive(client, data)) /\ (DownLive' <=> DLive(client, data'))
    BY <1>1 DEF DownLive, DLive
  <2>5. Queue(Down) /\ Queue(Down') /\ Len(Down) \in Nat
    BY <1>7, <1>10, Queues, QueuesNext, QueueIs
  <2>6. Got \in Nat
    BY DEF Got, IInv, Typed, Transport
  <2>7. PICK w, g : w = Answered.msg /\ g = Got
    OBVIOUS
  <2>8. CASE DownLive
    <3>1. Down' = Append(Down, m) /\ Filled(Down) /\ g + Len(Down) = dm.tr.send.n + 1
      BY <2>1, <2>3, <2>4, <2>7, <2>8
    <3>2. /\ g + Len(Down) # 0 /\ g + Len(Down) - 1 = dm.tr.send.n
      BY <1>4, <2>5, <2>6, <2>7, <3>1 DEF Transport
    <3>3. Under(m.c.ct, DownKey, g + Len(Down) - 1)
      BY <1>6, <1>15, <3>2
    <3>4. DFlow(Down', g, w, DownKey)
      BY <2>1, <2>5, <2>6, <2>7, <3>1, <3>2, <3>3, DFlowAppend
    <3>5. Filled(Down') /\ Len(Down') = Len(Down) + 1
      BY <1>6, <2>5, <3>1, EndsAppend, QueueAppend
    <3>6. g + Len(Down') = tr.send.n + 1
      BY <1>4, <2>5, <2>6, <2>7, <3>1, <3>5
    <3> QED BY <2>7, <3>4, <3>5, <3>6
  <2>9. CASE ~DownLive
    <3>1. DFlow(Down', g, w, DownKey)
      BY <2>1, <2>3, <2>4, <2>5, <2>7, <2>9, ShrinksDFlow
    <3> QED BY <2>3, <2>4, <2>7, <2>9, <3>1
  <2> QED BY <2>8, <2>9
<1> QED BY <1>5, <1>10, <1>11, <1>13, <1>14, <1>16, <1>17 DEF IInv

-----------------------------------------------------------------------------
(* The daemon reads.                                                       *)

Follows(s, m, got, w, key) ==
  /\ Filled(s)
  /\ IF got + Len(s) = 0 THEN m.c = w ELSE Under(m.c.ct, key, got + Len(s) - 1)

(* The daemon of socket d sends m to the client of socket c.               *)
DaemonSpeaks(c, d, m, r, s, z) ==
  /\ SockOk(c) /\ SockOk(d) /\ d.relay # "idle" /\ c.peer # "closed"
  /\ d.relay = "closing" => c.relay = "closed"
  /\ m.t = "bin" /\ r = ToRelay(d, m)
  /\ s = c.down \o d.up /\ z = c.down \o r.up

LEMMA DaemonSpeaksLive ==
  ASSUME NEW c, NEW d, NEW m, NEW r, NEW s, NEW z, DaemonSpeaks(c, d, m, r, s, z),
         DLive(c, d)
  PROVE  Grows(s, z, m)
<1>1. /\ SockOk(c) /\ SockOk(d) /\ m.t = "bin" /\ r = ToRelay(d, m)
      /\ s = c.down \o d.up /\ z = c.down \o r.up
  BY DEF DaemonSpeaks
<1> QED BY <1>1, DaemonSendsLive

LEMMA DaemonSpeaksLate ==
  ASSUME NEW c, NEW d, NEW m, NEW r, NEW s, NEW z, DaemonSpeaks(c, d, m, r, s, z),
         ~DLive(c, d)
  PROVE  Shrinks(s, z) /\ ~DLive(c, r)
<1>1. /\ SockOk(c) /\ SockOk(d) /\ d.relay # "idle" /\ c.peer # "closed"
      /\ d.relay = "closing" => c.relay = "closed"
      /\ m.t = "bin" /\ r = ToRelay(d, m)
      /\ s = c.down \o d.up /\ z = c.down \o r.up
  BY DEF DaemonSpeaks
<1> QED BY <1>1, DaemonSendsLate

LEMMA DaemonSpeaksQueues ==
  ASSUME NEW c, NEW d, NEW m, NEW r, NEW s, NEW z, DaemonSpeaks(c, d, m, r, s, z)
  PROVE  Queue(s) /\ Queue(z) /\ SockOk(r)
<1>1. SockOk(r)
  BY ToRelayOk DEF DaemonSpeaks
<1>2. Queue(c.down) /\ Queue(d.up) /\ Queue(r.up)
  BY <1>1 DEF DaemonSpeaks, SockOk, Socket
<1> QED BY <1>1, <1>2, QueueCat DEF DaemonSpeaks

LEMMA DaemonAnswers ==
  ASSUME NEW c, NEW d, NEW m, NEW r, NEW s, NEW z, DaemonSpeaks(c, d, m, r, s, z),
         NEW got \in Nat, NEW w, NEW key, DFlow(s, got, w, key),
         DLive(c, d) => Follows(s, m, got, w, key)
  PROVE  DFlow(z, got, w, key)
<1>3. Queue(s) /\ Queue(z)
  BY DaemonSpeaksQueues
<1>4. CASE DLive(c, d)
  <2>1. Grows(s, z, m)
    BY <1>4, DaemonSpeaksLive
  <2>2. z = Append(s, m)
    BY <2>1 DEF Grows
  <2>3. /\ Filled(s)
        /\ IF got + Len(s) = 0 THEN m.c = w ELSE Under(m.c.ct, key, got + Len(s) - 1)
    BY <1>4 DEF Follows
  <2>4. DFlow(Append(s, m), got, w, key)
    BY <1>3, <2>3, DFlowAppend
  <2> QED BY <2>2, <2>4
<1>5. CASE ~DLive(c, d)
  <2>1. Shrinks(s, z)
    BY <1>5, DaemonSpeaksLate
  <2> QED BY <1>3, <2>1, ShrinksDFlow
<1> QED BY <1>4, <1>5

LEMMA DaemonFills ==
  ASSUME NEW c, NEW d, NEW m, NEW r, NEW s, NEW z, DaemonSpeaks(c, d, m, r, s, z)
  PROVE  DLive(c, r) => DLive(c, d) /\ Len(z) = Len(s) + 1 /\ (Filled(s) => Filled(z))
<1> SUFFICES ASSUME DLive(c, r)
             PROVE  DLive(c, d) /\ Len(z) = Len(s) + 1 /\ (Filled(s) => Filled(z))
  OBVIOUS
<1>2. Queue(s)
  BY DaemonSpeaksQueues
<1>3. DLive(c, d)
  BY DaemonSpeaksLate
<1>4. Grows(s, z, m)
  BY <1>3, DaemonSpeaksLive
<1>5. z = Append(s, m)
  BY <1>4 DEF Grows
<1>6. Len(z) = Len(s) + 1
  BY <1>2, <1>5, QueueAppend
<1>7. Filled(s) => Filled(z)
  BY <1>2, <1>5, EndsAppend DEF DaemonSpeaks
<1> QED BY <1>3, <1>6, <1>7

LEMMA StepDaemonReads == IInv /\ DaemonReads => IInv'
<1> SUFFICES ASSUME IInv, DaemonReads PROVE IInv'
  OBVIOUS
<1>1. /\ cfg' = cfg /\ cl' = cl /\ client' = client /\ member' = member
      /\ Hears(data, "bin") /\ dm.st = "ready"
  BY DEF DaemonReads
<1>2. PICK msg, rd : msg = Head(data.down).c /\ rd = Received(dm.tr)
  OBVIOUS
<1>3. CASE ~Decrypts(dm.tr, msg)
  <2>1. /\ dm' = Close(dm) /\ data' = PeerCloses(PeerTakes(data), None)
        /\ entry' = AfterError
    BY <1>2, <1>3 DEF DaemonReads
  <2>2. entry' \in BOOLEAN
    BY <2>1, ErrorIs DEF IInv
  <2>3. Typed' /\ DmKept /\ dm'.st = "closed"
    BY <1>1, <2>1, <2>2, DmClosed DEF IInv
  <2> QED BY <1>1, <2>1, <2>3, DaemonQuits
<1>4. CASE Decrypts(dm.tr, msg)
  <2>1. PICK m, tr, d : /\ m = Bin(Encrypted(rd, App(TRUE, "mint_ready")))
                        /\ tr = Sent(rd) /\ d = PeerTakes(data)
    OBVIOUS
  <2>2. /\ entry' = entry
        /\ \/ dm' = [dm EXCEPT !.tr = tr] /\ data' = ToRelay(d, m)
           \/ dm' = [dm EXCEPT !.tr = rd] /\ data' = d
    BY <1>2, <1>4, <2>1 DEF DaemonReads
  <2>3. /\ Transport(dm.tr) /\ Transport(rd) /\ rd.send = dm.tr.send
        /\ rd.recv.k = dm.tr.recv.k /\ rd.recv.n = dm.tr.recv.n + 1
    BY <1>1, <1>2, ReceivedIs DEF IInv, Typed
  <2>4. /\ Transport(tr) /\ tr.recv = rd.recv /\ tr.send.k = rd.send.k
        /\ tr.send.n = rd.send.n + 1
    BY <2>1, <2>3, SentIs
  <2>5. m.t = "bin" /\ Under(m.c.ct, rd.send.k, rd.send.n)
    BY <2>1, SealedUnder
  <2>6. SockOk(data) /\ SockOk(client) /\ Links
    BY DEF IInv, Links
  <2>7. /\ SockOk(d) /\ ~Calls(d.down) /\ data.peer # "closed"
        /\ d.peer = data.peer /\ d.relay = data.relay /\ d.up = data.up
        /\ d.down = Tail(data.down) /\ data.relay # "idle" /\ data.down # <<>>
        /\ Head(data.down).t = "bin"
    BY <1>1, <2>1, <2>6, Took
  <2>8. PICK r : r = ToRelay(d, m)
    OBVIOUS
  <2>9. SockOk(r) /\ r.peer = d.peer /\ r.relay = d.relay /\ r.down = d.down
    BY <2>5, <2>7, <2>8, DaemonSendsIs
  <2>11. PICK v : /\ dm' = [dm EXCEPT !.tr = v]
                  /\ (v = rd /\ data' = d) \/ (v = tr /\ data' = r)
    <3>1. CASE dm' = [dm EXCEPT !.tr = tr] /\ data' = ToRelay(d, m)
      BY <2>8, <3>1
    <3>2. CASE dm' = [dm EXCEPT !.tr = rd] /\ data' = d
      BY <3>2
    <3> QED BY <2>2, <3>1, <3>2
  <2>12. /\ Transport(v) /\ v.send.k = dm.tr.send.k /\ v.recv.k = dm.tr.recv.k
         /\ v.recv.n = dm.tr.recv.n + 1
    BY <2>3, <2>4, <2>11
  <2>13. dm' = [st |-> "ready", hs |-> dm.hs, tr |-> v]
    BY <1>1, <2>11 DEF IInv, Typed
  <2>14. Typed'
    BY <1>1, <2>2, <2>12, <2>13 DEF IInv, Typed
  <2>15. /\ SockOk(data') /\ data'.peer = data.peer /\ data'.relay = data.relay
         /\ data'.down = Tail(data.down)
    BY <2>7, <2>9, <2>11
  <2>16. Links'
    BY <1>1, <2>6, <2>15, LinksData
  <2>17. Ties'
    BY <1>1, <2>13, <2>15 DEF IInv, Ties
  <2>18. ~CPre /\ ~Pre
    BY <1>1 DEF IInv, NotBegun, HelloOnly
  <2>19. NotBegun' /\ HelloOnly'
    <3>1. ~Calls(data'.down)
      BY <2>7, <2>15
    <3> QED BY <1>1, <2>13, <2>15, <2>18, <3>1 DEF NotBegun, HelloOnly, CPre, Pre
  <2>20. /\ Up # <<>> /\ Up' = Tail(Up) /\ Up[1].t = "bin" /\ Queue(Up)
         /\ UpLive' => UpLive
    BY <1>1, <2>6, <2>7, <2>15, UpTail
  <2>21. UpFlows'
    <3> SUFFICES ASSUME cl.st \in {"handshaking", "ready"}
                 PROVE  /\ Flow(Up', UpKey, dm.tr.recv.n + 1)
                        /\ UpLive' => /\ Filled(Up')
                                      /\ dm.tr.recv.n + 1 + Len(Up')
                                           = IF cl.st = "ready" THEN cl.tr.send.n ELSE 0
      BY <1>1, <2>12, <2>13, FixedKeys DEF UpFlows
    <3>1. /\ Flow(Up, UpKey, dm.tr.recv.n)
          /\ UpLive => /\ Filled(Up)
                       /\ dm.tr.recv.n + Len(Up) = IF cl.st = "ready" THEN cl.tr.send.n ELSE 0
      BY <1>1 DEF IInv, UpFlows
    <3>2. Flow(Up', UpKey, dm.tr.recv.n + 1)
      <4>1. PICK k, n, u : k = UpKey /\ n = dm.tr.recv.n /\ u = Up
        OBVIOUS
      <4>2. n \in Nat
        BY <2>3, <4>1 DEF Transport
      <4>3. Flow(Tail(u), k, n + 1)
        BY <2>20, <3>1, <4>1, <4>2, FlowTail
      <4> QED BY <2>20, <4>1, <4>3
    <3>3. Filled(Up) => Filled(Up')
      BY <2>20, EndsTail
    <3>4. Len(Up) \in Nat /\ Len(Up') = Len(Up) - 1 /\ dm.tr.recv.n \in Nat
      BY <2>3, <2>20, QueueTail DEF Transport
    <3>5. dm.tr.recv.n + 1 + Len(Up') = dm.tr.recv.n + Len(Up)
      BY <3>4
    <3> QED BY <2>20, <3>1, <3>2, <3>3, <3>5
  <2>22. DownFlows'
    <3> SUFFICES ASSUME cl.st \in {"handshaking", "ready"}
                 PROVE  /\ Reached(Down') => Willing
                        /\ DFlow(Down', Got, Answered.msg, DownKey)
                        /\ DownLive' => Filled(Down') /\ Got + Len(Down') = v.send.n + 1
      <4>1. Got' = Got
        BY <1>1 DEF Got
      <4> QED BY <1>1, <2>13, <4>1, Fixed, FixedKeys DEF DownFlows
    <3>1. Willing /\ dm.tr.send.k = DownKey
      BY <1>1 DEF IInv, TermsAgree
    <3>2. /\ DFlow(Down, Got, Answered.msg, DownKey)
          /\ DownLive => Filled(Down)
          /\ DownLive => Got + Len(Down) = dm.tr.send.n + 1
      BY <1>1 DEF IInv, DownFlows
    <3>3. client.peer # "closed"
      BY <2>18 DEF IInv, Ties, CPre
    <3>4. Got \in Nat /\ dm.tr.send.n \in Nat
      BY <2>3 DEF Got, IInv, Typed, Transport
    <3>5. CASE v = rd /\ data' = d
      <4>1. Down' = Down /\ (DownLive' => DownLive)
        BY <1>1, <2>7, <3>5 DEF Down, DownLive
      <4> QED BY <2>3, <3>1, <3>2, <3>5, <4>1
    <3>6. CASE v = tr /\ data' = r
      <4>1. PICK c, s, z, got, w, key :
              /\ c = client /\ s = Down /\ z = Down' /\ got = Got
              /\ w = Answered.msg /\ key = DownKey
        OBVIOUS
      <4>2. Down = client.down \o data.up /\ Down' = client.down \o data'.up
        BY <1>1 DEF Down
      <4>3. DaemonSpeaks(c, d, m, r, s, z)
        <5>1. data.relay = "closing" => client.relay = "closed"
          BY <2>6 DEF Links
        <5> QED BY <2>5, <2>6, <2>7, <2>8, <3>3, <3>6, <4>1, <4>2, <5>1
             DEF DaemonSpeaks
      <4>4. (DownLive <=> DLive(c, d)) /\ (DownLive' <=> DLive(c, r))
        BY <1>1, <2>7, <3>6, <4>1 DEF DownLive, DLive
      <4>5. Queue(s)
        BY <2>6, <4>1, Queues
      <4>6. DLive(c, d) => Follows(s, m, got, w, key)
        <5> SUFFICES ASSUME DLive(c, d) PROVE Follows(s, m, got, w, key)
          OBVIOUS
        <5>1. Filled(s) /\ got + Len(s) = dm.tr.send.n + 1
          BY <3>2, <4>1, <4>4
        <5>2. got + Len(s) # 0 /\ got + Len(s) - 1 = dm.tr.send.n
          BY <3>4, <4>1, <4>5, <5>1, QueueIs
        <5>3. Under(m.c.ct, key, got + Len(s) - 1)
          BY <2>3, <2>5, <3>1, <4>1, <5>2
        <5> QED BY <5>1, <5>2, <5>3 DEF Follows
      <4>7. DFlow(s, got, w, key) /\ got \in Nat
        BY <3>2, <3>4, <4>1
      <4>8. DFlow(z, got, w, key)
        BY <4>3, <4>6, <4>7, DaemonAnswers
      <4>9. DLive(c, r) => DLive(c, d) /\ Len(z) = Len(s) + 1 /\ (Filled(s) => Filled(z))
        BY <4>3, DaemonFills
      <4>10. v.send.n = dm.tr.send.n + 1
        BY <2>3, <2>4, <3>6
      <4>11. ASSUME DownLive' PROVE Filled(Down') /\ Got + Len(Down') = v.send.n + 1
        <5>1. /\ Filled(s) /\ Filled(z) /\ Len(z) = Len(s) + 1
              /\ got + Len(s) = dm.tr.send.n + 1
          BY <3>2, <4>1, <4>4, <4>9, <4>11
        <5>2. Len(s) \in Nat
          BY <4>5, QueueIs
        <5>3. got + Len(z) = v.send.n + 1
          BY <3>4, <4>7, <4>10, <5>1, <5>2
        <5> QED BY <4>1, <5>1, <5>3
      <4> QED BY <3>1, <4>1, <4>8, <4>11
    <3> QED BY <2>11, <3>5, <3>6
  <2>23. TermsAgree'
    <3>1. /\ Willing /\ dm.tr.send.k = DownKey /\ dm.tr.recv.k = <<"k1", CkD>> /\ Rough
          /\ cl'.st = "handshaking" => cl'.hs = Greeted.hs
          /\ cl'.st = "ready" =>
               /\ Willing /\ Matched(cfg) /\ CkC = CkD
               /\ cl'.tr.send.k = UpKey /\ cl'.tr.recv.k = <<"k2", CkC>>
      BY <1>1 DEF IInv, TermsAgree
    <3> QED BY <1>1, <2>12, <2>13, <3>1, Fixed, FixedKeys DEF TermsAgree
  <2> QED BY <2>14, <2>16, <2>17, <2>19, <2>21, <2>22, <2>23 DEF IInv
<1> QED BY <1>3, <1>4

-----------------------------------------------------------------------------
(* What the hello brings.                                                  *)

LEMMA OnlyFilled ==
  ASSUME NEW s, Queue(s), Filled(s), Bare(s)
  PROVE  Len(s) = 0
<1>1. Len(s) \in Nat
  BY QueueIs
<1>2. ASSUME Len(s) # 0 PROVE FALSE
  <2>1. 1 \in 1..Len(s)
    BY <1>1, <1>2
  <2> QED BY <2>1 DEF Filled, Bare
<1> QED BY <1>2

LEMMA HelloIs ==
  ASSUME IInv, Hears(data, "bin"), dm.st = "handshaking",
         NEW in, in = ReadMessage(dm.hs, Head(data.down).c)
  PROVE  /\ in = Heard /\ Willing /\ Sound
         /\ ~Reached(Tail(Up)) /\ (UpLive => Len(Tail(Up)) = 0)
         /\ ~CPre /\ Bare(Down) /\ cl.st # "ready" /\ ~Calls(data.down)
<1>1. /\ Bare(Down) /\ cl.st # "ready" /\ ~Calls(data.down)
      /\ HelloFlow(Up, Greeted.msg)
      /\ UpLive => \A k \in 1..Len(Up) : Up[k].t = "bin" \/ (k = 1 /\ Up[k].t = "paired")
  BY DEF IInv, HelloOnly, Pre
<1>2. Willing /\ dm.hs = Responder
  BY DEF IInv, TermsAgree
<1>3. Sound
  BY <1>2, RunIsSound DEF IInv, Typed
<1>4. Queue(data.down) /\ Queue(client.up) /\ data.down # <<>> /\ Head(data.down).t = "bin"
  BY Queues DEF IInv, Hears
<1>5. Queue(Up) /\ Up # <<>> /\ Head(data.down) = Up[1]
  BY <1>4, TailOfCat, QueueCat DEF Up
<1>6. PICK s, m : s = Up /\ m = Greeted.msg
  OBVIOUS
<1>7. s[1].c = m /\ ~Reached(Tail(s)) /\ (Filled(s) => Len(s) = 1)
  BY <1>1, <1>4, <1>5, <1>6, HelloTaken
<1>8. in = Heard
  BY <1>2, <1>5, <1>6, <1>7 DEF Heard
<1>9. ASSUME UpLive PROVE Len(Tail(Up)) = 0
  <2>1. Filled(Up)
    BY <1>1, <1>4, <1>5, <1>9 DEF Filled
  <2> QED BY <1>5, <1>6, <1>7, <2>1, QueueTail
<1>10. ~CPre
  <2>1. ~Bare(Up)
    BY <1>4, <1>5, QueueTail DEF Bare
  <2> QED BY <2>1 DEF IInv, NotBegun
<1> QED BY <1>1, <1>2, <1>3, <1>6, <1>7, <1>8, <1>9, <1>10

LEMMA AnswerKeys ==
  ASSUME Sound, NEW tr, tr = Split(Answered.hs)
  PROVE  /\ Transport(tr) /\ tr.send.k = DownKey /\ tr.recv.k = <<"k1", CkD>>
         /\ tr.send.n = 0 /\ tr.recv.n = 0
<1>1. PICK a, b : a = <<"k2", CkD>> /\ b = <<"k1", CkD>>
  OBVIOUS
<1>2. tr = [send |-> Cipher(a), recv |-> Cipher(b)]
  BY <1>1 DEF Sound
<1>3. /\ Transport(tr) /\ tr.send.k = a /\ tr.recv.k = b
      /\ tr.send.n = 0 /\ tr.recv.n = 0
  BY <1>2, NewTransport
<1> QED BY <1>1, <1>3 DEF DownKey

(* What the welcome, alone and with what follows it, is to the client.     *)
LEMMA WelcomeFlows ==
  ASSUME NEW c, NEW d, NEW m, NEW r, NEW s, NEW z, DaemonSpeaks(c, d, m, r, s, z),
         NEW key, Bare(s), DLive(c, d) => Filled(s)
  PROVE  /\ DFlow(z, 0, m.c, key)
         /\ DLive(c, r) => Filled(z) /\ Len(z) = 1
<1>1. Queue(s)
  BY DaemonSpeaksQueues
<1>2. PICK w, g : w = m.c /\ g = 0
  OBVIOUS
<1>3. DLive(c, d) => Len(s) = 0
  BY <1>1, OnlyFilled
<1>4. DLive(c, d) => Follows(s, m, g, w, key)
  BY <1>2, <1>3 DEF Follows
<1>5. DFlow(s, g, w, key)
  BY <1>1, BareFlows
<1>6. DFlow(z, g, w, key)
  BY <1>2, <1>4, <1>5, DaemonAnswers
<1>7. DLive(c, r) => DLive(c, d) /\ Len(z) = Len(s) + 1 /\ (Filled(s) => Filled(z))
  BY DaemonFills
<1>8. DFlow(z, 0, m.c, key)
  BY <1>2, <1>6
<1>9. ASSUME DLive(c, r) PROVE Filled(z) /\ Len(z) = 1
  BY <1>3, <1>7, <1>9
<1> QED BY <1>8, <1>9

LEMMA ApprovalFlows ==
  ASSUME NEW c, NEW d, NEW m, NEW r, NEW s, NEW z, DaemonSpeaks(c, d, m, r, s, z),
         NEW key, NEW w, DFlow(s, 0, w, key), DLive(c, d) => Filled(s) /\ Len(s) = 1,
         Under(m.c.ct, key, 0)
  PROVE  /\ DFlow(z, 0, w, key)
         /\ DLive(c, r) => Filled(z) /\ Len(z) = 2
<1>1. PICK g : g = 0
  OBVIOUS
<1>2. ASSUME DLive(c, d) PROVE Follows(s, m, g, w, key)
  <2>1. Filled(s) /\ Len(s) = 1
    BY <1>2
  <2>2. g + Len(s) # 0 /\ g + Len(s) - 1 = 0
    BY <1>1, <2>1
  <2>3. Under(m.c.ct, key, g + Len(s) - 1)
    BY <2>2
  <2> QED BY <2>1, <2>2, <2>3 DEF Follows
<1>3. DFlow(z, g, w, key)
  BY <1>1, <1>2, DaemonAnswers
<1>4. DLive(c, r) => DLive(c, d) /\ Len(z) = Len(s) + 1 /\ (Filled(s) => Filled(z))
  BY DaemonFills
<1>5. DFlow(z, 0, w, key)
  BY <1>1, <1>3
<1>6. ASSUME DLive(c, r) PROVE Filled(z) /\ Len(z) = 2
  <2>1. DLive(c, d) /\ Len(z) = Len(s) + 1 /\ (Filled(s) => Filled(z))
    BY <1>4, <1>6
  <2>2. Filled(s) /\ Len(s) = 1
    BY <2>1
  <2> QED BY <2>1, <2>2
<1> QED BY <1>5, <1>6

-----------------------------------------------------------------------------
(* The daemon takes the hello.                                             *)

LEMMA StepHello == IInv /\ Hello => IInv'
<1> SUFFICES ASSUME IInv, Hello PROVE IInv'
  OBVIOUS
<1>1. /\ cfg' = cfg /\ cl' = cl /\ client' = client /\ member' = member
      /\ Hears(data, "bin") /\ dm.st = "handshaking"
  BY DEF Hello
<1>2. PICK in, out, tr, d, m1, m2, w1, r2 :
        /\ in = ReadMessage(dm.hs, Head(data.down).c)
        /\ out = WriteMessage(in.hs, "eD") /\ tr = Split(out.hs)
        /\ d = PeerTakes(data) /\ m1 = Bin(out.msg) /\ w1 = ToRelay(d, m1)
        /\ m2 = Bin(Encrypted(tr, App(TRUE, "approved"))) /\ r2 = ToRelay(w1, m2)
  OBVIOUS
<1>3. IF in.ok
        THEN /\ dm' = [st |-> "ready", hs |-> NoHandshake,
                       tr |-> IF entry /\ cfg.token THEN Sent(tr) ELSE tr]
             /\ data' = IF entry /\ cfg.token THEN r2 ELSE w1
             /\ entry' = entry
        ELSE /\ dm' = Close(dm)
             /\ data' = PeerCloses(PeerTakes(data), None)
             /\ entry' = AfterError
  BY <1>2 DEF Hello
<1>4. CASE ~in.ok
  <2>1. /\ dm' = Close(dm) /\ data' = PeerCloses(PeerTakes(data), None)
        /\ entry' = AfterError
    BY <1>3, <1>4
  <2>2. entry' \in BOOLEAN
    BY <2>1, ErrorIs DEF IInv
  <2>3. Typed' /\ DmKept /\ dm'.st = "closed"
    BY <1>1, <2>1, <2>2, DmClosed DEF IInv
  <2> QED BY <1>1, <2>1, <2>3, DaemonQuits
<1>5. CASE in.ok
  <2>1. PICK v : /\ dm' = [st |-> "ready", hs |-> NoHandshake, tr |-> v]
                 /\ \/ v = Sent(tr) /\ data' = r2
                    \/ v = tr /\ data' = w1
    BY <1>3, <1>5
  <2>2. /\ in = Heard /\ Willing /\ Sound
        /\ ~Reached(Tail(Up)) /\ (UpLive => Len(Tail(Up)) = 0)
        /\ ~CPre /\ Bare(Down) /\ cl.st # "ready" /\ ~Calls(data.down)
    BY <1>1, <1>2, HelloIs
  <2>3. out = Answered
    BY <1>2, <2>2 DEF Answered
  <2>4. /\ Transport(tr) /\ tr.send.k = DownKey /\ tr.recv.k = <<"k1", CkD>>
        /\ tr.send.n = 0 /\ tr.recv.n = 0
    BY <1>2, <2>2, <2>3, AnswerKeys
  <2>5. PICK u : u = Sent(tr)
    OBVIOUS
  <2>6. Transport(u) /\ u.recv = tr.recv /\ u.send.k = tr.send.k /\ u.send.n = 1
    BY <2>4, <2>5, SentIs
  <2>7. /\ Transport(v) /\ v.send.k = DownKey /\ v.recv.k = <<"k1", CkD>> /\ v.recv.n = 0
    BY <2>1, <2>4, <2>5, <2>6
  <2>8. m1.t = "bin" /\ m1.c = Answered.msg
    BY <1>2, <2>3, BinIs
  <2>9. m2.t = "bin" /\ Under(m2.c.ct, DownKey, 0)
    BY <1>2, <2>4, SealedUnder
  <2>10. SockOk(data) /\ SockOk(client) /\ Links
    BY DEF IInv, Links
  <2>11. /\ SockOk(d) /\ ~Calls(d.down) /\ data.peer # "closed"
         /\ d.peer = data.peer /\ d.relay = data.relay /\ d.up = data.up
         /\ d.down = Tail(data.down) /\ data.relay # "idle" /\ data.down # <<>>
         /\ Head(data.down).t = "bin"
    BY <1>1, <1>2, <2>10, Took
  <2>12. SockOk(w1) /\ w1.peer = d.peer /\ w1.relay = d.relay /\ w1.down = d.down
    <3>1. w1 = ToRelay(d, m1)
      BY <1>2
    <3> QED BY <2>8, <2>11, <3>1, DaemonSendsIs
  <2>13. SockOk(r2) /\ r2.peer = d.peer /\ r2.relay = d.relay /\ r2.down = d.down
    <3>1. r2 = ToRelay(w1, m2)
      BY <1>2
    <3> QED BY <2>9, <2>12, <3>1, DaemonSendsIs
  <2>14. /\ SockOk(data') /\ data'.peer = data.peer /\ data'.relay = data.relay
         /\ data'.down = Tail(data.down)
    BY <2>1, <2>11, <2>12, <2>13
  <2>15. entry' = entry
    BY <1>3, <1>5
  <2>16. Typed'
    BY <1>1, <2>1, <2>7, <2>15 DEF IInv, Typed
  <2>17. Links'
    BY <1>1, <2>10, <2>14, LinksData
  <2>18. Ties'
    BY <1>1, <2>1, <2>11, <2>14 DEF IInv, Ties
  <2>19. NotBegun' /\ HelloOnly'
    <3>1. ~Calls(data'.down)
      BY <2>11, <2>14
    <3>2. ~CPre'
      BY <1>1, <2>2, <2>14 DEF CPre
    <3>3. ~Pre'
      BY <2>1, <2>11, <2>14, <3>1 DEF Pre
    <3> QED BY <3>2, <3>3 DEF NotBegun, HelloOnly
  <2>20. /\ Up' = Tail(Up) /\ Queue(Up) /\ Up # <<>>
         /\ UpLive' => UpLive
    BY <1>1, <2>10, <2>11, <2>14, UpTail
  <2>21. UpFlows'
    <3>1. Flow(Up', UpKey', dm'.tr.recv.n)
      <4>1. PICK a, b, s : a = UpKey' /\ b = dm'.tr.recv.n /\ s = Tail(Up)
        OBVIOUS
      <4>2. Flow(s, a, b)
        BY <2>2, <4>1, NothingFlows
      <4> QED BY <2>20, <4>1, <4>2
    <3>2. UpLive' => Len(Up') = 0 /\ Filled(Up')
      <4>1. UpLive' => Len(Up') = 0
        BY <2>2, <2>20
      <4> QED BY <4>1 DEF Filled
    <3>3. dm'.tr.recv.n = 0 /\ cl'.st # "ready"
      BY <1>1, <2>1, <2>2, <2>7
    <3> QED BY <3>1, <3>2, <3>3 DEF UpFlows
  <2>22. DownFlows'
    <3> SUFFICES ASSUME cl.st = "handshaking"
                 PROVE  /\ DFlow(Down', 0, Answered.msg, DownKey)
                        /\ DownLive' => Filled(Down') /\ Len(Down') = v.send.n + 1
      <4>1. Got' = 0
        BY <1>1, <2>2 DEF Got
      <4> QED BY <1>1, <2>1, <2>2, <4>1, Fixed, FixedKeys DEF DownFlows
    <3>1. DownLive => Filled(Down)
      BY DEF IInv, DownFlows
    <3>2. client.peer # "closed"
      BY DEF IInv, Ties
    <3>3. PICK c, s, z, y, w, key :
            /\ c = client /\ s = Down /\ y = client.down \o w1.up /\ z = client.down \o r2.up
            /\ w = Answered.msg /\ key = DownKey
      OBVIOUS
    <3>4. data.relay = "closing" => client.relay = "closed"
      BY <2>10 DEF Links
    <3>5. DaemonSpeaks(c, d, m1, w1, s, y)
      <4>1. s = c.down \o d.up /\ y = c.down \o w1.up
        BY <2>11, <3>3 DEF Down
      <4> QED BY <1>2, <2>8, <2>10, <2>11, <3>2, <3>3, <3>4, <4>1 DEF DaemonSpeaks
    <3>6. DaemonSpeaks(c, w1, m2, r2, y, z)
      <4>1. y = c.down \o w1.up /\ z = c.down \o r2.up
        BY <3>3
      <4> QED BY <1>2, <2>9, <2>10, <2>11, <2>12, <3>2, <3>3, <3>4, <4>1 DEF DaemonSpeaks
    <3>7. DLive(c, d) => Filled(s)
      <4>1. DLive(c, d) => DownLive
        BY <2>11, <3>3 DEF DLive, DownLive
      <4> QED BY <3>1, <3>3, <4>1
    <3>8. /\ DFlow(y, 0, w, key)
          /\ DLive(c, w1) => Filled(y) /\ Len(y) = 1
      <4>1. /\ DFlow(y, 0, m1.c, key)
            /\ DLive(c, w1) => Filled(y) /\ Len(y) = 1
        <5>1. Bare(s)
          BY <2>2, <3>3
        <5>2. DFlow(y, 0, m1.c, key)
          BY <3>5, <3>7, <5>1, WelcomeFlows
        <5>3. DLive(c, w1) => Filled(y) /\ Len(y) = 1
          BY <3>5, <3>7, <5>1, WelcomeFlows
        <5> QED BY <5>2, <5>3
      <4> QED BY <2>8, <3>3, <4>1
    <3>9. CASE v = tr /\ data' = w1
      <4>1. DownLive' <=> DLive(c, w1)
        BY <1>1, <3>3, <3>9 DEF DownLive, DLive
      <4>2. Down' = y
        BY <1>1, <3>3, <3>9 DEF Down
      <4>3. DFlow(Down', 0, Answered.msg, DownKey)
        BY <3>3, <3>8, <4>2
      <4>4. ASSUME DownLive' PROVE Filled(Down') /\ Len(Down') = v.send.n + 1
        <5>1. Filled(y) /\ Len(y) = 1
          BY <3>8, <4>1, <4>4
        <5>2. v.send.n = 0
          BY <2>4, <3>9
        <5> QED BY <4>2, <5>1, <5>2
      <4> QED BY <4>3, <4>4
    <3>10. CASE v = Sent(tr) /\ data' = r2
      <4>1. DownLive' <=> DLive(c, r2)
        BY <1>1, <3>3, <3>10 DEF DownLive, DLive
      <4>2. Down' = z
        BY <1>1, <3>3, <3>10 DEF Down
      <4>3. /\ DFlow(z, 0, w, key)
            /\ DLive(c, r2) => Filled(z) /\ Len(z) = 2
        <5>1. Under(m2.c.ct, key, 0)
          BY <2>9, <3>3
        <5>2. DFlow(z, 0, w, key)
          BY <3>6, <3>8, <5>1, ApprovalFlows
        <5>3. DLive(c, r2) => Filled(z) /\ Len(z) = 2
          BY <3>6, <3>8, <5>1, ApprovalFlows
        <5> QED BY <5>2, <5>3
      <4>4. v.send.n = 1
        BY <2>5, <2>6, <3>10
      <4>5. DFlow(Down', 0, Answered.msg, DownKey)
        BY <3>3, <4>2, <4>3
      <4>6. ASSUME DownLive' PROVE Filled(Down') /\ Len(Down') = v.send.n + 1
        <5>1. Filled(z) /\ Len(z) = 2
          BY <4>1, <4>3, <4>6
        <5> QED BY <4>2, <4>4, <5>1
      <4> QED BY <4>5, <4>6
    <3> QED BY <2>1, <3>9, <3>10
  <2>23. TermsAgree'
    <3>1. Rough
      BY <1>5, <2>2 DEF Sound, Rough
    <3>2. cl'.st # "ready" /\ (cl'.st = "handshaking" => cl'.hs = Greeted.hs)
      BY <1>1, <2>2 DEF IInv, TermsAgree
    <3> QED BY <1>1, <2>1, <2>2, <2>7, <3>1, <3>2, Fixed, FixedKeys DEF TermsAgree
  <2> QED BY <2>16, <2>17, <2>18, <2>19, <2>21, <2>22, <2>23 DEF IInv
<1> QED BY <1>4, <1>5

-----------------------------------------------------------------------------
(* The client sends.                                                       *)

(* c: the daemon's socket, d: the client's, which sends.                   *)
CLive(c, d) == c.relay = "open" /\ c.peer # "closed" /\ ~Ends(c.down) /\ ~Ends(d.up)

ClientSpeaks(c, d, m, r, s, z) ==
  /\ SockOk(c) /\ SockOk(d) /\ c.relay # "idle" /\ c.peer # "closed"
  /\ c.relay = "open" => d.relay # "closed"
  /\ m.t = "bin" /\ r = ToRelay(d, m)
  /\ s = c.down \o d.up /\ z = c.down \o r.up

LEMMA ClientSpeaksQueues ==
  ASSUME NEW c, NEW d, NEW m, NEW r, NEW s, NEW z, ClientSpeaks(c, d, m, r, s, z)
  PROVE  Queue(s) /\ Queue(z) /\ SockOk(r)
<1>1. SockOk(r)
  BY ToRelayOk DEF ClientSpeaks
<1>2. Queue(c.down) /\ Queue(d.up) /\ Queue(r.up)
  BY <1>1 DEF ClientSpeaks, SockOk, Socket
<1> QED BY <1>1, <1>2, QueueCat DEF ClientSpeaks

LEMMA ClientSpeaksIs ==
  ASSUME NEW c, NEW d, NEW m, NEW r, NEW s, NEW z, ClientSpeaks(c, d, m, r, s, z)
  PROVE  /\ r.peer = d.peer /\ r.relay = d.relay /\ r.down = d.down
         /\ r.up = IF d.peer = "open" /\ d.relay # "closed" THEN Append(d.up, m)
                   ELSE d.up
         /\ Ends(r.up) <=> Ends(d.up)
<1>1. SockOk(d) /\ m.t = "bin" /\ r = ToRelay(d, m)
  BY DEF ClientSpeaks
<1> QED BY <1>1, DaemonSendsIs

LEMMA ClientSpeaksLive ==
  ASSUME NEW c, NEW d, NEW m, NEW r, NEW s, NEW z, ClientSpeaks(c, d, m, r, s, z),
         CLive(c, d)
  PROVE  Grows(s, z, m)
<1>1. d.peer = "open" /\ d.relay # "closed"
  BY DEF ClientSpeaks, CLive, SockOk, Socket
<1>2. r.up = IF d.peer = "open" /\ d.relay # "closed" THEN Append(d.up, m)
             ELSE d.up
  BY ClientSpeaksIs
<1>3. r.up = Append(d.up, m)
  BY <1>1, <1>2
<1>4. PICK p, q : p = c.down /\ q = d.up
  OBVIOUS
<1>5. Queue(p) /\ Queue(q)
  BY <1>4 DEF ClientSpeaks, SockOk, Socket
<1>6. p \o Append(q, m) = Append(p \o q, m)
  BY <1>5, AppendToCat
<1>7. r.up = Append(q, m)
  BY <1>3, <1>4
<1>8. s = p \o q /\ z = p \o r.up
  BY <1>4 DEF ClientSpeaks
<1>9. z = Append(s, m)
  BY <1>6, <1>7, <1>8
<1> QED BY <1>9 DEF Grows

LEMMA ClientSpeaksLate ==
  ASSUME NEW c, NEW d, NEW m, NEW r, NEW s, NEW z, ClientSpeaks(c, d, m, r, s, z),
         ~CLive(c, d)
  PROVE  Shrinks(s, z) /\ ~CLive(c, r)
<1>1. /\ Socket(d) /\ Socket(c) /\ Queue(d.up) /\ Queue(c.down)
      /\ s = c.down \o d.up /\ z = c.down \o r.up
  BY DEF ClientSpeaks, SockOk, Socket
<1>2. /\ r.up = IF d.peer = "open" /\ d.relay # "closed" THEN Append(d.up, m)
                ELSE d.up
      /\ Ends(r.up) <=> Ends(d.up)
  BY ClientSpeaksIs
<1>3. ~CLive(c, r)
  BY <1>2 DEF CLive
<1>4. CASE ~(d.peer = "open" /\ d.relay # "closed")
  <2>1. r.up = d.up
    BY <1>2, <1>4
  <2>2. Shrinks(s, z)
    BY <1>1, <2>1, ClientSpeaksQueues, ShrinksSame
  <2> QED BY <1>3, <2>2
<1>5. CASE d.peer = "open" /\ d.relay # "closed"
  <2>1. r.up = Append(d.up, m)
    BY <1>2, <1>5
  <2>2. Ends(c.down) \/ Ends(d.up)
    BY DEF ClientSpeaks, CLive, SockOk, Socket
  <2>3. Shrinks(c.down \o d.up, c.down \o r.up)
    BY <1>1, <2>1, <2>2, AppendBehind
  <2>4. Shrinks(s, z)
    BY <1>1, <2>3
  <2> QED BY <1>3, <2>4
<1> QED BY <1>4, <1>5

FollowsUp(s, m, k, n) == Filled(s) /\ Under(m.c.ct, k, n + Len(s))

LEMMA ClientFlows ==
  ASSUME NEW c, NEW d, NEW m, NEW r, NEW s, NEW z, ClientSpeaks(c, d, m, r, s, z),
         NEW k, NEW n \in Nat, Flow(s, k, n), CLive(c, d) => FollowsUp(s, m, k, n)
  PROVE  Flow(z, k, n)
<1>1. Queue(s) /\ Queue(z)
  BY ClientSpeaksQueues
<1>2. CASE CLive(c, d)
  <2>1. Grows(s, z, m)
    BY <1>2, ClientSpeaksLive
  <2>2. z = Append(s, m)
    BY <2>1 DEF Grows
  <2>3. Filled(s) /\ Under(m.c.ct, k, n + Len(s))
    BY <1>2 DEF FollowsUp
  <2>4. Flow(Append(s, m), k, n)
    BY <1>1, <2>3, FlowAppend
  <2> QED BY <2>2, <2>4
<1>3. CASE ~CLive(c, d)
  <2>1. Shrinks(s, z)
    BY <1>3, ClientSpeaksLate
  <2> QED BY <1>1, <2>1, ShrinksFlow
<1> QED BY <1>2, <1>3

LEMMA ClientFills ==
  ASSUME NEW c, NEW d, NEW m, NEW r, NEW s, NEW z, ClientSpeaks(c, d, m, r, s, z)
  PROVE  CLive(c, r) => CLive(c, d) /\ Len(z) = Len(s) + 1 /\ (Filled(s) => Filled(z))
<1> SUFFICES ASSUME CLive(c, r)
             PROVE  CLive(c, d) /\ Len(z) = Len(s) + 1 /\ (Filled(s) => Filled(z))
  OBVIOUS
<1>1. Queue(s)
  BY ClientSpeaksQueues
<1>2. CLive(c, d)
  BY ClientSpeaksLate
<1>3. Grows(s, z, m)
  BY <1>2, ClientSpeaksLive
<1>4. z = Append(s, m)
  BY <1>3 DEF Grows
<1>5. Len(z) = Len(s) + 1
  BY <1>1, <1>4, QueueAppend
<1>6. Filled(s) => Filled(z)
  BY <1>1, <1>4, EndsAppend DEF ClientSpeaks
<1> QED BY <1>2, <1>5, <1>6

LEMMA SpeaksUp ==
  ASSUME Links, data.peer # "closed", data.relay # "idle", data' = data,
         NEW d, SockOk(d), d.relay = client.relay, d.up = client.up,
         NEW m, m.t = "bin", client' = ToRelay(d, m)
  PROVE  /\ ClientSpeaks(data, d, m, client', Up, Up')
         /\ UpLive <=> CLive(data, d)
         /\ UpLive' <=> CLive(data, client')
<1>1. Up = data.down \o d.up /\ Up' = data.down \o client'.up
  BY DEF Up
<1>2. data.relay = "open" => d.relay # "closed"
  BY DEF Links
<1>3. SockOk(data)
  BY DEF Links
<1>4. ClientSpeaks(data, d, m, client', Up, Up')
  BY <1>1, <1>2, <1>3 DEF ClientSpeaks
<1>5. UpLive <=> CLive(data, d)
  BY DEF UpLive, CLive
<1>6. UpLive' <=> CLive(data, client')
  BY DEF UpLive, CLive
<1> QED BY <1>4, <1>5, <1>6

-----------------------------------------------------------------------------
(* The client says something, or fails.                                    *)

LEMMA StepClientSays == IInv /\ ClientSays => IInv'
<1> SUFFICES ASSUME IInv, ClientSays PROVE IInv'
  OBVIOUS
<1>1. PICK m, tr : m = Bin(Encrypted(cl.tr, App(TRUE, "input"))) /\ tr = Sent(cl.tr)
  OBVIOUS
<1>2. /\ cfg' = cfg /\ dm' = dm /\ entry' = entry /\ data' = data /\ member' = member
      /\ cl.st = "ready" /\ cl' = [cl EXCEPT !.tr = tr] /\ client' = ToRelay(client, m)
  BY <1>1 DEF ClientSays
<1>3. cl' = [st |-> "ready", hs |-> cl.hs, tr |-> tr, join |-> cl.join]
  BY <1>2 DEF IInv, Typed
<1>4. /\ Transport(cl.tr) /\ Transport(tr) /\ tr.recv = cl.tr.recv
      /\ tr.send.k = cl.tr.send.k /\ tr.send.n = cl.tr.send.n + 1
  BY <1>1, <1>2, SentIs DEF IInv, Typed
<1>5. Typed'
  BY <1>2, <1>3, <1>4 DEF IInv, Typed
<1>6. m.t = "bin" /\ Under(m.c.ct, cl.tr.send.k, cl.tr.send.n)
  BY <1>1, SealedUnder
<1>7. SockOk(data) /\ SockOk(client) /\ Links
  BY DEF IInv, Links
<1>8. /\ SockOk(client') /\ client'.peer = client.peer /\ client'.relay = client.relay
      /\ client'.down = client.down
  BY <1>2, <1>6, <1>7, DaemonSendsIs
<1>9. Links'
  <2>1. data.relay = "idle" => \A k \in 1..Len(client'.down) : client'.down[k].t = "end"
    BY <1>7, <1>8 DEF Links
  <2> QED BY <1>2, <1>7, <1>8, <2>1, LinksClient
<1>10. Ties'
  BY <1>2, <1>3, <1>8 DEF IInv, Ties
<1>11. ~CPre /\ ~Pre
  BY <1>2 DEF IInv, NotBegun, HelloOnly
<1>12. NotBegun' /\ HelloOnly'
  <2>1. ~CPre' /\ ~Pre'
    BY <1>2, <1>8, <1>11 DEF CPre, Pre
  <2> QED BY <2>1 DEF NotBegun, HelloOnly
<1>13. /\ Willing /\ Matched(cfg) /\ CkC = CkD
       /\ cl.tr.send.k = UpKey /\ cl.tr.recv.k = <<"k2", CkC>>
  BY <1>2 DEF IInv, TermsAgree
<1>14. UpFlows'
  <2> SUFFICES ASSUME dm.st = "ready"
               PROVE  /\ Flow(Up', UpKey, dm.tr.recv.n)
                      /\ UpLive' => Filled(Up') /\ dm.tr.recv.n + Len(Up') = tr.send.n
    BY <1>2, <1>3, FixedKeys DEF UpFlows
  <2>1. /\ Flow(Up, UpKey, dm.tr.recv.n)
        /\ UpLive => Filled(Up) /\ dm.tr.recv.n + Len(Up) = cl.tr.send.n
    BY <1>2 DEF IInv, UpFlows
  <2>2. data.peer # "closed" /\ data.relay # "idle"
    BY <1>11 DEF IInv, Ties, Pre
  <2>3. /\ ClientSpeaks(data, client, m, client', Up, Up')
        /\ UpLive <=> CLive(data, client)
        /\ UpLive' <=> CLive(data, client')
    BY <1>2, <1>6, <1>7, <2>2, SpeaksUp
  <2>4. dm.tr.recv.n \in Nat /\ cl.tr.send.n \in Nat
    BY <1>4 DEF IInv, Typed, Transport
  <2>5. PICK c, d, r, s, z, k, n :
          /\ c = data /\ d = client /\ r = client' /\ s = Up /\ z = Up'
          /\ k = UpKey /\ n = dm.tr.recv.n
    OBVIOUS
  <2>6. ClientSpeaks(c, d, m, r, s, z)
    BY <2>3, <2>5
  <2>7. CLive(c, d) => FollowsUp(s, m, k, n)
    <3> SUFFICES ASSUME CLive(c, d) PROVE FollowsUp(s, m, k, n)
      OBVIOUS
    <3>1. Filled(s) /\ n + Len(s) = cl.tr.send.n
      BY <2>1, <2>3, <2>5
    <3>2. Under(m.c.ct, k, n + Len(s))
      BY <1>6, <1>13, <2>5, <3>1
    <3> QED BY <3>1, <3>2 DEF FollowsUp
  <2>8. Flow(s, k, n) /\ n \in Nat
    BY <2>1, <2>4, <2>5
  <2>9. Flow(z, k, n)
    BY <2>6, <2>7, <2>8, ClientFlows
  <2>10. CLive(c, r) => CLive(c, d) /\ Len(z) = Len(s) + 1 /\ (Filled(s) => Filled(z))
    BY <2>6, ClientFills
  <2>11. ASSUME UpLive' PROVE Filled(Up') /\ dm.tr.recv.n + Len(Up') = tr.send.n
    <3>1. CLive(c, r)
      BY <2>3, <2>5, <2>11
    <3>2. UpLive /\ Len(z) = Len(s) + 1 /\ (Filled(s) => Filled(z))
      BY <2>3, <2>5, <2>10, <3>1
    <3>3. Filled(s) /\ n + Len(s) = cl.tr.send.n
      BY <2>1, <2>5, <3>2
    <3>4. Len(s) \in Nat
      BY <1>7, <2>5, Queues, QueueIs
    <3>5. n + Len(z) = tr.send.n
      BY <1>4, <2>8, <3>2, <3>3, <3>4
    <3> QED BY <2>5, <3>2, <3>3, <3>5
  <2> QED BY <2>5, <2>9, <2>11
<1>15. DownFlows'
  <2>1. Down' = Down /\ (DownLive' => DownLive)
    BY <1>2, <1>8 DEF Down, DownLive
  <2>2. Got' = Got
    BY <1>2, <1>3, <1>4 DEF Got
  <2>3. /\ Reached(Down) => Willing
        /\ DFlow(Down, Got, Answered.msg, DownKey)
        /\ DownLive => Filled(Down)
        /\ DownLive /\ dm.st = "ready" => Got + Len(Down) = dm.tr.send.n + 1
    BY <1>2 DEF IInv, DownFlows
  <2> QED BY <1>2, <2>1, <2>2, <2>3, Fixed, FixedKeys DEF DownFlows
<1>16. TermsAgree'
  <2>1. /\ dm.st = "handshaking" => Willing /\ dm.hs = Responder
        /\ dm.st = "ready" =>
             Willing /\ dm.tr.send.k = DownKey /\ dm.tr.recv.k = <<"k1", CkD>> /\ Rough
    BY DEF IInv, TermsAgree
  <2> QED BY <1>2, <1>3, <1>4, <1>13, <2>1, Fixed, FixedKeys DEF TermsAgree
<1> QED BY <1>5, <1>9, <1>10, <1>12, <1>14, <1>15, <1>16 DEF IInv

(* A client that gives up upon a frame.                                    *)
LEMMA ClientFails ==
  ASSUME IInv, cfg' = cfg, dm' = dm, data' = data, member' = member, entry' = entry,
         Hears(client, "bin"), client' = PeerCloses(PeerTakes(client), None),
         NEW h, NEW j, cl' = [st |-> "closed", hs |-> h, tr |-> cl.tr, join |-> j]
  PROVE  IInv'
<1>1. Typed' /\ ClKept
  BY DEF IInv, Typed, ClKept
<1>2. client'.peer # "closed"
  BY TookAndCloses DEF IInv, Links
<1>3. Ties'
  BY <1>2 DEF IInv, Ties
<1> QED BY <1>1, <1>3, ClientQuits

LEMMA GivesUpIs ==
  ASSUME Typed
  PROVE  \E j : GivesUp(cl) = [st |-> "closed", hs |-> cl.hs, tr |-> cl.tr, join |-> j]
<1>1. PICK j : GivesUp(cl) = [cl EXCEPT !.st = "closed", !.join = j]
  BY DEF GivesUp
<1>2. PICK g : g = GivesUp(cl)
  OBVIOUS
<1>3. g = [cl EXCEPT !.st = "closed", !.join = j]
  BY <1>1, <1>2
<1>4. g = [st |-> "closed", hs |-> cl.hs, tr |-> cl.tr, join |-> j]
  BY <1>3 DEF Typed
<1> QED BY <1>2, <1>4

-----------------------------------------------------------------------------
(* The client reads.                                                       *)

LEMMA StepClientReads == IInv /\ ClientReads => IInv'
<1> SUFFICES ASSUME IInv, ClientReads PROVE IInv'
  OBVIOUS
<1>1. /\ cfg' = cfg /\ dm' = dm /\ entry' = entry /\ data' = data /\ member' = member
      /\ Hears(client, "bin") /\ cl.st = "ready"
  BY DEF ClientReads
<1>2. PICK msg, rd : msg = Head(client.down).c /\ rd = Received(cl.tr)
  OBVIOUS
<1>3. CASE ~(Decrypts(cl.tr, msg) /\ Understood(msg.ct.body))
  <2>1. cl' = GivesUp(cl) /\ client' = PeerCloses(PeerTakes(client), None)
    BY <1>2, <1>3 DEF ClientReads
  <2>2. PICK j : GivesUp(cl) = [st |-> "closed", hs |-> cl.hs, tr |-> cl.tr, join |-> j]
    BY GivesUpIs DEF IInv
  <2>3. PICK h : h = cl.hs
    OBVIOUS
  <2>4. cl' = [st |-> "closed", hs |-> h, tr |-> cl.tr, join |-> j]
    BY <2>1, <2>2, <2>3
  <2> QED BY <1>1, <2>1, <2>4, ClientFails
<1>4. CASE Decrypts(cl.tr, msg) /\ Understood(msg.ct.body)
  <2>1. /\ cl' = Settles([cl EXCEPT !.tr = rd], msg.ct.body)
        /\ client' = PeerTakes(client)
    BY <1>2, <1>4 DEF ClientReads
  <2>2. /\ Transport(cl.tr) /\ Transport(rd) /\ rd.send = cl.tr.send
        /\ rd.recv.k = cl.tr.recv.k /\ rd.recv.n = cl.tr.recv.n + 1
    BY <1>1, <1>2, ReceivedIs DEF IInv, Typed
  <2>3. PICK j : cl' = [st |-> "ready", hs |-> cl.hs, tr |-> rd, join |-> j]
    <3>1. PICK x : x = [cl EXCEPT !.tr = rd]
      OBVIOUS
    <3>2. x = [st |-> "ready", hs |-> cl.hs, tr |-> rd, join |-> cl.join]
      BY <1>1, <3>1 DEF IInv, Typed
    <3>3. PICK j : cl' = [x EXCEPT !.join = j]
      BY <2>1, <3>1 DEF Settles
    <3>4. cl' = [st |-> "ready", hs |-> cl.hs, tr |-> rd, join |-> j]
      BY <3>2, <3>3
    <3> QED BY <3>4
  <2>4. Typed'
    BY <1>1, <2>2, <2>3 DEF IInv, Typed
  <2>5. SockOk(data) /\ SockOk(client) /\ Links
    BY DEF IInv, Links
  <2>6. /\ SockOk(client') /\ ~Calls(client'.down) /\ client.peer # "closed"
        /\ client'.peer = client.peer /\ client'.relay = client.relay
        /\ client'.up = client.up /\ client'.down = Tail(client.down)
        /\ client.down # <<>> /\ Head(client.down).t = "bin"
    BY <1>1, <2>1, <2>5, Took
  <2>7. ~CPre /\ ~Pre
    BY <1>1 DEF IInv, NotBegun, HelloOnly
  <2>8. Links'
    <3>1. data.relay # "idle"
      BY <2>7 DEF CPre
    <3> QED BY <1>1, <2>5, <2>6, <3>1, LinksClient
  <2>9. Ties'
    BY <1>1, <2>3, <2>6 DEF IInv, Ties
  <2>10. NotBegun' /\ HelloOnly'
    <3>1. ~CPre' /\ ~Pre'
      BY <1>1, <2>6, <2>7 DEF CPre, Pre
    <3> QED BY <3>1 DEF NotBegun, HelloOnly
  <2>11. UpFlows'
    <3>1. Up' = Up /\ (UpLive' => UpLive)
      BY <1>1, <2>6 DEF Up, UpLive
    <3>2. dm.st = "ready" =>
            /\ Flow(Up, UpKey, dm.tr.recv.n)
            /\ UpLive => Filled(Up) /\ dm.tr.recv.n + Len(Up) = cl.tr.send.n
      BY <1>1 DEF IInv, UpFlows
    <3> QED BY <1>1, <2>2, <2>3, <3>1, <3>2, FixedKeys DEF UpFlows
  <2>12. /\ Down # <<>> /\ Down' = Tail(Down) /\ Down[1].t = "bin" /\ Queue(Down)
         /\ DownLive' => DownLive
    BY <1>1, <2>5, <2>6, DownTail
  <2>13. /\ Willing /\ Matched(cfg) /\ CkC = CkD
         /\ cl.tr.send.k = UpKey /\ cl.tr.recv.k = <<"k2", CkC>>
    BY <1>1 DEF IInv, TermsAgree
  <2>14. DownFlows'
    <3>1. /\ DFlow(Down, Got, Answered.msg, DownKey)
          /\ DownLive => Filled(Down)
          /\ DownLive /\ dm.st = "ready" => Got + Len(Down) = dm.tr.send.n + 1
      BY <1>1 DEF IInv, DownFlows
    <3>2. Got' = Got + 1 /\ Got \in Nat
      BY <1>1, <2>2, <2>3 DEF Got, Transport
    <3>3. DFlow(Down', Got + 1, Answered.msg, DownKey)
      <4>1. PICK s, g, w, k : s = Down /\ g = Got /\ w = Answered.msg /\ k = DownKey
        OBVIOUS
      <4>2. DFlow(Tail(s), g + 1, w, k)
        BY <2>12, <3>1, <3>2, <4>1, DFlowTail
      <4> QED BY <2>12, <4>1, <4>2
    <3>4. Filled(Down) => Filled(Down')
      BY <2>12, EndsTail
    <3>5. Len(Down) \in Nat /\ Len(Down') = Len(Down) - 1
      BY <2>12, QueueTail
    <3>6. Got + 1 + Len(Down') = Got + Len(Down)
      BY <3>2, <3>5
    <3> QED BY <1>1, <2>12, <2>13, <3>1, <3>2, <3>3, <3>4, <3>6, Fixed, FixedKeys DEF DownFlows
  <2>15. TermsAgree'
    <3>1. /\ dm.st = "handshaking" => Willing /\ dm.hs = Responder
          /\ dm.st = "ready" =>
               Willing /\ dm.tr.send.k = DownKey /\ dm.tr.recv.k = <<"k1", CkD>> /\ Rough
      BY DEF IInv, TermsAgree
    <3> QED BY <1>1, <2>2, <2>3, <2>13, <3>1, Fixed, FixedKeys DEF TermsAgree
  <2> QED BY <2>4, <2>8, <2>9, <2>10, <2>11, <2>14, <2>15 DEF IInv
<1> QED BY <1>3, <1>4

-----------------------------------------------------------------------------
(* The client greets.                                                      *)

LEMMA StepGreets == IInv /\ Greets => IInv'
<1> SUFFICES ASSUME IInv, Greets PROVE IInv'
  OBVIOUS
<1>1. PICK m, d, g : m = Bin(Greeted.msg) /\ d = PeerTakes(client) /\ g = Greeted.hs
  OBVIOUS
<1>2. /\ cfg' = cfg /\ dm' = dm /\ entry' = entry /\ data' = data /\ member' = member
      /\ Hears(client, "paired") /\ Listens
      /\ cl' = [cl EXCEPT !.st = "handshaking", !.hs = g] /\ client' = ToRelay(d, m)
  BY <1>1 DEF Greets, Greeted
<1>3. cl' = [st |-> "handshaking", hs |-> g, tr |-> cl.tr, join |-> cl.join]
  BY <1>2 DEF IInv, Typed
<1>4. Typed'
  BY <1>2, <1>3 DEF IInv, Typed
<1>5. m.t = "bin" /\ m.c = Greeted.msg
  BY <1>1, BinIs
<1>6. SockOk(data) /\ SockOk(client) /\ Links
  BY DEF IInv, Links
<1>7. /\ SockOk(d) /\ ~Calls(d.down) /\ Calls(client.down) /\ client.peer # "closed"
      /\ d.peer = client.peer /\ d.relay = client.relay /\ d.up = client.up
      /\ d.down = Tail(client.down) /\ client.down # <<>> /\ Head(client.down).t = "paired"
      /\ \E k \in 1..Len(client.down) : client.down[k].t # "end"
  BY <1>1, <1>2, <1>6, Took
<1>8. /\ SockOk(client') /\ client'.peer = client.peer /\ client'.relay = client.relay
      /\ client'.down = Tail(client.down)
  BY <1>2, <1>5, <1>7, DaemonSendsIs
<1>9. data.relay # "idle"
  BY <1>6, <1>7 DEF Links
<1>10. Links'
  BY <1>2, <1>6, <1>8, <1>9, LinksClient
<1>11. Ties'
  BY <1>2, <1>3, <1>7, <1>8 DEF IInv, Ties, Listens
<1>12. /\ Bare(Up) /\ Bare(Down) /\ cl.st \in {"waiting", "closed"} /\ dm.st # "ready"
       /\ DownLive => Len(Down) <= 1
  BY <1>7 DEF IInv, NotBegun, CPre
<1>13. NotBegun'
  <2>1. ~Calls(client'.down)
    BY <1>7, <1>8
  <2> QED BY <1>2, <1>9, <2>1 DEF NotBegun, CPre
<1>14. /\ Down # <<>> /\ Down' = Tail(Down) /\ Queue(Down)
       /\ DownLive' => DownLive
  BY <1>2, <1>6, <1>7, <1>8, DownTail
<1>15. Bare(Down') /\ Queue(Down') /\ Len(Down') \in Nat /\ (DownLive' => Len(Down') = 0)
  <2>1. Bare(Down') /\ Queue(Down') /\ Len(Down') = Len(Down) - 1 /\ Len(Down) \in Nat \ {0}
    BY <1>12, <1>14, EndsTail, QueueTail
  <2> QED BY <1>12, <1>14, <2>1
<1>16. HelloOnly'
  <2> SUFFICES ASSUME Pre
               PROVE  /\ HelloFlow(Up', Greeted.msg)
                      /\ UpLive' => \A k \in 1..Len(Up') :
                           Up'[k].t = "bin" \/ (k = 1 /\ Up'[k].t = "paired")
                      /\ dm.st = "handshaking" => ~Calls(data.down)
    BY <1>2, <1>3, <1>12, <1>15, Fixed DEF HelloOnly, Pre
  <2>1. /\ HelloFlow(Up, Greeted.msg)
        /\ UpLive => \A k \in 1..Len(Up) : Up[k].t = "bin" \/ (k = 1 /\ Up[k].t = "paired")
        /\ dm.st = "handshaking" => ~Calls(data.down)
    BY DEF IInv, HelloOnly
  <2>2. data.peer # "closed"
    <3> SUFFICES ASSUME data.peer = "closed" PROVE FALSE
      OBVIOUS
    <3>1. data.down = <<>> /\ dm.st = "closed"
      BY <1>6 DEF IInv, Ties, SockOk
    <3> QED BY <1>9, <3>1, EndsNothing DEF Pre
  <2>3. /\ ClientSpeaks(data, d, m, client', Up, Up')
        /\ UpLive <=> CLive(data, d)
        /\ UpLive' <=> CLive(data, client')
    BY <1>2, <1>5, <1>6, <1>7, <1>9, <2>2, SpeaksUp
  <2>4. PICK c, r, s, z, w : c = data /\ r = client' /\ s = Up /\ z = Up' /\ w = Greeted.msg
    OBVIOUS
  <2>5. ClientSpeaks(c, d, m, r, s, z)
    BY <2>3, <2>4
  <2>6. Queue(s) /\ Queue(z)
    BY <2>5, ClientSpeaksQueues
  <2>7. CASE CLive(c, d)
    <3>1. Grows(s, z, m)
      BY <2>5, <2>7, ClientSpeaksLive
    <3>2. z = Append(s, m)
      BY <3>1 DEF Grows
    <3>3. HelloFlow(z, w)
      <4>1. HelloFlow(Append(s, m), m.c)
        BY <1>12, <2>4, <2>6, HelloAppend
      <4> QED BY <1>5, <2>4, <3>2, <4>1
    <3>4. ASSUME NEW k \in 1..Len(z) PROVE z[k].t = "bin" \/ (k = 1 /\ z[k].t = "paired")
      <4>1. /\ Len(z) = Len(s) + 1 /\ z[Len(s) + 1] = m /\ Len(s) \in Nat
            /\ \A i \in 1..Len(s) : z[i] = s[i]
        BY <2>6, <3>2, QueueAppend, QueueIs
      <4>2. CASE k = Len(s) + 1
        BY <1>5, <4>1, <4>2
      <4>3. CASE k \in 1..Len(s)
        BY <2>1, <2>3, <2>4, <2>7, <4>1, <4>3
      <4> QED BY <4>1, <4>2, <4>3
    <3> QED BY <2>1, <2>4, <3>3, <3>4
  <2>8. CASE ~CLive(c, d)
    <3>1. Shrinks(s, z) /\ ~CLive(c, r)
      BY <2>5, <2>8, ClientSpeaksLate
    <3>2. HelloFlow(z, w)
      BY <2>1, <2>4, <2>6, <3>1, ShrinksHello
    <3> QED BY <2>1, <2>3, <2>4, <3>1, <3>2
  <2> QED BY <2>7, <2>8
<1>17. UpFlows'
  BY <1>2, <1>12 DEF UpFlows
<1>18. DownFlows'
  <2>1. ~Reached(Down') /\ DFlow(Down', Got', Answered.msg', DownKey')
    <3>1. PICK s, g1, w, k : s = Down' /\ g1 = Got' /\ w = Answered.msg' /\ k = DownKey'
      OBVIOUS
    <3>2. ~Reached(s) /\ DFlow(s, g1, w, k)
      BY <1>15, <3>1, BareFlows
    <3> QED BY <3>1, <3>2
  <2>2. DownLive' => Filled(Down')
    BY <1>15 DEF Filled
  <2> QED BY <1>2, <1>12, <2>1, <2>2 DEF DownFlows
<1>19. TermsAgree'
  <2>1. dm.st = "handshaking" => Willing /\ dm.hs = Responder
    BY DEF IInv, TermsAgree
  <2> QED BY <1>1, <1>2, <1>3, <1>12, <2>1, Fixed, FixedKeys DEF TermsAgree
<1> QED BY <1>4, <1>10, <1>11, <1>13, <1>16, <1>17, <1>18, <1>19 DEF IInv

-----------------------------------------------------------------------------
(* The client takes the welcome.                                           *)

LEMMA WelcomeIs ==
  ASSUME IInv, Hears(client, "bin"), cl.st = "handshaking",
         NEW in, in = IF cfg.kind = "page" THEN ReadWelcome(cl.hs, Head(client.down).c)
                      ELSE ReadMessage(cl.hs, Head(client.down).c)
  PROVE  in = Understands /\ Willing /\ Sound /\ ~CPre /\ ~Pre
<1>1. cl.hs = Greeted.hs
  BY DEF IInv, TermsAgree
<1>2. Queue(data.up) /\ Queue(client.down) /\ client.down # <<>> /\ Head(client.down).t = "bin"
  BY Queues DEF IInv, Hears
<1>3. Queue(Down) /\ Down # <<>> /\ Head(client.down) = Down[1]
  BY <1>2, TailOfCat, QueueCat DEF Down
<1>4. /\ Reached(Down) => Willing
      /\ DFlow(Down, Got, Answered.msg, DownKey)
  BY DEF IInv, DownFlows
<1>5. Willing
  BY <1>2, <1>3, <1>4, HeadReached
<1>6. Sound
  BY <1>5, RunIsSound DEF IInv, Typed
<1>7. PICK s, w, k : s = Down /\ w = Answered.msg /\ k = DownKey
  OBVIOUS
<1>8. DFlow(s, 0, w, k)
  BY <1>4, <1>7 DEF Got
<1>9. s[1].c = w
  BY <1>2, <1>3, <1>7, <1>8, DFlowHead
<1>10. in = Understands
  BY <1>1, <1>3, <1>7, <1>9 DEF Understands
<1>11. ~Bare(Down)
  BY <1>2, <1>3, QueueTail DEF Bare
<1> QED BY <1>5, <1>6, <1>10, <1>11 DEF IInv, NotBegun, HelloOnly

LEMMA UnderstoodKeys ==
  ASSUME Sound, NEW tr,
         tr = IF cfg.kind = "page" THEN PageSplit(Understands.hs) ELSE Split(Understands.hs)
  PROVE  /\ Transport(tr) /\ tr.send.k = UpKey /\ tr.recv.k = <<"k2", CkC>>
         /\ tr.send.n = 0 /\ tr.recv.n = 0
<1>1. PICK a, b : a = <<"k1", CkC>> /\ b = <<"k2", CkC>>
  OBVIOUS
<1>2. tr = [send |-> Cipher(a), recv |-> Cipher(b)]
  BY <1>1 DEF Sound
<1>3. /\ Transport(tr) /\ tr.send.k = a /\ tr.recv.k = b
      /\ tr.send.n = 0 /\ tr.recv.n = 0
  BY <1>2, NewTransport
<1> QED BY <1>1, <1>3 DEF UpKey

LEMMA StepWelcome == IInv /\ Welcome => IInv'
<1> SUFFICES ASSUME IInv, Welcome PROVE IInv'
  OBVIOUS
<1>1. /\ cfg' = cfg /\ dm' = dm /\ entry' = entry /\ data' = data /\ member' = member
      /\ Hears(client, "bin") /\ Listens /\ cl.st = "handshaking"
  BY DEF Welcome
<1>2. PICK in, tr, v, m, d :
        /\ in = IF cfg.kind = "page" THEN ReadWelcome(cl.hs, Head(client.down).c)
                ELSE ReadMessage(cl.hs, Head(client.down).c)
        /\ tr = IF cfg.kind = "page" THEN PageSplit(in.hs) ELSE Split(in.hs)
        /\ v = Sent(tr) /\ m = Bin(Encrypted(tr, First)) /\ d = PeerTakes(client)
  OBVIOUS
<1>3. IF in.ok
        THEN /\ cl' = [cl EXCEPT !.st = "ready", !.hs = NoHandshake, !.tr = v]
             /\ client' = ToRelay(d, m)
        ELSE /\ cl' = [GivesUp(cl) EXCEPT !.hs = NoHandshake]
             /\ client' = PeerCloses(PeerTakes(client), None)
  BY <1>2 DEF Welcome
<1>4. CASE ~in.ok
  <2>1. PICK x, h : x = GivesUp(cl) /\ h = NoHandshake
    OBVIOUS
  <2>2. PICK j : x = [st |-> "closed", hs |-> cl.hs, tr |-> cl.tr, join |-> j]
    BY <2>1, GivesUpIs DEF IInv
  <2>3. cl' = [x EXCEPT !.hs = h] /\ client' = PeerCloses(PeerTakes(client), None)
    BY <1>3, <1>4, <2>1
  <2>4. cl' = [st |-> "closed", hs |-> h, tr |-> cl.tr, join |-> j]
    BY <2>2, <2>3
  <2> QED BY <1>1, <2>3, <2>4, ClientFails
<1>5. CASE in.ok
  <2>1. cl' = [cl EXCEPT !.st = "ready", !.hs = NoHandshake, !.tr = v] /\ client' = ToRelay(d, m)
    BY <1>3, <1>5
  <2>2. cl' = [st |-> "ready", hs |-> NoHandshake, tr |-> v, join |-> cl.join]
    BY <2>1 DEF IInv, Typed
  <2>3. in = Understands /\ Willing /\ Sound /\ ~CPre /\ ~Pre
    BY <1>1, <1>2, WelcomeIs
  <2>4. tr = IF cfg.kind = "page" THEN PageSplit(Understands.hs) ELSE Split(Understands.hs)
    BY <1>2, <2>3
  <2>5. /\ Transport(tr) /\ tr.send.k = UpKey /\ tr.recv.k = <<"k2", CkC>>
        /\ tr.send.n = 0 /\ tr.recv.n = 0
    BY <2>3, <2>4, UnderstoodKeys
  <2>6. CkC = CkD /\ Matched(cfg)
    BY <1>5, <2>3 DEF Sound
  <2>7. /\ Transport(v) /\ v.recv = tr.recv /\ v.send.k = tr.send.k
        /\ v.send.n = tr.send.n + 1
    <3>1. v = Sent(tr)
      BY <1>2
    <3> QED BY <2>5, <3>1, SentIs
  <2>8. m.t = "bin" /\ Under(m.c.ct, UpKey, 0)
    <3>1. m = Bin(Encrypted(tr, First))
      BY <1>2
    <3>2. m.t = "bin" /\ Under(m.c.ct, tr.send.k, tr.send.n)
      BY <3>1, SealedUnder
    <3> QED BY <2>5, <3>2
  <2>9. Typed'
    BY <1>1, <2>2, <2>7 DEF IInv, Typed
  <2>10. SockOk(data) /\ SockOk(client) /\ Links
    BY DEF IInv, Links
  <2>11. /\ SockOk(d) /\ ~Calls(d.down) /\ client.peer # "closed"
         /\ d.peer = client.peer /\ d.relay = client.relay /\ d.up = client.up
         /\ d.down = Tail(client.down) /\ client.down # <<>> /\ Head(client.down).t = "bin"
    <3>1. d = PeerTakes(client)
      BY <1>2
    <3> QED BY <1>1, <2>10, <3>1, Took
  <2>12. /\ SockOk(client') /\ client'.peer = client.peer /\ client'.relay = client.relay
         /\ client'.down = Tail(client.down)
    <3>1. client' = ToRelay(d, m)
      BY <2>1
    <3> QED BY <2>8, <2>11, <3>1, DaemonSendsIs
  <2>13. data.relay # "idle"
    BY <2>3 DEF CPre
  <2>14. Links'
    BY <1>1, <2>10, <2>12, <2>13, LinksClient
  <2>15. Ties'
    BY <1>1, <2>2, <2>11, <2>12 DEF IInv, Ties
  <2>16. NotBegun' /\ HelloOnly'
    <3>1. ~Calls(client'.down)
      BY <2>11, <2>12
    <3>2. ~CPre' /\ ~Pre'
      BY <1>1, <2>3, <3>1 DEF CPre, Pre
    <3> QED BY <3>2 DEF NotBegun, HelloOnly
  <2>17. UpFlows'
    <3> SUFFICES ASSUME dm.st = "ready"
                 PROVE  /\ Flow(Up', UpKey, dm.tr.recv.n)
                        /\ UpLive' => Filled(Up') /\ dm.tr.recv.n + Len(Up') = 1
      BY <1>1, <2>2, <2>5, <2>7, FixedKeys DEF UpFlows
    <3>1. /\ Flow(Up, UpKey, dm.tr.recv.n)
          /\ UpLive => Filled(Up) /\ dm.tr.recv.n + Len(Up) = 0
      BY <1>1 DEF IInv, UpFlows
    <3>2. data.peer # "closed"
      BY DEF IInv, Ties
    <3>3. client' = ToRelay(d, m)
      BY <2>1
    <3>4. /\ ClientSpeaks(data, d, m, client', Up, Up')
          /\ UpLive <=> CLive(data, d)
          /\ UpLive' <=> CLive(data, client')
      BY <1>1, <2>8, <2>10, <2>11, <2>13, <3>2, <3>3, SpeaksUp
    <3>5. PICK c, r, s, z, k, n :
            /\ c = data /\ r = client' /\ s = Up /\ z = Up'
            /\ k = UpKey /\ n = dm.tr.recv.n
      OBVIOUS
    <3>6. ClientSpeaks(c, d, m, r, s, z)
      BY <3>4, <3>5
    <3>7. CLive(c, d) => FollowsUp(s, m, k, n)
      <4> SUFFICES ASSUME CLive(c, d) PROVE FollowsUp(s, m, k, n)
        OBVIOUS
      <4>1. Filled(s) /\ n + Len(s) = 0
        BY <3>1, <3>4, <3>5
      <4>2. Under(m.c.ct, k, n + Len(s))
        BY <2>8, <3>5, <4>1
      <4> QED BY <4>1, <4>2 DEF FollowsUp
    <3>8. Flow(s, k, n) /\ n \in Nat
      BY <3>1, <3>5 DEF IInv, Typed, Transport
    <3>9. Flow(z, k, n)
      BY <3>6, <3>7, <3>8, ClientFlows
    <3>10. CLive(c, r) => CLive(c, d) /\ Len(z) = Len(s) + 1 /\ (Filled(s) => Filled(z))
      BY <3>6, ClientFills
    <3>11. ASSUME UpLive' PROVE Filled(Up') /\ dm.tr.recv.n + Len(Up') = 1
      <4>1. CLive(c, r)
        BY <3>4, <3>5, <3>11
      <4>2. UpLive /\ Len(z) = Len(s) + 1 /\ (Filled(s) => Filled(z))
        BY <3>4, <3>5, <3>10, <4>1
      <4>3. Filled(s) /\ n + Len(s) = 0
        BY <3>1, <3>5, <4>2
      <4>4. Len(s) \in Nat
        BY <2>10, <3>5, Queues, QueueIs
      <4>5. n + Len(z) = 1
        BY <3>8, <4>2, <4>3, <4>4
      <4> QED BY <3>5, <4>2, <4>3, <4>5
    <3> QED BY <3>5, <3>9, <3>11
  <2>18. /\ Down # <<>> /\ Down' = Tail(Down) /\ Down[1].t = "bin" /\ Queue(Down)
         /\ DownLive' => DownLive
    BY <1>1, <2>10, <2>11, <2>12, DownTail
  <2>19. DownFlows'
    <3>1. /\ DFlow(Down, 0, Answered.msg, DownKey)
          /\ DownLive => Filled(Down)
          /\ DownLive /\ dm.st = "ready" => 0 + Len(Down) = dm.tr.send.n + 1
      BY <1>1 DEF IInv, DownFlows, Got
    <3>2. Got' = 1
      BY <2>2, <2>5, <2>7 DEF Got
    <3>3. DFlow(Down', 1, Answered.msg, DownKey)
      <4>1. PICK s, w, k, g, h : s = Down /\ w = Answered.msg /\ k = DownKey /\ g = 0 /\ h = 1
        OBVIOUS
      <4>2. DFlow(Tail(s), g + 1, w, k)
        BY <2>18, <3>1, <4>1, DFlowTail
      <4>3. g + 1 = 1
        BY <4>1
      <4> QED BY <2>18, <4>1, <4>2, <4>3
    <3>4. Filled(Down) => Filled(Down')
      BY <2>18, EndsTail
    <3>5. Len(Down) \in Nat /\ Len(Down') = Len(Down) - 1
      BY <2>18, QueueTail
    <3>6. 1 + Len(Down') = 0 + Len(Down)
      BY <3>5
    <3> QED BY <1>1, <2>3, <2>18, <3>1, <3>2, <3>3, <3>4, <3>6, Fixed, FixedKeys DEF DownFlows
  <2>20. TermsAgree'
    <3>1. /\ dm.st = "handshaking" => Willing /\ dm.hs = Responder
          /\ dm.st = "ready" =>
               Willing /\ dm.tr.send.k = DownKey /\ dm.tr.recv.k = <<"k1", CkD>> /\ Rough
      BY DEF IInv, TermsAgree
    <3> QED BY <1>1, <2>2, <2>3, <2>5, <2>6, <2>7, <3>1, Fixed, FixedKeys DEF TermsAgree
  <2> QED BY <2>9, <2>14, <2>15, <2>16, <2>17, <2>19, <2>20 DEF IInv
<1> QED BY <1>4, <1>5

-----------------------------------------------------------------------------
(* Every step, and what it comes to.                                       *)

LEMMA DialledOk == SockOk(Dialled) /\ Dialled.peer = "open" /\ Dialled.relay = "idle"
                   /\ Dialled.up = <<>> /\ Dialled.down = <<>>
<1>1. PICK q, d : q = <<>> /\ d = Dialled
  OBVIOUS
<1>2. d = [peer |-> "open", relay |-> "idle", up |-> q, down |-> q]
  BY <1>1 DEF Dialled, NoSocket
<1>3. Queue(q) /\ OnceFirst(q) /\ Plain(q)
  BY <1>1, EmptyQueue, EndsNothing
<1>4. SockOk(d)
  BY <1>1, <1>2, <1>3 DEF SockOk, Socket
<1> QED BY <1>1, <1>2, <1>4

LEMMA InitInv == Init => IInv
<1> SUFFICES ASSUME Init PROVE IInv
  OBVIOUS
<1>1. /\ cfg \in Configs /\ cl.st = "waiting" /\ dm.st = "connecting" /\ entry = TRUE
      /\ client = Accept(Dialled) /\ data = Dialled /\ member = "waiting"
      /\ cl = [st |-> "waiting", hs |-> NoHandshake, tr |-> NoTunnel, join |-> "open"]
      /\ dm = [st |-> "connecting", hs |-> NoHandshake, tr |-> NoTunnel]
  BY DEF Init
<1>2. PICK d : d = Dialled
  OBVIOUS
<1>3. SockOk(d) /\ d.peer = "open" /\ d.relay = "idle" /\ d.up = <<>> /\ d.down = <<>>
  BY <1>2, DialledOk
<1>4. client = Accept(d) /\ data = d
  BY <1>1, <1>2
<1>5. /\ SockOk(client) /\ client.peer = "open" /\ client.relay = "open"
      /\ client.up = <<>> /\ client.down = <<>>
  BY <1>3, <1>4, AcceptIs, AcceptOk DEF SockOk
<1>6. Up = <<>> /\ Down = <<>>
  BY <1>3, <1>4, <1>5 DEF Up, Down
<1>7. Typed
  BY <1>1 DEF Typed
<1>8. Links
  BY <1>1, <1>3, <1>4, <1>5, EmptyQueue DEF Links
<1>9. Ties
  BY <1>1, <1>3, <1>4, <1>5 DEF Ties
<1>10. NotBegun
  BY <1>1, <1>6, EmptyQueue, EndsNothing DEF NotBegun
<1>11. HelloOnly
  <2>1. HelloFlow(Up, Greeted.msg)
    BY <1>6, EmptyQueue, EndsNothing, BareFlows
  <2>2. \A k \in 1..Len(Up) : Up[k].t = "bin" \/ (k = 1 /\ Up[k].t = "paired")
    BY <1>6, EmptyQueue
  <2> QED BY <1>1, <1>6, <2>1, <2>2, EndsNothing DEF HelloOnly
<1>12. UpFlows /\ DownFlows /\ TermsAgree
  BY <1>1 DEF UpFlows, DownFlows, TermsAgree
<1> QED BY <1>7, <1>8, <1>9, <1>10, <1>11, <1>12 DEF IInv

LEMMA StutterInv == IInv /\ UNCHANGED vars => IInv'
<1> SUFFICES ASSUME IInv, UNCHANGED vars PROVE IInv'
  OBVIOUS
<1>1. /\ cfg' = cfg /\ cl' = cl /\ dm' = dm /\ entry' = entry /\ client' = client
      /\ data' = data /\ member' = member
  BY DEF vars
<1>2. Typed' /\ Links' /\ Ties'
  BY <1>1 DEF IInv, Typed, Links, Ties
<1>3. Up' = Up /\ Down' = Down /\ (UpLive' <=> UpLive) /\ (DownLive' <=> DownLive)
  BY <1>1 DEF Up, Down, UpLive, DownLive
<1>4. (CPre' <=> CPre) /\ (Pre' <=> Pre) /\ Got' = Got
  BY <1>1 DEF CPre, Pre, Got
<1>5. NotBegun' /\ HelloOnly'
  BY <1>1, <1>3, <1>4, Fixed DEF IInv, NotBegun, HelloOnly
<1>6. UpFlows'
  BY <1>1, <1>3, FixedKeys DEF IInv, UpFlows
<1>7. DownFlows'
  BY <1>1, <1>3, <1>4, Fixed, FixedKeys DEF IInv, DownFlows
<1>8. TermsAgree'
  BY <1>1, Fixed, FixedKeys DEF IInv, TermsAgree
<1> QED BY <1>2, <1>5, <1>6, <1>7, <1>8 DEF IInv

LEMMA NextInv == IInv /\ Next => IInv'
<1> SUFFICES ASSUME IInv, Next PROVE IInv'
  OBVIOUS
<1>1. CASE Handled
  BY <1>1, StepPair, StepForwardUp, StepForwardDown, StepClientGone, StepDataGone,
     StepBegins, StepHello, StepDaemonReads, StepDaemonDrops, StepPeerLost,
     StepDataError, StepDataEnds, StepGreets, StepWelcome, StepClientReads,
     StepClientDrops, StepClientTold, StepClientEnds, StepUnheard DEF Handled
<1>2. CASE Severs \/ DaemonSays \/ ClientLeaves \/ ClientSays \/ ClientBreaks \/ DataBreaks
  BY <1>2, StepSevers, StepDaemonSays, StepClientLeaves, StepClientSays,
     StepClientBreaks, StepDataBreaks
<1> QED BY <1>1, <1>2 DEF Next

(* Every step of either end, of the relay between them and of the network  *)
(* keeps IInv, whatever the kinds of client, the PSKs, the number of       *)
(* messages and of breaks are.                                             *)
THEOREM TunnelInvariant == Spec => []IInv
<1>1. Init => IInv
  BY InitInv
<1>2. IInv /\ [Next]_vars => IInv'
  BY NextInv, StutterInv
<1> QED BY <1>1, <1>2, PTL DEF Spec

LEMMA TurnIs ==
  ASSUME NEW s, NEW i \in Nat \ {0}, \A j \in 1..(i - 1) : s[j].t = "bin"
  PROVE  Turn(s, i) = i - 1
<1>1. {j \in 1..(i - 1) : s[j].t = "bin"} = 1..(i - 1)
  OBVIOUS
<1>2. PICK n : n = i - 1 /\ n \in Nat
  OBVIOUS
<1>3. Cardinality(1..n) = n
  BY <1>2, FS_Interval
<1> QED BY <1>1, <1>2, <1>3 DEF Turn

LEMMA FlowBound ==
  ASSUME NEW s, Queue(s), NEW k, NEW n \in Nat, Flow(s, k, n),
         NEW c, c = [k |-> k, n |-> n]
  PROVE  Bound(s, c)
<1> SUFFICES ASSUME NEW i \in DOMAIN s, Arrives(s, i)
             PROVE  Opens([c EXCEPT !.n = @ + Turn(s, i)], <<>>, s[i].c.ct)
  BY DEF Bound
<1>1. i \in 1..Len(s) /\ i \in Nat \ {0}
  BY QueueIs
<1>2. /\ \A j \in 1..(i - 1) : s[j].t = "bin"
      /\ Under(s[i].c.ct, k, n + i - 1)
  BY <1>1 DEF Flow
<1>3. Turn(s, i) = i - 1
  BY <1>1, <1>2, TurnIs
<1>4. PICK x : x = [c EXCEPT !.n = @ + Turn(s, i)]
  OBVIOUS
<1>5. x = [k |-> k, n |-> n + (i - 1)]
  BY <1>3, <1>4
<1>6. n + (i - 1) = n + i - 1
  BY <1>1
<1>7. PICK ct : ct = s[i].c.ct
  OBVIOUS
<1>8. ct.k = x.k /\ ct.n = x.n /\ ct.ad = <<>>
  BY <1>2, <1>5, <1>6, <1>7 DEF Under
<1> QED BY <1>4, <1>7, <1>8 DEF Opens

LEMMA DFlowIs ==
  ASSUME NEW s, Queue(s), NEW k, NEW n \in Nat, NEW w, DFlow(s, n + 1, w, k)
  PROVE  Flow(s, k, n)
<1> SUFFICES ASSUME NEW i \in 1..Len(s), Arrives(s, i)
             PROVE  /\ \A j \in 1..(i - 1) : s[j].t = "bin"
                    /\ Under(s[i].c.ct, k, n + i - 1)
  BY DEF Flow
<1>1. i \in Nat \ {0}
  BY QueueIs
<1>2. /\ \A j \in 1..(i - 1) : s[j].t = "bin"
      /\ IF (n + 1) + i = 1 THEN s[i].c = w ELSE Under(s[i].c.ct, k, (n + 1) + i - 2)
  BY DEF DFlow
<1>3. (n + 1) + i # 1 /\ (n + 1) + i - 2 = n + i - 1
  BY <1>1
<1>4. Under(s[i].c.ct, k, (n + 1) + i - 2)
  BY <1>2, <1>3
<1> QED BY <1>2, <1>3, <1>4

LEMMA InvInStep == IInv => InStep
<1> SUFFICES ASSUME IInv, cl.st = "ready", dm.st = "ready"
             PROVE  /\ Bound(data.down \o client.up, dm.tr.recv)
                    /\ Bound(client.down \o data.up, cl.tr.recv)
  BY DEF InStep
<1>1. Queue(Up) /\ Queue(Down)
  BY Queues DEF IInv
<1>2. Transport(cl.tr) /\ Transport(dm.tr)
  BY DEF IInv, Typed
<1>3. /\ CkC = CkD /\ cl.tr.recv.k = <<"k2", CkC>> /\ dm.tr.recv.k = <<"k1", CkD>>
  BY DEF IInv, TermsAgree
<1>4. /\ Flow(Up, UpKey, dm.tr.recv.n)
      /\ DFlow(Down, cl.tr.recv.n + 1, Answered.msg, DownKey)
  BY DEF IInv, UpFlows, DownFlows, Got
<1>5. dm.tr.recv.k = UpKey /\ cl.tr.recv.k = DownKey
  BY <1>3 DEF UpKey, DownKey
<1>6. Bound(Up, dm.tr.recv)
  <2>1. PICK s, k, n, c : s = Up /\ k = UpKey /\ n = dm.tr.recv.n /\ c = dm.tr.recv
    OBVIOUS
  <2>2. Queue(s) /\ n \in Nat /\ Flow(s, k, n) /\ c = [k |-> k, n |-> n]
    BY <1>1, <1>2, <1>4, <1>5, <2>1 DEF Transport
  <2>3. Bound(s, c)
    BY <2>2, FlowBound
  <2> QED BY <2>1, <2>3
<1>7. Bound(Down, cl.tr.recv)
  <2>1. PICK s, k, n, c, w : /\ s = Down /\ k = DownKey /\ n = cl.tr.recv.n
                             /\ c = cl.tr.recv /\ w = Answered.msg
    OBVIOUS
  <2>2. Queue(s) /\ n \in Nat /\ DFlow(s, n + 1, w, k) /\ c = [k |-> k, n |-> n]
    BY <1>1, <1>2, <1>4, <1>5, <2>1 DEF Transport
  <2>3. Flow(s, k, n)
    BY <2>2, DFlowIs
  <2>4. Bound(s, c)
    BY <2>2, <2>3, FlowBound
  <2> QED BY <2>1, <2>4
<1> QED BY <1>6, <1>7 DEF Up, Down

LEMMA InvReadyAgree == IInv => ReadyAgree
BY DEF IInv, TermsAgree, Rough, ReadyAgree

(* A frame that will reach a ready end opens under the counter that the    *)
(* end will have by then: the two ends count nonces by themselves          *)
(* (Transport of transport.ts) and what is lost is always the end of a     *)
(* way, never its middle.                                                  *)
THEOREM InStepHolds == Spec => []InStep
BY TunnelInvariant, InvInStep, PTL

(* An end that is ready, having chosen pattern and PSK by itself           *)
(* (ClientRelayConnection and RelayConnection), has a peer that took the   *)
(* same ones and derived the same keys: the symbolic handshake of noise.ts *)
(* gives the same chaining key only then.                                  *)
THEOREM ReadyAgreeHolds == Spec => []ReadyAgree
BY TunnelInvariant, InvReadyAgree, PTL

=============================================================================
