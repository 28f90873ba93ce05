-------------------------------- MODULE Noise --------------------------------
(***************************************************************************)
(* The Noise engine (crypto/noise.ts, crypto/transport.ts), the browser's  *)
(* own initiator (browser/src/main.ts) and the loading of a pre-shared key *)
(* (relay/psk.ts), as operators on terms: a key pair is its name, a DH     *)
(* result the set of the two names, a hash or a chaining key the sequence  *)
(* of what was mixed into it, and a ciphertext says under which key, nonce *)
(* and associated data it was made.  It opens under these and no others.   *)
(* Not modelled: the 2^64 messages that exhaust a nonce, erasing keys, and *)
(* the errors of mixDh, which the constructor's checks rule out for the    *)
(* three patterns.                                                         *)
(***************************************************************************)
EXTENDS Naturals, Sequences

CONSTANT None

(* CipherState and its AEAD *)
Cipher(k) == [k |-> k, n |-> 0]
NoCipher == Cipher(<<"none">>)
HasKey(c) == c.k # NoCipher.k
Sealed(c, ad, body) == [k |-> c.k, n |-> c.n, ad |-> ad, body |-> body]
Opens(c, ad, ct) == ct.k = c.k /\ ct.n = c.n /\ ct.ad = ad
Stepped(c) == [c EXCEPT !.n = @ + 1]

(* SymmetricState *)
Start(name) ==
  [ck |-> <<<<"name", name>>>>, h |-> <<<<"name", name>>>>, c |-> NoCipher]

MixHash(ss, d) == [ss EXCEPT !.h = Append(@, d)]

(* The outputs of the HKDF differ from each other and depend on all that   *)
(* was mixed: the next chaining key is the longer sequence, the others are *)
(* tagged with their place.                                                *)
Hkdf(ck, ikm) == Append(ck, ikm)

MixKey(ss, ikm) ==
  LET ck == Hkdf(ss.ck, ikm)
  IN [ss EXCEPT !.ck = ck, !.c = Cipher(<<"k", ck>>)]

MixKeyAndHash(ss, ikm) ==
  LET ck == Hkdf(ss.ck, ikm)
  IN [ck |-> ck, h |-> Append(ss.h, <<"h", ck>>), c |-> Cipher(<<"k3", ck>>)]

(* Every payload of a handshake message is empty.  Without a key it is     *)
(* sent in the clear, here as what the keyless cipher makes of it.         *)
Payload == "empty"
EncryptAndHash(ss) ==
  LET ct == Sealed(ss.c, ss.h, Payload)
  IN [ct |-> ct,
      ss |-> [MixHash(ss, <<"ct", ct>>) EXCEPT
                !.c = IF HasKey(@) THEN Stepped(@) ELSE @]]

DecryptAndHash(ss, ct) ==
  [ok |-> ~HasKey(ss.c) \/ Opens(ss.c, ss.h, ct),
   ss |-> [MixHash(ss, <<"ct", ct>>) EXCEPT
             !.c = IF HasKey(@) THEN Stepped(@) ELSE @]]

SplitKeys(ss) == <<Cipher(<<"k1", ss.ck>>), Cipher(<<"k2", ss.ck>>)>>

(* Patterns *)
NK == [name |-> "NK", initiator |-> <<>>, responder |-> <<"s">>,
       messages |-> <<<<"e", "es">>, <<"e", "ee">>>>]
KK == [name |-> "KK", initiator |-> <<"s">>, responder |-> <<"s">>,
       messages |-> <<<<"e", "es", "ss">>, <<"e", "ee", "se">>>>]
NKpsk2 == [name |-> "NKpsk2", initiator |-> <<>>, responder |-> <<"s">>,
           messages |-> <<<<"e", "es">>, <<"e", "ee", "psk">>>>]

Has(s, x) == \E i \in DOMAIN s : s[i] = x
UsesPsk(p) == \E i \in DOMAIN p.messages : Has(p.messages[i], "psk")

(* What the constructor demands: a PSK exactly when the pattern has the    *)
(* token, and the statics of its pre-messages.                             *)
Valid(p, initiator, s, rs, psk) ==
  /\ UsesPsk(p) = (psk # None)
  /\ Has(p.initiator, "s") => IF initiator THEN s # None ELSE rs # None
  /\ Has(p.responder, "s") => IF initiator THEN rs # None ELSE s # None

Pub(key) == <<"pub", key>>
Dh(a, b) == <<"dh", {a, b}>>

(* new Handshake: the statics known in advance are hashed, the initiator's *)
(* first.                                                                  *)
NewHandshake(p, initiator, s, rs, psk) ==
  LET iKey == IF initiator THEN s ELSE rs
      rKey == IF initiator THEN rs ELSE s
      pre == [i \in DOMAIN p.initiator |-> iKey]
             \o [i \in DOMAIN p.responder |-> rKey]
  IN [pattern |-> p, initiator |-> initiator, s |-> s, rs |-> rs,
      psk |-> psk, e |-> None, re |-> None, next |-> 1,
      ss |-> [Start(p.name) EXCEPT
                !.h = @ \o [i \in DOMAIN pre |-> Pub(pre[i])]]]

IsComplete(hs) == hs.next > Len(hs.pattern.messages)
IsMyTurn(hs) == ~IsComplete(hs) /\ (hs.next % 2 = 1) = hs.initiator

Own(hs, t) ==
  IF t = "ee" \/ t = (IF hs.initiator THEN "es" ELSE "se") THEN hs.e ELSE hs.s
Theirs(hs, t) ==
  IF t = "ee" \/ t = (IF hs.initiator THEN "se" ELSE "es") THEN hs.re
  ELSE hs.rs
MixDh(hs, t) ==
  [hs EXCEPT !.ss = MixKey(@, Dh(Own(hs, t), Theirs(hs, t)))]

(* Mutant: the token is passed over.                                       *)
SkipPsk(hs) == [hs EXCEPT !.psk = None]
MixPsk(hs) ==
  [hs EXCEPT !.psk = None, !.ss = MixKeyAndHash(@, <<"psk", hs.psk>>)]

WriteToken(hs, t, fresh) ==
  CASE t = "e" -> [hs EXCEPT !.e = fresh, !.ss = MixHash(@, Pub(fresh))]
    [] t = "psk" -> MixPsk(hs)
    [] OTHER -> MixDh(hs, t)

ReadToken(hs, t, msg) ==
  CASE t = "e" -> [hs EXCEPT !.re = msg.e, !.ss = MixHash(@, Pub(msg.e))]
    [] t = "psk" -> MixPsk(hs)
    [] OTHER -> MixDh(hs, t)

(* The tokens of the message whose turn it is, in order.                   *)
Tokens(hs) == hs.pattern.messages[hs.next]
WriteTokens(hs, fresh) ==
  LET after[i \in 0..Len(Tokens(hs))] ==
        IF i = 0 THEN hs ELSE WriteToken(after[i - 1], Tokens(hs)[i], fresh)
  IN after[Len(Tokens(hs))]
ReadTokens(hs, msg) ==
  LET after[i \in 0..Len(Tokens(hs))] ==
        IF i = 0 THEN hs ELSE ReadToken(after[i - 1], Tokens(hs)[i], msg)
  IN after[Len(Tokens(hs))]

(* A message is an ephemeral and the sealed payload.                       *)
WriteMessage(hs, fresh) ==
  LET mixed == WriteTokens(hs, fresh)
      out == EncryptAndHash(mixed.ss)
  IN [hs |-> [mixed EXCEPT !.ss = out.ss, !.next = @ + 1],
      msg |-> [e |-> fresh, ct |-> out.ct]]

ReadMessage(hs, msg) ==
  LET mixed == ReadTokens(hs, msg)
      in == DecryptAndHash(mixed.ss, msg.ct)
  IN [ok |-> in.ok, hs |-> [mixed EXCEPT !.ss = in.ss, !.next = @ + 1]]

(* Mutant: both ends send under the first key.                             *)
SplitAlike(hs) ==
  LET c == SplitKeys(hs.ss) IN [send |-> c[1], recv |-> c[2]]

(* split() and new Transport: one cipher per direction.                    *)
Split(hs) ==
  LET c == SplitKeys(hs.ss)
  IN IF hs.initiator THEN [send |-> c[1], recv |-> c[2]]
     ELSE [send |-> c[2], recv |-> c[1]]

-----------------------------------------------------------------------------
(* Transport: no associated data *)

Encrypted(tr, body) == [e |-> None, ct |-> Sealed(tr.send, <<>>, body)]
Sent(tr) == [tr EXCEPT !.send = Stepped(@)]
Decrypts(tr, msg) == Opens(tr.recv, <<>>, msg.ct)
Received(tr) == [tr EXCEPT !.recv = Stepped(@)]

-----------------------------------------------------------------------------
(* The browser's initiator, NK only and written out *)

Page(ss, e) == [ss |-> ss, e |-> e]

(* Mutant: the tag of the hello is not hashed.                             *)
PageHelloUnhashed(rs, fresh) ==
  LET h == MixHash(MixHash(Start("NK"), Pub(rs)), Pub(fresh))
      ss == MixKey(h, Dh(fresh, rs))
  IN [hs |-> Page([ss EXCEPT !.c = Stepped(@)], fresh),
      msg |-> [e |-> fresh, ct |-> EncryptAndHash(ss).ct]]

PageHello(rs, fresh) ==
  LET h == MixHash(MixHash(Start("NK"), Pub(rs)), Pub(fresh))
      out == EncryptAndHash(MixKey(h, Dh(fresh, rs)))
  IN [hs |-> Page(out.ss, fresh), msg |-> [e |-> fresh, ct |-> out.ct]]

ReadWelcome(hs, msg) ==
  LET ss == MixKey(MixHash(hs.ss, Pub(msg.e)), Dh(hs.e, msg.e))
      in == DecryptAndHash(ss, msg.ct)
  IN [ok |-> in.ok, hs |-> [hs EXCEPT !.ss = in.ss]]

PageSplit(hs) ==
  LET c == SplitKeys(hs.ss) IN [send |-> c[1], recv |-> c[2]]

-----------------------------------------------------------------------------
(* loadPsk *)

(* A source is "absent", "unreadable", "malformed" (empty, with white      *)
(* space, not base64url, not of PSK_LEN bytes) or holds a key.             *)
Decoded(source) ==
  IF source \in {"unreadable", "malformed"} THEN "throws" ELSE source

(* The file comes first, and an empty variable is an absent one.           *)
LoadPsk(file, env) ==
  IF file # "absent" THEN Decoded(file)
  ELSE IF env # "absent" THEN Decoded(env)
  ELSE None
=============================================================================
