---- MODULE NoiseHandshake ----
(***************************************************************************)
(* The two Noise handshakes of the repository, computed on symbolic terms: *)
(* IKpsk2 as WireGuard runs it (internal/wireguard/noise) and IX as nebula *)
(* does (internal/nebula/noise.go, handshake.go). A public key is its      *)
(* owner's number, a Diffie-Hellman result the pair of the two keys, the   *)
(* chaining key and the transcript hash are the sequences of what was      *)
(* mixed into them, a ciphertext is its key, its transcript and its        *)
(* content. Two handshakes of one initiator run against two responders;    *)
(* datagrams arrive late, twice, with the responder they were not meant    *)
(* for, or damaged: one field of one and the rest of another.              *)
(***************************************************************************)
EXTENDS Integers, Sequences

CONSTANTS Trusted,   \* the keys whose certificates the CA signed (IX)
          MaxReplies,\* bound: responses
          MaxTries,  \* bound: answers one handshake is given (IX)
          MaxDamaged \* bound: damaged datagrams

VARIABLES conf,      \* pattern; the responder the initiator is configured with, and each
                     \* side's preshared key and type word of an initiation (IKpsk2)
          ini,       \* the initiator's two handshakes
          resp,      \* the sessions the responders derived
          net,       \* datagrams
          damaged,   \* how many were damaged
          intact     \* the handshake whose first answer the last step gave it intact, or 0

vars == <<conf, ini, resp, net, damaged, intact>>

Me == 1
Responders == {2, 3}
Attempts == {1, 2}

\* Terms. The tag comes first, so that terms of different kinds differ in it.
Pub(k) == <<"pub", k>>
DH(a, b) == <<"dh", {a, b}>>
Sealed(s, p) == <<"ct", s.ck, s.h, p>>
Nothing == <<"nothing">>

\* hashOf and mixHash; kdf1, kdf2, kdf3 and mixKey. A key seals one text, under nonce 0.
MixHash(s, d) == [s EXCEPT !.h = Append(@, d)]
MixKey(s, d) == [s EXCEPT !.ck = Append(@, d), !.key = TRUE]
\* Mutant of MixPsk.
PskUnmixed(s, p) == MixHash(MixKey(s, <<"psk", 0>>), <<"tau", s.ck, 0>>)
MixPsk(s, p) == MixHash(MixKey(s, <<"psk", p>>), <<"tau", s.ck, p>>)
EncryptAndHash(s, p) == MixHash(s, IF s.key THEN Sealed(s, p) ELSE p)
Ciphertext(s, p) == IF s.key THEN Sealed(s, p) ELSE p
Opens(s, c) == s.key => c[1] = "ct" /\ c[2] = s.ck /\ c[3] = s.h
Plain(s, c) == IF s.key THEN c[4] ELSE c
DecryptAndHash(s, c) == MixHash(s, c)
Split(s) == [a |-> Append(s.ck, <<"1">>), b |-> Append(s.ck, <<"2">>)]

Fresh == [h |-> <<>>, ck |-> <<>>, key |-> FALSE]
Eph(k) == 10 + k

\* The payload of a handshake message: the timestamp, or certificate and indices.
Payload(from, i, r) == IF conf.pattern = "IX" THEN <<"cert", from, i, r>> ELSE <<"ts", i>>

----
(* WireGuard *)

\* Initiation's transcript up to each of its two ciphertexts.
IKStatic(s, rs, e, es) == MixKey(MixKey(MixHash(MixHash(s, Pub(rs)), Pub(e)), Pub(e)), es)
IKTimestamp(s, st, ss) == MixKey(DecryptAndHash(s, st), ss)

\* Initiator.Initiation and addMACs.
Initiation(a) ==
  LET s1 == IKStatic(Fresh, conf.believed, Eph(a), DH(Eph(a), conf.believed))
      st == Ciphertext(s1, Pub(Me))
      s2 == IKTimestamp(s1, st, DH(Me, conf.believed))
      pl == Ciphertext(s2, Payload(Me, a, 0))
  IN  [s |-> MixHash(s2, pl),
       m |-> [kind |-> 1, snd |-> a, rcv |-> 0, e |-> Eph(a), st |-> st, pl |-> pl,
              mac |-> <<conf.believed, conf.word[1], Eph(a), st, pl>>]]

\* Responder.Consume: mac1, the static key, the timestamp.
ConsumeInitiation(b, m) ==
  LET s1 == IKStatic(Fresh, b, m.e, DH(b, m.e))
      rs == IF Opens(s1, m.st) THEN Plain(s1, m.st)[2] ELSE 0
      s2 == IKTimestamp(s1, m.st, DH(b, rs))
  IN  [ok |-> m.mac = <<b, conf.word[2], m.e, m.st, m.pl>> /\ Opens(s1, m.st) /\ Opens(s2, m.pl),
       s |-> DecryptAndHash(s2, m.pl), peer |-> rs]

\* The tail both sides compute: e, ee, se, psk.
IKTail(s, e, ee, se, psk) == MixPsk(MixKey(MixKey(MixKey(MixHash(s, Pub(e)), Pub(e)), ee), se), psk)

\* Responder.Response.
Response(b, c, m, e) ==
  LET s == IKTail(c.s, e, DH(e, m.e), DH(e, c.peer), conf.psk[2])
      pl == Ciphertext(s, Nothing)
  IN  [k |-> Split(MixHash(s, pl)),
       m |-> [kind |-> 2, snd |-> e, rcv |-> m.snd, e |-> e, st |-> Nothing, pl |-> pl, mac |-> <<>>]]

\* Initiator.Consume; a response that does not open is the handshake's end, for Dial
\* (ErrDecrypt) and for a rekey.
ConsumeResponse(h, m) ==
  LET s == IKTail(h.s, m.e, DH(h.e, m.e), DH(Me, m.e), conf.psk[1])
  IN  IF Opens(s, m.pl) THEN [h EXCEPT !.done = TRUE, !.k = Split(MixHash(s, m.pl)), !.peer = conf.believed]
      ELSE [h EXCEPT !.over = TRUE]

----
(* nebula *)

\* WriteMessage1: e and s in the clear, the payload, the prologue mixed before them.
WriteMessage1(a) ==
  LET s1 == MixHash(MixHash(Fresh, Nothing), Pub(Eph(a)))
      s2 == EncryptAndHash(s1, Pub(Me))
      pl == Payload(Me, a, 0)
  IN  [s |-> EncryptAndHash(s2, pl),
       m |-> [kind |-> 1, snd |-> a, rcv |-> 0, e |-> Eph(a), st |-> Pub(Me), pl |-> pl, mac |-> <<>>]]

\* verifyPeer: the CA's signature is over the key Noise authenticated.
VerifyPeer(cert, static) == cert[1] = "cert" /\ cert[2] = static /\ static \in Trusted

\* ReadMessage1, and respond's checks.
ReadMessage1(b, m) ==
  LET s == DecryptAndHash(DecryptAndHash(MixHash(MixHash(Fresh, Nothing), Pub(m.e)), m.st), m.pl)
  IN  [ok |-> m.st[1] = "pub" /\ m.pl[1] = "cert" /\ VerifyPeer(m.pl, m.st[2]), s |-> s, peer |-> m.st[2]]

\* The part of message two before the responder's static key: e, ee, se.
IXHead(s, e, ee, se) == MixKey(MixKey(MixHash(s, Pub(e)), ee), se)

\* WriteMessage2.
WriteMessage2(b, c, m, e) ==
  LET s1 == IXHead(c.s, e, DH(e, m.e), DH(e, c.peer))
      st == Ciphertext(s1, Pub(b))
      s2 == MixKey(MixHash(s1, st), DH(b, m.e))
      pl == Ciphertext(s2, Payload(b, m.pl[3], e))
  IN  [k |-> Split(MixHash(s2, pl)),
       m |-> [kind |-> 2, snd |-> e, rcv |-> m.pl[3], e |-> e, st |-> st, pl |-> pl, mac |-> <<>>]]

\* ReadMessage2 and complete, on the handshake's own state, whatever the outcome: the
\* host goes on offering the next answer to what is left of it.
ReadMessage2(h, m) ==
  LET s1 == IXHead(h.s, m.e, DH(h.e, m.e), DH(Me, m.e))
      rs == Plain(s1, m.st)[2]
      s2 == MixKey(DecryptAndHash(s1, m.st), DH(h.e, rs))
  IN  IF m.st[1] # "ct" \/ ~Opens(s1, m.st) THEN [h EXCEPT !.s = s1]
      ELSE IF ~Opens(s2, m.pl) THEN [h EXCEPT !.s = s2]
      ELSE IF VerifyPeer(Plain(s2, m.pl), rs)
      THEN [h EXCEPT !.done = TRUE, !.k = Split(DecryptAndHash(s2, m.pl)), !.peer = rs, !.s = DecryptAndHash(s2, m.pl)]
      ELSE [h EXCEPT !.s = DecryptAndHash(s2, m.pl)]

----
First(a) == IF conf.pattern = "IX" THEN WriteMessage1(a) ELSE Initiation(a)

\* initiate; NewInitiator and Initiation.
Initiate(a) ==
  /\ ~ini[a].sent
  /\ LET f == First(a)
     IN  /\ ini' = [ini EXCEPT ![a] = [@ EXCEPT !.sent = TRUE, !.s = f.s, !.e = Eph(a)]]
         /\ net' = net \cup {f.m}
  /\ intact' = 0 /\ UNCHANGED <<conf, resp, damaged>>

\* respond; Consume and Response.
Respond(b, m) ==
  /\ m \in net /\ m.kind = 1 /\ Len(resp) < MaxReplies
  /\ LET c == IF conf.pattern = "IX" THEN ReadMessage1(b, m) ELSE ConsumeInitiation(b, m)
         e == 20 + Len(resp)
         w == IF conf.pattern = "IX" THEN WriteMessage2(b, c, m, e) ELSE Response(b, c, m, e)
     IN  /\ c.ok
         /\ resp' = Append(resp, [by |-> b, k |-> w.k, peer |-> c.peer, i |-> w.m.rcv, to |-> m, m |-> w.m])
         /\ net' = net \cup {w.m}
  /\ intact' = 0 /\ UNCHANGED <<conf, ini, damaged>>

\* An answer to a handshake exactly as its first message was received and answered, by
\* a responder the initiator is to accept.
Acceptable(r) == IF conf.pattern = "IX" THEN r.by \in Trusted ELSE conf.psk[1] = conf.psk[2]
Intact(a, m) == \E k \in DOMAIN resp : resp[k].m = m /\ resp[k].to = First(a).m /\ Acceptable(resp[k])

\* complete; Consume. Each is reached by the index the datagram names.
Complete(a, m) ==
  /\ m \in net /\ m.kind = 2 /\ m.rcv = a /\ ini[a].sent /\ ~ini[a].done /\ ~ini[a].over /\ ini[a].tries < MaxTries
  /\ ini' = [ini EXCEPT ![a] = [(IF conf.pattern = "IX" THEN ReadMessage2(@, m) ELSE ConsumeResponse(@, m))
                                   EXCEPT !.tries = @ + 1]]
  /\ intact' = IF ini[a].tries = 0 /\ Intact(a, m) THEN a ELSE 0
  /\ UNCHANGED <<conf, resp, net, damaged>>

\* A datagram with a field that is not its own.
Damage(m, o) ==
  /\ {m, o} \subseteq net /\ m # o /\ m.kind = o.kind /\ damaged < MaxDamaged
  /\ \E d \in {[m EXCEPT !.e = o.e], [m EXCEPT !.st = o.st], [m EXCEPT !.pl = o.pl]} : net' = net \cup {d}
  /\ damaged' = damaged + 1 /\ intact' = 0 /\ UNCHANGED <<conf, ini, resp>>

Configs ==
  [pattern : {"IX"}, believed : {2}, psk : {<<0, 0>>}, word : {<<1, 1>>}]
  \cup [pattern : {"IKpsk2"}, believed : {2}, psk : {<<0, 0>>, <<5, 5>>, <<0, 5>>}, word : {<<1, 1>>, <<7, 1>>}]

Init ==
  /\ conf \in Configs
  /\ ini = [a \in Attempts |-> [sent |-> FALSE, done |-> FALSE, over |-> FALSE, s |-> Fresh, e |-> 0, k |-> Split(Fresh), peer |-> 0, tries |-> 0]]
  /\ resp = <<>> /\ net = {} /\ damaged = 0 /\ intact = 0

Next ==
  \/ \E a \in Attempts : Initiate(a)
  \/ \E m \in net : (\E b \in Responders : Respond(b, m)) \/ (\E a \in Attempts : Complete(a, m)) \/ (\E o \in net : Damage(m, o))

Spec == Init /\ [][Next]_vars

----
(* Properties *)

Sessions == {resp[k] : k \in DOMAIN resp}

\* Initiator.Consume and ReadMessage2: a handshake that completes has a responder that
\* derived the same two keys, is who the initiator takes it for and takes the initiator
\* for what it is; with another preshared key, responder or type word none completes.
\* What a damaged answer leaves of a nebula handshake's state completes with nobody whose
\* keys are others.
Matched ==
  \A a \in Attempts : ini[a].done =>
    \E r \in Sessions : /\ r.k = ini[a].k /\ r.i = a
                        /\ r.by = ini[a].peer /\ r.peer = Me
                        /\ conf.pattern = "IKpsk2" => conf.psk[1] = conf.psk[2] /\ conf.word[1] = conf.word[2] /\ r.by = conf.believed

\* Two sessions never share a key: each response has an ephemeral key of its own.
KeysFresh == \A j, k \in DOMAIN resp : j # k => resp[j].k # resp[k].k

\* Consume and ReadMessage2: the first answer a handshake is given completes it when it
\* comes intact from a responder the initiator is to accept, whatever the other handshake
\* and the other datagrams went through. A later one need not: WireGuard has given the
\* handshake up, and nebula has spoilt its state, until beginHandshake makes a new one.
Undisturbed == intact # 0 => ini[intact].done
====
