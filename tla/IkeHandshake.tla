---- MODULE IkeHandshake ----
\* The IKEv2 handshake: ike.Client.Connect against the responder's handlers, with every
\* way of authenticating, the additional post-quantum exchange and the policies that
\* demand it. Cryptography is symbolic: a key is what it was derived from, an AUTH
\* value the key and the octets it covers.
EXTENDS Integers, FiniteSets, TLC
CONSTANTS Confs,       \* the configurations of the two ends
          MaxSAs,      \* bound: half-open SAs at the responder
          MaxDamaged,  \* bound: IKE_SA_INIT datagrams changed on the way
          MaxTwice,    \* bound: datagrams that arrive twice
          Nil
VARIABLES conf, cl, sas, net, env
vars == <<conf, cl, sas, net, env>>

\* conf.c: auth, pq, requirePQ and pqAuth of ClientConfig, its certificate's kind.
\* conf.s: the responder's credentials and policies. conf.know: which of the secrets
\* and trust relations the two ends really share.
Holds(what) == what \in conf.know

\* ---- key material ----
\* DeriveIKEKeys: from both public values and both SPIs as each end saw them.
IKEKeys(ki, kr, r) == [ki |-> ki, kr |-> kr, r |-> r, kem |-> Nil]
\* rekeyFromAdditionalExchange: SK_d and the ML-KEM secret give the new keys.
Rekeyed(k, kem) == [k EXCEPT !.kem = kem]
\* DeriveChildKeys, for the first Child SA: from SK_d, the SPIs named by both sides.
ChildKeys(k, i, r) == [k |-> k, i |-> i, r |-> r]
\* chainIntAuth and finalIntAuth: what IKE_INTERMEDIATE carried, both ways, and the ID
\* of the IKE_AUTH that follows.
IntAuth(kem, id) == IF kem = Nil THEN Nil ELSE [kem |-> kem, id |-> id]
\* AuthOctets: the sender's IKE_SA_INIT message, the keys, its identity, IntAuth.
AuthOctets(msg, k, who, ia) == [msg |-> msg, k |-> k, id |-> who, ia |-> ia]
\* PSKAuth, and signAuth over the same octets.
Auth(method, key, octets) == [method |-> method, key |-> key, octets |-> octets]

\* ---- messages ----
InitReq(pq, sig, ke) == [pq |-> pq, sig |-> sig, ke |-> ke]
InitResp(r, pq, sig, ke) == [r |-> r, pq |-> pq, sig |-> sig, ke |-> ke]
To(who, ex, r, id, k, in) == [dst |-> who, ex |-> ex, r |-> r, id |-> id, k |-> k, in |-> in, copy |-> 0]
Notify(err) == [notify |-> err]
IsError(in) == "notify" \in DOMAIN in
\* A datagram is gone once it is read.
Rest(m) == net \ {m}
Has(in, what) == what \in DOMAIN in

\* ---- the initiator ----
\* NewClient, dial and saInit: the offer carries the additional exchange when PostQuantum
\* is set, the signature hashes when there is a certificate.
SaInit ==
  /\ cl.at = "start"
  /\ LET q == InitReq(conf.c.pq, conf.c.auth = "cert", 0)
     IN  cl' = [cl EXCEPT !.at = "sa_init", !.req = q] /\ net' = net \cup {To("s", "init", 0, 0, Nil, q)}
  /\ UNCHANGED <<conf, sas, env>>

Fail(why) == cl' = [cl EXCEPT !.at = "failed", !.why = why]

\* buildAuthInner: the identity, the configuration request, the Child SA proposal, MOBIKE
\* over UDP, USE_AGGFRAG when configured. buildCertAuthInner never asks for AGGFRAG.
AuthInner == [idi |-> "client", cp |-> {4, 6}, sa |-> 1, mobike |-> ~conf.c.tcp, agg |-> conf.c.agg]
CertAuthInner == [AuthInner EXCEPT !.agg = FALSE]
ClientOctets(k, id) == AuthOctets(cl.req, k, "client", IntAuth(k.kem, id))
\* signAuth and chooseSigAlg: a digital signature where the responder named hashes, else
\* the legacy RSA one, which other keys cannot make.
CanSign(kind, hashes) == hashes \/ kind = "rsa"
SignMethod(hashes) == IF hashes THEN "sig" ELSE "rsasig"

\* authPSK, authCert and the first message of authEAP, at the ID the exchanges before
\* it left; k are the keys, resp the responder's IKE_SA_INIT.
AuthRequest(k, resp, id) ==
  LET oct == ClientOctets(k, id)
      in == CASE conf.c.auth = "psk" -> AuthInner @@ [auth |-> Auth("psk", IF Holds("psk") THEN "psk" ELSE "other", oct)]
              [] conf.c.auth = "cert" -> CertAuthInner @@ [auth |-> Auth(SignMethod(resp.sig), "client key", oct), cert |-> conf.c.kind]
              [] conf.c.auth = "eap" -> AuthInner
  IN  To("s", "auth", resp.r, id, k, in)
StartAuth(m, k, resp, id) ==
  IF conf.c.auth = "cert" /\ ~CanSign(conf.c.kind, resp.sig)
  THEN cl' = [cl EXCEPT !.at = "failed", !.why = "sign"] /\ net' = Rest(m)
  ELSE /\ cl' = [cl EXCEPT !.at = "auth", !.k = k, !.resp = resp, !.id = id]
       /\ net' = Rest(m) \cup {AuthRequest(k, resp, id)}

\* saInit's answer. An error notify ends the attempt, and so does a COOKIE, which the
\* client has no way to return; then the float to the NAT-T port, IKE_INTERMEDIATE if
\* both agreed, and IKE_AUTH.
SaInitAnswer(m) ==
  /\ cl.at = "sa_init" /\ m \in net /\ m.dst = "c" /\ m.ex = "init"
  /\ IF IsError(m.in) THEN Fail(m.in.notify) /\ net' = Rest(m)
     ELSE LET p == m.in
              k == IKEKeys(cl.req.ke, p.ke, p.r)
          IN  IF conf.c.pq /\ ~p.pq /\ conf.c.requirePQ THEN Fail("no post-quantum") /\ net' = Rest(m)
              ELSE IF conf.c.pq /\ p.pq
              THEN /\ cl' = [cl EXCEPT !.at = "intermediate", !.k = k, !.resp = p, !.id = 1]
                   /\ net' = Rest(m) \cup {To("s", "int", p.r, 1, k, [ke |-> "kem"])}
              ELSE StartAuth(m, k, p, 1)
  /\ UNCHANGED <<conf, sas, env>>

\* sendIntermediateExchange reads one message and checks its ID, its exchange, and that
\* it opens; the answer's ciphertext gives the next keys.
IntermediateAnswer(m) ==
  /\ cl.at = "intermediate" /\ m \in net /\ m.dst = "c" /\ m.ex # "init"
  /\ IF m.id # 1 \/ m.ex # "int" \/ m.k # cl.k \/ IsError(m.in) \/ ~Has(m.in, "ke")
     THEN Fail("intermediate") /\ net' = Rest(m)
     ELSE StartAuth(m, Rekeyed(cl.k, m.in.ke), cl.resp, 2)
  /\ UNCHANGED <<conf, sas, env>>

\* verifyPeerPSKAuth and verifyServerAuth: the value must be the one the client would
\* make over the responder's message as it arrived; IDr may come with an earlier answer.
ServerOctets(who) == AuthOctets(cl.resp, cl.k, who, IntAuth(cl.k.kem, cl.id))
VerifyServerAuth(in, key) ==
  /\ Has(in, "auth")
  /\ LET idr == IF Has(in, "idr") THEN in.idr ELSE cl.idr
     IN  /\ idr # Nil /\ (Has(in, "idr") => Holds("server id"))
         /\ in.auth = Auth("psk", key, ServerOctets(idr))
\* verifyServerCertAuth: chain, identity, usage, post-quantum key, signature.
VerifyServerCertAuth(in) ==
  /\ Has(in, "idr") /\ Has(in, "auth") /\ Has(in, "cert")
  /\ Holds("server ca") /\ Holds("server id") /\ Holds("server usage")
  /\ conf.c.pqAuth => in.cert = "mldsa"
  /\ in.auth.key = "server key" /\ in.auth.octets = ServerOctets(in.idr)

\* Mutant of Result: AGGFRAG as configured, not as echoed.
ResultUnasked(in) ==
  [keys |-> ChildKeys(cl.k, 1, in.sa), lease |-> in.cp, mobike |-> in.mobike, agg |-> conf.c.agg]
\* applyAuthResult: an address and a Child SA are required; AGGFRAG and MOBIKE as echoed.
Result(in) ==
  [keys |-> ChildKeys(cl.k, 1, in.sa), lease |-> in.cp, mobike |-> in.mobike, agg |-> conf.c.agg /\ in.agg]
Finish(in, ok) ==
  IF ok /\ Has(in, "cp") /\ Has(in, "sa") THEN cl' = [cl EXCEPT !.at = "up", !.res = Result(in)]
  ELSE Fail("auth")

\* recvInners takes whatever comes first, and does not look at its ID. cl.eap is how far
\* authEAP is: the challenge, the verdict, EAP-Success, the final AUTH.
Password == IF Holds("password") THEN "password" ELSE "other"
\* the session key the MSCHAPv2 exchange leaves at an end that used the password p
MSK(p) == IF p = "password" THEN "msk" ELSE "other msk"
Psk == IF Holds("psk") THEN "psk" ELSE "other"
SendEAP(m, step, in) ==
  /\ cl' = [cl EXCEPT !.eap = step, !.idr = IF step = 1 THEN "server" ELSE @]
  /\ net' = Rest(m) \cup {To("s", "auth", cl.resp.r, cl.id + step, cl.k, in)}
AuthAnswer(m) ==
  /\ cl.at = "auth" /\ m \in net /\ m.dst = "c" /\ m.ex # "init"
  /\ LET in == m.in
     IN  IF m.k # cl.k \/ IsError(in) THEN Fail("answer") /\ net' = Rest(m)
         ELSE CASE conf.c.auth = "psk" -> Finish(in, VerifyServerAuth(in, Psk)) /\ net' = Rest(m)
                [] conf.c.auth = "cert" -> Finish(in, VerifyServerCertAuth(in)) /\ net' = Rest(m)
                [] conf.c.auth = "eap" /\ cl.eap = 0 ->
                     IF VerifyServerAuth(in, Psk) /\ Has(in, "eap") /\ in.eap = "challenge"
                     THEN SendEAP(m, 1, [eap |-> Password]) ELSE Fail("eap") /\ net' = Rest(m)
                [] conf.c.auth = "eap" /\ cl.eap = 1 ->
                     IF Has(in, "eap") /\ in.eap # "failure" THEN SendEAP(m, 2, [eap |-> "ack"])
                     ELSE Fail("eap") /\ net' = Rest(m)
                [] conf.c.auth = "eap" /\ cl.eap = 2 ->
                     IF Has(in, "eap") /\ in.eap # "done" THEN Fail("eap") /\ net' = Rest(m)
                     ELSE SendEAP(m, 3, [auth |-> Auth("psk", MSK(Password), ClientOctets(cl.k, cl.id))])
                [] conf.c.auth = "eap" /\ cl.eap = 3 -> Finish(in, VerifyServerAuth(in, MSK(Password))) /\ net' = Rest(m)
  /\ UNCHANGED <<conf, sas, env>>

\* readMessage's ten seconds run out.
Timeout ==
  /\ cl.at \in {"sa_init", "intermediate", "auth"} /\ Fail("timeout")
  /\ env' = [env EXCEPT !.disturbed = TRUE] /\ UNCHANGED <<conf, sas, net>>

\* ---- the responder ----
Fresh == Cardinality(DOMAIN sas) + 1
Answer(q, in) == net' = Rest(q) \cup {To("c", q.ex, q.r, q.id, q.k, in)}

\* handleIKESAInit: a cookie under load, then the suite, the additional exchange when the
\* initiator named both halves of it, the refusal where it is required; every request
\* that gets through makes an SA of its own.
CookieDemand(q) ==
  /\ q \in net /\ q.dst = "s" /\ q.ex = "init" /\ env.load
  /\ Answer(q, Notify("cookie")) /\ UNCHANGED <<conf, cl, sas, env>>
HandleSAInit(q) ==
  /\ q \in net /\ q.dst = "s" /\ q.ex = "init" /\ ~env.load /\ Fresh <= MaxSAs
  /\ LET pq == q.in.pq /\ ~conf.s.classicalOnly
         certs == conf.s.cert # Nil \/ conf.s.cas
         p == InitResp(Fresh, pq, certs, 0)
     IN  IF conf.s.requirePQ /\ ~pq
         THEN Answer(q, Notify("no proposal chosen")) /\ sas' = sas
         ELSE /\ Answer(q, p)
              /\ sas' = [r \in 1 .. Fresh |->
                           IF r < Fresh THEN sas[r]
                           ELSE [st |-> "sa_init_done", recv |-> 1, req |-> q.in, resp |-> p,
                                 k |-> IKEKeys(q.in.ke, 0, Fresh), pq |-> pq, by |-> Nil,
                                 eap |-> "none", saved |-> Nil, child |-> Nil, peer |-> Nil]]
  /\ UNCHANGED <<conf, cl, env>>

\* handleSecured up to the handlers: the SA, the expected ID, keys that open the
\* message, a state that allows the exchange.
Secured(q, ex) ==
  /\ q \in net /\ q.dst = "s" /\ q.ex = ex /\ q.r \in DOMAIN sas
  /\ q.id = sas[q.r].recv /\ q.k = sas[q.r].k
  /\ sas[q.r].st \in {"sa_init_done", "intermediate"}

\* handleIKEIntermediate: the answer under the old keys, then the new ones.
HandleIntermediate(q) ==
  /\ Secured(q, "int")
  /\ IF ~sas[q.r].pq \/ ~Has(q.in, "ke")
     THEN Answer(q, Notify("invalid syntax")) /\ sas' = sas
     ELSE /\ Answer(q, [ke |-> <<"kem", q.r>>])
          /\ sas' = [sas EXCEPT ![q.r].k = Rekeyed(@, <<"kem", q.r>>), ![q.r].st = "intermediate", ![q.r].recv = @ + 1]
  /\ UNCHANGED <<conf, cl, env>>

PeerOctets(sa) == AuthOctets(sa.req, sa.k, "client", IntAuth(sa.k.kem, sa.id0))
OwnOctets(sa) == AuthOctets(sa.resp, sa.k, "server", IntAuth(sa.k.kem, sa.id0))
At(sa, id) == [f \in DOMAIN sa \cup {"id0"} |-> IF f = "id0" THEN id ELSE sa[f]]

\* finishIKEAuth: MOBIKE, the addresses, the Child SA and AGGFRAG as this message asks
\* (the first one's proposal and configuration request are kept through EAP, its
\* USE_AGGFRAG is not); the SA is established before the answer goes out. Without an
\* address left (buildCPReply) it is established all the same, and the answer names none;
\* what this client proposes for ESP the responder always takes.
FinishIKEAuth(q, sa, by, extra) ==
  LET first == IF sa.saved # Nil THEN sa.saved ELSE q.in
      agg == conf.s.agg /\ Has(q.in, "agg") /\ q.in.agg
      rest == extra @@ [sa |-> q.r, mobike |-> first.mobike, agg |-> agg]
      in == IF conf.s.free THEN rest @@ [cp |-> first.cp] ELSE rest
  IN  /\ Answer(q, in)
      /\ sas' = [sas EXCEPT ![q.r].st = "established", ![q.r].recv = q.id + 1, ![q.r].by = by, ![q.r].peer = "client",
                            ![q.r].child = [keys |-> ChildKeys(sa.k, first.sa, q.r), lease |-> IF conf.s.free THEN first.cp ELSE {},
                                            mobike |-> first.mobike, agg |-> agg]]
Refuse(q) == Answer(q, Notify("authentication failed")) /\ sas' = sas

\* handleIKEAuth: a message without AUTH asks for EAP; a signature needs the client CAs
\* and a certificate of our own; anything else is the PSK. A refusal does not move the
\* expected ID.
PskGood(auth, sa) == conf.s.psk /\ auth = Auth("psk", "psk", PeerOctets(sa))
\* Mutant of CertGood.
CertGoodClassical(in, sa) ==
  /\ conf.s.cas /\ conf.s.cert # Nil /\ Has(in, "cert")
  /\ Holds("client ca") /\ Holds("client id")
  /\ in.auth.key = "client key" /\ in.auth.octets = PeerOctets(sa)
  /\ CanSign(conf.s.cert, sa.req.sig)
\* handleCertAuth: chain, identity, a post-quantum key where required, the signature.
CertGood(in, sa) ==
  /\ conf.s.cas /\ conf.s.cert # Nil /\ Has(in, "cert")
  /\ Holds("client ca") /\ Holds("client id")
  /\ conf.s.requirePQAuth => in.cert = "mldsa"
  /\ in.auth.key = "client key" /\ in.auth.octets = PeerOctets(sa)
  /\ CanSign(conf.s.cert, sa.req.sig)
\* handleEAPStart: our own AUTH first, with a challenge; the request is kept.
HandleEAPStart(q, sa) ==
  /\ Answer(q, [idr |-> "server", auth |-> Auth("psk", "psk", OwnOctets(sa)), eap |-> "challenge"])
  /\ sas' = [sas EXCEPT ![q.r].eap = "challenge", ![q.r].saved = q.in, ![q.r].recv = q.id + 1]
HandleIKEAuth(q) ==
  /\ Secured(q, "auth") /\ sas[q.r].eap = "none"
  /\ LET sa == At(sas[q.r], q.id)
     IN  \/ ~Has(q.in, "auth")
            /\ IF conf.s.requirePQAuth \/ ~conf.s.eap \/ ~conf.s.psk THEN Refuse(q)
               ELSE HandleEAPStart(q, sa)
         \/ Has(q.in, "auth") /\ q.in.auth.method \in {"sig", "rsasig"}
            /\ IF (conf.s.requirePQAuth /\ q.in.auth.method = "rsasig") \/ ~CertGood(q.in, sa) THEN Refuse(q)
               ELSE FinishIKEAuth(q, sa, "cert", [idr |-> "server", cert |-> conf.s.cert,
                      auth |-> Auth(SignMethod(sa.req.sig), "server key", OwnOctets(sa))])
         \/ Has(q.in, "auth") /\ q.in.auth.method = "psk"
            /\ IF ~PskGood(q.in.auth, sa) THEN Refuse(q)
               ELSE FinishIKEAuth(q, sa, "psk", [idr |-> "server", auth |-> Auth("psk", "psk", OwnOctets(sa))])
  /\ UNCHANGED <<conf, cl, env>>

\* eap.Server.HandlePeer: the answer to the challenge, then whatever response follows the
\* verdict, which ends in EAP-Success and leaves the MSK; the packet and the state after.
HandlePeer(state, eap) ==
  IF state = "challenge"
  THEN IF eap = "password" THEN <<[eap |-> "success"], "verdict">> ELSE <<[eap |-> "failure"], "failed">>
  ELSE <<[eap |-> "done"], "msk">>
\* handleEAPContinue: the ID moves first.
HandleEAPContinue(q) ==
  /\ Secured(q, "auth") /\ sas[q.r].eap \in {"challenge", "verdict"}
  /\ LET sa == sas[q.r]
         step == IF Has(q.in, "eap") THEN HandlePeer(sa.eap, q.in.eap) ELSE <<Notify("authentication failed"), sa.eap>>
     IN  Answer(q, step[1]) /\ sas' = [sas EXCEPT ![q.r].recv = q.id + 1, ![q.r].eap = step[2]]
  /\ UNCHANGED <<conf, cl, env>>

\* handleEAPFinalAuth, with the octets of the first IKE_AUTH.
HandleEAPFinalAuth(q) ==
  /\ Secured(q, "auth") /\ sas[q.r].eap = "msk"
  /\ LET sa == At(sas[q.r], sas[q.r].recv - 3)
         msk == MSK("password")
     IN  IF ~Has(q.in, "auth") \/ q.in.auth # Auth("psk", msk, PeerOctets(sa))
         THEN Answer(q, Notify("authentication failed")) /\ sas' = [sas EXCEPT ![q.r].recv = q.id + 1]
         ELSE FinishIKEAuth(q, sa, "eap", [auth |-> Auth("psk", msk, OwnOctets(sa))])
  /\ UNCHANGED <<conf, cl, env>>

\* ---- the rest of the world ----
\* Other handshakes come and go: gate.HalfOpen passes cookieThreshold.
Load == env' = [env EXCEPT !.load = ~@, !.disturbed = TRUE] /\ ~env.disturbed /\ UNCHANGED <<conf, cl, sas, net>>
\* A datagram of IKE_SA_INIT is changed on the way: an offer, the hashes, the public value.
Damage(m) ==
  /\ env.damaged < MaxDamaged /\ m \in net /\ m.ex = "init" /\ ~IsError(m.in)
  /\ \E f \in {"pq", "sig"} : net' = (net \ {m}) \cup {[m EXCEPT !.in[f] = ~@]}
  /\ env' = [env EXCEPT !.damaged = @ + 1, !.disturbed = TRUE]
  /\ UNCHANGED <<conf, cl, sas>>
DamageKE(m) ==
  /\ env.damaged < MaxDamaged /\ m \in net /\ m.ex = "init" /\ ~IsError(m.in)
  /\ net' = (net \ {m}) \cup {[m EXCEPT !.in.ke = 1]}
  /\ env' = [env EXCEPT !.damaged = @ + 1, !.disturbed = TRUE]
  /\ UNCHANGED <<conf, cl, sas>>
\* The path delivers a datagram twice. A second copy of an answer takes the place of
\* the next one.
Twice(m) ==
  /\ env.twice < MaxTwice /\ m \in net /\ m.copy = 0
  /\ net' = net \cup {[m EXCEPT !.copy = 1]}
  /\ env' = [env EXCEPT !.twice = @ + 1, !.disturbed = @ \/ (m.dst = "c" /\ m.ex # "init")]
  /\ UNCHANGED <<conf, cl, sas>>

Init ==
  /\ conf \in Confs
  /\ cl = [at |-> "start", why |-> Nil, req |-> Nil, resp |-> Nil, k |-> Nil, id |-> 0, eap |-> 0, idr |-> Nil, res |-> Nil]
  /\ sas = [r \in {} |-> Nil] /\ net = {} /\ env = [load |-> FALSE, damaged |-> 0, twice |-> 0, disturbed |-> FALSE]

Client == SaInit \/ Timeout \/ (\E m \in net : SaInitAnswer(m) \/ IntermediateAnswer(m) \/ AuthAnswer(m))
Server ==
  \E q \in net : \/ CookieDemand(q) \/ HandleSAInit(q) \/ HandleIntermediate(q)
                 \/ HandleIKEAuth(q) \/ HandleEAPContinue(q) \/ HandleEAPFinalAuth(q)
Next == Client \/ Server \/ Load \/ (\E m \in net : Damage(m) \/ DamageKE(m) \/ Twice(m))
Spec == Init /\ [][Next]_vars

\* ---- what must hold ----

\* A client that connected shares everything with the SA it connected to: both saw the
\* same IKE_SA_INIT messages, hold the same IKE and Child SA keys, and agree on the
\* lease, on MOBIKE and on AGGFRAG.
Agreed == cl.at = "up" =>
  /\ cl.resp.r \in DOMAIN sas
  /\ LET sa == sas[cl.resp.r]
     IN  /\ sa.st = "established" /\ sa.k = cl.k /\ sa.child = cl.res
         /\ sa.req = cl.req /\ sa.resp = cl.resp

\* The policies of both ends: a client that requires the additional key comes up only
\* with it, classical certificates and EAP do not pass where RequirePostQuantumAuth
\* refuses them, and nobody is established without the credential it is admitted by.
PolicyHolds ==
  /\ cl.at = "up" => /\ conf.c.requirePQ => cl.k.kem # Nil
                     /\ conf.c.auth = "cert" => Holds("server ca") /\ Holds("server id")
                     /\ conf.c.auth # "cert" => Holds("psk")
  /\ \A r \in DOMAIN sas : sas[r].st = "established" =>
       /\ conf.s.requirePQAuth => sas[r].by = "psk" \/ (sas[r].by = "cert" /\ conf.c.kind = "mldsa")
       /\ sas[r].by = "psk" => Holds("psk")
       /\ sas[r].by = "cert" => Holds("client ca") /\ Holds("client id")
       /\ sas[r].by = "eap" => Holds("password") /\ Holds("psk")

\* RequirePostQuantum at the responder: no SA is established on classical keys alone.
\* exchangeAllowed lets IKE_AUTH through whether or not the negotiated IKE_INTERMEDIATE
\* took place; what keeps it is that both ends authenticate the IKE_SA_INIT messages as
\* they saw them, so a client that was led to skip the exchange is refused.
NoClassicalSA == \A r \in DOMAIN sas : sas[r].st = "established" /\ conf.s.requirePQ => sas[r].k.kem # Nil

\* What the options promise of two ends: the combinations that must connect.
Compatible ==
  LET c == conf.c
      s == conf.s
  IN  /\ s.free
      /\ c.requirePQ => ~s.classicalOnly
      /\ s.requirePQ => c.pq /\ ~s.classicalOnly
      /\ Holds("server id")
      /\ CASE c.auth = "psk" -> s.psk /\ Holds("psk")
           [] c.auth = "eap" -> s.psk /\ s.eap /\ Holds("psk") /\ Holds("password") /\ ~s.requirePQAuth
           [] c.auth = "cert" ->
                /\ s.cas /\ s.cert # Nil
                /\ {"client ca", "client id", "server ca", "server usage"} \subseteq conf.know
                /\ s.requirePQAuth => c.kind = "mldsa"
                /\ c.pqAuth => s.cert = "mldsa"

\* On a path that neither damages nor delays, and past no cookie, a compatible pair is
\* never turned away, even when its requests arrive twice.
Welcome == cl.at = "failed" /\ Compatible => env.disturbed
====
