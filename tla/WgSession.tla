---- MODULE WgSession ----
(***************************************************************************)
(* internal/wireguard: one client session (client.go) and the server's     *)
(* view of that peer (server.go), their tunnels (tunnel.go), cookies       *)
(* (cookie.go, noise/cookie.go) and transport sessions                     *)
(* (transport/transport.go), over UDP. An initiation is named by its       *)
(* number, which is its sender index and its timestamp; a response by the  *)
(* number of the responder's index. The keypair both ends derive from the  *)
(* two is [i, s]. What Diffie-Hellman, the AEADs and the MACs decide is    *)
(* whether those numbers match.                                            *)
(***************************************************************************)
EXTENDS Integers, Sequences, FiniteSets, TLAPS

CONSTANTS MaxAttempts,  \* maxAttempts of the first handshake
          MaxInits,     \* bound: initiations the client sends
          MaxRekeys,    \* bound: rekeys the ticker starts
          MaxRestarts,  \* bound: restarts of the server process
          MaxData,      \* bound: transport packets under one keypair and direction;
                        \* 0 leaves the data path out
          MaxReplies,   \* bound: the same for the server
          MaxSecrets,   \* bound: cookie secrets drawn
          Addrs,        \* the client's addresses, as it roams
          Load,         \* "never", "always" (threshold < 0) or "varies"
          Duplicates,   \* the network repeats and delays, or else it drops
          MaxLosses,    \* bound: datagrams dropped
          Quiet         \* whether a working tunnel may still be without traffic

VARIABLES cl,           \* the client's Session
          sv,           \* the server and its one serverPeer
          wire,         \* datagrams under way
          n,            \* initiations sent, ever
          ns,           \* responder indices drawn, ever
          env           \* [rekeys, restarts, lost, epoch], counts the bounds limit

vars == <<cl, sv, wire, n, ns, env>>

NoKey == [i |-> 0, s |-> 0]
NoCookie == [g |-> 0, addr |-> 0]

----
(* Datagrams *)

\* Initiator.Initiation: mac2 is the MAC under the jar's cookie, or zeros.
Initiation(i, mac2, from) == [t |-> "init", i |-> i, mac2 |-> mac2, from |-> from]
\* Responder.Response: message type 2, addressed to the initiation's index.
Response(i, s, to) == [t |-> "resp", i |-> i, s |-> s, addr |-> to]
\* CookieReply: bound to the mac1 of the initiation it answers.
CookieReply(i, c, to) == [t |-> "cookie", i |-> i, c |-> c, addr |-> to]
\* appendSeal: the keypair, the counter, whether it carries an allowed source.
Transport(k, ctr, src, to, addr) == [t |-> to, k |-> k, ctr |-> ctr, src |-> src, addr |-> addr]
\* sendKeepalive: the first packet under a keypair, empty.
Keepalive(k, addr) == IF MaxData = 0 THEN {} ELSE {Transport(k, 0, TRUE, "server", addr)}

\* UDP: a datagram delivered may be delivered again, or is consumed.
Taken(m) == IF Duplicates THEN wire ELSE wire \ {m}

\* wgTunnel.install: the old current stays for decryption, the old previous falls out.
Install(t, k) == [t EXCEPT !.prev = t.cur, !.cur = k, !.sent = 0, !.expired = FALSE]

\* newTunnel, and what the pump demultiplexes to it.
NewTunnel == [cur |-> NoKey, prev |-> NoKey, sent |-> 0, expired |-> FALSE, seen |-> {}]
Live(t) == {t.cur, t.prev} \ {NoKey}

----
(* The client: handshakes *)

\* NewInitiator, cookieJar.apply and Initiation; setPending replaces the attempt before.
Send(c, base) ==
  /\ n < MaxInits
  /\ n' = n + 1
  /\ cl' = [c EXCEPT !.init = n + 1, !.box = <<>>]
  /\ wire' = base \cup {Initiation(n + 1, c.jar, c.addr)}
  /\ UNCHANGED <<sv, ns, env>>

Stay(c, base) == cl' = c /\ wire' = base /\ UNCHANGED <<sv, n, ns, env>>

\* handshake, one more attempt or none left.
Attempt(c, base) ==
  IF c.att >= MaxAttempts THEN Stay([c EXCEPT !.pc = "failed", !.init = 0], base)
  ELSE Send([c EXCEPT !.att = @ + 1], base)

\* Dial opens the socket and sends the first initiation.
Dial == cl.pc = "dial" /\ cl.init = 0 /\ Attempt(cl, wire)

\* takeCookie: a reply to this very initiation.
TakeCookie(c, m) == [c EXCEPT !.jar = m.c]

\* Dial past the handshake: the TUN opens or fails, the pump gets the tunnel, and
\* startKeepalive sends an empty packet.
Established(c, m) ==
  LET k == [i |-> m.i, s |-> m.s]
  IN  [c EXCEPT !.pc = "up", !.init = 0, !.tun = [NewTunnel EXCEPT !.cur = k, !.sent = 1], !.keys = {k}]

\* handshake's read loop: the client reads the socket itself, so it meets whatever arrives.
DialRead(m) ==
  /\ cl.pc = "dial" /\ cl.init # 0 /\ m \in wire /\ m.t \notin {"init", "server"}
  /\ m.addr = cl.addr
  /\ \/ /\ m.t = "cookie" /\ m.i # cl.init
        /\ Stay(cl, Taken(m))
     \/ /\ m.t = "cookie" /\ m.i = cl.init
        /\ Attempt(TakeCookie(cl, m), Taken(m))
     \/ /\ m.t = "client" \/ (m.t = "resp" /\ m.i # cl.init)
        /\ Attempt(cl, Taken(m))
     \/ /\ m.t = "resp" /\ m.i = cl.init
        /\ \/ Stay(Established(cl, m),
                   Taken(m) \cup Keepalive([i |-> m.i, s |-> m.s], cl.addr))
           \/ Stay([cl EXCEPT !.pc = "failed", !.init = 0], Taken(m))

\* Nothing that answers the client's pending initiation is under way.
Unanswered == ~ \E m \in wire : m.t \in {"init", "resp", "cookie"} /\ m.i = cl.init
TimerMay == Duplicates \/ Unanswered

DialTimeout == cl.pc = "dial" /\ cl.init # 0 /\ TimerMay /\ Attempt(cl, wire)

\* Mutant of Idle.
IdleNever == Quiet
\* Probe finds the pump idle: no authenticated packet for wgLivenessIdle.
Idle == Quiet \/ sv.tun.cur \notin Live(cl.tun)

\* rekeyLoop's tick and the monitor's Probe; hsExchMu lets one of them in.
Rekey ==
  /\ cl.pc = "up" /\ cl.holder = "none" /\ env.rekeys < MaxRekeys /\ n < MaxInits
  /\ n' = n + 1
  /\ cl' = [cl EXCEPT !.holder = "rekey", !.init = n + 1, !.box = <<>>]
  /\ wire' = wire \cup {Initiation(n + 1, cl.jar, cl.addr)}
  /\ env' = [env EXCEPT !.rekeys = @ + 1]
  /\ UNCHANGED <<sv, ns>>
Probe == cl.pc = "up" /\ cl.holder = "none" /\ Idle /\ Send([cl EXCEPT !.holder = "probe"], wire)

\* deliverResponse: by receiver index, into a channel of one.
DeliverResponse(m) ==
  /\ cl.pc = "up" /\ m \in wire /\ m.t \in {"resp", "cookie"} /\ m.addr = cl.addr
  /\ Stay(IF cl.init = m.i /\ cl.box = <<>> THEN [cl EXCEPT !.box = <<m>>] ELSE cl, Taken(m))

\* awaitReply takes the reply: a cookie is kept and retried with, a response consumed
\* and its keypair installed in the tunnel.
AwaitReply ==
  /\ cl.holder # "none" /\ cl.init # 0 /\ cl.box # <<>>
  /\ LET m == Head(cl.box)
         c == [cl EXCEPT !.box = <<>>]
     IN  \/ m.t = "cookie" /\ Send(TakeCookie(c, m), wire)
         \/ /\ m.t = "resp"
            /\ Stay([c EXCEPT !.init = 0, !.out = cl.tun.prev,
                              !.tun = Install(cl.tun, [i |-> m.i, s |-> m.s]), !.reg = TRUE], wire)

AwaitTimeout == cl.holder # "none" /\ cl.init # 0 /\ TimerMay /\ Send(cl, wire)

\* ctx is done: rekeyAttemptTime or the probe's Timeout ran out, or the session closes.
AwaitDone ==
  /\ cl.holder # "none" /\ cl.init # 0
  /\ Stay([cl EXCEPT !.holder = "none", !.init = 0, !.box = <<>>], wire)

\* Mutant of Register.
RegisterKeepsEvicted ==
  /\ cl.reg
  /\ Stay([cl EXCEPT !.keys = @ \cup {cl.tun.cur}, !.out = NoKey, !.reg = FALSE,
                     !.holder = "none", !.tun.sent = 1],
          wire \cup Keepalive(cl.tun.cur, cl.addr))
\* handshakeOnce after install: the pump learns the new index, forgets the evicted
\* one, and a keepalive primes the new key.
Register ==
  /\ cl.reg
  /\ Stay([cl EXCEPT !.keys = (@ \cup {cl.tun.cur}) \ {cl.out}, !.out = NoKey, !.reg = FALSE,
                     !.holder = "none", !.tun.sent = 1],
          wire \cup Keepalive(cl.tun.cur, cl.addr))

\* Session.Close: closing the socket ends readLoop, closing stop the goroutines.
Close == cl.pc = "up" /\ Stay([cl EXCEPT !.pc = "closed", !.keys = {}], wire)

\* The host moves to another address, without Duplicates never back to an old one;
\* the jar's cookie reaches CookieRefreshTime.
Roam(a) == a # cl.addr /\ (Duplicates \/ a > cl.addr) /\ Stay([cl EXCEPT !.addr = a], wire)
JarAges == cl.jar # NoCookie /\ cl.init = 0 /\ Stay([cl EXCEPT !.jar = NoCookie], wire)

----
(* The server *)

\* observe: more than threshold initiations within a second.
UnderLoad == CASE Load = "never" -> {FALSE} [] Load = "always" -> {TRUE} [] OTHER -> BOOLEAN

\* CheckMAC2: the secret is fresh and the cookie is the one for this source.
CheckMAC2(m) == sv.fresh /\ m.mac2 = [g |-> sv.g, addr |-> m.from]

\* CookieReply draws a new secret when the old one has aged out.
SendCookieReply(m) ==
  LET g == IF sv.fresh THEN sv.g ELSE sv.g + 1
  IN  /\ sv' = [sv EXCEPT !.g = g, !.fresh = TRUE]
      /\ wire' = Taken(m) \cup {CookieReply(m.i, [g |-> g, addr |-> m.from], m.from)}
      /\ UNCHANGED <<cl, n, ns, env>>

\* Mutant of Stale.
StaleRepeatOnly(m) == m.i = sv.lastTS
\* The timestamp must advance on the newest one seen, if there is one.
Stale(m) == sv.lastTS # 0 /\ m.i <= sv.lastTS

\* handleInitiation past the gates: Response, install, the pump's keys, the answer.
Answer(m) ==
  LET k == [i |-> m.i, s |-> ns + 1]
      tun == IF sv.tun = NewTunnel THEN [NewTunnel EXCEPT !.cur = k] ELSE Install(sv.tun, k)
  IN  /\ ns' = ns + 1
      /\ sv' = [sv EXCEPT !.lastTS = m.i, !.tun = tun, !.peer = m.from,
                          !.keys = (@ \cup {k}) \ {sv.tun.prev}]
      /\ wire' = Taken(m) \cup {Response(m.i, ns + 1, m.from)}
      /\ UNCHANGED <<cl, n, env>>

\* handleInitiation. The gate may refuse what passed the MACs; the reservation is
\* given back when it returns.
HandleInitiation(m) ==
  /\ m \in wire /\ m.t = "init"
  /\ \E loaded \in UnderLoad :
       IF loaded /\ ~CheckMAC2(m) THEN SendCookieReply(m)
       ELSE IF Stale(m) THEN wire' = Taken(m) /\ UNCHANGED <<cl, sv, n, ns, env>>
       ELSE Answer(m)

\* CookieRefreshTime passes.
SecretAges == sv.fresh /\ sv.g < MaxSecrets /\ sv' = [sv EXCEPT !.fresh = FALSE] /\ UNCHANGED <<cl, wire, n, ns, env>>

\* The process restarts: NewServer and ListenAndServe again.
NewServer(g) == [lastTS |-> 0, tun |-> NewTunnel, keys |-> {}, peer |-> 0, g |-> g, fresh |-> FALSE,
                 got |-> {}, twice |-> FALSE]
Restart ==
  /\ env.restarts < MaxRestarts
  /\ env' = [env EXCEPT !.restarts = @ + 1, !.epoch = ns]
  /\ sv' = [NewServer(sv.g) EXCEPT !.got = sv.got, !.twice = sv.twice]
  /\ UNCHANGED <<cl, wire, n, ns>>

----
(* The data path, the same code at both ends *)

\* sendSession: the current key, unless it is past rejectAfterTime.
Sealable(t) == t.cur # NoKey /\ ~t.expired /\ t.sent < MaxData
Expire(t) == [t EXCEPT !.expired = TRUE]

\* The pump seals an inner packet for the peer. The server's own host is not held to
\* AllowedIPs when it sends, nor is the client's.
ClientSends(src) ==
  /\ cl.pc = "up" /\ Sealable(cl.tun)
  /\ Stay([cl EXCEPT !.tun.sent = @ + 1],
          wire \cup {Transport(cl.tun.cur, cl.tun.sent, src, "server", cl.addr)})
ServerSends(src) ==
  /\ Sealable(sv.tun) /\ sv.tun.sent < MaxReplies
  /\ sv' = [sv EXCEPT !.tun.sent = @ + 1]
  /\ wire' = wire \cup {Transport(sv.tun.cur, sv.tun.sent, src, "client", sv.peer)}
  /\ UNCHANGED <<cl, n, ns, env>>

\* Mutant of Opened.
OpenedUnseen(t, keys, m) == m.k \in keys /\ m.k \in Live(t)
\* Decapsulate under the keypair the index names, then Open's replay window, here one
\* without a far edge: it remembers every counter of a keypair that lives.
Opened(t, keys, m) == m.k \in keys /\ m.k \in Live(t) /\ <<m.k, m.ctr>> \notin t.seen
Seen(t, m) == [t EXCEPT !.seen = {x \in @ : x[1] \in Live(t)} \cup {<<m.k, m.ctr>>}]

\* handleInbound: sourceAllowed drops what AllowedIPs does not cover, and only a
\* packet that got through moves the return address. Packets with ctr 0 are keepalives.
ServerReceives(m) ==
  /\ m \in wire /\ m.t = "server"
  /\ wire' = Taken(m)
  /\ sv' = IF Opened(sv.tun, sv.keys, m)
           THEN [sv EXCEPT !.tun = Seen(@, m),
                           !.peer = IF m.src THEN m.addr ELSE @,
                           !.got = IF m.src THEN @ \cup {m} ELSE @,
                           !.twice = @ \/ (m.src /\ m \in sv.got)]
           ELSE sv
  /\ UNCHANGED <<cl, n, ns, env>>
ClientReceives(m) ==
  /\ cl.pc = "up" /\ m \in wire /\ m.t = "client" /\ m.addr = cl.addr
  /\ Stay(IF Opened(cl.tun, cl.keys, m)
          THEN [cl EXCEPT !.tun = Seen(@, m), !.got = IF m.src THEN @ \cup {m} ELSE @,
                          !.twice = @ \/ (m.src /\ m \in cl.got)]
          ELSE cl, Taken(m))

\* rejectAfterTime passes at either end.
ClientExpires == MaxData > 0 /\ cl.tun.cur # NoKey /\ ~cl.tun.expired /\ Stay([cl EXCEPT !.tun = Expire(@)], wire)
ServerExpires ==
  /\ MaxData > 0 /\ sv.tun.cur # NoKey /\ ~sv.tun.expired
  /\ sv' = [sv EXCEPT !.tun = Expire(@)] /\ UNCHANGED <<cl, wire, n, ns, env>>

\* UDP drops a datagram, or delivers it where nobody listens any more.
Lose(m) ==
  /\ ~Duplicates /\ m \in wire /\ env.lost < MaxLosses
  /\ wire' = wire \ {m} /\ env' = [env EXCEPT !.lost = @ + 1]
  /\ UNCHANGED <<cl, sv, n, ns>>
Undelivered(m) ==
  /\ ~Duplicates /\ m \in wire /\ m.t \notin {"init", "server"} /\ m.addr # cl.addr
  /\ Stay(cl, wire \ {m})

----
Init ==
  /\ cl = [pc |-> "dial", att |-> 0, init |-> 0, box |-> <<>>, holder |-> "none", jar |-> NoCookie,
           addr |-> CHOOSE a \in Addrs : \A b \in Addrs : a <= b,
           tun |-> NewTunnel, keys |-> {}, out |-> NoKey, reg |-> FALSE, got |-> {}, twice |-> FALSE]
  /\ sv = NewServer(0)
  /\ wire = {} /\ n = 0 /\ ns = 0
  /\ env = [rekeys |-> 0, restarts |-> 0, lost |-> 0, epoch |-> 0]

ClientStep ==
  \/ Dial \/ DialTimeout \/ Probe \/ AwaitReply \/ AwaitTimeout \/ Register
  \/ \E m \in wire : DialRead(m) \/ DeliverResponse(m) \/ ClientReceives(m)
ServerStep == \E m \in wire : HandleInitiation(m) \/ ServerReceives(m)
Surroundings ==
  \/ Rekey \/ AwaitDone \/ Close \/ JarAges \/ SecretAges \/ Restart \/ ClientExpires \/ ServerExpires
  \/ \E a \in Addrs : Roam(a)
  \/ \E src \in BOOLEAN : ClientSends(src) \/ ServerSends(src)
  \/ \E m \in wire : Lose(m) \/ Undelivered(m)

Next == ClientStep \/ ServerStep \/ Surroundings
Spec == Init /\ [][Next]_vars

----
(* Properties *)

\* handshakeOnce and handleInitiation keep the pump's demux table in step with the
\* tunnel: outside the moment of an exchange it leads to the current and the previous
\* keypair and to nothing else, so no retired index reaches the tunnel and no live one
\* is missing.
KeysRegistered ==
  /\ sv.keys = Live(sv.tun)
  /\ cl.pc = "up" /\ ~cl.reg => cl.keys = Live(cl.tun)

\* An exchange the client completed with its newest initiation, at the server process
\* that is running, leaves both ends on the same keypair: no older initiation or
\* response that arrives late can part them.
InSync ==
  cl.tun.cur.i = n /\ cl.tun.cur.s > env.epoch /\ cl.init = 0 => sv.tun.cur = cl.tun.cur

\* Both.
KeysInStep == KeysRegistered /\ InSync

\* Open's window and install: no inner packet reaches a TUN twice, whatever the path
\* repeats and however the keys rotate meanwhile.
DeliveredOnce == ~cl.twice /\ ~sv.twice

\* handleInitiation's timestamp check, within one life of the server: a session is
\* only ever replaced by one of a newer initiation.
AdvanceStep ==
  \/ env'.restarts # env.restarts
  \/ sv'.tun.cur.i >= sv.tun.cur.i /\ cl'.tun.cur.i >= cl.tun.cur.i
Advances == [][AdvanceStep]_vars

\* What recovers after a restart of the server and lost datagrams.
Shared == cl.pc = "up" /\ sv.tun.cur = cl.tun.cur
Over == cl.pc \in {"failed", "closed"}

----
(* Proof that the keys stay in step and that nothing is delivered twice,   *)
(* whatever the bounds, the addresses and the path                         *)

ClFields == {"pc", "att", "init", "box", "holder", "jar", "addr", "tun", "keys", "out", "reg", "got", "twice"}
SvFields == {"lastTS", "tun", "keys", "peer", "g", "fresh", "got", "twice"}
TunFields == {"cur", "prev", "sent", "expired", "seen"}
Key == [i : Nat, s : Nat]

TypeOK ==
  /\ DOMAIN cl = ClFields /\ DOMAIN cl.tun = TunFields
  /\ DOMAIN sv = SvFields /\ DOMAIN sv.tun = TunFields
  /\ cl.tun.cur \in Key /\ cl.tun.prev \in Key /\ cl.out \in Key
  /\ sv.tun.cur \in Key /\ sv.tun.prev \in Key
  /\ cl.init \in Nat /\ sv.lastTS \in Nat /\ n \in Nat /\ ns \in Nat
  /\ DOMAIN env = {"rekeys", "restarts", "lost", "epoch"} /\ env.restarts \in Nat /\ env.epoch \in Nat

\* An exchange the running server process answered: the server has seen no older
\* initiation, and if it has seen no newer one it is still on that keypair.
Standing(i, s) ==
  s > env.epoch => sv.lastTS >= i /\ (sv.lastTS = i => sv.tun.cur = [i |-> i, s |-> s])

\* What a datagram, or the answer in the channel of one, can say.
Sound(m) ==
  /\ m.t \in {"init", "resp", "cookie"} => m.i \in Nat /\ 1 <= m.i /\ m.i <= n
  /\ m.t = "resp" => m.s \in Nat /\ 1 <= m.s /\ m.s <= ns /\ Standing(m.i, m.s)
OnWire == \A m \in wire : Sound(m)
InBox ==
  cl.box # <<>> => LET m == Head(cl.box) IN m.t \in {"resp", "cookie"} /\ m.i = cl.init /\ Sound(m)

\* The client's keypairs are in the order of its initiations, the pending one after them.
KeysOrdered ==
  /\ cl.init <= n /\ cl.tun.cur.i <= n /\ cl.tun.cur.s <= ns
  /\ cl.init # 0 => cl.tun.cur.i < cl.init
  /\ cl.tun.prev.i <= cl.tun.cur.i
  /\ cl.tun.prev # NoKey => cl.tun.prev.i < cl.tun.cur.i
  /\ cl.out # NoKey => cl.out.i < cl.tun.prev.i

\* The demux table lags behind the tunnel from install until Register, and hsExchMu keeps
\* every other exchange out meanwhile.
Registered ==
  /\ cl.reg => cl.holder # "none" /\ cl.init = 0 /\ cl.tun.cur # NoKey
  /\ ~cl.reg => cl.out = NoKey
  /\ cl.pc = "dial" => cl.box = <<>> /\ ~cl.reg
  /\ cl.pc = "up" => cl.keys = IF cl.reg THEN {cl.tun.prev, cl.out} \ {NoKey} ELSE Live(cl.tun)

CurrentStands == Standing(cl.tun.cur.i, cl.tun.cur.s)

\* The server's keypairs carry fresh indices, and the current one its newest timestamp.
ServerKeys ==
  /\ sv.keys = Live(sv.tun)
  /\ sv.tun.cur.s <= ns /\ sv.tun.prev.s <= ns
  /\ sv.tun.cur = NoKey \/ sv.tun.cur # sv.tun.prev
  /\ sv.tun.cur.i = sv.lastTS /\ sv.lastTS <= n

\* A packet that was delivered is remembered by the window of its keypair for as long as
\* the keypair lives, and no later keypair is that one.
Remembered(m, t) == m.k \in Live(t) => <<m.k, m.ctr>> \in t.seen
ClientOnce ==
  cl.twice = FALSE /\ \A m \in cl.got : m.k \in Key /\ m.k.i <= cl.tun.cur.i /\ Remembered(m, cl.tun)
ServerOnce ==
  sv.twice = FALSE /\ \A m \in sv.got : m.k \in Key /\ m.k.s <= ns /\ Remembered(m, sv.tun)

IInv ==
  /\ TypeOK /\ OnWire /\ InBox
  /\ KeysOrdered /\ Registered /\ CurrentStands /\ ClientOnce
  /\ ServerKeys /\ ServerOnce

-----------------------------------------------------------------------------
(* Datagrams that stay sound: the numbers only grow                        *)

LEMMA SoundStays ==
  ASSUME TypeOK, NEW m, Sound(m), n' \in Nat, n' >= n, ns' \in Nat, ns' >= ns,
         UNCHANGED <<sv.lastTS, sv.tun.cur, env.epoch>>
  PROVE  Sound(m)'
<1>1. CASE m.t = "resp"
  BY <1>1 DEF Sound, Standing, TypeOK
<1>2. CASE m.t # "resp"
  BY <1>2 DEF Sound, TypeOK
<1>3. QED BY <1>1, <1>2

\* A server step that keeps its keys keeps what the invariant says of it.
LEMMA ServerSame ==
  ASSUME IInv, UNCHANGED <<sv, ns, env.epoch>>, n' \in Nat, n' >= n
  PROVE  ServerKeys' /\ ServerOnce' /\ (\A m : Sound(m) => Sound(m)')
<1>1. \A m : Sound(m) => Sound(m)'
  BY SoundStays DEF IInv, TypeOK
<1>2. ServerKeys'
  BY DEF IInv, TypeOK, ServerKeys, Live, NoKey, Key
<1>3. ServerOnce'
  BY DEF IInv, ServerOnce, Remembered, Live
<1>4. QED BY <1>1, <1>2, <1>3

\* The client sends an initiation: Send and Rekey.
LEMMA SendKeeps ==
  ASSUME IInv, NEW c, DOMAIN c = ClFields, c.pc = cl.pc, c.tun = cl.tun, c.keys = cl.keys, c.out = cl.out,
         c.reg = cl.reg, c.got = cl.got, c.twice = cl.twice, ~cl.reg,
         NEW base, base \subseteq wire, n' = n + 1, cl' = [c EXCEPT !.init = n + 1, !.box = <<>>],
         wire' = base \cup {Initiation(n + 1, c.jar, c.addr)}, UNCHANGED <<sv, ns>>,
         DOMAIN env' = DOMAIN env, env'.restarts = env.restarts, env'.epoch = env.epoch
  PROVE  IInv'
<1>1. /\ DOMAIN cl' = ClFields /\ cl'.init = n + 1 /\ cl'.box = <<>> /\ cl'.pc = cl.pc /\ cl'.tun = cl.tun
      /\ cl'.keys = cl.keys /\ cl'.out = cl.out /\ cl'.reg = cl.reg /\ cl'.got = cl.got /\ cl'.twice = cl.twice
  BY DEF ClFields
<1>2. n' = n + 1 /\ n' \in Nat /\ UNCHANGED <<sv, ns, env.epoch>>
  BY DEF IInv, TypeOK
<1>3. TypeOK'
  BY <1>1, <1>2 DEF IInv, TypeOK
<1>4. ServerKeys' /\ ServerOnce' /\ (\A m : Sound(m) => Sound(m)')
  BY <1>2, ServerSame DEF IInv, TypeOK
<1>5. OnWire'
  <2>1. SUFFICES ASSUME NEW m \in wire' PROVE Sound(m)'
    BY DEF OnWire
  <2>2. m \in wire \/ m = Initiation(n + 1, c.jar, c.addr)
    OBVIOUS
  <2>3. CASE m \in wire
    BY <2>3, <1>4 DEF IInv, OnWire
  <2>4. CASE m = Initiation(n + 1, c.jar, c.addr)
    BY <2>4, <1>2 DEF Initiation, Sound, IInv, TypeOK
  <2>5. QED BY <2>2, <2>3, <2>4
<1>6. InBox'
  BY <1>1 DEF InBox
<1>7. KeysOrdered'
  BY <1>1, <1>2 DEF IInv, TypeOK, KeysOrdered, Key, NoKey
<1>8. Registered'
  BY <1>1 DEF IInv, Registered, Live, NoKey
<1>9. CurrentStands'
  BY <1>1, <1>2 DEF IInv, CurrentStands, Standing
<1>10. ClientOnce'
  BY <1>1 DEF IInv, ClientOnce, Remembered, Live
<1>11. QED BY <1>3, <1>4, <1>5, <1>6, <1>7, <1>8, <1>9, <1>10 DEF IInv

\* The client stays where it is, or gives up, with the datagrams there were and
\* transport packets: Stay, where no keypair, window or delivery changes.
LEMMA StayKeeps ==
  ASSUME IInv, NEW c, DOMAIN c = ClFields, DOMAIN c.tun = TunFields,
         c.tun.cur = cl.tun.cur, c.tun.prev = cl.tun.prev, c.tun.seen = cl.tun.seen,
         c.out = cl.out, c.reg = cl.reg, c.got = cl.got, c.twice = cl.twice,
         c.pc \in {"failed", "closed"} \/ (c.pc = cl.pc /\ c.keys = cl.keys),
         (c.init = cl.init /\ c.box = cl.box) \/ (c.init = 0 /\ c.box = <<>>),
         cl.reg => c.holder = cl.holder,
         NEW base, \A m \in base : m \in wire \/ m.t \notin {"init", "resp", "cookie"},
         Stay(c, base)
  PROVE  IInv'
<1>1. cl' = c /\ wire' = base /\ n' = n /\ UNCHANGED <<sv, ns, env>>
  BY DEF Stay
<1>2. TypeOK'
  BY <1>1 DEF IInv, TypeOK
<1>3. ServerKeys' /\ ServerOnce' /\ (\A m : Sound(m) => Sound(m)')
  BY <1>1, ServerSame DEF IInv, TypeOK
<1>4. OnWire'
  <2>1. SUFFICES ASSUME NEW m \in wire' PROVE Sound(m)'
    BY DEF OnWire
  <2>2. CASE m \in wire
    BY <2>2, <1>3 DEF IInv, OnWire
  <2>3. CASE m.t \notin {"init", "resp", "cookie"}
    BY <2>3 DEF Sound
  <2>4. QED BY <2>1, <2>2, <2>3, <1>1
<1>5. InBox'
  BY <1>1, <1>3 DEF IInv, InBox
<1>6. KeysOrdered'
  <2>1. /\ cl'.tun.cur = cl.tun.cur /\ cl'.tun.prev = cl.tun.prev /\ cl'.out = cl.out
        /\ cl'.init \in {cl.init, 0} /\ n' = n /\ ns' = ns
    BY <1>1
  <2>2. KeysOrdered /\ TypeOK
    BY DEF IInv
  <2>3. QED BY <2>1, <2>2 DEF TypeOK, KeysOrdered, NoKey
<1>7. Registered'
  BY <1>1 DEF IInv, Registered, Live, NoKey
<1>8. CurrentStands'
  BY <1>1 DEF IInv, CurrentStands, Standing
<1>9. ClientOnce'
  BY <1>1 DEF IInv, ClientOnce, Remembered, Live
<1>10. QED BY <1>2, <1>3, <1>4, <1>5, <1>6, <1>7, <1>8, <1>9 DEF IInv

-----------------------------------------------------------------------------
(* The client's handshake steps                                            *)

\* deliverResponse puts an answer to the pending initiation into the empty channel.
LEMMA BoxKeeps ==
  ASSUME IInv, cl.pc = "up", NEW m \in wire, m.t \in {"resp", "cookie"}, cl.init = m.i,
         Stay([cl EXCEPT !.box = <<m>>], Taken(m))
  PROVE  IInv'
<1>1. /\ DOMAIN cl' = ClFields /\ cl'.box = <<m>> /\ cl'.init = cl.init /\ cl'.pc = cl.pc /\ cl'.tun = cl.tun
      /\ cl'.keys = cl.keys /\ cl'.out = cl.out /\ cl'.reg = cl.reg /\ cl'.got = cl.got /\ cl'.twice = cl.twice
      /\ cl'.holder = cl.holder
  BY DEF Stay, IInv, TypeOK, ClFields
<1>2. wire' \subseteq wire /\ n' = n /\ UNCHANGED <<sv, ns, env>>
  BY DEF Stay, Taken
<1>3. TypeOK'
  BY <1>1, <1>2 DEF IInv, TypeOK
<1>4. ServerKeys' /\ ServerOnce' /\ (\A x : Sound(x) => Sound(x)')
  BY <1>2, ServerSame DEF IInv, TypeOK
<1>5. OnWire'
  BY <1>2, <1>4 DEF IInv, OnWire
<1>6. InBox'
  <2>1. Sound(m)'
    BY <1>4 DEF IInv, OnWire
  <2>2. Head(cl'.box) = m
    BY <1>1
  <2>3. QED BY <1>1, <2>1, <2>2 DEF InBox
<1>7. KeysOrdered'
  BY <1>1, <1>2 DEF IInv, TypeOK, KeysOrdered, NoKey
<1>8. Registered'
  BY <1>1 DEF IInv, Registered, Live, NoKey
<1>9. CurrentStands'
  BY <1>1, <1>2 DEF IInv, CurrentStands, Standing
<1>10. ClientOnce'
  BY <1>1 DEF IInv, ClientOnce, Remembered, Live
<1>11. QED BY <1>3, <1>4, <1>5, <1>6, <1>7, <1>8, <1>9, <1>10 DEF IInv

\* Dial's handshake succeeds: the first keypair, at once in the demux table.
LEMMA EstablishedKeeps ==
  ASSUME IInv, cl.pc = "dial", cl.init # 0, NEW m \in wire, m.t = "resp", m.i = cl.init,
         Stay(Established(cl, m), Taken(m) \cup Keepalive([i |-> m.i, s |-> m.s], cl.addr))
  PROVE  IInv'
<1> DEFINE k == [i |-> m.i, s |-> m.s]
<1>1. /\ DOMAIN cl' = ClFields /\ cl'.box = cl.box /\ cl'.init = 0 /\ cl'.pc = "up"
      /\ cl'.keys = {k} /\ cl'.out = cl.out /\ cl'.reg = cl.reg /\ cl'.got = cl.got /\ cl'.twice = cl.twice
      /\ DOMAIN cl'.tun = TunFields /\ cl'.tun.cur = k /\ cl'.tun.prev = NoKey /\ cl'.tun.seen = {}
  BY DEF Stay, IInv, TypeOK, ClFields, TunFields, Established, NewTunnel
<1>2. n' = n /\ UNCHANGED <<sv, ns, env>> /\ \A x \in wire' : x \in wire \/ x.t = "server"
  BY DEF Stay, Taken, Keepalive, Transport
<1>3. Sound(m) /\ m.i \in Nat /\ 1 <= m.i /\ m.i <= n /\ m.s \in Nat /\ m.s <= ns /\ k \in Key
  BY DEF IInv, OnWire, Sound, Key
<1>4. cl.box = <<>> /\ ~cl.reg /\ cl.out = NoKey /\ cl.tun.cur.i < m.i
  BY DEF IInv, Registered, KeysOrdered
<1>5. TypeOK'
  BY <1>1, <1>2, <1>3 DEF IInv, TypeOK, Key, NoKey
<1>6. ServerKeys' /\ ServerOnce' /\ (\A x : Sound(x) => Sound(x)')
  BY <1>2, ServerSame DEF IInv, TypeOK
<1>7. OnWire'
  BY <1>2, <1>6 DEF IInv, OnWire, Sound
<1>8. InBox'
  BY <1>1, <1>4 DEF InBox
<1>9. KeysOrdered'
  BY <1>1, <1>2, <1>3, <1>4 DEF IInv, TypeOK, KeysOrdered, NoKey
<1>10. Registered'
  BY <1>1, <1>3, <1>4 DEF Registered, Live, NoKey
<1>11. CurrentStands'
  BY <1>1, <1>2, <1>3 DEF CurrentStands, Standing, Sound
<1>12. ClientOnce'
  <2>1. SUFFICES ASSUME NEW x \in cl.got
                 PROVE  x.k \in Key /\ x.k.i <= m.i /\ x.k # k
    BY <1>1 DEF IInv, ClientOnce, Remembered, Live, NoKey
  <2>2. x.k \in Key /\ x.k.i <= cl.tun.cur.i /\ cl.tun.cur \in Key
    BY DEF IInv, ClientOnce, TypeOK
  <2>3. QED BY <2>2, <1>3, <1>4 DEF Key
<1>13. QED BY <1>5, <1>6, <1>7, <1>8, <1>9, <1>10, <1>11, <1>12 DEF IInv

\* awaitReply consumes a response: the keypair is installed, the demux table still lags.
LEMMA InstallKeeps ==
  ASSUME IInv, NEW m, cl.holder # "none", cl.init # 0, cl.box # <<>>, m = Head(cl.box), m.t = "resp",
         Stay([cl EXCEPT !.box = <<>>, !.init = 0, !.out = cl.tun.prev,
                         !.tun = Install(cl.tun, [i |-> m.i, s |-> m.s]), !.reg = TRUE], wire)
  PROVE  IInv'
<1> DEFINE k == [i |-> m.i, s |-> m.s]
<1>1. /\ DOMAIN cl' = ClFields /\ cl'.box = <<>> /\ cl'.init = 0 /\ cl'.pc = cl.pc /\ cl'.holder = cl.holder
      /\ cl'.keys = cl.keys /\ cl'.out = cl.tun.prev /\ cl'.reg = TRUE /\ cl'.got = cl.got /\ cl'.twice = cl.twice
      /\ DOMAIN cl'.tun = TunFields /\ cl'.tun.cur = k /\ cl'.tun.prev = cl.tun.cur /\ cl'.tun.seen = cl.tun.seen
  BY DEF Stay, IInv, TypeOK, ClFields, TunFields, Install
<1>2. wire' = wire /\ n' = n /\ UNCHANGED <<sv, ns, env>>
  BY DEF Stay
<1>3. Sound(m) /\ m.i = cl.init /\ m.i \in Nat /\ 1 <= m.i /\ m.i <= n /\ m.s \in Nat /\ m.s <= ns /\ k \in Key
  BY DEF IInv, InBox, Sound, Key
<1>4. ~cl.reg /\ cl.pc # "dial" /\ cl.tun.cur.i < m.i /\ cl.tun.cur \in Key
  BY <1>3 DEF IInv, Registered, KeysOrdered, TypeOK
<1>5. TypeOK'
  BY <1>1, <1>2, <1>3 DEF IInv, TypeOK
<1>6. ServerKeys' /\ ServerOnce' /\ (\A x : Sound(x) => Sound(x)')
  BY <1>2, ServerSame DEF IInv, TypeOK
<1>7. OnWire'
  BY <1>2, <1>6 DEF IInv, OnWire
<1>8. InBox'
  BY <1>1 DEF InBox
<1>9. KeysOrdered'
  BY <1>1, <1>2, <1>3, <1>4 DEF IInv, TypeOK, KeysOrdered, NoKey, Key
<1>10. Registered'
  <2>1. k # NoKey
    BY <1>3 DEF NoKey
  <2>2. cl.pc = "up" => cl.keys = {cl.tun.cur, cl.tun.prev} \ {NoKey}
    BY <1>4 DEF IInv, Registered, Live
  <2>3. QED BY <1>1, <1>4, <2>1, <2>2 DEF Registered, NoKey
<1>11. CurrentStands'
  BY <1>1, <1>2, <1>3 DEF CurrentStands, Standing, Sound
<1>12. ClientOnce'
  <2>1. SUFFICES ASSUME NEW x \in cl.got
                 PROVE  x.k \in Key /\ x.k.i <= m.i /\ x.k # k /\ (x.k = cl.tun.cur /\ x.k # NoKey => <<x.k, x.ctr>> \in cl.tun.seen)
    BY <1>1 DEF IInv, ClientOnce, Remembered, Live, NoKey
  <2>2. x.k \in Key /\ x.k.i <= cl.tun.cur.i /\ Remembered(x, cl.tun)
    BY DEF IInv, ClientOnce
  <2>3. x.k.i <= m.i /\ x.k # k
    BY <2>2, <1>3, <1>4 DEF Key
  <2>4. QED BY <2>2, <2>3 DEF Remembered, Live
<1>13. QED BY <1>5, <1>6, <1>7, <1>8, <1>9, <1>10, <1>11, <1>12 DEF IInv

\* handshakeOnce after install: the demux table catches up.
LEMMA RegisterKeeps ==
  ASSUME IInv, Register
  PROVE  IInv'
<1>1. /\ DOMAIN cl' = ClFields /\ cl'.box = cl.box /\ cl'.init = cl.init /\ cl'.pc = cl.pc
      /\ cl'.keys = (cl.keys \cup {cl.tun.cur}) \ {cl.out} /\ cl'.out = NoKey /\ cl'.reg = FALSE
      /\ cl'.got = cl.got /\ cl'.twice = cl.twice
      /\ DOMAIN cl'.tun = TunFields /\ cl'.tun.cur = cl.tun.cur /\ cl'.tun.prev = cl.tun.prev /\ cl'.tun.seen = cl.tun.seen
  BY DEF Register, Stay, IInv, TypeOK, ClFields, TunFields
<1>2. n' = n /\ UNCHANGED <<sv, ns, env>> /\ \A x \in wire' : x \in wire \/ x.t = "server"
  BY DEF Register, Stay, Keepalive, Transport
<1>3. cl.reg /\ cl.tun.cur # NoKey /\ cl.tun.cur \in Key /\ cl.tun.prev \in Key /\ cl.out \in Key
  BY DEF Register, IInv, Registered, TypeOK
<1>4. TypeOK'
  BY <1>1, <1>2, <1>3 DEF IInv, TypeOK, NoKey, Key
<1>5. ServerKeys' /\ ServerOnce' /\ (\A x : Sound(x) => Sound(x)')
  BY <1>2, ServerSame DEF IInv, TypeOK
<1>6. OnWire'
  BY <1>2, <1>5 DEF IInv, OnWire, Sound
<1>7. InBox'
  BY <1>1, <1>5 DEF IInv, InBox
<1>8. KeysOrdered'
  BY <1>1, <1>2 DEF IInv, TypeOK, KeysOrdered, NoKey
<1>9. Registered'
  <2>1. cl.out # NoKey => cl.out # cl.tun.cur /\ cl.out # cl.tun.prev
    BY <1>3 DEF IInv, KeysOrdered, Key, NoKey
  <2>2. cl.pc = "up" => cl.keys = {cl.tun.prev, cl.out} \ {NoKey}
    BY <1>3 DEF IInv, Registered
  <2>3. cl.pc = "up" => cl'.keys = {cl.tun.cur, cl.tun.prev} \ {NoKey}
    BY <1>1, <1>3, <2>1, <2>2
  <2>4. cl.pc # "dial"
    BY <1>3 DEF IInv, Registered
  <2>5. QED BY <1>1, <2>3, <2>4 DEF Registered, Live, NoKey
<1>10. CurrentStands'
  BY <1>1, <1>2 DEF IInv, CurrentStands, Standing
<1>11. ClientOnce'
  BY <1>1 DEF IInv, ClientOnce, Remembered, Live
<1>12. QED BY <1>4, <1>5, <1>6, <1>7, <1>8, <1>9, <1>10, <1>11 DEF IInv

-----------------------------------------------------------------------------
(* The data path, and the server's steps                                   *)

\* The replay window of either end: what was delivered stays remembered, and a packet
\* the window lets through was never delivered.
LEMMA WindowRemembers ==
  ASSUME NEW t, DOMAIN t = TunFields, NEW keys, NEW m, Opened(t, keys, m),
         NEW got, \A x \in got : Remembered(x, t)
  PROVE  /\ DOMAIN Seen(t, m) = TunFields /\ Seen(t, m).cur = t.cur /\ Seen(t, m).prev = t.prev
         /\ m \notin got /\ m.k \in Live(t)
         /\ \A x \in got \cup {m} : Remembered(x, Seen(t, m))
<1>1. /\ DOMAIN Seen(t, m) = TunFields /\ Seen(t, m).cur = t.cur /\ Seen(t, m).prev = t.prev
      /\ Seen(t, m).seen = {x \in t.seen : x[1] \in Live(t)} \cup {<<m.k, m.ctr>>}
  BY DEF Seen, TunFields
<1>2. Live(Seen(t, m)) = Live(t)
  BY <1>1 DEF Live
<1>3. m.k \in Live(t) /\ m \notin got
  BY DEF Opened, Remembered
<1>4. ASSUME NEW x \in got \cup {m}
      PROVE  Remembered(x, Seen(t, m))
  <2>1. CASE x = m
    BY <2>1, <1>1 DEF Remembered
  <2>2. CASE x \in got
    <3>1. SUFFICES ASSUME x.k \in Live(t) PROVE <<x.k, x.ctr>> \in Seen(t, m).seen
      BY <1>2 DEF Remembered
    <3>2. <<x.k, x.ctr>> \in t.seen /\ <<x.k, x.ctr>>[1] = x.k
      BY <2>2, <3>1 DEF Remembered
    <3>3. QED BY <1>1, <3>1, <3>2
  <2>3. QED BY <2>1, <2>2
<1>5. QED BY <1>1, <1>3, <1>4

\* The client's pump opens a transport packet.
LEMMA ClientOpens ==
  ASSUME IInv, NEW m \in wire, Opened(cl.tun, cl.keys, m),
         Stay([cl EXCEPT !.tun = Seen(@, m), !.got = IF m.src THEN @ \cup {m} ELSE @,
                         !.twice = @ \/ (m.src /\ m \in cl.got)], Taken(m))
  PROVE  IInv'
<1>1. /\ DOMAIN cl' = ClFields /\ cl'.box = cl.box /\ cl'.init = cl.init /\ cl'.pc = cl.pc /\ cl'.holder = cl.holder
      /\ cl'.keys = cl.keys /\ cl'.out = cl.out /\ cl'.reg = cl.reg
      /\ cl'.tun = Seen(cl.tun, m) /\ cl'.got \subseteq cl.got \cup {m}
  BY DEF Stay, IInv, TypeOK, ClFields
<1>2. n' = n /\ UNCHANGED <<sv, ns, env>> /\ wire' \subseteq wire
  BY DEF Stay, Taken
<1>3. DOMAIN cl.tun = TunFields /\ \A x \in cl.got : Remembered(x, cl.tun)
  BY DEF IInv, TypeOK, ClientOnce
<1>4. /\ DOMAIN cl'.tun = TunFields /\ cl'.tun.cur = cl.tun.cur /\ cl'.tun.prev = cl.tun.prev
      /\ m \notin cl.got /\ m.k \in Live(cl.tun)
      /\ \A x \in cl.got \cup {m} : Remembered(x, Seen(cl.tun, m))
  BY <1>1, <1>3, WindowRemembers
<1>5. TypeOK'
  BY <1>1, <1>2, <1>4 DEF IInv, TypeOK
<1>6. ServerKeys' /\ ServerOnce' /\ (\A x : Sound(x) => Sound(x)')
  BY <1>2, ServerSame DEF IInv, TypeOK
<1>7. OnWire'
  BY <1>2, <1>6 DEF IInv, OnWire
<1>8. InBox'
  BY <1>1, <1>6 DEF IInv, InBox
<1>9. KeysOrdered'
  BY <1>1, <1>2, <1>4 DEF IInv, TypeOK, KeysOrdered, NoKey
<1>10. Registered'
  BY <1>1, <1>4 DEF IInv, Registered, Live, NoKey
<1>11. CurrentStands'
  BY <1>2, <1>4 DEF IInv, CurrentStands, Standing
<1>12. ClientOnce'
  <2>1. cl'.twice = FALSE
    <3>1. cl'.twice = (cl.twice \/ (m.src /\ m \in cl.got))
      BY DEF Stay, IInv, TypeOK, ClFields
    <3>2. QED BY <3>1, <1>4 DEF IInv, ClientOnce
  <2>2. m.k \in Key /\ m.k.i <= cl.tun.cur.i
    BY <1>4 DEF IInv, TypeOK, KeysOrdered, Live, Key
  <2>3. ASSUME NEW x \in cl'.got
        PROVE  x.k \in Key /\ x.k.i <= cl'.tun.cur.i /\ Remembered(x, cl'.tun)
    <3>1. x \in cl.got \cup {m}
      BY <1>1
    <3>2. x.k \in Key /\ x.k.i <= cl.tun.cur.i
      BY <3>1, <2>2 DEF IInv, ClientOnce
    <3>3. QED BY <3>1, <3>2, <1>1, <1>4
  <2>4. QED BY <2>1, <2>3 DEF ClientOnce, Remembered, Live, NoKey, Key
<1>13. QED BY <1>5, <1>6, <1>7, <1>8, <1>9, <1>10, <1>11, <1>12 DEF IInv

\* What the invariant says of the client survives a server step after which the wire and
\* the current keypair still stand.
LEMMA ClientSame ==
  ASSUME IInv, UNCHANGED <<cl, n>>, ns' \in Nat, ns' >= ns,
         InBox', CurrentStands'
  PROVE  InBox' /\ KeysOrdered' /\ Registered' /\ CurrentStands' /\ ClientOnce'
<1>1. KeysOrdered'
  BY DEF IInv, TypeOK, KeysOrdered, Key, NoKey
<1>2. Registered'
  BY DEF IInv, Registered, Live, NoKey
<1>3. ClientOnce'
  BY DEF IInv, ClientOnce, Remembered, Live
<1>4. QED BY <1>1, <1>2, <1>3

\* Server steps that leave its keypairs, its window and its deliveries alone.
LEMMA ServerQuiet ==
  ASSUME IInv, UNCHANGED <<cl, n, ns>>,
         DOMAIN env' = DOMAIN env, env'.restarts = env.restarts, env'.epoch = env.epoch,
         DOMAIN sv' = SvFields, DOMAIN sv'.tun = TunFields,
         sv'.tun.cur = sv.tun.cur, sv'.tun.prev = sv.tun.prev, sv'.tun.seen = sv.tun.seen,
         sv'.lastTS = sv.lastTS, sv'.keys = sv.keys, sv'.got = sv.got, sv'.twice = sv.twice,
         \A x \in wire' : \/ x \in wire
                          \/ /\ x.t \in {"init", "cookie"} => x.i \in Nat /\ 1 <= x.i /\ x.i <= n
                             /\ x.t # "resp"
  PROVE  IInv'
<1>1. TypeOK'
  BY DEF IInv, TypeOK
<1>2. \A x : Sound(x) => Sound(x)'
  BY SoundStays DEF IInv, TypeOK
<1>3. OnWire'
  <2>1. SUFFICES ASSUME NEW x \in wire' PROVE Sound(x)'
    BY DEF OnWire
  <2>2. CASE x \in wire
    BY <2>2, <1>2 DEF IInv, OnWire
  <2>3. CASE x \notin wire
    BY <2>3 DEF Sound
  <2>4. QED BY <2>2, <2>3
<1>4. InBox'
  BY <1>2 DEF IInv, InBox
<1>5. CurrentStands'
  BY DEF IInv, CurrentStands, Standing
<1>6. InBox' /\ KeysOrdered' /\ Registered' /\ CurrentStands' /\ ClientOnce'
  BY <1>4, <1>5, ClientSame DEF IInv, TypeOK
<1>7. ServerKeys'
  BY DEF IInv, TypeOK, ServerKeys, Live, NoKey, Key
<1>8. ServerOnce'
  BY DEF IInv, ServerOnce, Remembered, Live
<1>9. QED BY <1>1, <1>3, <1>6, <1>7, <1>8 DEF IInv

\* handleInitiation answers: a fresh index, and a timestamp newer than any it has seen.
LEMMA AnswerKeeps ==
  ASSUME IInv, NEW m \in wire, m.t = "init", ~Stale(m), Answer(m)
  PROVE  IInv'
<1> DEFINE k == [i |-> m.i, s |-> ns + 1]
<1>1. /\ DOMAIN sv' = SvFields /\ sv'.lastTS = m.i /\ sv'.keys = (sv.keys \cup {k}) \ {sv.tun.prev}
      /\ sv'.got = sv.got /\ sv'.twice = sv.twice
  BY DEF Answer, IInv, TypeOK, SvFields
<1>2. /\ DOMAIN sv'.tun = TunFields /\ sv'.tun.cur = k /\ sv'.tun.prev = sv.tun.cur
      /\ sv'.tun.seen = sv.tun.seen
  <2>1. sv'.tun = IF sv.tun = NewTunnel THEN [NewTunnel EXCEPT !.cur = k] ELSE Install(sv.tun, k)
    BY DEF Answer, IInv, TypeOK, SvFields
  <2>2. CASE sv.tun = NewTunnel
    BY <2>1, <2>2 DEF NewTunnel, TunFields
  <2>3. CASE sv.tun # NewTunnel
    BY <2>1, <2>3 DEF Install, TunFields, IInv, TypeOK
  <2>4. QED BY <2>2, <2>3
<1>3. /\ ns' = ns + 1 /\ ns' \in Nat /\ UNCHANGED <<cl, n, env>>
      /\ \A x \in wire' : x \in wire \/ x = Response(m.i, ns + 1, m.from)
  BY DEF Answer, Taken, IInv, TypeOK
<1>4. m.i \in Nat /\ 1 <= m.i /\ m.i <= n /\ sv.lastTS < m.i /\ k \in Key /\ ns \in Nat /\ sv.lastTS \in Nat
  BY DEF IInv, OnWire, Sound, Stale, TypeOK, Key
<1>5. TypeOK'
  BY <1>1, <1>2, <1>3, <1>4 DEF IInv, TypeOK
<1>6. ASSUME NEW i \in Nat, NEW s \in Nat, Standing(i, s)
      PROVE  Standing(i, s)'
  BY <1>1, <1>3, <1>4, <1>6 DEF Standing
<1>7. ASSUME NEW x, Sound(x)
      PROVE  Sound(x)'
  <2>1. CASE x.t = "resp"
    BY <2>1, <1>6, <1>7, <1>3, <1>4 DEF Sound
  <2>2. CASE x.t # "resp"
    BY <2>2, <1>7, <1>3 DEF Sound
  <2>3. QED BY <2>1, <2>2
<1>8. OnWire'
  <2>1. SUFFICES ASSUME NEW x \in wire' PROVE Sound(x)'
    BY DEF OnWire
  <2>2. CASE x \in wire
    BY <2>2, <1>7 DEF IInv, OnWire
  <2>3. CASE x = Response(m.i, ns + 1, m.from)
    <3>1. x.t = "resp" /\ x.i = m.i /\ x.s = ns + 1
      BY <2>3 DEF Response
    <3>2. Standing(x.i, x.s)'
      BY <3>1, <1>1, <1>2, <1>3, <1>4 DEF Standing
    <3>3. QED BY <3>1, <3>2, <1>3, <1>4 DEF Sound
  <2>4. QED BY <2>2, <2>3, <1>3
<1>9. InBox'
  BY <1>3, <1>7 DEF IInv, InBox
<1>10. CurrentStands'
  <2>1. cl.tun.cur.i \in Nat /\ cl.tun.cur.s \in Nat /\ Standing(cl.tun.cur.i, cl.tun.cur.s)
    BY DEF IInv, TypeOK, Key, CurrentStands
  <2>2. QED BY <2>1, <1>1, <1>3, <1>4 DEF CurrentStands, Standing
<1>11. InBox' /\ KeysOrdered' /\ Registered' /\ CurrentStands' /\ ClientOnce'
  BY <1>3, <1>9, <1>10, ClientSame DEF IInv, TypeOK
<1>12. sv.tun.cur \in Key /\ sv.tun.prev \in Key /\ sv.tun.cur.s <= ns /\ sv.tun.prev.s <= ns
  BY DEF IInv, TypeOK, ServerKeys
<1>13. k # sv.tun.cur /\ k # sv.tun.prev /\ k # NoKey
  BY <1>4, <1>12 DEF Key, NoKey
<1>14. ServerKeys'
  <2>1. sv'.keys = {k, sv.tun.cur} \ {NoKey}
    BY <1>1, <1>13 DEF IInv, ServerKeys, Live
  <2>2. QED BY <2>1, <1>1, <1>2, <1>3, <1>4, <1>12, <1>13 DEF ServerKeys, Live, NoKey, Key
<1>15. ServerOnce'
  <2>1. ASSUME NEW x \in sv'.got
        PROVE  x.k \in Key /\ x.k.s <= ns' /\ Remembered(x, sv'.tun)
    <3>1. x.k \in Key /\ x.k.s <= ns /\ Remembered(x, sv.tun)
      BY <1>1 DEF IInv, ServerOnce
    <3>2. x.k.s <= ns' /\ x.k # k
      BY <3>1, <1>3, <1>4 DEF Key
    <3>3. QED BY <3>1, <3>2, <1>2 DEF Remembered, Live, NoKey
  <2>2. sv'.twice = FALSE
    BY <1>1 DEF IInv, ServerOnce
  <2>3. QED BY <2>1, <2>2 DEF ServerOnce, Remembered, Live, NoKey, Key
<1>16. QED BY <1>5, <1>8, <1>11, <1>14, <1>15 DEF IInv

\* The server process restarts: every exchange it answered is of an earlier epoch.
LEMMA RestartKeeps ==
  ASSUME IInv, Restart
  PROVE  IInv'
<1>1. /\ DOMAIN sv' = SvFields /\ sv'.lastTS = 0 /\ sv'.keys = {} /\ sv'.tun = NewTunnel
      /\ sv'.got = sv.got /\ sv'.twice = sv.twice
  BY DEF Restart, NewServer, SvFields
<1>2. DOMAIN sv'.tun = TunFields /\ sv'.tun.cur = NoKey /\ sv'.tun.prev = NoKey
  BY <1>1 DEF NewTunnel, TunFields
<1>3. /\ UNCHANGED <<cl, wire, n, ns>> /\ DOMAIN env' = DOMAIN env /\ env'.restarts = env.restarts + 1
      /\ env'.epoch = ns /\ ns \in Nat /\ n \in Nat
  BY DEF Restart, IInv, TypeOK
<1>4. TypeOK'
  BY <1>1, <1>2, <1>3 DEF IInv, TypeOK, NoKey, Key
<1>5. ASSUME NEW x, Sound(x)
      PROVE  Sound(x)'
  BY <1>3, <1>5 DEF Sound, Standing
<1>6. OnWire'
  BY <1>3, <1>5 DEF IInv, OnWire
<1>7. InBox'
  BY <1>3, <1>5 DEF IInv, InBox
<1>8. CurrentStands'
  BY <1>3 DEF IInv, TypeOK, KeysOrdered, Key, CurrentStands, Standing
<1>9. InBox' /\ KeysOrdered' /\ Registered' /\ CurrentStands' /\ ClientOnce'
  BY <1>3, <1>7, <1>8, ClientSame
<1>10. ServerKeys'
  BY <1>1, <1>2, <1>3 DEF ServerKeys, Live, NoKey
<1>11. ServerOnce'
  BY <1>1, <1>2, <1>3 DEF IInv, ServerOnce, Remembered, Live, NoKey
<1>12. QED BY <1>4, <1>6, <1>9, <1>10, <1>11 DEF IInv

\* The server's pump opens a transport packet.
LEMMA ServerOpens ==
  ASSUME IInv, NEW m \in wire, Opened(sv.tun, sv.keys, m), ServerReceives(m)
  PROVE  IInv'
<1>1. /\ DOMAIN sv' = SvFields /\ sv'.lastTS = sv.lastTS /\ sv'.keys = sv.keys
      /\ sv'.tun = Seen(sv.tun, m) /\ sv'.got \subseteq sv.got \cup {m}
  BY DEF ServerReceives, IInv, TypeOK, SvFields
<1>2. UNCHANGED <<cl, n, ns, env>> /\ wire' \subseteq wire
  BY DEF ServerReceives, Taken
<1>3. DOMAIN sv.tun = TunFields /\ \A x \in sv.got : Remembered(x, sv.tun)
  BY DEF IInv, TypeOK, ServerOnce
<1>4. /\ DOMAIN sv'.tun = TunFields /\ sv'.tun.cur = sv.tun.cur /\ sv'.tun.prev = sv.tun.prev
      /\ m \notin sv.got /\ m.k \in Live(sv.tun)
      /\ \A x \in sv.got \cup {m} : Remembered(x, Seen(sv.tun, m))
  BY <1>1, <1>3, WindowRemembers
<1>5. TypeOK'
  BY <1>1, <1>2, <1>4 DEF IInv, TypeOK
<1>6. \A x : Sound(x) => Sound(x)'
  BY <1>1, <1>2, <1>4, SoundStays DEF IInv, TypeOK
<1>7. OnWire'
  BY <1>2, <1>6 DEF IInv, OnWire
<1>8. InBox'
  BY <1>2, <1>6 DEF IInv, InBox
<1>9. CurrentStands'
  BY <1>1, <1>2, <1>4 DEF IInv, CurrentStands, Standing
<1>10. InBox' /\ KeysOrdered' /\ Registered' /\ CurrentStands' /\ ClientOnce'
  BY <1>2, <1>8, <1>9, ClientSame DEF IInv, TypeOK
<1>11. ServerKeys'
  BY <1>1, <1>2, <1>4 DEF IInv, TypeOK, ServerKeys, Live, NoKey, Key
<1>12. ServerOnce'
  <2>1. sv'.twice = FALSE
    <3>1. sv'.twice = (sv.twice \/ (m.src /\ m \in sv.got))
      BY DEF ServerReceives, IInv, TypeOK, SvFields
    <3>2. QED BY <3>1, <1>4 DEF IInv, ServerOnce
  <2>2. m.k \in Key /\ m.k.s <= ns
    BY <1>4 DEF IInv, TypeOK, ServerKeys, Live, Key
  <2>3. ASSUME NEW x \in sv'.got
        PROVE  x.k \in Key /\ x.k.s <= ns' /\ Remembered(x, sv'.tun)
    <3>1. x \in sv.got \cup {m}
      BY <1>1
    <3>2. x.k \in Key /\ x.k.s <= ns
      BY <3>1, <2>2 DEF IInv, ServerOnce
    <3>3. QED BY <3>1, <3>2, <1>1, <1>2, <1>4
  <2>4. QED BY <2>1, <2>3 DEF ServerOnce, Remembered, Live, NoKey, Key
<1>13. QED BY <1>5, <1>7, <1>10, <1>11, <1>12 DEF IInv

-----------------------------------------------------------------------------
(* Every step keeps the invariant                                          *)

\* handshake's next attempt, from Dial's goroutine: c is cl, or cl with a cookie.
LEMMA AttemptKeeps ==
  ASSUME IInv, cl.pc = "dial", NEW c, DOMAIN c = ClFields, c.pc = cl.pc, c.tun = cl.tun, c.keys = cl.keys,
         c.out = cl.out, c.reg = cl.reg, c.got = cl.got, c.twice = cl.twice, c.box = cl.box, c.holder = cl.holder,
         NEW base, base \subseteq wire, Attempt(c, base)
  PROVE  IInv'
<1>1. ~cl.reg /\ cl.box = <<>> /\ DOMAIN cl.tun = TunFields
  BY DEF IInv, Registered, TypeOK
<1>2. CASE c.att >= MaxAttempts
  <2> DEFINE d == [c EXCEPT !.pc = "failed", !.init = 0]
  <2>1. Stay(d, base)
    BY <1>2 DEF Attempt
  <2>2. /\ DOMAIN d = ClFields /\ d.tun = cl.tun /\ d.out = cl.out /\ d.reg = cl.reg /\ d.got = cl.got
        /\ d.twice = cl.twice /\ d.pc = "failed" /\ d.init = 0 /\ d.box = <<>> /\ d.holder = cl.holder
    BY <1>1 DEF ClFields
  <2> HIDE DEF d
  <2>3. QED BY <1>1, <2>1, <2>2, StayKeeps
<1>3. CASE ~(c.att >= MaxAttempts)
  <2> DEFINE d == [c EXCEPT !.att = @ + 1]
  <2>1. Send(d, base)
    BY <1>3 DEF Attempt
  <2>2. /\ DOMAIN d = ClFields /\ d.pc = cl.pc /\ d.tun = cl.tun /\ d.keys = cl.keys /\ d.out = cl.out
        /\ d.reg = cl.reg /\ d.got = cl.got /\ d.twice = cl.twice
    BY DEF ClFields
  <2> HIDE DEF d
  <2>3. QED BY <1>1, <2>1, <2>2, SendKeeps DEF Send
<1>4. QED BY <1>2, <1>3

\* The client's own record is what both lemmas above want of c.
LEMMA ClientRecord ==
  ASSUME IInv
  PROVE  DOMAIN cl = ClFields /\ DOMAIN cl.tun = TunFields /\ (\A m : Taken(m) \subseteq wire)
BY DEF IInv, TypeOK, Taken

LEMMA DialReadKeeps ==
  ASSUME IInv, NEW m \in wire, DialRead(m)
  PROVE  IInv'
<1>1. DOMAIN cl = ClFields /\ DOMAIN cl.tun = TunFields /\ Taken(m) \subseteq wire
  BY ClientRecord
<1>2. cl.pc = "dial" /\ cl.init # 0
  BY DEF DialRead
<1>3. CASE Stay(cl, Taken(m))
  BY <1>1, <1>3, StayKeeps
<1>4. CASE Attempt(TakeCookie(cl, m), Taken(m))
  <2> DEFINE c == TakeCookie(cl, m)
  <2>1. /\ DOMAIN c = ClFields /\ c.pc = cl.pc /\ c.tun = cl.tun /\ c.keys = cl.keys /\ c.out = cl.out
        /\ c.reg = cl.reg /\ c.got = cl.got /\ c.twice = cl.twice /\ c.box = cl.box /\ c.holder = cl.holder
    BY <1>1 DEF TakeCookie, ClFields
  <2> HIDE DEF c
  <2>2. Attempt(c, Taken(m))
    BY <1>4 DEF c
  <2>3. QED BY <1>1, <1>2, <2>1, <2>2, AttemptKeeps
<1>5. CASE Attempt(cl, Taken(m))
  BY <1>1, <1>2, <1>5, AttemptKeeps
<1>6. CASE /\ m.t = "resp" /\ m.i = cl.init
           /\ Stay(Established(cl, m), Taken(m) \cup Keepalive([i |-> m.i, s |-> m.s], cl.addr))
  BY <1>2, <1>6, EstablishedKeeps
<1>7. CASE Stay([cl EXCEPT !.pc = "failed", !.init = 0], Taken(m))
  <2> DEFINE d == [cl EXCEPT !.pc = "failed", !.init = 0]
  <2>1. /\ DOMAIN d = ClFields /\ d.tun = cl.tun /\ d.out = cl.out /\ d.reg = cl.reg /\ d.got = cl.got
        /\ d.twice = cl.twice /\ d.pc = "failed" /\ d.init = 0 /\ d.box = cl.box /\ d.holder = cl.holder
    BY <1>1 DEF ClFields
  <2>2. cl.box = <<>>
    BY <1>2 DEF IInv, Registered
  <2>3. Stay(d, Taken(m))
    BY <1>7
  <2> HIDE DEF d
  <2>4. QED BY <1>1, <2>1, <2>2, <2>3, StayKeeps
<1>8. QED BY <1>3, <1>4, <1>5, <1>6, <1>7 DEF DialRead

LEMMA ClientStepKeeps ==
  ASSUME IInv, ClientStep
  PROVE  IInv'
<1>1. DOMAIN cl = ClFields /\ DOMAIN cl.tun = TunFields /\ \A m : Taken(m) \subseteq wire
  BY ClientRecord
<1>2. ASSUME cl.pc = "dial", Attempt(cl, wire)
      PROVE  IInv'
  BY <1>1, <1>2, AttemptKeeps
<1>3. CASE Dial
  BY <1>2, <1>3 DEF Dial
<1>4. CASE DialTimeout
  BY <1>2, <1>4 DEF DialTimeout
<1>5. CASE Probe
  <2> DEFINE c == [cl EXCEPT !.holder = "probe"]
  <2>1. /\ DOMAIN c = ClFields /\ c.pc = cl.pc /\ c.tun = cl.tun /\ c.keys = cl.keys /\ c.out = cl.out
        /\ c.reg = cl.reg /\ c.got = cl.got /\ c.twice = cl.twice
    BY <1>1 DEF ClFields
  <2>2. Send(c, wire) /\ ~cl.reg
    BY <1>5 DEF Probe, IInv, Registered
  <2> HIDE DEF c
  <2>3. QED BY <2>1, <2>2, SendKeeps DEF Send
<1>6. CASE AwaitReply
  <2> DEFINE m == Head(cl.box)
             c == [cl EXCEPT !.box = <<>>]
             d == TakeCookie(c, m)
  <2>1. cl.holder # "none" /\ cl.init # 0 /\ cl.box # <<>> /\ ~cl.reg
    BY <1>6 DEF AwaitReply, IInv, Registered
  <2>2. CASE Send(TakeCookie(c, m), wire)
    <3>1. /\ DOMAIN d = ClFields /\ d.pc = cl.pc /\ d.tun = cl.tun /\ d.keys = cl.keys /\ d.out = cl.out
          /\ d.reg = cl.reg /\ d.got = cl.got /\ d.twice = cl.twice
      BY <1>1 DEF ClFields, TakeCookie
    <3>2. Send(d, wire)
      BY <2>2
    <3> HIDE DEF d
    <3>3. QED BY <2>1, <3>1, <3>2, SendKeeps DEF Send
  <2>3. CASE /\ m.t = "resp"
             /\ Stay([c EXCEPT !.init = 0, !.out = cl.tun.prev,
                               !.tun = Install(cl.tun, [i |-> m.i, s |-> m.s]), !.reg = TRUE], wire)
    <3>1. Stay([cl EXCEPT !.box = <<>>, !.init = 0, !.out = cl.tun.prev,
                          !.tun = Install(cl.tun, [i |-> m.i, s |-> m.s]), !.reg = TRUE], wire)
      BY <2>3
    <3>2. QED BY <2>1, <2>3, <3>1, InstallKeeps
  <2>4. QED BY <1>6, <2>2, <2>3 DEF AwaitReply
<1>7. CASE AwaitTimeout
  <2>1. Send(cl, wire) /\ ~cl.reg
    BY <1>7 DEF AwaitTimeout, IInv, Registered
  <2>2. QED BY <1>1, <2>1, SendKeeps DEF Send
<1>8. CASE Register
  BY <1>8, RegisterKeeps
<1>9. ASSUME NEW m \in wire, DialRead(m)
      PROVE  IInv'
  BY <1>9, DialReadKeeps
<1>10. ASSUME NEW m \in wire, DeliverResponse(m)
       PROVE  IInv'
  <2>1. CASE cl.init = m.i /\ cl.box = <<>>
    BY <1>10, <2>1, BoxKeeps DEF DeliverResponse
  <2>2. CASE ~(cl.init = m.i /\ cl.box = <<>>)
    <3>1. Stay(cl, Taken(m))
      BY <1>10, <2>2 DEF DeliverResponse
    <3>2. QED BY <1>1, <3>1, StayKeeps
  <2>3. QED BY <2>1, <2>2
<1>11. ASSUME NEW m \in wire, ClientReceives(m)
       PROVE  IInv'
  <2>1. CASE Opened(cl.tun, cl.keys, m)
    BY <1>11, <2>1, ClientOpens DEF ClientReceives
  <2>2. CASE ~Opened(cl.tun, cl.keys, m)
    <3>1. Stay(cl, Taken(m))
      BY <1>11, <2>2 DEF ClientReceives
    <3>2. QED BY <1>1, <3>1, StayKeeps
  <2>3. QED BY <2>1, <2>2
<1>12. QED BY <1>3, <1>4, <1>5, <1>6, <1>7, <1>8, <1>9, <1>10, <1>11 DEF ClientStep

LEMMA ServerStepKeeps ==
  ASSUME IInv, ServerStep
  PROVE  IInv'
<1>1. DOMAIN sv = SvFields /\ DOMAIN sv.tun = TunFields /\ \A m : Taken(m) \subseteq wire
  BY DEF IInv, TypeOK, Taken
<1>2. ASSUME NEW m, wire' = Taken(m), UNCHANGED <<cl, sv, n, ns, env>>
      PROVE  IInv'
  BY <1>1, <1>2, ServerQuiet
<1>3. ASSUME NEW m \in wire, m.t = "init", SendCookieReply(m)
      PROVE  IInv'
  <2>1. /\ DOMAIN sv' = SvFields /\ sv'.tun = sv.tun /\ sv'.lastTS = sv.lastTS /\ sv'.keys = sv.keys
        /\ sv'.got = sv.got /\ sv'.twice = sv.twice
    BY <1>1, <1>3 DEF SendCookieReply, SvFields
  <2>2. m.i \in Nat /\ 1 <= m.i /\ m.i <= n
    BY <1>3 DEF IInv, OnWire, Sound
  <2>3. \A x \in wire' : x \in wire \/ (x.t = "cookie" /\ x.i = m.i)
    BY <1>1, <1>3 DEF SendCookieReply, CookieReply
  <2>4. UNCHANGED <<cl, n, ns, env>>
    BY <1>3 DEF SendCookieReply
  <2>5. QED BY <1>1, <2>1, <2>2, <2>3, <2>4, ServerQuiet
<1>4. ASSUME NEW m \in wire, HandleInitiation(m)
      PROVE  IInv'
  <2>1. m.t = "init" /\ (\/ SendCookieReply(m)
                         \/ (wire' = Taken(m) /\ UNCHANGED <<cl, sv, n, ns, env>>)
                         \/ (~Stale(m) /\ Answer(m)))
    BY <1>4 DEF HandleInitiation
  <2>2. QED BY <2>1, <1>2, <1>3, AnswerKeeps
<1>5. ASSUME NEW m \in wire, ServerReceives(m)
      PROVE  IInv'
  <2>1. CASE Opened(sv.tun, sv.keys, m)
    BY <1>5, <2>1, ServerOpens
  <2>2. CASE ~Opened(sv.tun, sv.keys, m)
    BY <1>2, <1>5, <2>2 DEF ServerReceives
  <2>3. QED BY <2>1, <2>2
<1>6. QED BY <1>4, <1>5 DEF ServerStep

LEMMA SurroundingsKeep ==
  ASSUME IInv, Surroundings
  PROVE  IInv'
<1>1. /\ DOMAIN cl = ClFields /\ DOMAIN cl.tun = TunFields /\ DOMAIN sv = SvFields /\ DOMAIN sv.tun = TunFields
      /\ cl.reg => cl.holder # "none" /\ cl.init = 0
  BY DEF IInv, TypeOK, Registered
<1>2. CASE Rekey
  <2> DEFINE c == [cl EXCEPT !.holder = "rekey"]
  <2>1. /\ DOMAIN c = ClFields /\ c.pc = cl.pc /\ c.tun = cl.tun /\ c.keys = cl.keys /\ c.out = cl.out
        /\ c.reg = cl.reg /\ c.got = cl.got /\ c.twice = cl.twice /\ c.jar = cl.jar /\ c.addr = cl.addr
    BY <1>1 DEF ClFields
  <2>2. /\ ~cl.reg /\ n' = n + 1 /\ cl' = [c EXCEPT !.init = n + 1, !.box = <<>>]
        /\ wire' = wire \cup {Initiation(n + 1, c.jar, c.addr)} /\ UNCHANGED <<sv, ns>>
    BY <1>1, <1>2, <2>1 DEF Rekey
  <2>3. DOMAIN env' = DOMAIN env /\ env'.restarts = env.restarts /\ env'.epoch = env.epoch
    BY <1>2 DEF Rekey, IInv, TypeOK
  <2> HIDE DEF c
  <2>4. QED BY <2>1, <2>2, <2>3, SendKeeps
<1>3. CASE AwaitDone
  <2> DEFINE c == [cl EXCEPT !.holder = "none", !.init = 0, !.box = <<>>]
  <2>1. /\ DOMAIN c = ClFields /\ c.pc = cl.pc /\ c.tun = cl.tun /\ c.keys = cl.keys /\ c.out = cl.out
        /\ c.reg = cl.reg /\ c.got = cl.got /\ c.twice = cl.twice /\ c.init = 0 /\ c.box = <<>>
    BY <1>1 DEF ClFields
  <2>2. ~cl.reg /\ Stay(c, wire)
    BY <1>1, <1>3 DEF AwaitDone
  <2> HIDE DEF c
  <2>3. QED BY <1>1, <2>1, <2>2, StayKeeps
<1>4. CASE Close
  <2> DEFINE c == [cl EXCEPT !.pc = "closed", !.keys = {}]
  <2>1. /\ DOMAIN c = ClFields /\ c.pc = "closed" /\ c.tun = cl.tun /\ c.out = cl.out /\ c.holder = cl.holder
        /\ c.reg = cl.reg /\ c.got = cl.got /\ c.twice = cl.twice /\ c.init = cl.init /\ c.box = cl.box
    BY <1>1 DEF ClFields
  <2>2. Stay(c, wire)
    BY <1>4 DEF Close
  <2> HIDE DEF c
  <2>3. QED BY <1>1, <2>1, <2>2, StayKeeps
<1>5. CASE JarAges
  <2> DEFINE c == [cl EXCEPT !.jar = NoCookie]
  <2>1. /\ DOMAIN c = ClFields /\ c.pc = cl.pc /\ c.keys = cl.keys /\ c.tun = cl.tun /\ c.out = cl.out /\ c.holder = cl.holder
        /\ c.reg = cl.reg /\ c.got = cl.got /\ c.twice = cl.twice /\ c.init = cl.init /\ c.box = cl.box
    BY <1>1 DEF ClFields
  <2>2. Stay(c, wire)
    BY <1>5 DEF JarAges
  <2> HIDE DEF c
  <2>3. QED BY <1>1, <2>1, <2>2, StayKeeps
<1>6. ASSUME NEW a, Roam(a)
      PROVE  IInv'
  <2> DEFINE c == [cl EXCEPT !.addr = a]
  <2>1. /\ DOMAIN c = ClFields /\ c.pc = cl.pc /\ c.keys = cl.keys /\ c.tun = cl.tun /\ c.out = cl.out /\ c.holder = cl.holder
        /\ c.reg = cl.reg /\ c.got = cl.got /\ c.twice = cl.twice /\ c.init = cl.init /\ c.box = cl.box
    BY <1>1 DEF ClFields
  <2>2. Stay(c, wire)
    BY <1>6 DEF Roam
  <2> HIDE DEF c
  <2>3. QED BY <1>1, <2>1, <2>2, StayKeeps
<1>7. CASE ClientExpires
  <2> DEFINE c == [cl EXCEPT !.tun = Expire(@)]
  <2>1. /\ DOMAIN c = ClFields /\ c.pc = cl.pc /\ c.keys = cl.keys /\ c.out = cl.out /\ c.holder = cl.holder
        /\ c.reg = cl.reg /\ c.got = cl.got /\ c.twice = cl.twice /\ c.init = cl.init /\ c.box = cl.box
        /\ DOMAIN c.tun = TunFields /\ c.tun.cur = cl.tun.cur /\ c.tun.prev = cl.tun.prev /\ c.tun.seen = cl.tun.seen
    BY <1>1 DEF ClFields, TunFields, Expire
  <2>2. Stay(c, wire)
    BY <1>7 DEF ClientExpires
  <2> HIDE DEF c
  <2>3. QED BY <2>1, <2>2, StayKeeps
<1>8. ASSUME NEW src, ClientSends(src)
      PROVE  IInv'
  <2> DEFINE c == [cl EXCEPT !.tun.sent = @ + 1]
             base == wire \cup {Transport(cl.tun.cur, cl.tun.sent, src, "server", cl.addr)}
  <2>1. /\ DOMAIN c = ClFields /\ c.pc = cl.pc /\ c.keys = cl.keys /\ c.out = cl.out /\ c.holder = cl.holder
        /\ c.reg = cl.reg /\ c.got = cl.got /\ c.twice = cl.twice /\ c.init = cl.init /\ c.box = cl.box
        /\ DOMAIN c.tun = TunFields /\ c.tun.cur = cl.tun.cur /\ c.tun.prev = cl.tun.prev /\ c.tun.seen = cl.tun.seen
    BY <1>1 DEF ClFields, TunFields
  <2>2. \A x \in base : x \in wire \/ x.t = "server"
    BY DEF Transport
  <2>3. Stay(c, base)
    BY <1>8 DEF ClientSends
  <2> HIDE DEF c, base
  <2>4. QED BY <2>1, <2>2, <2>3, StayKeeps
<1>9. CASE SecretAges
  <2>1. /\ DOMAIN sv' = SvFields /\ sv'.tun = sv.tun /\ sv'.lastTS = sv.lastTS /\ sv'.keys = sv.keys
        /\ sv'.got = sv.got /\ sv'.twice = sv.twice /\ UNCHANGED <<cl, wire, n, ns, env>>
    BY <1>1, <1>9 DEF SecretAges, SvFields
  <2>2. QED BY <1>1, <2>1, ServerQuiet
<1>10. CASE ServerExpires
  <2>1. /\ DOMAIN sv' = SvFields /\ sv'.lastTS = sv.lastTS /\ sv'.keys = sv.keys
        /\ sv'.got = sv.got /\ sv'.twice = sv.twice /\ UNCHANGED <<cl, wire, n, ns, env>>
        /\ DOMAIN sv'.tun = TunFields /\ sv'.tun.cur = sv.tun.cur /\ sv'.tun.prev = sv.tun.prev /\ sv'.tun.seen = sv.tun.seen
    BY <1>1, <1>10 DEF ServerExpires, Expire, SvFields, TunFields
  <2>2. QED BY <2>1, ServerQuiet
<1>11. ASSUME NEW src, ServerSends(src)
       PROVE  IInv'
  <2>1. /\ DOMAIN sv' = SvFields /\ sv'.lastTS = sv.lastTS /\ sv'.keys = sv.keys
        /\ sv'.got = sv.got /\ sv'.twice = sv.twice /\ UNCHANGED <<cl, n, ns, env>>
        /\ DOMAIN sv'.tun = TunFields /\ sv'.tun.cur = sv.tun.cur /\ sv'.tun.prev = sv.tun.prev /\ sv'.tun.seen = sv.tun.seen
    BY <1>1, <1>11 DEF ServerSends, SvFields, TunFields
  <2>2. \A x \in wire' : x \in wire \/ x.t = "client"
    BY <1>11 DEF ServerSends, Transport
  <2>3. QED BY <2>1, <2>2, ServerQuiet
<1>12. ASSUME NEW m, Lose(m)
       PROVE  IInv'
  <2>1. wire' \subseteq wire /\ DOMAIN env' = DOMAIN env /\ env'.restarts = env.restarts /\ env'.epoch = env.epoch
    BY <1>12 DEF Lose, IInv, TypeOK
  <2>2. UNCHANGED <<cl, sv, n, ns>>
    BY <1>12 DEF Lose
  <2>3. QED BY <1>1, <2>1, <2>2, ServerQuiet
<1>13. ASSUME NEW m, Undelivered(m)
       PROVE  IInv'
  <2>1. Stay(cl, wire \ {m})
    BY <1>13 DEF Undelivered
  <2>2. QED BY <1>1, <2>1, StayKeeps
<1>14. QED
  BY <1>2, <1>3, <1>4, <1>5, <1>6, <1>7, <1>8, <1>9, <1>10, <1>11, <1>12, <1>13, RestartKeeps DEF Surroundings

LEMMA InitHolds == Init => IInv
<1>1. SUFFICES ASSUME Init PROVE IInv
  OBVIOUS
<1>2. /\ DOMAIN cl = ClFields /\ cl.pc = "dial" /\ cl.init = 0 /\ cl.box = <<>> /\ cl.tun = NewTunnel
      /\ cl.out = NoKey /\ cl.reg = FALSE /\ cl.got = {} /\ cl.twice = FALSE
  BY <1>1 DEF Init, ClFields
<1>3. /\ DOMAIN sv = SvFields /\ sv.lastTS = 0 /\ sv.keys = {} /\ sv.tun = NewTunnel /\ sv.got = {} /\ sv.twice = FALSE
  BY <1>1 DEF Init, NewServer, SvFields
<1>4. DOMAIN NewTunnel = TunFields /\ NewTunnel.cur = NoKey /\ NewTunnel.prev = NoKey
  BY DEF NewTunnel, TunFields
<1>5. /\ wire = {} /\ n = 0 /\ ns = 0
      /\ DOMAIN env = {"rekeys", "restarts", "lost", "epoch"} /\ env.restarts = 0 /\ env.epoch = 0
  BY <1>1 DEF Init
<1>6. TypeOK
  BY <1>2, <1>3, <1>4, <1>5 DEF TypeOK, NoKey, Key
<1>7. OnWire /\ InBox
  BY <1>2, <1>5 DEF OnWire, InBox
<1>8. KeysOrdered /\ Registered
  BY <1>2, <1>4, <1>5 DEF KeysOrdered, Registered, NoKey
<1>9. CurrentStands
  BY <1>2, <1>4, <1>5 DEF CurrentStands, Standing, NoKey
<1>10. ClientOnce /\ ServerOnce
  BY <1>2, <1>3 DEF ClientOnce, ServerOnce
<1>11. ServerKeys
  BY <1>3, <1>4, <1>5 DEF ServerKeys, Live, NoKey
<1>12. QED BY <1>6, <1>7, <1>8, <1>9, <1>10, <1>11 DEF IInv

LEMMA StepKeeps == IInv /\ [Next]_vars => IInv'
<1>1. SUFFICES ASSUME IInv, [Next]_vars PROVE IInv'
  OBVIOUS
<1>2. CASE UNCHANGED vars
  BY <1>1, <1>2, ServerQuiet DEF vars, IInv, TypeOK
<1>3. QED BY <1>1, <1>2, ClientStepKeeps, ServerStepKeeps, SurroundingsKeep DEF Next

\* client.go, server.go and tunnel.go keep IInv: every number on the wire was drawn, an
\* exchange of the running server process still stands there, and a delivered packet is
\* remembered while its keypair lives.
THEOREM SessionInvariant == Spec => []IInv
BY InitHolds, StepKeeps, PTL DEF Spec

\* The demux tables of both pumps lead to exactly the live keypairs (handshakeOnce,
\* handleInitiation), and a completed exchange of the newest initiation leaves both ends on
\* one keypair: for any number of initiations, restarts, addresses and secrets, and
\* whatever the path loses, repeats or reorders.
THEOREM KeysStayInStep == Spec => []KeysInStep
<1>1. IInv => KeysInStep
  <2>1. SUFFICES ASSUME IInv PROVE KeysInStep
    OBVIOUS
  <2>2. KeysRegistered
    BY <2>1 DEF IInv, KeysRegistered, ServerKeys, Registered
  <2>3. ASSUME cl.tun.cur.i = n, cl.tun.cur.s > env.epoch
        PROVE  sv.tun.cur = cl.tun.cur
    <3>1. sv.lastTS >= n /\ sv.lastTS <= n /\ sv.lastTS \in Nat /\ n \in Nat /\ cl.tun.cur \in Key
      BY <2>1, <2>3 DEF IInv, CurrentStands, Standing, ServerKeys, TypeOK
    <3>2. sv.lastTS = cl.tun.cur.i
      BY <3>1, <2>3
    <3>3. sv.tun.cur = [i |-> cl.tun.cur.i, s |-> cl.tun.cur.s]
      BY <3>2, <2>1, <2>3 DEF IInv, CurrentStands, Standing
    <3>4. QED BY <3>1, <3>3 DEF Key
  <2>4. QED BY <2>2, <2>3 DEF KeysInStep, InSync
<1>2. QED BY <1>1, SessionInvariant, PTL

\* Open's window and install: no inner packet is delivered twice at either end, for any
\* number of keypairs and packets.
THEOREM NothingTwice == Spec => []DeliveredOnce
<1>1. IInv => DeliveredOnce
  BY DEF IInv, ClientOnce, ServerOnce, DeliveredOnce
<1>2. QED BY <1>1, SessionInvariant, PTL

\* handleInitiation's timestamp check and the client's one pending initiation: but for a
\* restart of the server, a session is only ever replaced by one of a newer initiation.
THEOREM SessionsAdvance == Spec => Advances
<1>1. ASSUME IInv, Next PROVE AdvanceStep
  <2>1. /\ DOMAIN cl = ClFields /\ DOMAIN cl.tun = TunFields /\ DOMAIN sv = SvFields /\ DOMAIN sv.tun = TunFields
        /\ cl.tun.cur.i \in Nat /\ sv.tun.cur.i \in Nat /\ cl.init \in Nat
    BY <1>1 DEF IInv, TypeOK, Key
  <2>2. ASSUME cl'.tun.cur = cl.tun.cur, sv'.tun.cur = sv.tun.cur
        PROVE  AdvanceStep
    BY <2>1, <2>2 DEF AdvanceStep
  <2>3. CASE ClientStep
    <3>1. sv' = sv
      BY <2>3 DEF ClientStep, Dial, DialTimeout, Probe, AwaitReply, AwaitTimeout, Register, DialRead,
                  DeliverResponse, ClientReceives, Attempt, Send, Stay
    <3>2. cl'.tun.cur = cl.tun.cur \/ cl'.tun.cur.i >= cl.tun.cur.i
      <4>1. ASSUME NEW c, DOMAIN c = ClFields, c.tun = cl.tun, NEW base, Send(c, base) \/ Stay(c, base) \/ Attempt(c, base)
            PROVE  cl'.tun = cl.tun
        BY <4>1 DEF Send, Stay, Attempt, ClFields
      <4>2. CASE Dial \/ DialTimeout \/ AwaitTimeout
        BY <4>1, <4>2, <2>1 DEF Dial, DialTimeout, AwaitTimeout
      <4>3. CASE Probe
        BY <4>3, <2>1 DEF Probe, Send, ClFields
      <4>4. CASE AwaitReply
        <5> DEFINE m == Head(cl.box)
                   c == [cl EXCEPT !.box = <<>>]
        <5>1. CASE Send(TakeCookie(c, m), wire)
          BY <5>1, <2>1 DEF Send, TakeCookie, ClFields
        <5>2. CASE Stay([c EXCEPT !.init = 0, !.out = cl.tun.prev,
                                  !.tun = Install(cl.tun, [i |-> m.i, s |-> m.s]), !.reg = TRUE], wire)
          <6>1. cl'.tun.cur.i = m.i
            BY <5>2, <2>1 DEF Stay, ClFields, Install, TunFields
          <6>2. m.i = cl.init /\ cl.tun.cur.i < cl.init
            BY <4>4, <1>1 DEF AwaitReply, IInv, InBox, KeysOrdered
          <6>3. QED BY <6>1, <6>2, <2>1
        <5>3. QED BY <4>4, <5>1, <5>2 DEF AwaitReply
      <4>5. CASE Register
        BY <4>5, <2>1 DEF Register, Stay, ClFields, TunFields
      <4>6. ASSUME NEW m \in wire, DialRead(m)
            PROVE  cl'.tun.cur = cl.tun.cur \/ cl'.tun.cur.i >= cl.tun.cur.i
        <5>1. CASE Stay(cl, Taken(m)) \/ Attempt(cl, Taken(m))
          BY <5>1, <4>1, <2>1
        <5>2. CASE Attempt(TakeCookie(cl, m), Taken(m))
          BY <5>2, <2>1 DEF Attempt, Send, Stay, TakeCookie, ClFields
        <5>3. CASE /\ m.i = cl.init
                   /\ Stay(Established(cl, m), Taken(m) \cup Keepalive([i |-> m.i, s |-> m.s], cl.addr))
          <6>1. cl'.tun.cur.i = m.i
            BY <5>3, <2>1 DEF Stay, ClFields, Established, NewTunnel
          <6>2. cl.tun.cur.i < cl.init
            BY <4>6, <1>1 DEF DialRead, IInv, KeysOrdered
          <6>3. QED BY <6>1, <6>2, <5>3, <2>1
        <5>4. CASE Stay([cl EXCEPT !.pc = "failed", !.init = 0], Taken(m))
          BY <5>4, <2>1 DEF Stay, ClFields
        <5>5. QED BY <4>6, <5>1, <5>2, <5>3, <5>4 DEF DialRead
      <4>7. ASSUME NEW m \in wire, DeliverResponse(m)
            PROVE  cl'.tun.cur = cl.tun.cur
        BY <4>7, <2>1 DEF DeliverResponse, Stay, ClFields
      <4>8. ASSUME NEW m \in wire, ClientReceives(m)
            PROVE  cl'.tun.cur = cl.tun.cur
        <5>1. Seen(cl.tun, m).cur = cl.tun.cur
          BY <2>1 DEF Seen, TunFields
        <5>2. cl'.tun = Seen(cl.tun, m) \/ cl'.tun = cl.tun
          BY <4>8, <2>1 DEF ClientReceives, Stay, ClFields
        <5>3. QED BY <5>1, <5>2
      <4>9. QED BY <2>3, <4>2, <4>3, <4>4, <4>5, <4>6, <4>7, <4>8 DEF ClientStep
    <3>3. QED BY <2>1, <3>1, <3>2 DEF AdvanceStep
  <2>4. CASE ServerStep
    <3>1. cl' = cl
      BY <2>4 DEF ServerStep, HandleInitiation, SendCookieReply, Answer, ServerReceives
    <3>2. ASSUME NEW m \in wire, HandleInitiation(m)
          PROVE  sv'.lastTS >= sv.lastTS
      <4>1. CASE SendCookieReply(m)
        BY <4>1, <1>1, <2>1 DEF SendCookieReply, SvFields, IInv, TypeOK
      <4>2. CASE ~Stale(m) /\ Answer(m)
        <5>1. sv'.lastTS = m.i
          BY <4>2, <2>1 DEF Answer, SvFields
        <5>2. m.i \in Nat /\ m.i >= sv.lastTS
          BY <3>2, <4>2, <1>1 DEF HandleInitiation, IInv, OnWire, Sound, Stale, TypeOK
        <5>3. QED BY <5>1, <5>2
      <4>3. CASE sv' = sv
        BY <4>3, <1>1 DEF IInv, TypeOK
      <4>4. QED BY <3>2, <4>1, <4>2, <4>3 DEF HandleInitiation
    <3>3. ASSUME NEW m \in wire, ServerReceives(m)
          PROVE  sv'.lastTS >= sv.lastTS
      BY <3>3, <1>1, <2>1 DEF ServerReceives, SvFields, IInv, TypeOK
    <3>4. IInv'
      BY <1>1, StepKeeps
    <3>5. sv.tun.cur.i = sv.lastTS /\ sv'.tun.cur.i = sv'.lastTS
      BY <1>1, <3>4 DEF IInv, ServerKeys
    <3>6. sv'.lastTS >= sv.lastTS
      BY <2>4, <3>2, <3>3 DEF ServerStep
    <3>7. QED BY <2>1, <3>1, <3>5, <3>6 DEF AdvanceStep
  <2>5. CASE Restart
    BY <2>5, <1>1 DEF Restart, AdvanceStep, IInv, TypeOK
  <2>6. CASE Surroundings /\ ~Restart
    <3>1. cl'.tun.cur = cl.tun.cur
      <4>1. CASE Rekey \/ AwaitDone \/ Close \/ JarAges
        BY <4>1, <2>1 DEF Rekey, AwaitDone, Close, JarAges, Stay, ClFields
      <4>2. CASE ClientExpires
        BY <4>2, <2>1 DEF ClientExpires, Expire, Stay, ClFields, TunFields
      <4>3. ASSUME NEW src, ClientSends(src)
            PROVE  cl'.tun.cur = cl.tun.cur
        BY <4>3, <2>1 DEF ClientSends, Stay, ClFields, TunFields
      <4>4. ASSUME NEW a, Roam(a)
            PROVE  cl'.tun.cur = cl.tun.cur
        BY <4>4, <2>1 DEF Roam, Stay, ClFields
      <4>5. CASE cl' = cl
        BY <4>5
      <4>6. QED
        BY <2>6, <4>1, <4>2, <4>3, <4>4, <4>5
           DEF Surroundings, SecretAges, ServerExpires, ServerSends, Lose, Undelivered, Stay
    <3>2. sv'.tun.cur = sv.tun.cur
      <4>1. CASE SecretAges
        BY <4>1, <2>1 DEF SecretAges, SvFields
      <4>2. CASE ServerExpires
        BY <4>2, <2>1 DEF ServerExpires, Expire, SvFields, TunFields
      <4>3. ASSUME NEW src, ServerSends(src)
            PROVE  sv'.tun.cur = sv.tun.cur
        BY <4>3, <2>1 DEF ServerSends, SvFields, TunFields
      <4>4. CASE sv' = sv
        BY <4>4
      <4>5. QED
        BY <2>6, <4>1, <4>2, <4>3, <4>4
           DEF Surroundings, Rekey, AwaitDone, Close, JarAges, ClientExpires, Roam, ClientSends, Lose, Undelivered, Stay
    <3>3. QED BY <2>2, <3>1, <3>2
  <2>7. QED BY <1>1, <2>3, <2>4, <2>5, <2>6 DEF Next
<1>2. QED BY <1>1, SessionInvariant, PTL DEF Spec, Advances
====
