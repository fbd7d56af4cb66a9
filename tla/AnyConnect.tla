---- MODULE AnyConnect ----
\* AnyConnect (internal/anyconnect): the credential exchange and the CONNECT over one
\* TLS connection, the server's table of clients, the optional DTLS channel either end
\* falls back from, and dead-peer detection on whichever carrier moves the data.
\*
\* The TLS connection is two reliable queues, the DTLS channel a set of datagrams. A
\* document is its type, a cookie the connection it was issued on, a DPD payload a nonce.
EXTENDS Integers, Sequences, FiniteSets

CONSTANTS
    Conns,          \* TLS connections, each one client's
    Inner,          \* the addresses of the pool
    Scenarios,      \* see Init
    MaxAuthRounds,  \* maxAuthRounds
    MaxFailures,    \* LivenessConfig.MaxFailures
    Nonces,         \* payloads of DPD requests
    Nil

VARIABLES
    cl,     \* the client of each connection
    sv,     \* the server's side of each connection: its goroutine and serverClient
    srv,    \* the server: cookies issued, clients by address, leases, App-IDs expected
    net,    \* the carriers of each connection: TLS in both directions, datagrams
    env     \* what the scenario still allows

vars == <<cl, sv, srv, net, env>>

\* AddrPool.Allocate: the lowest address of the pool not in use.
Allocate(used) == CHOOSE a \in Inner \ used : \A b \in Inner \ used : a <= b

NewClient == [phase |-> "idle", round |-> 0, addr |-> Nil, offered |-> FALSE, dtls |-> "none",
              probe |-> Nil, done |-> FALSE, fails |-> 0, err |-> Nil]
NewServerClient == [phase |-> "idle", round |-> 0, cookie |-> FALSE, ip |-> Nil, appID |-> FALSE,
                    dtls |-> "none", echoed |-> {}]

Msg(t) == [t |-> t]
Dpd(t, n) == [t |-> t, n |-> n]
Up(k, m) == net' = [net EXCEPT ![k].up = Append(@, m)]
\* What was at the head of one queue is read, and answered on the other.
Answer(k, m) == net' = [net EXCEPT ![k].up = Tail(@), ![k].down = Append(@, m)]
Reply(k, m) == net' = [net EXCEPT ![k].down = Tail(@), ![k].up = Append(@, m)]
Read(k) == net' = [net EXCEPT ![k].down = Tail(@)]


\* The client.

InitMessage == Msg("init")
AnswerForm(k) == [t |-> "auth-reply", good |-> k \in env.good]
BuildConnectRequest(k, cookie) == [t |-> "CONNECT", cookie |-> cookie, dtls |-> k \in env.dtls]

\* fail: the first error is kept, both carriers are closed.
Fail(c, err) == IF c.phase = "closed" THEN c
                ELSE [c EXCEPT !.phase = "closed", !.err = err, !.dtls = IF @ = "none" THEN @ ELSE "closed"]
Failed(k, err) == cl' = [cl EXCEPT ![k] = Fail(@, err)]

Authenticate(k) ==
    /\ cl[k].phase = "idle" /\ Up(k, InitMessage)
    /\ cl' = [cl EXCEPT ![k].phase = "auth"] /\ sv' = [sv EXCEPT ![k].phase = "auth"]
    /\ UNCHANGED <<srv, env>>

\* One round of the loop: a form is answered, an error or too many forms end it.
AuthReply(k) ==
    /\ cl[k].phase = "auth" /\ net[k].down # <<>>
    /\ LET m == Head(net[k].down)
           r == cl[k].round + 1
       IN CASE m.t = "complete" ->
                 /\ cl' = [cl EXCEPT ![k].phase = "connect"]
                 /\ Reply(k, BuildConnectRequest(k, m.cookie))
            [] m.t = "form" /\ r < MaxAuthRounds ->
                 /\ cl' = [cl EXCEPT ![k].round = r]
                 /\ Reply(k, AnswerForm(k))
            [] OTHER -> Failed(k, "auth") /\ Read(k)
    /\ UNCHANGED <<sv, srv, env>>

\* ParseTunnelConfig and ParseDTLSParams: no address, no tunnel; an unusable offer
\* costs only the datagram channel.
ParseTunnelConfig(m) == m.addr
ParseDTLSParams(m) == m.dtls
Connect(k) ==
    /\ cl[k].phase = "connect" /\ net[k].down # <<>>
    /\ LET m == Head(net[k].down)
       IN IF m.t # "OK" THEN Failed(k, "refused")
          ELSE cl' = [cl EXCEPT ![k].phase = "dtls", ![k].addr = ParseTunnelConfig(m),
                                ![k].offered = ParseDTLSParams(m)]
    /\ Read(k) /\ UNCHANGED <<sv, srv, env>>

\* StartDTLS: nothing is dialled that was not offered; Run follows it, whatever it did.
StartDTLS(k) ==
    /\ cl[k].phase = "dtls" /\ cl[k].dtls = "none"
    /\ IF cl[k].offered
       THEN /\ cl' = [cl EXCEPT ![k].dtls = "shaking"]
            /\ net' = [net EXCEPT ![k].dgrams = @ \cup {[to |-> "server", t |-> "hello"]}]
       ELSE cl' = [cl EXCEPT ![k].phase = "up"] /\ UNCHANGED net
    /\ UNCHANGED <<sv, srv, env>>
DialDTLS(k) ==
    /\ cl[k].phase = "dtls" /\ cl[k].dtls = "shaking"
    /\ \/ sv[k].dtls = "up" /\ cl' = [cl EXCEPT ![k].dtls = "up", ![k].phase = "up"]
       \/ cl' = [cl EXCEPT ![k].dtls = "closed", ![k].phase = "up"]
    /\ UNCHANGED <<sv, srv, net, env>>

\* Mutant of MatchDPD: any answer completes the probe that waits.
AnyDPD(c, n) == [c EXCEPT !.done = TRUE]
\* An answer completes the probe whose number it repeats.
MatchDPD(c, n) == IF c.probe # n THEN c ELSE [c EXCEPT !.done = TRUE]

\* readLoop of the TLS connection.
ReadLoop(k) ==
    /\ cl[k].phase = "up" /\ net[k].down # <<>>
    /\ LET m == Head(net[k].down)
       IN CASE m.t = "data" -> Read(k) /\ UNCHANGED cl
            [] m.t = "dpd-req" -> Reply(k, Dpd("dpd-resp", m.n)) /\ UNCHANGED cl
            [] m.t = "dpd-resp" -> cl' = [cl EXCEPT ![k] = MatchDPD(@, m.n)] /\ Read(k)
            [] OTHER -> Failed(k, "closed") /\ Read(k)
    /\ UNCHANGED <<sv, srv, env>>
\* The connection ended under the read.
ReadFails(k) ==
    /\ cl[k].phase \notin {"idle", "dtls", "closed"} /\ sv[k].phase = "gone" /\ net[k].down = <<>>
    /\ Failed(k, "read") /\ UNCHANGED <<sv, srv, net, env>>

\* dtlsReadLoop: a datagram, or the channel is lost and the tunnel is on TLS again.
Demoted(c) == [c EXCEPT !.dtls = "closed"]
DtlsReadLoop(k, d) ==
    /\ d \in net[k].dgrams /\ d.to = "client"
    /\ IF cl[k].dtls = "up" /\ d.t = "dpd-resp" THEN cl' = [cl EXCEPT ![k] = MatchDPD(@, d.n)]
       ELSE IF cl[k].dtls = "up" /\ d.t = "close" THEN cl' = [cl EXCEPT ![k] = Demoted(@)]
       ELSE UNCHANGED cl
    /\ net' = [net EXCEPT ![k].dgrams = @ \ {d}]
    /\ UNCHANGED <<sv, srv, env>>

\* tunLoop of the client: the datagram channel while it is up; a send that fails takes
\* the channel down and the packet goes over TLS.
ClientTunLoop(k) ==
    /\ cl[k].phase = "up" /\ env.data > 0 /\ env' = [env EXCEPT !.data = @ - 1]
    /\ \/ cl[k].dtls = "up" /\ UNCHANGED <<cl, net>>
       \/ /\ cl' = [cl EXCEPT ![k] = IF @.dtls = "up" THEN Demoted(@) ELSE @]
          /\ Up(k, [t |-> "data", from |-> cl[k].addr])
    /\ UNCHANGED <<sv, srv>>

\* Probe: one at a time, on the carrier that moves data; the monitor counts what fails
\* in a row and closes the session.
Carrier(c) == IF c.dtls = "up" THEN "dtls" ELSE "tls"
InFlight(k) ==
    {d.n : d \in {x \in net[k].dgrams : x.t \in {"dpd-req", "dpd-resp"}}}
      \cup {q.n : q \in {x \in {net[k].up[i] : i \in 1 .. Len(net[k].up)}
                               \cup {net[k].down[i] : i \in 1 .. Len(net[k].down)} : x.t \in {"dpd-req", "dpd-resp"}}}
Probe(k) ==
    /\ cl[k].phase = "up" /\ cl[k].probe = Nil /\ k \in env.probing
    /\ \E n \in Nonces \ InFlight(k) :
          /\ cl' = [cl EXCEPT ![k].probe = n, ![k].done = FALSE]
          /\ sv' = [sv EXCEPT ![k].echoed = @ \ {n}]
          /\ IF Carrier(cl[k]) = "dtls"
             THEN net' = IF k \in env.black THEN net
                         ELSE [net EXCEPT ![k].dgrams = @ \cup {[to |-> "server", t |-> "dpd-req", n |-> n]}]
             ELSE Up(k, Dpd("dpd-req", n))
    /\ UNCHANGED <<srv, env>>
ProbeAnswered(k) ==
    /\ cl[k].phase = "up" /\ cl[k].probe # Nil /\ cl[k].done
    /\ cl' = [cl EXCEPT ![k].probe = Nil, ![k].done = FALSE, ![k].fails = 0]
    /\ UNCHANGED <<sv, srv, net, env>>
\* The time runs out, with the answer there or not: select takes either.
ProbeTimeout(k) ==
    /\ cl[k].phase = "up" /\ cl[k].probe # Nil
    /\ LET c == [cl[k] EXCEPT !.probe = Nil, !.done = FALSE, !.fails = @ + 1]
       IN IF c.fails >= MaxFailures
          THEN /\ cl' = [cl EXCEPT ![k] = Fail(c, "liveness")]
               /\ net' = [net EXCEPT ![k].up = Append(@, Msg("disconnect")),
                                     ![k].dgrams = IF c.dtls = "up" /\ k \notin env.black
                                                   THEN @ \cup {[to |-> "server", t |-> "close"]} ELSE @]
          ELSE cl' = [cl EXCEPT ![k] = c] /\ UNCHANGED net
    /\ UNCHANGED <<sv, srv, env>>

\* Close: a DISCONNECT first, so the server need not wait for the connection to end.
Close(k) ==
    /\ cl[k].phase = "up" /\ k \in env.leaving
    /\ Failed(k, "user")
    /\ net' = [net EXCEPT ![k].up = Append(@, Msg("disconnect")),
                          ![k].dgrams = IF cl[k].dtls = "up" /\ k \notin env.black
                                        THEN @ \cup {[to |-> "server", t |-> "close"]} ELSE @]
    /\ UNCHANGED <<sv, srv, env>>


\* The server.

CredentialForm == Msg("form")
FailureMessage == Msg("error")
CompleteMessage(k) == [t |-> "complete", cookie |-> k]
Gone(k) == [sv EXCEPT ![k].phase = "gone"]

\* serveAuth: a form for an init, a cookie for the right password, an error and the end
\* of the connection for a wrong one.
ServeAuth(k) ==
    /\ k \notin env.foreign /\ sv[k].phase = "auth" /\ net[k].up # <<>>
    /\ LET m == Head(net[k].up)
           r == sv[k].round + 1
       IN CASE m.t = "init" /\ r < MaxAuthRounds ->
                 sv' = [sv EXCEPT ![k].round = r] /\ Answer(k, CredentialForm) /\ UNCHANGED srv
            [] m.t = "auth-reply" /\ m.good ->
                 /\ sv' = [sv EXCEPT ![k].phase = "connect", ![k].cookie = TRUE]
                 /\ srv' = [srv EXCEPT !.sessions = @ \cup {k}]
                 /\ Answer(k, CompleteMessage(k))
            [] OTHER -> sv' = Gone(k) /\ Answer(k, FailureMessage) /\ UNCHANGED srv
    /\ UNCHANGED <<cl, env>>

\* serveConnect: the cookie must be the one issued on this connection; the address is
\* leased, the channel offered, the reply written, and only then the client is routable.
SessionUser(k, m) == m.cookie = k /\ k \in srv.sessions
OfferDTLS(s, k) == [s EXCEPT !.pending = @ \cup {k}]
AddClient(s, k, a) == [s EXCEPT !.clients[a] = k]
ServeConnect(k) ==
    /\ sv[k].phase = "connect" /\ net[k].up # <<>>
    /\ LET m == Head(net[k].up)
           free == Inner \ srv.leases # {}
           a == Allocate(srv.leases)
           offers == m.dtls /\ env.udp
       IN IF m.t # "CONNECT" \/ ~SessionUser(k, m) \/ ~free
          THEN sv' = Gone(k) /\ Answer(k, Msg("refused")) /\ UNCHANGED srv
          ELSE \/ /\ sv' = [sv EXCEPT ![k].phase = "up", ![k].ip = a, ![k].appID = offers]
                  /\ srv' = AddClient([IF offers THEN OfferDTLS(srv, k) ELSE srv EXCEPT !.leases = @ \cup {a}], k, a)
                  /\ Answer(k, [t |-> "OK", addr |-> a, dtls |-> offers])
               \* the reply cannot be written
               \/ /\ cl[k].phase = "closed" /\ sv' = Gone(k)
                  /\ srv' = IF offers THEN OfferDTLS(srv, k) ELSE srv
                  /\ UNCHANGED net
    /\ UNCHANGED <<cl, env>>

\* removeClient, on every way out of the read loop.
RemoveClient(s, k) ==
    [s EXCEPT !.clients[sv[k].ip] = Nil, !.pending = IF sv[k].appID THEN @ \ {k} ELSE @,
              !.leases = @ \ {sv[k].ip}]
Removed(k) == [sv EXCEPT ![k].phase = "gone", ![k].dtls = IF @ = "up" THEN "closed" ELSE @]

ServerReadLoop(k) ==
    /\ sv[k].phase = "up" /\ net[k].up # <<>>
    /\ LET m == Head(net[k].up)
       IN CASE m.t = "dpd-req" ->
                 /\ sv' = [sv EXCEPT ![k].echoed = @ \cup {m.n}] /\ Answer(k, Dpd("dpd-resp", m.n))
                 /\ UNCHANGED srv
            [] m.t = "disconnect" ->
                 /\ srv' = RemoveClient(srv, k) /\ sv' = Removed(k)
                 /\ net' = [net EXCEPT ![k].up = Tail(@)]
            [] OTHER -> net' = [net EXCEPT ![k].up = Tail(@)] /\ UNCHANGED <<sv, srv>>
    /\ UNCHANGED <<cl, env>>
\* The connection ended, or broke, under any read of the server's goroutine.
ServerReadFails(k) ==
    /\ sv[k].phase \notin {"idle", "gone"}
    /\ \/ cl[k].phase = "closed" /\ net[k].up = <<>> /\ UNCHANGED env
       \/ k \in srv.cut /\ UNCHANGED env
       \/ env.breaks > 0 /\ env' = [env EXCEPT !.breaks = @ - 1]
    /\ IF sv[k].phase = "up" THEN srv' = RemoveClient(srv, k) /\ sv' = Removed(k)
       ELSE sv' = Gone(k) /\ UNCHANGED srv
    /\ net' = [net EXCEPT ![k].up = <<>>]
    /\ UNCHANGED cl

\* admit: a hello from an address nobody knows starts a handshake only for an App-ID
\* this server handed out. The handshake runs in a goroutine of its own.
Admit(k) ==
    /\ [to |-> "server", t |-> "hello"] \in net[k].dgrams
    /\ net' = [net EXCEPT ![k].dgrams = @ \ {[to |-> "server", t |-> "hello"]}]
    /\ sv' = IF k \in srv.pending /\ ~srv.closed THEN [sv EXCEPT ![k].dtls = "shaking"] ELSE sv
    /\ UNCHANGED <<cl, srv, env>>
\* handshake: the channel is attached to the client it was expected for, or dropped.
AttachDTLS(k) == [sv EXCEPT ![k].dtls = "up"]
Handshake(k) ==
    /\ sv[k].dtls = "shaking"
    /\ \/ cl[k].dtls = "shaking" /\ ~srv.closed /\ sv' = AttachDTLS(k)
       \/ sv' = [sv EXCEPT ![k].dtls = "closed"]
    /\ UNCHANGED <<cl, srv, net, env>>
ServerDtlsReadLoop(k, d) ==
    /\ d \in net[k].dgrams /\ d.to = "server" /\ d.t # "hello"
    /\ net' = [net EXCEPT ![k].dgrams =
                 (@ \ {d}) \cup IF sv[k].dtls = "up" /\ d.t = "dpd-req"
                                THEN {[to |-> "client", t |-> "dpd-resp", n |-> d.n]} ELSE {}]
    /\ sv' = CASE sv[k].dtls = "up" /\ d.t = "dpd-req" -> [sv EXCEPT ![k].echoed = @ \cup {d.n}]
               [] sv[k].dtls = "up" /\ d.t = "close" -> [sv EXCEPT ![k].dtls = "closed"]
               [] OTHER -> sv
    /\ UNCHANGED <<cl, srv, env>>

\* A server that is not this program answers every reply with its form again.
ForeignForm(k) ==
    /\ k \in env.foreign /\ sv[k].phase = "auth" /\ net[k].up # <<>>
    /\ Answer(k, CredentialForm) /\ UNCHANGED <<cl, sv, srv, env>>

\* tunLoop: a packet leaves through the client that owns its destination.
ClientByIP(a) == srv.clients[a]
TunLoop(a) ==
    /\ ClientByIP(a) # Nil /\ env.data > 0 /\ env' = [env EXCEPT !.data = @ - 1]
    /\ LET k == ClientByIP(a)
       IN \/ sv[k].dtls = "up" /\ UNCHANGED <<sv, net>>
          \/ /\ sv' = [sv EXCEPT ![k].dtls = IF @ = "up" THEN "closed" ELSE @]
             /\ net' = [net EXCEPT ![k].down = Append(@, [t |-> "data", to |-> a])]
    /\ UNCHANGED <<cl, srv>>

\* Close: the datagram socket, then every client in the table. Each of their goroutines
\* then finds its connection closed and removes itself.
ServerClose ==
    /\ ~srv.closed /\ env.closing
    /\ srv' = [srv EXCEPT !.closed = TRUE, !.cut = {srv.clients[a] : a \in Inner} \ {Nil}]
    /\ sv' = [k \in Conns |-> [sv[k] EXCEPT !.dtls = IF @ = "none" THEN @ ELSE "closed"]]
    /\ UNCHANGED <<cl, net, env>>

\* The path: datagrams are lost, or the whole channel falls silent.
Lose(k, d) ==
    /\ d \in net[k].dgrams /\ env.lost > 0 /\ env' = [env EXCEPT !.lost = @ - 1]
    /\ net' = [net EXCEPT ![k].dgrams = @ \ {d}] /\ UNCHANGED <<cl, sv, srv>>
Silence(k) ==
    /\ k \in env.fragile \ env.black /\ cl[k].dtls = "up"
    /\ env' = [env EXCEPT !.black = @ \cup {k}]
    /\ net' = [net EXCEPT ![k].dgrams = {}] /\ UNCHANGED <<cl, sv, srv>>

Init ==
    /\ env \in Scenarios
    /\ cl = [k \in Conns |-> NewClient] /\ sv = [k \in Conns |-> NewServerClient]
    /\ srv = [sessions |-> {}, clients |-> [a \in Inner |-> Nil], leases |-> {}, pending |-> {}, closed |-> FALSE, cut |-> {}]
    /\ net = [k \in Conns |-> [up |-> <<>>, down |-> <<>>, dgrams |-> {}]]

Next ==
    \/ \E k \in Conns :
          \/ Authenticate(k) \/ AuthReply(k) \/ Connect(k) \/ StartDTLS(k) \/ DialDTLS(k)
          \/ ReadLoop(k) \/ ReadFails(k) \/ Probe(k) \/ ProbeAnswered(k) \/ ProbeTimeout(k) \/ Close(k) \/ ClientTunLoop(k)
          \/ ServeAuth(k) \/ ServeConnect(k) \/ ServerReadLoop(k) \/ ServerReadFails(k)
          \/ Admit(k) \/ Handshake(k) \/ Silence(k) \/ ForeignForm(k)
          \/ \E d \in net[k].dgrams : DtlsReadLoop(k, d) \/ ServerDtlsReadLoop(k, d) \/ Lose(k, d)
    \/ \E a \in Inner : TunLoop(a)
    \/ ServerClose

Spec == Init /\ [][Next]_vars

\* An address on lease belongs to one client whose goroutine still reads, and the TUN
\* is routed to exactly the clients that hold a lease.
LeasesOwned ==
    /\ srv.leases = {a \in Inner : srv.clients[a] # Nil}
    /\ \A a \in srv.leases : LET k == srv.clients[a] IN sv[k].phase = "up" /\ sv[k].ip = a

\* Both ends agree on the address, and a client that has one was let in with the right
\* password: a packet the TUN sends to an address reaches the client that configured it.
Agreed ==
    \A k \in Conns :
       /\ cl[k].addr # Nil => k \in env.good /\ sv[k].ip = cl[k].addr
       /\ \A i \in 1 .. Len(net[k].down) : net[k].down[i].t = "data" => net[k].down[i].to = sv[k].ip
       /\ \A i \in 1 .. Len(net[k].up) : net[k].up[i].t = "data" => net[k].up[i].from = sv[k].ip

\* A probe that reports the peer alive was echoed by the server after it was sent: a
\* late answer to an earlier probe proves nothing.
ProbeHonest == \A k \in Conns : cl[k].done => cl[k].probe \in sv[k].echoed

\* Once a client's connection has ended, no DTLS channel of its reads for it any more.
ChannelOwned == \A k \in Conns : sv[k].phase = "gone" => sv[k].dtls # "up"
====
