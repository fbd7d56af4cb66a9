---- MODULE L2tp ----
\* L2TP over IPsec (internal/l2tp): the reliable control channel of a tunnel, the
\* call the LAC places through it, and the server's indexes of its peers. The wire
\* under it is ESP: datagrams are lost and overtake one another. The IKEv1 exchange
\* that keys ESP is module Ikev1, the PPP link of the call is module Ppp.
\*
\* A control message is [kind, ns, nr]; "ZLB" is the empty body that only
\* acknowledges. Sequence numbers have 16 bits.
EXTENDS Integers, Sequences, FiniteSets

CONSTANTS
    Peers,          \* clients, each with an initiator cookie of its own
    Inner,          \* the addresses of the pool
    MaxRetransmits, \* maxRetransmits
    MaxLost,        \* datagrams the wire loses
    MaxFires,       \* retransmission timers that expire
    MaxHellos,      \* probes of a client
    Nil

VARIABLES
    lac,    \* each client's Tunnel
    lns,    \* the server's Tunnel of each peer
    srv,    \* the server: byCookie, bySPI, byIP, the pool's leases
    wire,   \* datagrams in flight
    env     \* losses, expiries and probes still to come

vars == <<lac, lns, srv, wire, env>>


Mod == 65536

NewTunnel(role) ==
    [role |-> role, state |-> "idle", ns |-> 0, nr |-> 0, unacked |-> <<>>, timer |-> FALSE,
     retries |-> 0, peerTunnel |-> FALSE, peerSession |-> FALSE,
     hello |-> Nil, helloNs |-> 0, out |-> {}, sent |-> <<>>, got |-> <<>>, up |-> FALSE]

\* seqLess: a precedes b in the wrapping space.
SeqLess(a, b) == (a - b) % Mod >= Mod \div 2

BuildControl(t, m) == [kind |-> m.kind, ns |-> m.ns, nr |-> t.nr]
SendZLB(t) == [t EXCEPT !.out = @ \cup {[kind |-> "ZLB", ns |-> t.ns, nr |-> t.nr]}]
ArmTimer(t) == [t EXCEPT !.timer = TRUE]
QueueControl(t, kind) ==
    LET m == [kind |-> kind, ns |-> t.ns]
    IN ArmTimer([t EXCEPT !.unacked = Append(@, m), !.ns = (@ + 1) % Mod,
                          !.out = @ \cup {BuildControl(t, m)}, !.sent = Append(@, kind)])

\* The messages the peer's Nr covers leave the window, and with them the HELLO a
\* probe waits for.
PurgeAcked(t, nr) ==
    LET kept == SelectSeq(t.unacked, LAMBDA m : ~SeqLess(m.ns, nr))
        acked == {t.unacked[i].ns : i \in 1 .. Len(t.unacked)} \ {kept[i].ns : i \in 1 .. Len(kept)}
    IN [t EXCEPT !.unacked = kept,
                 !.hello = IF @ = "waiting" /\ t.helloNs \in acked THEN "answered" ELSE @,
                 !.retries = IF kept = <<>> THEN 0 ELSE @,
                 !.timer = @ /\ kept # <<>>]

FinishClose(t) ==
    IF t.state = "closed" THEN t
    ELSE [t EXCEPT !.state = "closed", !.timer = FALSE, !.hello = IF @ = "waiting" THEN "closed" ELSE @]

DispatchLAC(t, kind) ==
    CASE kind = "SCCRP" /\ t.state = "wait SCCRP" ->
           [QueueControl(QueueControl([t EXCEPT !.peerTunnel = TRUE], "SCCCN"), "ICRQ")
              EXCEPT !.state = "wait ICRP"]
      [] kind = "ICRP" /\ t.state = "wait ICRP" ->
           [QueueControl([t EXCEPT !.peerSession = TRUE], "ICCN") EXCEPT !.state = "established", !.up = TRUE]
      [] OTHER -> t

DispatchLNS(t, kind) ==
    CASE kind = "SCCRQ" /\ t.state = "idle" ->
           [QueueControl([t EXCEPT !.peerTunnel = TRUE], "SCCRP") EXCEPT !.state = "wait SCCCN"]
      [] kind = "SCCCN" /\ t.state = "wait SCCCN" -> [t EXCEPT !.state = "wait ICRQ"]
      [] kind = "ICRQ" /\ t.state = "wait ICRQ" ->
           [QueueControl([t EXCEPT !.peerSession = TRUE], "ICRP") EXCEPT !.state = "wait ICCN"]
      [] kind = "ICCN" /\ t.state = "wait ICCN" -> [t EXCEPT !.state = "established", !.up = TRUE]
      [] OTHER -> t

\* A peer that is not this program may end the call.
Dispatch(t, kind) ==
    CASE kind \in {"StopCCN", "CDN"} -> FinishClose(t)
      [] kind = "HELLO" -> t
      [] OTHER -> IF t.role = "LAC" THEN DispatchLAC(t, kind) ELSE DispatchLNS(t, kind)

\* Only the next message in sequence advances the tunnel: an old one is acknowledged
\* again, a later one waits for the peer to repeat it.
InSequence(t, m) == m.ns = t.nr
HandleControl(t, m) ==
    IF t.state = "closed" THEN t
    ELSE LET p == PurgeAcked(t, m.nr)
         IN IF m.kind = "ZLB" THEN p
            ELSE IF ~InSequence(p, m) THEN IF SeqLess(m.ns, p.nr) THEN SendZLB(p) ELSE p
            ELSE LET q == [p EXCEPT !.nr = (@ + 1) % Mod, !.got = Append(@, m.kind)]
                     d == Dispatch(q, m.kind)
                 IN IF d.ns = q.ns /\ d.state # "closed" THEN SendZLB(d) ELSE d

OnRetransmit(t) ==
    LET n == [t EXCEPT !.timer = FALSE]
    IN IF t.state = "closed" \/ t.unacked = <<>> THEN n
       ELSE IF t.retries + 1 > MaxRetransmits THEN FinishClose([n EXCEPT !.retries = @ + 1])
       ELSE [n EXCEPT !.retries = @ + 1, !.timer = TRUE,
                      !.out = @ \cup {BuildControl(t, t.unacked[i]) : i \in 1 .. Len(t.unacked)}]


\* The server.

\* removePeer. A second call, from the tunnel it closes, finds the cookie gone.
RemovePeer(s, p) ==
    IF p \notin s.byCookie THEN s
    ELSE [s EXCEPT !.byCookie = @ \ {p}, !.bySPI = @ \ {p}, !.byIP[s.innerIP[p]] = IF s.innerIP[p] = Nil THEN @ ELSE Nil,
                   !.leases = @ \ {s.innerIP[p]}]

\* SessionUp: the call has an address from here on; PPP starts.
SessionUp(s, p, a) == [s EXCEPT !.innerIP[p] = a, !.leases = @ \cup {a}, !.ppp[p] = "running"]

\* NetworkUp: the TUN routes to a peer only once PPP authenticated it.
NetworkUp(s, p) == [s EXCEPT !.ppp[p] = "up", !.byIP[s.innerIP[p]] = p]


Sent(p, to, t) == {[p |-> p, to |-> to, m |-> m] : m \in t.out}
Flushed(t) == [t EXCEPT !.out = {}]
ClientStep(p, t) == lac' = [lac EXCEPT ![p] = Flushed(t)]
ServerStep(p, t) == lns' = [lns EXCEPT ![p] = Flushed(t)]

\* Quick Mode has finished: the responder's peer has its SA and its LNS tunnel, the
\* client its LAC tunnel, which opens the control connection.
Established(p) ==
    /\ p \notin srv.byCookie /\ lns[p].state = "idle" /\ lac[p].state = "idle"
    /\ srv' = [srv EXCEPT !.byCookie = @ \cup {p}, !.bySPI = @ \cup {p}]
    /\ LET t == [QueueControl(lac[p], "SCCRQ") EXCEPT !.state = "wait SCCRP"]
       IN ClientStep(p, t) /\ wire' = wire \cup Sent(p, "LNS", t)
    /\ UNCHANGED <<lns, env>>

\* The client's read loop: ESP of a client that closed meets a closed socket.
ClientReceives(d) ==
    /\ d \in wire /\ d.to = "LAC"
    /\ LET t == HandleControl(lac[d.p], d.m)
       IN ClientStep(d.p, t) /\ wire' = (wire \ {d}) \cup Sent(d.p, "LNS", t)
    /\ UNCHANGED <<lns, srv, env>>

\* The server's read loop: ESP finds its peer by SPI. The call that comes up takes an
\* address of the pool, and an empty pool removes the peer.
ServerReceives(d) ==
    /\ d \in wire /\ d.to = "LNS"
    /\ IF d.p \notin srv.bySPI
       THEN wire' = wire \ {d} /\ UNCHANGED <<lac, lns, srv, env>>
       ELSE LET t == HandleControl(lns[d.p], d.m)
                rises == t.up /\ ~lns[d.p].up
                closed == t.state = "closed"
                free == {a \in Inner : a \notin srv.leases}
            IN /\ wire' = (wire \ {d}) \cup Sent(d.p, "LAC", t)
               /\ UNCHANGED <<lac, env>>
               /\ CASE rises /\ free # {} ->
                         ServerStep(d.p, t) /\ \E a \in free : srv' = SessionUp(srv, d.p, a)
                    [] rises /\ free = {} ->
                         ServerStep(d.p, FinishClose(t)) /\ srv' = RemovePeer(srv, d.p)
                    [] ~rises -> ServerStep(d.p, t) /\ srv' = IF closed THEN RemovePeer(srv, d.p) ELSE srv

ClientTimer(p) ==
    /\ lac[p].timer /\ env.fires > 0 /\ env' = [env EXCEPT !.fires = @ - 1]
    /\ LET t == OnRetransmit(lac[p])
       IN ClientStep(p, t) /\ wire' = wire \cup Sent(p, "LNS", t)
    /\ UNCHANGED <<lns, srv>>
ServerTimer(p) ==
    /\ lns[p].timer /\ env.fires > 0 /\ env' = [env EXCEPT !.fires = @ - 1]
    /\ LET t == OnRetransmit(lns[p])
       IN /\ ServerStep(p, t) /\ wire' = wire \cup Sent(p, "LAC", t)
          /\ srv' = IF t.state = "closed" THEN RemovePeer(srv, p) ELSE srv
    /\ UNCHANGED lac

\* PPP comes up on the server, which is after the client authenticated, or fails.
PppUp(p) ==
    /\ srv.ppp[p] = "running" /\ p \in srv.byCookie /\ lac[p].state = "established"
    /\ srv' = NetworkUp(srv, p) /\ UNCHANGED <<lac, lns, wire, env>>
PppFails(p) ==
    /\ srv.ppp[p] # "none" /\ p \in srv.byCookie
    /\ srv' = RemovePeer(srv, p) /\ ServerStep(p, FinishClose(lns[p]))
    /\ UNCHANGED <<lac, wire, env>>

\* Probe: one HELLO waits at a time.
SendHello(p) ==
    /\ lac[p].state = "established" /\ lac[p].hello # "waiting" /\ env.hellos > 0
    /\ env' = [env EXCEPT !.hellos = @ - 1]
    /\ LET t == QueueControl([lac[p] EXCEPT !.hello = "waiting", !.helloNs = lac[p].ns], "HELLO")
       IN ClientStep(p, t) /\ wire' = wire \cup Sent(p, "LNS", t)
    /\ UNCHANGED <<lns, srv>>

\* The client closes: the socket first, then the tunnel, so nothing tells the server.
ClientCloses(p) ==
    /\ lac[p].state \notin {"idle", "closed"}
    /\ ClientStep(p, FinishClose(lac[p])) /\ UNCHANGED <<lns, srv, wire, env>>

Lose(d) ==
    /\ d \in wire /\ env.lost > 0 /\ env' = [env EXCEPT !.lost = @ - 1]
    /\ wire' = wire \ {d} /\ UNCHANGED <<lac, lns, srv>>

Init ==
    /\ lac = [p \in Peers |-> NewTunnel("LAC")]
    /\ lns = [p \in Peers |-> NewTunnel("LNS")]
    /\ srv = [byCookie |-> {}, bySPI |-> {}, byIP |-> [a \in Inner \cup {Nil} |-> Nil],
              innerIP |-> [p \in Peers |-> Nil], leases |-> {}, ppp |-> [p \in Peers |-> "none"]]
    /\ wire = {}
    /\ env = [lost |-> MaxLost, fires |-> MaxFires, hellos |-> MaxHellos]

Next ==
    \/ \E d \in wire : ClientReceives(d) \/ ServerReceives(d) \/ Lose(d)
    \/ \E p \in Peers : \/ Established(p) \/ ClientTimer(p) \/ ServerTimer(p) \/ PppUp(p) \/ PppFails(p)
                        \/ SendHello(p) \/ ClientCloses(p)

Spec == Init /\ [][Next]_vars

\* Each end has dispatched the control messages of the other in the order they were
\* queued, none twice, whatever was lost, repeated or overtaken.
InOrder ==
    \A p \in Peers : /\ lns[p].got = SubSeq(lac[p].sent, 1, Len(lns[p].got))
                     /\ lac[p].got = SubSeq(lns[p].sent, 1, Len(lac[p].got))

\* A probe that reports the tunnel alive was seen by the peer: every HELLO the client
\* no longer waits for has been dispatched there.
Hellos(s) == Len(SelectSeq(s, LAMBDA k : k = "HELLO"))
HelloSeen ==
    \A p \in Peers : lac[p].hello = "answered" => Hellos(lns[p].got) = Hellos(lac[p].sent)

\* An address on lease belongs to one peer the server knows, and the TUN routes an
\* address only to the peer that holds it and whose PPP came up.
LeasesOwned ==
    /\ \A a \in srv.leases : Cardinality({p \in srv.byCookie : srv.innerIP[p] = a}) = 1
    /\ \A a \in Inner : srv.byIP[a] # Nil =>
          LET p == srv.byIP[a] IN p \in srv.byCookie /\ srv.innerIP[p] = a /\ srv.ppp[p] = "up"
    /\ srv.bySPI \subseteq srv.byCookie
====
