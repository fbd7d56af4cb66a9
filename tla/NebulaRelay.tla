---- MODULE NebulaRelay ----
(***************************************************************************)
(* Relaying in a nebula mesh (internal/nebula/relay.go, relay_host.go):    *)
(* the ends cannot reach each other, all can reach R. The entries each     *)
(* keeps, the three-party negotiation that fills them, the packets that go *)
(* through, and what is forgotten when a tunnel goes. A hop's tunnel is    *)
(* named by its epoch: a packet is opened if both ends of the hop are on   *)
(* the same one. Control messages and relayed packets pass a replay        *)
(* window, so each is delivered once at most, in any order. Every host     *)
(* draws its indices for itself: those of two hosts may be the same.       *)
(***************************************************************************)
EXTENDS Integers, FiniteSets

CONSTANTS Ends,         \* the hosts, by overlay address
          Asks,         \* <<x, y>>: x has R in Config.Relays and traffic for y
          MaxIndex,     \* bound: relay indices a host draws
          MaxInits,     \* bound: end-to-end handshakes
          MaxData,      \* bound: end-to-end packets
          MaxDrops,     \* bound: end-to-end tunnels dropped
          MaxHopLosses, \* bound: hop tunnels dropped
          MaxLosses     \* bound: datagrams lost

VARIABLES tab,          \* relayTable of every host
          hop,          \* each hop's tunnel as its end and as R holds it
          tun,          \* the ends' tunnels to each other, NoTunnel when none
          pend,         \* the ends' handshakes in flight
          net,          \* packets under way
          agreed,       \* <<x, y>>: x has accepted a relay from y, ever
          n             \* [idx, init, data, drops, hops, lost]

vars == <<tab, hop, tun, pend, net, agreed, n>>

R == 0
Pairs == {q \in Ends \X Ends : q[1] # q[2]}

\* tunnel: the handshake that made it and the host that began it.
Tunnel(i, by) == [i |-> i, by |-> by]
NoTunnel == Tunnel(0, 0)

\* relay and relayTable.
Entry(l, r, nb, p, typ, st) == [localIndex |-> l, remoteIndex |-> r, neighbour |-> nb, peerAddr |-> p,
                                typ |-> typ, state |-> st]
Lookup(T, nb, p) == {e \in T : e.neighbour = nb /\ e.peerAddr = p}
ByLocalIndex(T, l) == {e \in T : e.localIndex = l}
\* add replaces the entry for the same pair.
Add(T, e) == (T \ Lookup(T, e.neighbour, e.peerAddr)) \cup {e}
SetEstablished(T, e, r) == (T \ {e}) \cup {[e EXCEPT !.remoteIndex = r, !.state = "established"]}
\* forget drops what touches a host, in either position.
Forget(T, h) == {e \in T : e.neighbour # h /\ e.peerAddr # h}
\* Mutant of Mirror: any half toward the target, whoever it was agreed for.
MirrorOfTarget(T, e) == {m \in T : m.neighbour = e.peerAddr /\ m.typ = "forwarding"}
\* mirror: the entry of the other direction.
Mirror(T, e) == {m \in T : m.neighbour = e.peerAddr /\ m.peerAddr = e.neighbour /\ m.typ = "forwarding"}
TerminalFor(T, p) == {e \in T : e.peerAddr = p /\ e.typ = "terminal" /\ e.state = "established"}

----
(* The hops *)

\* A packet sealed by the hop's tunnel, if the sender holds one.
Up(x, m) == IF hop[x].end = 0 THEN {} ELSE {[x |-> x, to |-> R, ep |-> hop[x].end, m |-> m]}
Down(x, m) == IF hop[x].mid = 0 THEN {} ELSE {[x |-> x, to |-> x, ep |-> hop[x].mid, m |-> m]}
Opens(p) == p.ep = IF p.to = R THEN hop[p.x].mid ELSE hop[p.x].end

Inner(t, from, to, tunnel) == [t |-> t, from |-> from, to |-> to, tunnel |-> tunnel]
Control(t, i, r, from, to) == [t |-> t, i |-> i, r |-> r, from |-> from, to |-> to, in |-> Inner("", R, R, NoTunnel)]
Relayed(l, inner) == [t |-> "relay", i |-> l, r |-> 0, from |-> R, to |-> R, in |-> inner]

----
(* The ends: asking, and sending through a relay *)

\* requestRelay, from an end whose tunnel to R is up; the direct path is blocked.
RequestRelay(x, y) ==
  /\ hop[x].end # 0 /\ n.idx[x] < MaxIndex
  /\ LET l == n.idx[x] + 1
     IN  /\ tab' = [tab EXCEPT ![x] = Add(@, Entry(l, 0, R, y, "terminal", "requested"))]
         /\ net' = net \cup Up(x, Control("request", l, 0, x, y))
         /\ n' = [n EXCEPT !.idx[x] = l]
  /\ UNCHANGED <<hop, tun, pend, agreed>>

\* resendRelayRequest: nothing else retransmits it, and it is not under way.
ResendRelayRequest(x, y) ==
  /\ \E e \in Lookup(tab[x], R, y) :
       /\ e.state # "established"
       /\ ~ \E p \in net : p.m.t \in {"request", "response"} /\ p.m.from = x /\ p.m.to = y
       /\ net' = net \cup Up(x, Control("request", e.localIndex, 0, x, y))
       /\ net' # net
  /\ UNCHANGED <<tab, hop, tun, pend, agreed, n>>

\* beginHandshake's relayHandshake: ask, ask again, or send the first message through,
\* the pending one again or, after handshakeTimeout, one of a new handshake.
RelayHandshake(x, y) ==
  /\ tun[x, y] = NoTunnel /\ <<x, y>> \in Asks
  /\ \/ Lookup(tab[x], R, y) = {} /\ RequestRelay(x, y)
     \/ ResendRelayRequest(x, y)
     \/ \E e \in Lookup(tab[x], R, y), i \in {pend[x, y], n.init + 1} \ {0} :
          /\ e.state = "established" /\ hop[x].end # 0 /\ i <= MaxInits
          /\ ~ \E p \in net : p.m.t = "relay" /\ {p.m.in.from, p.m.in.to} = {x, y}
          /\ n' = [n EXCEPT !.init = IF i > @ THEN i ELSE @]
          /\ pend' = [pend EXCEPT ![x, y] = i]
          /\ net' = net \cup Up(x, Relayed(e.remoteIndex, Inner("first", x, y, Tunnel(i, x))))
          /\ UNCHANGED <<tab, hop, tun, agreed>>

\* sendPacket with the direct path failing: through a terminal relay, or ask for one.
SendPacket(x, y) ==
  /\ tun[x, y] # NoTunnel /\ n.data < MaxData
  /\ \/ \E e \in TerminalFor(tab[x], y) :
          /\ hop[x].end # 0
          /\ net' = net \cup Up(x, Relayed(e.remoteIndex, Inner("data", x, y, tun[x, y])))
          /\ n' = [n EXCEPT !.data = @ + 1]
          /\ UNCHANGED <<tab, hop, tun, pend, agreed>>
     \/ /\ TerminalFor(tab[x], y) = {} /\ <<x, y>> \in Asks /\ Lookup(tab[x], R, y) = {}
        /\ RequestRelay(x, y)

----
(* R: negotiating and forwarding *)

\* handleRelayRequest at R: the half toward the requester unless there is one, the half
\* toward the target, and the request passed on.
HalfToRequester(p) ==
  LET m == p.m
  IN  IF Lookup(tab[R], m.from, m.to) # {} THEN <<tab[R], 0>>
      ELSE <<Add(tab[R], Entry(n.idx[R] + 1, m.i, m.from, m.to, "forwarding", "peerRequested")), 1>>
\* Mutant of Propagate: R answers the requester without asking the target.
AgreeForTarget(p) ==
  /\ p.m.t = "request" /\ p.to = R /\ p.m.from = p.x /\ n.idx[R] + 2 <= 2 * MaxIndex
  /\ LET m == p.m
         i == n.idx[R]
     IN  /\ tab' = [tab EXCEPT ![R] = Add(Add(@, Entry(i + 1, m.i, m.from, m.to, "forwarding", "established")),
                                          Entry(i + 2, 0, m.to, m.from, "forwarding", "established"))]
         /\ n' = [n EXCEPT !.idx[R] = @ + 2]
         /\ net' = (net \ {p}) \cup Down(m.from, Control("response", m.i, i + 1, m.from, m.to))
  /\ UNCHANGED <<hop, tun, pend, agreed>>
Propagate(p) ==
  /\ p.m.t = "request" /\ p.to = R /\ p.m.from = p.x /\ n.idx[R] + 2 <= 2 * MaxIndex
  /\ LET m == p.m
         half == HalfToRequester(p)
         have == Lookup(half[1], m.to, m.from)
         fresh == Entry(n.idx[R] + half[2] + 1, 0, m.to, m.from, "forwarding", "requested")
         toTarget == IF have # {} THEN CHOOSE e \in have : TRUE ELSE fresh
     IN  IF hop[m.to].mid = 0
         THEN /\ tab' = [tab EXCEPT ![R] = half[1]]
              /\ n' = [n EXCEPT !.idx[R] = @ + half[2]]
              /\ net' = net \ {p}
         ELSE /\ tab' = [tab EXCEPT ![R] = Add(half[1], toTarget)]
              /\ n' = [n EXCEPT !.idx[R] = @ + half[2] + (IF have = {} THEN 1 ELSE 0)]
              /\ net' = (net \ {p}) \cup Down(m.to, Control("request", toTarget.localIndex, 0, m.from, m.to))
  /\ UNCHANGED <<hop, tun, pend, agreed>>

\* handleRelayResponse at R: the target has agreed, so tell the end that asked.
Ready(p) ==
  /\ p.m.t = "response" /\ p.to = R
  /\ LET m == p.m
         toTarget == {e \in Lookup(tab[R], p.x, m.from) : e.typ = "forwarding"}
         T == UNION {SetEstablished(tab[R], e, m.r) : e \in toTarget}
         back == Lookup(T, m.from, m.to)
         done == UNION {SetEstablished(T, e, e.remoteIndex) : e \in back}
     IN  IF toTarget = {} THEN UNCHANGED tab /\ net' = net \ {p}
         ELSE IF back = {} THEN tab' = [tab EXCEPT ![R] = T] /\ net' = net \ {p}
         ELSE /\ tab' = [tab EXCEPT ![R] = done]
              /\ net' = (net \ {p}) \cup UNION {Down(m.from, Control("response", e.remoteIndex, e.localIndex, m.from, m.to)) : e \in back}
  /\ UNCHANGED <<hop, tun, pend, agreed, n>>

\* handleRelayMessage on a forwarding entry: the neighbour's tunnel opened it, the mirror
\* carries it on if the target agreed.
Forward(p) ==
  /\ p.m.t = "relay" /\ p.to = R
  /\ LET out == {m \in UNION {Mirror(tab[R], e) : e \in {d \in ByLocalIndex(tab[R], p.m.i) : d.neighbour = p.x}} :
                   m.state = "established"}
     IN  net' = (net \ {p}) \cup UNION {Down(e.neighbour, Relayed(e.remoteIndex, p.m.in)) : e \in out}
  /\ UNCHANGED <<tab, hop, tun, pend, agreed, n>>

----
(* The ends: answering *)

\* acceptRelayToMe.
AcceptRelayToMe(p) ==
  /\ p.m.t = "request" /\ p.to # R /\ p.m.to = p.x /\ n.idx[p.x] < MaxIndex
  /\ LET x == p.x
         m == p.m
         have == Lookup(tab[x], R, m.from)
         e == IF have = {} THEN Entry(n.idx[x] + 1, m.i, R, m.from, "terminal", "established")
              ELSE [CHOOSE d \in have : TRUE EXCEPT !.remoteIndex = m.i, !.state = "established"]
     IN  /\ tab' = [tab EXCEPT ![x] = Add(@, e)]
         /\ n' = [n EXCEPT !.idx[x] = @ + (IF have = {} THEN 1 ELSE 0)]
         /\ net' = (net \ {p}) \cup Up(x, Control("response", e.remoteIndex, e.localIndex, m.from, m.to))
         /\ agreed' = agreed \cup {<<x, m.from>>}
  /\ UNCHANGED <<hop, tun, pend>>

\* handleRelayResponse at the end that asked: the index must be the one it asked with.
Established(p) ==
  /\ p.m.t = "response" /\ p.to # R /\ p.m.from = p.x
  /\ LET es == {e \in Lookup(tab[p.x], R, p.m.to) : e.localIndex = p.m.i}
     IN  tab' = IF es = {} THEN tab ELSE [tab EXCEPT ![p.x] = UNION {SetEstablished(@, e, p.m.r) : e \in es}]
  /\ net' = net \ {p}
  /\ UNCHANGED <<hop, tun, pend, agreed, n>>

\* install and resolveCollision: of two tunnels the one the lower address began, of two
\* that the same host began the newer.
Install(old, new) == IF old = NoTunnel \/ old.by >= new.by THEN new ELSE old

\* handleRelayMessage on a terminal entry: the inner packet as though it came directly.
\* A first message is answered through a relay that is established, or else plainly to
\* R's socket, where it is nothing; it is installed unless the relay has no tunnel to
\* take the answer. A second message completes the handshake that awaits it.
Unwrap(p) ==
  /\ p.m.t = "relay" /\ p.to # R
  /\ LET x == p.x
         in == p.m.in
         q == <<x, in.from>>
         back == TerminalFor(tab[x], in.from)
         installed == [tun EXCEPT ![q] = Install(@, in.tunnel)]
     IN  IF {e \in ByLocalIndex(tab[x], p.m.i) : e.typ = "terminal"} = {} \/ in.t = "data"
         THEN net' = net \ {p} /\ UNCHANGED <<tun, pend>>
         ELSE IF in.t = "first"
         THEN /\ net' = (net \ {p}) \cup UNION {Up(x, Relayed(e.remoteIndex, Inner("second", x, in.from, in.tunnel))) : e \in back}
              /\ tun' = IF back # {} /\ hop[x].end = 0 THEN tun ELSE installed
              /\ UNCHANGED pend
         ELSE /\ net' = net \ {p}
              /\ IF pend[q] # in.tunnel.i THEN UNCHANGED <<tun, pend>>
                 ELSE tun' = installed /\ pend' = [pend EXCEPT ![q] = 0]
  /\ UNCHANGED <<tab, hop, agreed, n>>

\* handleControl and handleRelayMessage; what the hop's tunnel does not open is dropped.
Receive(p) ==
  /\ p \in net
  /\ IF Opens(p) THEN Propagate(p) \/ Ready(p) \/ Forward(p) \/ AcceptRelayToMe(p) \/ Established(p) \/ Unwrap(p)
     ELSE net' = net \ {p} /\ UNCHANGED <<tab, hop, tun, pend, agreed, n>>

----
(* Tunnels come and go *)

\* dropTunnel and expireTunnels, for the tunnel to the other end: a quiet one is probed on
\* the direct path only, so it is dropped though the relay would carry the probe.
DropTunnel(x, y) ==
  /\ tun[x, y] # NoTunnel /\ n.drops < MaxDrops
  /\ tun' = [tun EXCEPT ![x, y] = NoTunnel]
  /\ tab' = [tab EXCEPT ![x] = Forget(@, y)]
  /\ n' = [n EXCEPT !.drops = @ + 1]
  /\ UNCHANGED <<hop, pend, net, agreed>>

\* The same for a hop's tunnel, at its end or at R, and the handshake that replaces it.
DropHop(x, side) ==
  /\ n.hops < MaxHopLosses /\ hop[x][side] # 0
  /\ hop' = [hop EXCEPT ![x][side] = 0]
  /\ tab' = IF side = "end" THEN [tab EXCEPT ![x] = Forget(@, R)] ELSE [tab EXCEPT ![R] = Forget(@, x)]
  /\ n' = [n EXCEPT !.hops = @ + 1]
  /\ UNCHANGED <<tun, pend, net, agreed>>
Rehandshake(x) ==
  /\ 0 \in {hop[x].end, hop[x].mid}
  /\ hop' = [hop EXCEPT ![x] = [end |-> n.hops + 1, mid |-> n.hops + 1]]
  /\ UNCHANGED <<tab, tun, pend, net, agreed, n>>

Lose(p) ==
  /\ p \in net /\ n.lost < MaxLosses
  /\ net' = net \ {p} /\ n' = [n EXCEPT !.lost = @ + 1]
  /\ UNCHANGED <<tab, hop, tun, pend, agreed>>

Init ==
  /\ tab = [h \in Ends \cup {R} |-> {}]
  /\ hop = [x \in Ends |-> [end |-> 1, mid |-> 1]]
  /\ tun = [q \in Pairs |-> NoTunnel] /\ pend = [q \in Pairs |-> 0]
  /\ net = {} /\ agreed = {}
  /\ n = [idx |-> [h \in Ends \cup {R} |-> 0], init |-> 0, data |-> 0, drops |-> 0, hops |-> 0, lost |-> 0]

Next ==
  \/ \E q \in Pairs : RelayHandshake(q[1], q[2]) \/ SendPacket(q[1], q[2]) \/ DropTunnel(q[1], q[2])
  \/ \E x \in Ends : Rehandshake(x)
  \/ \E x \in Ends, side \in {"end", "mid"} : DropHop(x, side)
  \/ \E p \in net : Receive(p) \/ Lose(p)

Spec == Init /\ [][Next]_vars

----
(* Properties *)

\* relay.go's promise: a packet comes out of a relay at the host it was sent to and
\* nowhere else, taken for one of the host that sent it, whatever was renegotiated or
\* forgotten meanwhile; and it leaves R only for a host that asked for that relay or has
\* agreed to it, "a host that never agreed to be relayed to never receives a packet
\* through one" (relay_host.go).
RelayedRight ==
  \A p \in net : p.m.t = "relay" /\ p.to # R =>
    /\ p.x = p.m.in.to
    /\ <<p.x, p.m.in.from>> \in agreed \cup Asks
    /\ \A e \in ByLocalIndex(tab[p.x], p.m.i) : e.peerAddr = p.m.in.from

\* What add's comment says of a peer that reconnects and renegotiates its relay: R does
\* not keep the stale entry. When R has handled a request whose index its sender still
\* holds, R's half toward the sender carries that index, or none before the sender's
\* answer brings one, never an index the sender has forgotten.
RequestReplaces ==
  \A p \in net \ net' :
    p.to = R /\ p.m.t = "request" /\ Opens(p) /\ n'.lost = n.lost /\ ByLocalIndex(tab[p.x], p.m.i) # {} =>
      \A e \in Lookup(tab'[R], p.x, p.m.to) : e.remoteIndex \in {0, p.m.i}

\* Linked: two ends share a tunnel and a relay in both directions carries it.
Carries(x, y) == \E e \in TerminalFor(tab[x], y) : \E d \in ByLocalIndex(tab[R], e.remoteIndex) :
                   \E m \in Mirror(tab[R], d) : m.state = "established" /\ ByLocalIndex(tab[y], m.remoteIndex) # {}
Linked == \A q \in Asks : /\ tun[q] # NoTunnel /\ tun[q] = tun[q[2], q[1]]
                          /\ Carries(q[1], q[2]) /\ Carries(q[2], q[1])
====
