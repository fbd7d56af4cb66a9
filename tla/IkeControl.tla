---- MODULE IkeControl ----
\* An established IKEv2 tunnel: the client's exchanges after the handshake (dead-peer
\* detection, rekeying of the Child SA and of the IKE SA, MOBIKE) and the responder's
\* handlers, over a network that delays, loses and repeats datagrams.
EXTENDS Integers, Sequences, FiniteSets
CONSTANTS Want,          \* the families the client asks an address of
          MaxFresh,      \* bound: SPIs and nonces drawn
          MaxExchanges,  \* bound: exchanges begun
          MaxFailures,   \* LivenessConfig.MaxFailures
          MaxMoves,      \* bound: sockets a roam opens
          Inbox,         \* the capacity of the client's inbox
          Nil
VARIABLES cl,            \* the client: ike.Client and the facade's session
          sv,            \* the responder: its SAs, the pools, the pump
          net,           \* datagrams in flight
          n,             \* SPIs and nonces drawn so far
          env            \* what has happened on the way
vars == <<cl, sv, net, n, env>>

Addrs == 1 .. 2

\* A Child SA is named by what the two sides drew for it, SPI and nonce at once: c at
\* the client, s at the responder. The same pair at both ends means the same SPIs and
\* the same keys.
Child(c, s) == [c |-> c, s |-> s]

\* ---- the pools of ikev2.NewServer ----
\* AddrPool.Allocate: the lowest address of the pool not in use.
Allocate(used) == CHOOSE a \in Addrs \ used : \A b \in Addrs \ used : a <= b
\* AssignAddr: an address of each family asked for; IPv6 may be missing, IPv4 may not.
CanAssign(used, want) == 4 \in want => Addrs \ used[4] # {}
Assign(used, want) ==
  {<<f, Allocate(used[f])>> : f \in {g \in want : Addrs \ used[g] # {}}}
Taken(used, lease) == [f \in {4, 6} |-> used[f] \cup {l[2] : l \in {k \in lease : k[1] = f}}]
\* ReleaseAddr: both halves of the assignment.
ReleaseAddr(used, lease) == [f \in {4, 6} |-> used[f] \ {l[2] : l \in {k \in lease : k[1] = f}}]

\* ---- IKE SAs of the responder ----
\* ips is what ClientIP and ClientIP6 hold, assigned what AssignAddr returned.
NewSA(lease, children, at) ==
  [st |-> "established", recv |-> 0, ips |-> lease, assigned |-> lease, children |-> children, at |-> at]
Put(sas, i, sa) == [j \in DOMAIN sas \cup {i} |-> IF j = i THEN sa ELSE sas[j]]

\* exchangeAllowed, for what follows the handshake.
ExchangeAllowed(st, ex) ==
  IF ex \in {"child", "ike"} THEN st = "established" ELSE st \in {"established", "deleting"}

\* PumpDataPath.AddChild: the child's inbound SPI is registered and the lease's route
\* moves to it. RemoveChild takes back the SPI and the route it still owns.
AddChild(s, ch) == [s EXCEPT !.dp = @ \cup {ch}, !.route = ch]
RemoveChildren(s, chs) == [s EXCEPT !.dp = @ \ chs, !.route = IF @ \in chs THEN Nil ELSE @]

\* Mutant of DeleteSA.
DeleteSAReleasing(s, i) ==
  [s EXCEPT !.sas = [j \in DOMAIN s.sas \ {i} |-> s.sas[j]], !.used = ReleaseAddr(@, s.sas[i].assigned)]
\* deleteSA: the SA leaves the table, and its assignment goes back to the pools when
\* it still holds an address.
DeleteSA(s, i) ==
  LET sa == s.sas[i]
  IN  [s EXCEPT !.sas = [j \in DOMAIN s.sas \ {i} |-> s.sas[j]],
                !.used = IF sa.ips # {} THEN ReleaseAddr(@, sa.assigned) ELSE @]

\* ---- datagrams ----
\* seal and writeIKEAll: a request under the client's current SA and next ID.
Request(ex, id, arg) == [dst |-> "server", ex |-> ex, sa |-> cl.sa, id |-> id, arg |-> arg, addr |-> cl.addr]
\* respondEncrypted: the answer goes to where the request came from.
Respond(q, ex, c, s) ==
  [dst |-> "client", ex |-> ex, sa |-> q.sa, id |-> q.id, c |-> c, s |-> s, addr |-> q.addr]

\* ---- the responder ----
\* handleRekeyIKE: a new SA takes over the addresses and the Child SAs; the old one
\* keeps none of the children and no IPv4 address, and only awaits its deletion.
Successor(sa) == [NewSA(sa.assigned, sa.children, sa.at) EXCEPT !.ips = sa.ips]
\* Mutant of Retired.
RetiredKeepsChildren(sa) == [sa EXCEPT !.ips = {l \in @ : l[1] # 4}, !.st = "deleting"]
Retired(sa) == [sa EXCEPT !.children = {}, !.ips = {l \in @ : l[1] # 4}, !.st = "deleting"]
RekeyedSA(s, i, j) == [s EXCEPT !.sas = Put([@ EXCEPT ![i] = Retired(@)], j, Successor(@[i]))]

\* tsiCoversLease: RekeyChild offers all of IPv4 and nothing else.
TsiCoversLease(sa) == \E l \in sa.ips : l[1] = 4

\* handleMobikeInformational: the SA and its data path move to the address the update
\* came from.
Moved(s, i, at) == [s EXCEPT !.sas[i].at = at, !.peer = IF s.sas[i].children # {} THEN at ELSE @]

\* handleInformational: a Delete names children by the client's SPI.
Named(sa, c) == {ch \in sa.children : ch.c = c}
DeletedChild(s, i, c) ==
  LET gone == Named(s.sas[i], c)
  IN  RemoveChildren([s EXCEPT !.sas[i].children = @ \ gone], gone)

\* handleSecured and the handler it reaches. The request stays in flight: the path may
\* repeat it, and what is dropped changes nothing.
InOrder(q) == q.sa \in DOMAIN sv.sas /\ q.id = sv.sas[q.sa].recv
Handle(q) ==
  /\ q \in net /\ q.dst = "server" /\ InOrder(q)
  /\ ExchangeAllowed(sv.sas[q.sa].st, q.ex)
  /\ LET i == q.sa
         s == [sv EXCEPT !.sas[i].recv = q.id + 1, !.sas[i].at = q.addr]
         ch == Child(q.arg, n + 1)
     IN  \/ q.ex = "dpd" /\ sv' = s /\ n' = n /\ net' = net \cup {Respond(q, "dpd", 0, 0)}
         \/ q.ex = "child" /\ ~TsiCoversLease(sv.sas[i])
            /\ sv' = s /\ n' = n /\ net' = net \cup {Respond(q, "error", 0, 0)}
         \/ q.ex = "child" /\ TsiCoversLease(sv.sas[i]) /\ n < MaxFresh /\ n' = n + 1
            /\ sv' = AddChild([s EXCEPT !.sas[i].children = @ \cup {ch}, !.made = Append(@, q.arg)], ch)
            /\ net' = net \cup {Respond(q, "child", q.arg, n + 1)}
         \/ q.ex = "ike" /\ n < MaxFresh /\ n' = n + 1
            /\ sv' = RekeyedSA(s, i, n + 1) /\ net' = net \cup {Respond(q, "ike", q.arg, n + 1)}
         \/ q.ex = "roam" /\ n' = n
            /\ sv' = Moved(s, i, q.addr) /\ net' = net \cup {Respond(q, "roam", q.arg, 0)}
         \/ q.ex = "delchild" /\ n' = n
            /\ sv' = DeletedChild(s, i, q.arg) /\ net' = net \cup {Respond(q, "delchild", 0, 0)}
         \/ q.ex = "delike" /\ n' = n
            /\ sv' = DeleteSA(RemoveChildren(s, s.sas[i].children), i)
            /\ net' = net \cup {Respond(q, "delike", 0, 0)}
  /\ UNCHANGED <<cl, env>>

\* finishIKEAuth for another client, which asks for the same families.
Newcomer ==
  /\ env.others = {} /\ CanAssign(sv.used, Want)
  /\ LET lease == Assign(sv.used, Want)
     IN  sv' = [sv EXCEPT !.used = Taken(@, lease)] /\ env' = [env EXCEPT !.others = lease]
  /\ UNCHANGED <<cl, net, n>>

\* ---- the client ----
Idle == cl.op = "idle" /\ ~cl.closed /\ env.begun < MaxExchanges
Begin(ex, id, arg) ==
  /\ net' = net \cup {Request(ex, id, arg)}
  /\ cl' = [cl EXCEPT !.op = ex, !.arg = arg]
  /\ env' = [env EXCEPT !.begun = @ + 1]

\* Probe and SendDPD, after a stretch of silence.
SendDPD == Idle /\ Begin("dpd", cl.send, 0) /\ UNCHANGED <<sv, n>>

\* session.rekeyChild up to its first exchange; rekeyMu keeps rekeys apart.
RekeyChild ==
  /\ Idle /\ cl.swap = Nil /\ n < MaxFresh
  /\ n' = n + 1 /\ Begin("child", cl.send, n + 1) /\ UNCHANGED sv

\* session.rekeyIKE up to its first exchange.
RekeyIKE ==
  /\ Idle /\ cl.swap = Nil /\ n < MaxFresh
  /\ n' = n + 1 /\ Begin("ike", cl.send, n + 1) /\ UNCHANGED sv

\* DeleteChildSA of the Child SA a rekey replaced; another exchange may come first.
DeleteChildSA == Idle /\ cl.swap # Nil /\ Begin("delchild", cl.send, cl.swap.c) /\ UNCHANGED <<sv, n>>

\* Roam: a new socket, published before the update is sent from it. arg is the COOKIE2.
Roam ==
  /\ Idle /\ env.moves < MaxMoves
  /\ LET q == [Request("roam", cl.send, env.moves + 1) EXCEPT !.addr = env.moves + 1]
     IN  /\ net' = net \cup {q}
         /\ cl' = [cl EXCEPT !.op = "roam", !.arg = env.moves + 1, !.addr = env.moves + 1, !.old = cl.addr]
  /\ env' = [env EXCEPT !.begun = @ + 1, !.moves = @ + 1]
  /\ UNCHANGED <<sv, n>>

\* Deliver: the read loop owns the session's socket and puts what arrives there into
\* the inbox, whether or not an exchange waits; a full inbox drops it. During a roam
\* that is the old socket.
Session == IF cl.op = "roam" THEN cl.old ELSE cl.addr
Waiting(r) == cl.op # "idle" /\ r.sa = cl.sa /\ r.id = cl.send + (IF cl.op = "delike" THEN 1 ELSE 0)
Deliver(r) ==
  /\ r \in net /\ r.dst = "client" /\ ~cl.closed /\ r.addr = Session
  /\ net' = net \ {r}
  /\ cl' = [cl EXCEPT !.box = IF Len(@) < Inbox THEN Append(@, r) ELSE @]
  /\ env' = [env EXCEPT !.strays = @ \/ ~Waiting(r) \/ cl.op = "roam"]
  /\ UNCHANGED <<sv, n>>

\* The end of an exchange that failed: the ID is not spent. A failed probe counts
\* towards MaxFailures, a roam goes back to its old socket, and the Child SA a rekey
\* replaced is retired here whether or not the peer confirmed.
Failed(c) ==
  [c EXCEPT !.op = "idle", !.arg = 0, !.next = Nil, !.old = 0,
            !.addr = IF c.op = "roam" THEN c.old ELSE @,
            !.tuns = IF c.op = "delchild" THEN @ \ {c.swap} ELSE @,
            !.swap = IF c.op = "delchild" THEN Nil ELSE @,
            !.fails = IF c.op = "dpd" THEN @ + 1 ELSE @]

\* The successful end of an exchange.
Done(c) == [c EXCEPT !.op = "idle", !.arg = 0, !.send = @ + 1, !.old = 0]

\* Mutant of Swapped.
SwappedInboundOnly(c, r) == [Done(c) EXCEPT !.tuns = @ \cup {Child(c.arg, r.s)}, !.swap = c.child]
\* RekeyChild's result, and session.rekeyChild installing the new SA before the old
\* one goes.
Swapped(c, r) ==
  LET ch == Child(c.arg, r.s)
  IN  [Done(c) EXCEPT !.child = ch, !.tuns = @ \cup {ch}, !.swap = c.child]

\* recvInnersFrom takes the next message of the inbox, whatever its ID and exchange:
\* it must open under the current keys, carry no error, and hold what the exchange
\* looks for.
Usable(r) ==
  /\ r.sa = cl.sa /\ r.ex # "error"
  /\ cl.op \in {"child", "ike"} => r.ex = cl.op
Receive ==
  /\ cl.op \notin {"idle", "roam"} /\ cl.box # << >> /\ ~cl.closed
  /\ LET r == Head(cl.box)
         c == [cl EXCEPT !.box = Tail(@)]
     IN  \/ ~Usable(r) /\ cl' = Failed(c) /\ UNCHANGED <<net, env>>
         \/ Usable(r) /\ cl.op = "dpd" /\ cl' = [Done(c) EXCEPT !.fails = 0] /\ UNCHANGED <<net, env>>
         \/ Usable(r) /\ cl.op = "child" /\ cl' = Swapped(c, r) /\ UNCHANGED <<net, env>>
         \/ Usable(r) /\ cl.op = "delchild" /\ UNCHANGED <<net, env>>
            /\ cl' = [Done(c) EXCEPT !.tuns = @ \ {c.swap}, !.swap = Nil]
         \/ Usable(r) /\ cl.op = "ike" /\ UNCHANGED env
            \* deleteOldIKESA, still under the old keys, with the next ID
            /\ net' = net \cup {Request("delike", cl.send + 1, 0)}
            /\ cl' = [c EXCEPT !.op = "delike", !.next = r.s]
         \/ Usable(r) /\ cl.op = "delike" /\ UNCHANGED <<net, env>>
            /\ cl' = [Done(c) EXCEPT !.sa = c.next, !.next = Nil, !.send = 0]
  /\ UNCHANGED <<sv, n>>

\* sendUpdateSAAddresses reads its own socket and wants its own COOKIE2 back; then the
\* old socket is closed.
RoamReceive(r) ==
  /\ cl.op = "roam" /\ ~cl.closed /\ r \in net /\ r.dst = "client" /\ r.addr = cl.addr
  /\ net' = net \ {r}
  /\ cl' = IF r.sa = cl.sa /\ r.ex = "roam" /\ r.c = cl.arg THEN Done(cl) ELSE Failed(cl)
  /\ UNCHANGED <<sv, n, env>>

\* The exchange's context or read deadline ends first; its answer may still come.
Timeout ==
  /\ cl.op # "idle" /\ ~cl.closed
  /\ cl' = Failed(cl) /\ env' = [env EXCEPT !.abandoned = TRUE]
  /\ UNCHANGED <<sv, net, n>>

\* monitored.run and session.Close: after MaxFailures probes the session is closed,
\* without a word to the responder.
Close ==
  /\ cl.op = "idle" /\ ~cl.closed /\ cl.fails >= MaxFailures
  /\ cl' = [cl EXCEPT !.closed = TRUE, !.tuns = {}]
  /\ UNCHANGED <<sv, net, n, env>>

\* What the handshake leaves: one IKE SA and one Child SA, known to both.
Init ==
  LET ch == Child(1, 2)
      none == [f \in {4, 6} |-> {}]
      lease == Assign(none, Want)
  IN  /\ n = 2 /\ net = {}
      /\ cl = [sa |-> 1, send |-> 0, child |-> ch, tuns |-> {ch}, swap |-> Nil, op |-> "idle", arg |-> 0,
               next |-> Nil, addr |-> 0, old |-> 0, box |-> << >>, fails |-> 0, closed |-> FALSE]
      /\ sv = [sas |-> Put(<< >>, 1, NewSA(lease, {ch}, 0)), used |-> Taken(none, lease), dp |-> {ch},
               route |-> ch, peer |-> 0, made |-> << >>]
      /\ env = [begun |-> 0, moves |-> 0, others |-> {}, strays |-> FALSE, abandoned |-> FALSE]

Server == (\E q \in net : Handle(q)) \/ Newcomer
Client ==
  \/ SendDPD \/ RekeyChild \/ RekeyIKE \/ DeleteChildSA \/ Roam
  \/ Receive \/ Timeout \/ Close
  \/ \E r \in net : Deliver(r) \/ RoamReceive(r)
Next == Server \/ Client
Spec == Init /\ [][Next]_vars

\* ---- what must hold ----

\* deleteSA, handleRekeyIKE and the pools: no address of a client that still has an
\* IKE SA goes to another.
LeaseHeldOnce == \A i \in DOMAIN sv.sas : sv.sas[i].st = "established" =>
  \A l \in sv.sas[i].ips : l \notin env.others /\ l[2] \in sv.used[l[1]]

\* handleCreateChildSA, handleRekeyIKE and handleInformational keep the pump in step:
\* it carries exactly the Child SAs of the live IKE SAs, each the work of one request,
\* however requests are repeated and the IKE SA is replaced meanwhile.
PumpFollows ==
  /\ sv.dp = UNION {sv.sas[i].children : i \in DOMAIN sv.sas}
  /\ \A i, j \in DOMAIN sv.sas : i # j => sv.sas[i].children \cap sv.sas[j].children = {}
  /\ Cardinality({sv.made[k] : k \in DOMAIN sv.made}) = Len(sv.made)

\* session.rekeyChild's order: as long as every exchange got its own answer, what the
\* client sends the responder can open, and what the responder sends the client can
\* open too, save while the answer that tells it of the new SA is on its way; and the
\* responder still serves the IKE SA the client would use next.
Quiet == ~env.strays /\ ~env.abandoned /\ ~cl.closed
NoGap == Quiet =>
  /\ cl.child \in sv.dp
  /\ sv.route \in cl.tuns \/ (cl.op = "child" /\ sv.route.c = cl.arg)
  /\ (IF cl.op = "delike" THEN cl.next ELSE cl.sa) \in DOMAIN sv.sas

\* liveness.go's Deliver: an exchange ends with the answer to its own request.
OwnAnswer == cl.op # "idle" /\ cl.box # << >> /\ ~cl.closed => Waiting(Head(cl.box))
====
