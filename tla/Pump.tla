------------------------------- MODULE Pump -------------------------------
(***************************************************************************)
(* The data path every datagram protocol shares (dataplane.Pump): tunnels  *)
(* are registered by control goroutines under mu, each change publishing a *)
(* new immutable snapshot of the inbound keys and outbound routes; the     *)
(* socket reader and the TUN reader each work from the snapshot they       *)
(* loaded, which may be an old one; a paced tunnel has a sending goroutine *)
(* of its own, started and stopped outside mu; the management API sums the *)
(* counters.                                                               *)
(*                                                                         *)
(* Addresses are short bit strings and a prefix is their beginning: the    *)
(* trie is the function it represents.  A datagram is its key and what its *)
(* decapsulation yields.  Drop counters and return addresses are left out. *)
(***************************************************************************)
EXTENDS Naturals, Sequences, FiniteSets, SequencesExt, FiniteSetsExt, Functions

CONSTANTS
    Tunnels,        \* tunnel -> [keys, routes, paced, multi, checked]
    Threads,        \* the goroutines that register and remove tunnels
    Addrs,          \* the inner addresses
    Depth,          \* pacerQueueDepth
    MaxBatch,       \* the datagrams of one batch
    MaxPackets,     \* how many datagrams and packets there are
    MaxAdds,        \* how often AddTunnel is called
    MaxReports,     \* how often the counters are read
    Nil

VARIABLES
    pm,     \* the pump: the published view, the counters, the pacers
    io,     \* the two readers
    ct,     \* the control goroutines
    st      \* the management API's reading of the counters

vars == <<pm, io, ct, st>>

Keys == UNION {Tunnels[t].keys : t \in DOMAIN Tunnels}
RoutePrefixes == UNION {Tunnels[t].routes : t \in DOMAIN Tunnels}

\* A tunnel and its counters; a tunnel registered again keeps its counters.
bound(t, c) == [t |-> t, c |-> c]

Init ==
    /\ pm = [view |-> [keys |-> [k \in Keys |-> Nil], routes |-> [r \in RoutePrefixes |-> Nil]],
             stats |-> [t \in DOMAIN Tunnels |-> Nil], count |-> <<>>, retired |-> 0,
             queue |-> [t \in DOMAIN Tunnels |-> 0],
             pacer |-> [t \in DOMAIN Tunnels |-> [started |-> FALSE, stop |-> FALSE, done |-> FALSE]],
             order |-> <<>>, removed |-> {}, gone |-> {}]
    /\ io = [in |-> Nil, left |-> 0, out |-> Nil, packets |-> 0]
    /\ ct = [g \in Threads |-> [at |-> "idle", t |-> Nil]]
    /\ st = [at |-> "idle", part |-> 0, last |-> 0, now |-> 0, reports |-> 0,
             overlapped |-> FALSE]

-----------------------------------------------------------------------------
\* routeTable.lookup: the longest prefix of a that is set.
lookup(routes, a) ==
    LET rs == {r \in DOMAIN routes : IsPrefix(r, a) /\ routes[r] # Nil}
    IN IF rs = {} THEN Nil ELSE routes[CHOOSE r \in rs : \A q \in rs : Len(q) <= Len(r)]

insert(routes, rs, b) == [r \in DOMAIN routes |-> IF r \in rs THEN b ELSE routes[r]]

\* Mutant of removeOwned: a removal that does not ask who owns the prefix, as routeTable.remove.
RemoveAny(routes, rs, t) == [r \in DOMAIN routes |-> IF r \in rs THEN Nil ELSE routes[r]]

\* Each prefix of t's that is still t's.
removeOwned(routes, rs, t) ==
    [r \in DOMAIN routes |->
        IF r \in rs /\ routes[r] # Nil /\ routes[r].t = t THEN Nil ELSE routes[r]]

\* Pump.counters: the block of a registered tunnel, or a new one.
counters(t) == IF pm.stats[t] # Nil THEN pm.stats[t] ELSE Len(pm.count) + 1
WithCounters(t) ==
    [pm EXCEPT !.count = IF pm.stats[t] # Nil THEN @ ELSE Append(@, 0), !.stats[t] = counters(t)]

\* InboundKey: the key AddTunnel registers; a tunnel may rotate through others.
FirstKey(t) == Min(Tunnels[t].keys)

-----------------------------------------------------------------------------
\* AddTunnel's critical section.  A tunnel object that was removed is not
\* added again; one that is registered may be.
AddTunnel(g, t) ==
    /\ ct[g].at = "idle" /\ t \notin pm.removed
    /\ Len(pm.order) < MaxAdds
    /\ LET b == bound(t, counters(t))
       IN pm' = [WithCounters(t) EXCEPT
                    !.view = [keys |-> [@.keys EXCEPT ![FirstKey(t)] = b],
                              routes |-> insert(@.routes, Tunnels[t].routes, b)],
                    !.order = Append(@, t)]
    /\ ct' = IF Tunnels[t].paced THEN [ct EXCEPT ![g] = [at |-> "start", t |-> t]] ELSE ct
    /\ UNCHANGED <<io, st>>

StartPacing(g) ==
    /\ ct[g].at = "start"
    /\ pm' = [pm EXCEPT !.pacer[ct[g].t].started = TRUE]
    /\ ct' = [ct EXCEPT ![g] = [at |-> "idle", t |-> Nil]]
    /\ UNCHANGED <<io, st>>

\* Mutant of Retire: a RemoveTunnel that forgets what the tunnel carried.
Forgets(p, t) == [p EXCEPT !.stats[t] = Nil]

\* The departing tunnel's counts are folded into the total before they go.
Retire(p, t) ==
    IF p.stats[t] = Nil THEN p
    ELSE [p EXCEPT !.retired = @ + p.count[p.stats[t]], !.stats[t] = Nil]

\* RemoveTunnel's critical section: every key that leads to t, the routes that
\* are still its own, its counters.
RemoveTunnel(g, t) ==
    /\ ct[g].at = "idle" /\ t \in Range(pm.order)
    /\ t \in pm.removed => t \notin pm.gone
    /\ LET v == [keys |-> [k \in Keys |->
                              IF pm.view.keys[k] # Nil /\ pm.view.keys[k].t = t
                              THEN Nil ELSE pm.view.keys[k]],
                 routes |-> removeOwned(pm.view.routes, Tunnels[t].routes, t)]
       IN pm' = [Retire(pm, t) EXCEPT !.view = v, !.removed = @ \cup {t},
                                      !.gone = IF Tunnels[t].paced THEN @ ELSE @ \cup {t}]
    /\ ct' = IF Tunnels[t].paced THEN [ct EXCEPT ![g] = [at |-> "close", t |-> t]] ELSE ct
    /\ st' = [st EXCEPT !.overlapped = @ \/ st.at = "sum"]
    /\ UNCHANGED io

\* StopPacing: close(stop), once; then wait for the sender to have returned.
StopPacing(g) ==
    /\ ct[g].at = "close"
    /\ pm' = [pm EXCEPT !.pacer[ct[g].t].stop = TRUE]
    /\ ct' = [ct EXCEPT ![g].at = "wait"]
    /\ UNCHANGED <<io, st>>

\* Mutant of Stopped: a StopPacing that does not wait.
StoppedEarly(g) == ct[g].at = "wait"

Stopped(g) == ct[g].at = "wait" /\ pm.pacer[ct[g].t].done

StopReturns(g) ==
    /\ Stopped(g)
    /\ pm' = [pm EXCEPT !.gone = @ \cup {ct[g].t}]
    /\ ct' = [ct EXCEPT ![g] = [at |-> "idle", t |-> Nil]]
    /\ UNCHANGED <<io, st>>

\* A key that rotates (WireGuard): added while the tunnel is registered, and
\* retired again.
AddInboundKey(g, t, k) ==
    /\ ct[g].at = "idle" /\ pm.stats[t] # Nil /\ k \in Tunnels[t].keys
    /\ pm.view.keys[k] = Nil
    /\ pm' = [pm EXCEPT !.view.keys[k] = bound(t, counters(t))]
    /\ UNCHANGED <<io, ct, st>>

RemoveInboundKey(g, k) ==
    /\ ct[g].at = "idle" /\ pm.view.keys[k] # Nil
    /\ k # FirstKey(pm.view.keys[k].t)
    /\ pm' = [pm EXCEPT !.view.keys[k] = Nil]
    /\ UNCHANGED <<io, ct, st>>

\* The pacer's goroutine: it sends on every tick until it sees stop.
PacerTick(t) ==
    /\ pm.pacer[t].started /\ ~pm.pacer[t].done /\ pm.queue[t] > 0
    /\ pm' = [pm EXCEPT !.queue[t] = 0]
    /\ UNCHANGED <<io, ct, st>>

PacerEnds(t) ==
    /\ pm.pacer[t].started /\ pm.pacer[t].stop /\ ~pm.pacer[t].done
    /\ pm' = [pm EXCEPT !.pacer[t].done = TRUE]
    /\ UNCHANGED <<io, ct, st>>

-----------------------------------------------------------------------------
\* A counter block that is no longer registered still takes the count, which
\* no report includes.
Counted(p, b, n) == [p EXCEPT !.count[b.c] = @ + n]

\* HandleInboundBatch: one snapshot for the batch.
LoadBatch ==
    /\ io.in = Nil /\ io.packets < MaxPackets
    /\ \E n \in 1..MaxBatch :
        io' = [io EXCEPT !.in = pm.view, !.left = n]
    /\ UNCHANGED <<pm, ct, st>>

\* The inner packets a datagram yields: whether each has a source of its
\* tunnel's own; none for a keepalive.
Yields(t) == IF Tunnels[t].multi THEN {<<>>, <<TRUE>>, <<TRUE, TRUE>>, <<TRUE, FALSE>>}
             ELSE {<<>>, <<TRUE>>, <<FALSE>>}

sourceOK(t, own) == Tunnels[t].checked => own

\* What countRx is called for: each packet that passes; a keepalive of a tunnel
\* that does not aggregate.
CountRx(t, inner) ==
    IF inner = <<>> /\ ~Tunnels[t].multi THEN 1
    ELSE Cardinality({i \in DOMAIN inner : sourceOK(t, inner[i])})

\* lookupInbound and decapInbound or decapMulti: unknown keys and datagrams
\* that do not authenticate are dropped.
HandleInbound(k) ==
    /\ io.in # Nil /\ io.left > 0
    /\ io' = [io EXCEPT !.left = @ - 1, !.packets = @ + 1, !.in = IF io.left = 1 THEN Nil ELSE @]
    /\ LET b == io.in.keys[k]
       IN \/ pm' = pm
          \/ /\ b # Nil
             /\ \E inner \in Yields(b.t) : pm' = Counted(pm, b, CountRx(b.t, inner))
    /\ UNCHANGED <<ct, st>>

\* routeOutbound, to the lookup.  A packet that is no IP packet, or has no
\* route, is dropped.
RouteOutbound(a) ==
    /\ io.out = Nil /\ io.packets < MaxPackets
    /\ io' = [io EXCEPT !.out = lookup(pm.view.routes, a), !.packets = @ + 1]
    /\ UNCHANGED <<pm, ct, st>>

\* ... and from it: too large for the path; queued for the pacer, or its queue
\* is full; encapsulated and sent, or not.
Transmit ==
    /\ io.out # Nil
    /\ io' = [io EXCEPT !.out = Nil]
    /\ LET t == io.out.t
       IN \/ pm' = pm
          \/ Tunnels[t].paced /\ pm.queue[t] < Depth /\ pm' = [Counted(pm, io.out, 1) EXCEPT !.queue[t] = @ + 1]
          \/ ~Tunnels[t].paced /\ pm' = Counted(pm, io.out, 1)
    /\ UNCHANGED <<ct, st>>

\* sendSegments: the same for the segments of one super-frame, each of which
\* may fail to be queued or encapsulated by itself.
SendSegments(n) ==
    /\ io.out # Nil
    /\ io' = [io EXCEPT !.out = Nil]
    /\ \E k \in 0..n :
         LET t == io.out.t
         IN IF Tunnels[t].paced
            THEN /\ pm.queue[t] + k <= Depth
                 /\ pm' = [Counted(pm, io.out, k) EXCEPT !.queue[t] = @ + k]
            ELSE pm' = Counted(pm, io.out, k)
    /\ UNCHANGED <<ct, st>>

-----------------------------------------------------------------------------
\* Stats: the retired total under retiredMu, then the live counters under mu.
StatsRetired ==
    /\ st.at = "idle" /\ st.reports < MaxReports
    /\ st' = [st EXCEPT !.at = "sum", !.part = pm.retired, !.overlapped = FALSE,
                        !.reports = @ + 1]
    /\ UNCHANGED <<pm, io, ct>>

Live(p) == {t \in DOMAIN Tunnels : p.stats[t] # Nil}

StatsLive ==
    /\ st.at = "sum"
    /\ st' = [st EXCEPT !.at = "idle", !.last = st.now,
                        !.now = st.part + MapThenSumSet(LAMBDA t : pm.count[pm.stats[t]], Live(pm))]
    /\ UNCHANGED <<pm, io, ct>>

Next ==
    \/ \E g \in Threads, t \in DOMAIN Tunnels : AddTunnel(g, t) \/ RemoveTunnel(g, t)
    \/ \E g \in Threads : StartPacing(g) \/ StopPacing(g) \/ StopReturns(g)
    \/ \E g \in Threads, t \in DOMAIN Tunnels, k \in Keys : AddInboundKey(g, t, k)
    \/ \E g \in Threads, k \in Keys : RemoveInboundKey(g, k)
    \/ \E t \in DOMAIN Tunnels : PacerTick(t) \/ PacerEnds(t)
    \/ LoadBatch \/ \E k \in Keys : HandleInbound(k)
    \/ \E a \in Addrs : RouteOutbound(a)
    \/ Transmit \/ SendSegments(2)
    \/ StatsRetired \/ StatsLive

Spec == Init /\ [][Next]_vars

-----------------------------------------------------------------------------
\* The last tunnel to have claimed a prefix.
Claimant(r) ==
    LET is == {i \in DOMAIN pm.order : r \in Tunnels[pm.order[i]].routes}
    IN IF is = {} THEN Nil ELSE pm.order[Max(is)]

\* "a rekey installs the replacement SA before deleting the old one (so no
\* packet is ever without an SA) ... Retiring the old tunnel must not take the
\* successor's routes with it" (RemoveTunnel): however registrations and
\* removals interleave, a prefix leads to the tunnel that claimed it last for
\* as long as that one is registered; and nothing leads to a removed tunnel.
SuccessorCarries ==
    /\ \A r \in RoutePrefixes : Claimant(r) # Nil /\ Claimant(r) \notin pm.removed =>
            pm.view.routes[r] # Nil /\ pm.view.routes[r].t = Claimant(r)
    /\ \A t \in Range(pm.order) \ pm.removed :
            pm.view.keys[FirstKey(t)] # Nil /\ pm.view.keys[FirstKey(t)].t = t
    /\ \A t \in pm.removed :
            /\ \A k \in Keys : pm.view.keys[k] = Nil \/ pm.view.keys[k].t # t
            /\ \A r \in RoutePrefixes : pm.view.routes[r] = Nil \/ pm.view.routes[r].t # t

\* "a caller that tears a tunnel down knows nothing more will be written for
\* it" (StopPacing): once RemoveTunnel has returned, the sender has.
PacerQuiet == \A t \in pm.gone : Tunnels[t].paced => pm.pacer[t].done

\* "a counter that goes down is one nobody ... can reason about" (Stats): no
\* report is below the one before it, however tunnels come and go between the two.
\* The exception is a removal between the two halves of one report, which reads the
\* retired total first and the live counters under another lock: it misses what the
\* removal moved from the one to the other.
TotalGrows == st.overlapped \/ st.now >= st.last

\* The same, without the exception: what the code does not do.
TotalNeverFalls == st.now >= st.last
=============================================================================
