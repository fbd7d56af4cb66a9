------------------------------ MODULE Shaper ------------------------------
(***************************************************************************)
(* Downstream flow shaping (dataplane.Shaper): the first Bytes of padded   *)
(* output of each inner flow go out at the size of the MTU, the rest as it *)
(* is; a flow that was silent for Idle is shaped again.  The table of      *)
(* flows is bounded by emptying it, and swept of idle flows every          *)
(* sweepEvery packets.  The receiver cuts the padding off by the inner     *)
(* header's own length.  A layer-2 tunnel shapes its frames by the packet  *)
(* inside (TargetFrame).                                                   *)
(***************************************************************************)
EXTENDS Naturals, Integers, FiniteSets, Functions

CONSTANTS
    Flows,          \* the inner flows
    Sizes,          \* the sizes of inner packets
    Mtu, Bytes, Idle, MaxFlows, sweepEvery,
    EthHeader,      \* ethHeaderLen
    MaxPackets, MaxTime

VARIABLES
    sh,     \* the shaper: its flows and the packets since the last sweep
    tr      \* the traffic: the clock, the last packet, what each flow emitted

vars == <<sh, tr>>

Largest(a, b) == IF a > b THEN a ELSE b

\* A packet is as long as its header says; padding makes the plaintext longer.
\* A plaintext whose header claims more than there is, is refused.
Padded(pkt, target) == [pkt EXCEPT !.len = Largest(@, target)]
TrimToIP(plain) == IF plain.total > plain.len THEN [plain EXCEPT !.len = 0]
                   ELSE [plain EXCEPT !.len = plain.total]

Init ==
    /\ sh = [flows |-> <<>>, since |-> 0]
    /\ tr = [now |-> 0, packets |-> 0, last |-> [pkt |-> [len |-> 0, total |-> 0], sent |-> 0, mtu |-> Mtu],
             spent |-> [f \in Flows |-> 0]]

-----------------------------------------------------------------------------
\* Mutant of Charge: what a packet takes from the budget, if it took what it carries.
ChargeInner(len, mtu) == len

\* ... and what it does take: what it will emit.
Charge(len, mtu) == Largest(len, mtu)

\* The flow's state as the packet finds it: a full budget when the flow is new
\* or was silent for long enough.
Armed(f, now) ==
    f \notin DOMAIN sh.flows \/ now - sh.flows[f].lastSeen >= Idle

Remaining(f, now) == IF Armed(f, now) THEN Bytes ELSE sh.flows[f].remaining

\* Shaper.store: a new flow that does not fit empties the table first.
store(flows, f, s) ==
    LET kept == IF f \notin DOMAIN flows /\ Cardinality(DOMAIN flows) >= MaxFlows
                THEN <<>> ELSE flows
    IN [g \in DOMAIN kept \cup {f} |-> IF g = f THEN s ELSE kept[g]]

sweep(flows, now) ==
    Restrict(flows, {g \in DOMAIN flows : now - flows[g].lastSeen < Idle})

\* Shaper.Target, for a packet of len in a path of mtu.
Target(f, len, mtu) ==
    IF mtu > 0 /\ Remaining(f, tr.now) > 0 /\ len < mtu THEN mtu ELSE 0

\* ... and what it changes.
Stored(f, len, mtu) ==
    LET rem == Remaining(f, tr.now)
        s == [remaining |-> IF rem > 0 THEN rem - Charge(len, mtu) ELSE rem, lastSeen |-> tr.now]
        flows == store(sh.flows, f, s)
        full == sh.since + 1 >= sweepEvery
    IN [flows |-> IF full THEN sweep(flows, tr.now) ELSE flows,
        since |-> IF full THEN 0 ELSE sh.since + 1]

\* What the flow has emitted at full size since its budget was last filled.
Spent(f, len, mtu) ==
    LET before == IF Armed(f, tr.now) THEN 0 ELSE tr.spent[f]
    IN IF Remaining(f, tr.now) > 0 THEN before + Largest(len, mtu) ELSE before

-----------------------------------------------------------------------------
\* A packet goes out through Pump.encap.
Packet(f, len) ==
    /\ tr.packets < MaxPackets
    /\ sh' = Stored(f, len, Mtu)
    /\ tr' = [tr EXCEPT !.packets = @ + 1, !.spent[f] = Spent(f, len, Mtu),
                        !.last = [pkt |-> [len |-> len, total |-> len], mtu |-> Mtu,
                                  sent |-> Target(f, len, Mtu)]]

\* TargetFrame: an Ethernet frame with an IP packet inside; any other is left
\* alone.
FrameOut(f, len, isIP) ==
    /\ tr.packets < MaxPackets
    /\ LET mtu == Mtu - EthHeader
       IN /\ sh' = IF isIP THEN Stored(f, len, mtu) ELSE sh
          /\ tr' = [tr EXCEPT !.packets = @ + 1,
                              !.spent[f] = IF isIP THEN Spent(f, len, mtu) ELSE @,
                              !.last = [pkt |-> [len |-> len, total |-> len], mtu |-> mtu,
                                        sent |-> IF isIP THEN Target(f, len, mtu) ELSE 0]]

Tick ==
    /\ tr.now < MaxTime
    /\ tr' = [tr EXCEPT !.now = @ + 1] /\ UNCHANGED sh

Ended == tr.packets = MaxPackets /\ UNCHANGED vars

Next ==
    \/ \E f \in Flows, len \in Sizes : Packet(f, len)
    \/ \E f \in Flows, len \in Sizes, isIP \in BOOLEAN : FrameOut(f, len, isIP)
    \/ Tick \/ Ended

Spec == Init /\ [][Next]_vars

-----------------------------------------------------------------------------
\* Bytes "bounds what shaping costs, and a flow gets Bytes/mtu shaped packets
\* whatever sizes it carries" (ShapeConfig): from one filling of its budget to
\* the next a flow emits at most Bytes at full size, the last packet's excess
\* apart; and the flow table is bounded.
ShapingBounded ==
    /\ \A f \in Flows : tr.spent[f] < Bytes + Largest(Mtu, CHOOSE n \in Sizes : \A m \in Sizes : m <= n)
    /\ Cardinality(DOMAIN sh.flows) <= MaxFlows

\* "padding can never turn a deliverable packet into an oversized one" (Target),
\* and what is padded arrives as it was (TrimToIP).
PaddingInert ==
    LET p == tr.last.pkt IN
    /\ p.len <= tr.last.mtu => Padded(p, tr.last.sent).len <= tr.last.mtu
    /\ TrimToIP(Padded(p, tr.last.sent)) = p
=============================================================================
