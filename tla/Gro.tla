-------------------------------- MODULE Gro --------------------------------
(***************************************************************************)
(* Receive coalescing on a TUN with the virtio-net header: within one      *)
(* batch of datagrams, consecutive TCP segments of a flow are gathered in  *)
(* a group and written as one super-frame, which the stack cuts again.     *)
(* Segments come from super-frames the sender's own TUN produced, cut by   *)
(* segmentTSO4, with bare packets (pure ACKs, RSTs) among them.            *)
(*                                                                         *)
(* A payload is the sequence of its positions in the stream.  Sequence     *)
(* numbers and IP identifiers wrap at SeqSpace and IdSpace, 2^32 and 2^16  *)
(* in the code.  TUN write errors are left out.                            *)
(***************************************************************************)
EXTENDS Naturals, Sequences, FiniteSets, SequencesExt

CONSTANTS
    Scenarios,      \* what the senders write, and what the path may do
    SeqSpace,       \* the sequence numbers
    IdSpace,        \* the IP identifiers
    groMaxLen       \* the longest payload of a coalesced frame

VARIABLES
    gt,     \* the groTable: the groups of this batch
    tun,    \* the frames written to the TUN, in order
    net     \* what each flow has still to deliver, and what it has delivered

vars == <<gt, tun, net>>

-----------------------------------------------------------------------------
maxTSOSegments == 256

Shorter(a, b) == IF a < b THEN a ELSE b

\* The segments a super-frame is cut into: the headers replicated, identifier
\* and sequence number advanced, PSH and FIN kept for the last.
segmentTSO4(f, gso) ==
    LET n == (Len(f.data) + gso - 1) \div gso
    IN IF gso = 0 \/ f.data = <<>> \/ n > maxTSOSegments THEN <<>>
       ELSE [i \in 1..n |->
                [f EXCEPT !.data = SubSeq(f.data, (i - 1) * gso + 1, Shorter(i * gso, Len(f.data))),
                          !.id = (f.id + i - 1) % IdSpace,
                          !.seq = (f.seq + (i - 1) * gso) % SeqSpace,
                          !.push = f.push /\ i = n]]

Packet(flow, item, seq, id) ==
    [flow |-> flow, kind |-> item.kind, seq |-> seq % SeqSpace, id |-> id % IdSpace,
     data |-> [i \in 1..item.len |-> (seq + i - 1) % SeqSpace],
     push |-> item.push, ack |-> item.ack, opts |-> item.opts, good |-> TRUE]

\* The packets of a sender that writes these items one after the other.
Sent(flow, items, gso, first) ==
    LET Write(st, item) ==
            LET p == Packet(flow, item, st.seq, st.id)
                cut == IF item.len > gso THEN segmentTSO4(p, gso) ELSE <<p>>
            IN [seq |-> st.seq + item.len, id |-> st.id + Len(cut), out |-> st.out \o cut]
    IN FoldLeft(Write, [seq |-> first, id |-> first, out |-> <<>>], items).out

-----------------------------------------------------------------------------
\* A group: the first segment's headers (buf), the payload gathered, and what
\* may still be appended.  headed: buf[:length] begins with the headers.
NewGroup(p) ==
    [hdr |-> p, data |-> p.data, headed |-> TRUE, segs |-> 1, gsoSize |-> Len(p.data),
     nextSeq |-> (p.seq + Len(p.data)) % SeqSpace, nextID |-> (p.id + 1) % IdSpace,
     closed |-> p.push \/ p.opts]

coalescible(p) == p.kind = "data"
tcpChecksumOK(p) == p.good

sameFlow(g, p) == g.hdr.flow = p.flow

canAppend(g, p) ==
    /\ ~g.closed /\ ~p.opts /\ ~g.hdr.opts
    /\ Len(p.data) <= g.gsoSize /\ Len(g.data) + Len(p.data) <= groMaxLen
    /\ p.seq = g.nextSeq /\ p.id = g.nextID /\ p.ack = g.hdr.ack

\* Mutant of append: an append that only the PSH and FIN flags close.
AppendLong(g, p) ==
    [g EXCEPT !.data = @ \o p.data, !.segs = @ + 1,
              !.nextSeq = (@ + Len(p.data)) % SeqSpace, !.nextID = (@ + 1) % IdSpace,
              !.hdr.push = @ \/ p.push, !.closed = p.push]

\* The payload goes in after buf[:length]; a short segment, PSH or FIN closes.
append(g, p) ==
    [g EXCEPT !.data = @ \o p.data, !.segs = @ + 1,
              !.nextSeq = (@ + Len(p.data)) % SeqSpace, !.nextID = (@ + 1) % IdSpace,
              !.hdr.push = @ \/ p.push,
              !.closed = p.push \/ Len(p.data) < g.gsoSize]

\* One segment goes out as it arrived, several with the GSO header.
Frame(g) == [hdr |-> g.hdr, data |-> g.data, headed |-> g.headed,
             gso |-> IF g.segs = 1 THEN 0 ELSE g.gsoSize]

flush(g) == IF g.segs = 0 THEN <<>> ELSE <<Frame(g)>>

\* segs and length are zeroed; the headers stay in buf.
Flushed(g) == [g EXCEPT !.segs = 0, !.data = <<>>, !.headed = FALSE]

Through(p) == [hdr |-> p, data |-> p.data, headed |-> TRUE, gso |-> 0]

-----------------------------------------------------------------------------
Init == \E sc \in Scenarios :
    /\ gt = <<>> /\ tun = <<>>
    /\ net = [sc |-> sc, bad |-> 0,
              left |-> [f \in DOMAIN sc.flows |-> Sent(f, sc.flows[f], sc.gso, sc.first)],
              came |-> [f \in DOMAIN sc.flows |-> <<>>]]

\* A packet that is not coalescible, or whose checksum fails: the held segments
\* of its flow first, then the packet itself.
PassThrough(p) ==
    LET mine == {i \in DOMAIN gt : gt[i].segs > 0 /\ sameFlow(gt[i], p)}
    IN IF p.kind = "other" \/ mine = {}
       THEN tun' = Append(tun, Through(p)) /\ UNCHANGED gt
       ELSE LET i == CHOOSE j \in mine : \A k \in mine : j <= k
            IN /\ tun' = tun \o flush(gt[i]) \o <<Through(p)>>
               /\ gt' = [gt EXCEPT ![i] = Flushed(@)]

\* groTable.add for the rest: the first group of the flow takes it, or is
\* written and started again with it; or there is none yet.
Coalesce(p) ==
    LET mine == {i \in DOMAIN gt : sameFlow(gt[i], p)}
    IN IF mine = {} THEN gt' = Append(gt, NewGroup(p)) /\ UNCHANGED tun
       ELSE LET i == CHOOSE j \in mine : \A k \in mine : j <= k
            IN IF canAppend(gt[i], p)
               THEN gt' = [gt EXCEPT ![i] = append(@, p)] /\ UNCHANGED tun
               ELSE gt' = [gt EXCEPT ![i] = NewGroup(p)] /\ tun' = tun \o flush(gt[i])

\* The next packet of flow f to come, in the order sent unless the path reorders.
Next1(f) == IF net.left[f] = <<>> THEN {}
            ELSE IF net.sc.reorder THEN DOMAIN net.left[f] ELSE {1}

\* One turn of the batch loop.  The path may damage a segment, whose checksum
\* then fails.
Arrive(f, k, good) ==
    /\ k \in Next1(f)
    /\ good \/ net.bad < net.sc.damage
    /\ LET p == [net.left[f][k] EXCEPT !.good = good]
       IN /\ IF coalescible(p) /\ tcpChecksumOK(p) THEN Coalesce(p) ELSE PassThrough(p)
          /\ net' = [net EXCEPT !.left[f] = RemoveAt(@, k), !.came[f] = Append(@, p),
                                !.bad = IF good THEN @ ELSE @ + 1]

Lost(f) ==
    /\ net.left[f] # <<>> /\ net.sc.lossy
    /\ net' = [net EXCEPT !.left[f] = Tail(@)]
    /\ UNCHANGED <<gt, tun>>

\* The batch is over: every group is written, and the table reset.
EndBatch ==
    /\ gt # <<>>
    /\ tun' = FoldLeft(LAMBDA out, g : out \o flush(g), tun, gt)
    /\ gt' = <<>> /\ UNCHANGED net

Done == gt = <<>> /\ (\A f \in DOMAIN net.left : net.left[f] = <<>>) /\ UNCHANGED vars

Flows == DOMAIN net.left

Next ==
    \/ \E f \in Flows : \E k \in DOMAIN net.left[f], good \in BOOLEAN : Arrive(f, k, good)
    \/ \E f \in Flows : Lost(f)
    \/ EndBatch \/ Done

Spec == Init /\ [][Next]_vars

-----------------------------------------------------------------------------
\* What the stack makes of a frame: a super-frame is cut at its gso_size; a
\* frame without headers is no packet.
Seen(fr) ==
    IF ~fr.headed THEN <<>>
    ELSE IF fr.gso = 0 THEN <<[fr.hdr EXCEPT !.data = fr.data]>>
    ELSE segmentTSO4([fr.hdr EXCEPT !.data = fr.data], fr.gso)

SeenOf(f) ==
    SelectSeq(FoldLeft(LAMBDA out, fr : out \o Seen(fr), <<>>, tun), LAMBDA p : p.flow = f)

\* "GRO can only ever reduce syscalls, never change what the stack sees": at
\* the end of every batch the stack has got, for each flow, exactly the packets
\* that arrived, with their headers and in their order.
StackSees == gt = <<>> => \A f \in Flows : SeenOf(f) = net.came[f]
=============================================================================
