---- MODULE Aggfrag ----
\* RFC 9347 AGGFRAG payloads at a constant rate: pacedTunnel's queue and sender,
\* aggfrag.Packer, and the Reassembler behind DecapsulateMulti. A packet is a sequence of
\* cells, a cell some octets of one packet; the length of a packet is read from its first
\* HdrCells cells.
EXTENDS Integers, Sequences, FiniteSetsExt, SequencesExt
CONSTANTS Lengths,      \* lengths of inner packets, in cells
          HdrCells,     \* cells innerLen needs
          Room,         \* cells of a payload behind its header
          QueueDepth,   \* pacerQueueDepth
          MaxPackets,   \* bound: packets offered
          MaxTicks,     \* bound: payloads sent
          MaxLost       \* bound: ESP packets lost
VARIABLES tx, air, rx, lost
vars == <<tx, air, rx, lost>>

Packet(p, n) == [i \in 1 .. n |-> [p |-> p, i |-> i, n |-> n]]
Pad(n) == [i \in 1 .. n |-> [p |-> 0, i |-> 0, n |-> 0]]
First(s, n) == SubSeq(s, 1, n)
After(s, n) == SubSeq(s, n + 1, Len(s))
Smaller(a, b) == IF a < b THEN a ELSE b

\* Enqueue: a copy goes to the queue; a full queue drops.
Enqueue(n) ==
  /\ tx.offered < MaxPackets
  /\ LET pkt == Packet(tx.offered + 1, n)
     IN  tx' = IF Len(tx.queue) < QueueDepth
               THEN [tx EXCEPT !.offered = @ + 1, !.queue = Append(@, pkt), !.accepted = Append(@, pkt)]
               ELSE [tx EXCEPT !.offered = @ + 1]
  /\ UNCHANGED <<air, rx, lost>>

\* Pack: the tail of a split packet leads and BlockOffset counts it; new blocks begin
\* once it is complete, the last of them split where the payload ends; the rest is pad.
Lead(pending) == Smaller(Len(pending), Room)
Pack(pending, ready) ==
  LET off == Lead(pending)
      rest == After(pending, off)
      room == Room - off
      start(j) == Len(FlattenSeq(First(ready, j - 1)))
      used == IF rest # <<>> THEN 0 ELSE Cardinality({j \in DOMAIN ready : start(j) < room})
      cells == FlattenSeq(First(ready, used))
      fit == Smaller(Len(cells), room)
  IN  [payload |-> [off |-> off, data |-> First(pending, off) \o First(cells, fit) \o Pad(room - fit)],
       pending |-> rest \o After(cells, fit), ready |-> After(ready, used)]

\* run, on one tick: fill without waiting, pack, send, whatever there is to send.
Tick ==
  /\ tx.ticks < MaxTicks
  /\ LET all == tx.ready \o tx.queue
         n == Smaller(Len(all), QueueDepth)
         p == Pack(tx.pending, First(all, n))
     IN  /\ tx' = [tx EXCEPT !.ticks = @ + 1, !.queue = After(all, n), !.ready = p.ready, !.pending = p.pending]
         /\ air' = Append(air, p.payload)
  /\ UNCHANGED <<rx, lost>>

\* innerLen: zero while the header is not all there.
InnerLen(data) == IF Len(data) < HdrCells THEN 0 ELSE data[1].n
Whole(data) == InnerLen(data) # 0 /\ InnerLen(data) <= Len(data)
\* Feed's loop over the blocks of one payload, up to the pad or to a block that goes on
\* in the next.
RECURSIVE Blocks(_, _)
Blocks(data, out) ==
  IF data = <<>> \/ (data # <<>> /\ data[1].p = 0) THEN [out |-> out, partial |-> <<>>]
  ELSE IF ~Whole(data) THEN [out |-> out, partial |-> data]
  ELSE Blocks(After(data, InnerLen(data)), Append(out, First(data, InnerLen(data))))
\* Feed: a continuation nobody waits for is skipped, one that is waited for is appended,
\* and a payload that begins with a block drops what waits.
Feed(partial, payload) ==
  LET joined == partial \o First(payload.data, payload.off)
      rest == After(payload.data, payload.off)
  IN  IF payload.off = 0 \/ partial = <<>> THEN Blocks(rest, <<>>)
      ELSE IF ~Whole(joined) THEN [out |-> <<>>, partial |-> joined]
      ELSE Blocks(rest, <<First(joined, InnerLen(joined))>>)

Receive ==
  /\ air # <<>>
  /\ LET f == Feed(rx.partial, Head(air))
     IN  rx' = [partial |-> f.partial, out |-> rx.out \o f.out]
  /\ air' = Tail(air) /\ UNCHANGED <<tx, lost>>
Lose == air # <<>> /\ lost < MaxLost /\ air' = Tail(air) /\ lost' = lost + 1 /\ UNCHANGED <<tx, rx>>

Init ==
  /\ tx = [offered |-> 0, queue |-> <<>>, ready |-> <<>>, pending |-> <<>>, accepted |-> <<>>, ticks |-> 0]
  /\ air = <<>> /\ rx = [partial |-> <<>>, out |-> <<>>] /\ lost = 0
Next == (\E n \in Lengths : Enqueue(n)) \/ Tick \/ Receive \/ Lose
Spec == Init /\ [][Next]_vars

\* Over a path that loses nothing, what comes out is what Enqueue accepted, packet by
\* packet, in order, however the payloads cut it.
InOrderWhole == lost = 0 => IsPrefix(rx.out, tx.accepted)

\* Nothing but packets comes out: a head is never joined to the tail of another packet,
\* whatever is lost between them.
NoSplice == \A i \in DOMAIN rx.out : \E j \in DOMAIN tx.accepted : rx.out[i] = tx.accepted[j]
====
