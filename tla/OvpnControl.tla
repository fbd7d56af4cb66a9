---- MODULE OvpnControl ----
(***************************************************************************)
(* The OpenVPN control channel: the reliability layer of                   *)
(* internal/openvpn/reliable under the net.Conn of                         *)
(* internal/openvpn/control, at both ends of a UDP path that loses,        *)
(* duplicates and reorders. The application is the TLS goroutine, which    *)
(* writes and reads in turns.                                              *)
(***************************************************************************)
EXTENDS Integers, Sequences, FiniteSets, WellFoundedInduction, TLAPS

CONSTANTS Turns,        \* whose chunk each TLS message is, in turn order
          Window,       \* DefaultWindow
          InboundQueue, \* inboundQueue
          MaxACK,       \* maxACKPerPacket
          Duplicates,   \* the network duplicates and delays, or else it drops
          Stale,        \* packets of an earlier client of the same address
          MaxLosses,    \* bound: packets the network drops, after which it delivers
          MayFail       \* whether a channel may be closed under its user

VARIABLES ch,           \* [side -> Channel]
          net,          \* packets under way
          lost,         \* packets dropped so far
          wrote, read   \* what each TLS goroutine has written and read

vars == <<ch, net, lost, wrote, read>>

Sides == {"client", "server"}
Peer(c) == IF c = "client" THEN "server" ELSE "client"

Unbound == "unbound"

\* P_ACK_V1 carries no message of its own.
PACKV1 == -1

\* A payload is named by the session that wrote it and its message ID.
Payload(sid, id) == [sid |-> sid, id |-> id]

----
(* Sender and Receiver *)

\* newChannel: the hard reset is message 0 of the sender, already in flight.
NewChannel == [up |-> TRUE, closed |-> FALSE, remote |-> Unbound, next |-> 1,
               flight |-> {0}, rnext |-> 0, buffered |-> {}, pending |-> <<>>,
               rest |-> <<>>, inbound |-> <<>>, turn |-> 1]

\* Sender.Ready.
Ready(s) == Cardinality(s.flight) < Window

\* Sender.Ack, for every ID of an ACK array: unknown IDs are ignored.
Ack(s, ids) == [s EXCEPT !.flight = @ \ {ids[i] : i \in DOMAIN ids}]

\* Receiver.next once everything it is waiting for and the buffer holds is out.
Caught(r, from) ==
  LET held == {p.id : p \in r.buffered}
  IN  CHOOSE n \in {from} \cup {x + 1 : x \in held} : n \notin held /\ from .. n - 1 \subseteq held

\* The payloads from one ID up to another, less the hard reset's empty one.
Run(r, from, to) ==
  LET first == IF from = 0 THEN 1 ELSE from
  IN  [i \in 1 .. to - first |-> CHOOSE p \in r.buffered : p.id = first + i - 1]

\* Receiver.Receive, and in rest what handleDatagram hands on.
Receive(r, p) ==
  LET new == [r EXCEPT !.pending = Append(@, p.id), !.buffered = @ \cup {p}]
      high == Caught(new, r.rnext)
  IN  IF p.id < r.rnext \/ \E q \in r.buffered : q.id = p.id
      THEN [r EXCEPT !.pending = Append(@, p.id)]
      ELSE [new EXCEPT !.rnext = high, !.buffered = {q \in @ : q.id >= high}, !.rest = Run(new, r.rnext, high)]

----
(* The pump *)

\* sendMessage and sendACK: every due message, the ACKs on the first of them, or
\* on a packet of their own when nothing is due.
Packets(c, due, acks) ==
  {[to |-> Peer(c), sid |-> c, id |-> i, acks |-> IF \A j \in due : i <= j THEN acks ELSE <<>>] : i \in due}
    \cup IF due = {} /\ acks # <<>>
         THEN {[to |-> Peer(c), sid |-> c, id |-> PACKV1, acks |-> acks]}
         ELSE {}

\* transmit, at the head of the pump's loop. A message whose timeout has passed by
\* then as well is resent by a Timer step of its own: the peer cannot tell an ACK
\* beside a message from an ACK before it.
Transmit(c, s, due, base) ==
  LET n == IF s.remote = Unbound THEN 0 ELSE IF MaxACK < Len(s.pending) THEN MaxACK ELSE Len(s.pending)
  IN  /\ ch' = [ch EXCEPT ![c] = [s EXCEPT !.flight = @ \cup due,
                                           !.pending = SubSeq(@, n + 1, Len(@))]]
      /\ net' = base \cup Packets(c, due, SubSeq(s.pending, 1, n))

\* The pump is in its select: not gone, and not stuck handing payloads to Read.
Selecting(c) == ch[c].up /\ ~ch[c].closed /\ ch[c].rest = <<>>

\* The payloads of one datagram are handed over before the pump transmits again.
Resume(c, s, base) ==
  IF s.rest = <<>>
  THEN Transmit(c, s, {}, base)
  ELSE ch' = [ch EXCEPT ![c] = s] /\ net' = base

\* handleDatagram, for a packet of the session the channel is bound to.
Handle(c, s, p, base) ==
  LET acked == Ack(s, p.acks)
  IN  Resume(c, IF p.id = PACKV1 THEN acked ELSE Receive(acked, Payload(p.sid, p.id)), base)

\* handleControl: a hard reset from an unknown address opens the server's channel.
Accept(p, base) ==
  /\ p.to = "server" /\ p.id = 0 /\ ~ch["server"].up
  /\ Handle("server", [NewChannel EXCEPT !.remote = p.sid], p,
            base \cup Packets("server", {0}, <<>>))
  /\ UNCHANGED <<lost, wrote, read>>

\* A bug: a packet of another session is handled as one of this one.
DatagramAnySession(p, base) ==
  /\ Selecting(p.to)
  /\ Handle(p.to, [ch[p.to] EXCEPT !.remote = IF @ = Unbound THEN p.sid ELSE @], p, base)
  /\ UNCHANGED <<lost, wrote, read>>

\* A datagram the pump takes: the first one binds the channel to its session and
\* one of another session is dropped.
Datagram(p, base) ==
  /\ Selecting(p.to)
  /\ ch[p.to].remote \in {Unbound, p.sid}
  /\ Handle(p.to, [ch[p.to] EXCEPT !.remote = p.sid], p, base)
  /\ UNCHANGED <<lost, wrote, read>>

\* A datagram arrives. Where the network duplicates, a packet stays under way and
\* may arrive again at any time, or never.
Deliver(p) ==
  LET base == IF Duplicates THEN net ELSE net \ {p}
  IN  Accept(p, base) \/ Datagram(p, base)

\* The retransmit timer fires for message i.
Timer(c, i) ==
  /\ Selecting(c) /\ i \in ch[c].flight
  /\ Transmit(c, ch[c], {i}, net)
  /\ UNCHANGED <<lost, wrote, read>>

\* A bug: with the inbound channel full the payload is dropped.
PushOrDrop(c) ==
  LET s == ch[c]
      room == Len(s.inbound) < InboundQueue
  IN  /\ ~s.closed /\ s.rest # <<>>
      /\ Resume(c, [s EXCEPT !.inbound = IF room THEN Append(@, Head(s.rest)) ELSE @, !.rest = Tail(@)], net)
      /\ UNCHANGED <<lost, wrote, read>>

\* handleDatagram's send to the inbound channel, which waits for room.
Push(c) ==
  LET s == ch[c]
  IN  /\ ~s.closed /\ s.rest # <<>> /\ Len(s.inbound) < InboundQueue
      /\ Resume(c, [s EXCEPT !.inbound = Append(@, Head(s.rest)), !.rest = Tail(@)], net)
      /\ UNCHANGED <<lost, wrote, read>>

----
(* The TLS goroutine *)

AtTurn(c, who) ==
  ch[c].up /\ ~ch[c].closed /\ ch[c].turn <= Len(Turns) /\ Turns[ch[c].turn] = who

\* A bug: Write reports a chunk as not written that the pump had taken already.
WriteUnreported(c) ==
  LET s == ch[c]
  IN  /\ AtTurn(c, c) /\ Selecting(c) /\ Ready(s)
      /\ Transmit(c, [s EXCEPT !.next = @ + 1], {s.next}, net)
      /\ UNCHANGED <<lost, wrote, read>>

\* Write: one chunk, which the pump takes while the window has room.
Write(c) ==
  LET s == ch[c]
  IN  /\ AtTurn(c, c) /\ Selecting(c) /\ Ready(s)
      /\ Transmit(c, [s EXCEPT !.next = @ + 1, !.turn = @ + 1], {s.next}, net)
      /\ wrote' = [wrote EXCEPT ![c] = Append(@, Payload(c, s.next))]
      /\ UNCHANGED <<lost, read>>

\* Read: the next payload delivered in order.
Read(c) ==
  /\ AtTurn(c, Peer(c)) /\ ch[c].inbound # <<>>
  /\ read' = [read EXCEPT ![c] = Append(@, Head(ch[c].inbound))]
  /\ ch' = [ch EXCEPT ![c].inbound = Tail(@), ![c].turn = @ + 1]
  /\ UNCHANGED <<net, lost, wrote>>

\* Close, by its user or by fail on a send error: pump, Read and Write all end.
Close(c) ==
  /\ MayFail /\ ch[c].up /\ ~ch[c].closed
  /\ ch' = [ch EXCEPT ![c].closed = TRUE]
  /\ UNCHANGED <<net, lost, wrote, read>>

\* UDP drops a packet.
Lose(p) ==
  /\ ~Duplicates /\ lost < MaxLosses
  /\ net' = net \ {p}
  /\ lost' = lost + 1
  /\ UNCHANGED <<ch, wrote, read>>

----

\* The client's New has transmitted its hard reset; the server has no channel.
Init ==
  /\ ch = [c \in Sides |-> [NewChannel EXCEPT !.up = c = "client"]]
  /\ net = Stale \cup {[to |-> "server", sid |-> "client", id |-> 0, acks |-> <<>>]}
  /\ lost = 0
  /\ wrote = [c \in Sides |-> <<>>]
  /\ read = [c \in Sides |-> <<>>]

Next ==
  \/ \E p \in net : Deliver(p) \/ Lose(p)
  \/ \E c \in Sides : Push(c) \/ Write(c) \/ Read(c) \/ Close(c) \/ \E i \in ch[c].flight : Timer(c, i)

Spec == Init /\ [][Next]_vars

----
(* Properties *)

\* The two ends are bound to each other's session.
Bound(c) == ch[c].remote = Peer(c) /\ ch[Peer(c)].remote = c

\* Sender.Ack and Receiver.Receive together: a message the sender has let go of
\* is one the peer holds or has delivered, so nothing is given up that could
\* still be lost.
AckedIsHeld ==
  \A c \in Sides : Bound(c) =>
    \A i \in (0 .. ch[c].next - 1) \ ch[c].flight :
      i < ch[Peer(c)].rnext \/ Payload(c, i) \in ch[Peer(c)].buffered

\* handleDatagram's session check: a channel hands its TLS goroutine the messages
\* of the one session it is bound to, from the first on, in order, without gaps
\* and without repeats.
InOrder ==
  \A c \in Sides : \A i \in DOMAIN read[c] : read[c][i] = Payload(ch[c].remote, i)

\* Both, with packets of an earlier client of the same address under way or not.
OneSession == InOrder /\ AckedIsHeld

\* No channel is bound to an earlier client's session.
Undisturbed == \A c \in Sides : ch[c].remote \in {Unbound, Peer(c)}

\* Channel.Read and Write over reliable's Sender and Receiver are the ordered, lossless
\* stream crypto/tls needs, whatever the path loses, duplicates or reorders, for as
\* long as no channel takes an earlier client's packet for one of its own session.
Stream == INSTANCE OrderedStream WITH Messages <- {Payload(c, i) : c \in Sides, i \in 0 .. Len(Turns)}
StreamStep == [Stream!Next]_Stream!vars
ControlIsStream == [][Undisturbed => StreamStep]_vars

\* Retransmission and the ACKs together carry every turn to its end, whatever the
\* network loses: the handshake is never stuck.
TurnsDone == \A c \in Sides : ch[c].up /\ ch[c].turn = Len(Turns) + 1
TurnsComplete == <>TurnsDone

----
(* Proof that the channel is one session's ordered stream, for every      *)
(* window, queue and ACK limit and whatever the path does                  *)

StaleIds == {p.sid : p \in Stale}

\* An earlier client's packets carry its own session ID.
ConstantsOK ==
  /\ Len(Turns) \in Nat /\ MaxACK \in Nat
  /\ StaleIds \cap (Sides \cup {Unbound}) = {}
  /\ \A p \in Stale : p.to \in Sides /\ p.id \in Nat \cup {PACKV1}

Messages == [sid : Sides \cup StaleIds, id : Nat]
Fields == {"up", "closed", "remote", "next", "flight", "rnext", "buffered", "pending", "rest", "inbound", "turn"}

Shape(s) ==
  /\ DOMAIN s = Fields
  /\ s.next \in Nat /\ 1 <= s.next /\ s.turn \in Nat /\ s.next <= s.turn
  /\ s.rnext \in Nat /\ s.flight \subseteq 0 .. s.next - 1
  /\ s.pending \in Seq(Int) /\ s.rest \in Seq(Messages) /\ s.inbound \in Seq(Messages)

\* Payloads a receiver at message x has given out: all but the hard reset's.
Out(x) == IF x = 0 THEN 0 ELSE x - 1

\* What TLS has read, the queue and the pump's hand are one run of payloads, and it ends
\* where the receiver stands.
Ordered(s, rd) ==
  /\ rd \in Seq(Messages)
  /\ \A i \in 1 .. Len(rd) : rd[i] = Payload(s.remote, i)
  /\ \A i \in 1 .. Len(s.inbound) : s.inbound[i] = Payload(s.remote, Len(rd) + i)
  /\ \A i \in 1 .. Len(s.rest) : s.rest[i] = Payload(s.remote, Len(rd) + Len(s.inbound) + i)
  /\ Len(rd) + Len(s.inbound) + Len(s.rest) = Out(s.rnext)

\* The buffer holds messages of the session the channel is bound to.
Buffer(s) ==
  /\ \E b \in Nat : \A p \in s.buffered : p.id < b
  /\ \A p \in s.buffered : p.id \in Nat /\ p = Payload(s.remote, p.id) /\ p.id >= s.rnext
  /\ s.remote = Unbound => s.rnext = 0 /\ s.buffered = {} /\ s.pending = <<>>

\* Message x of session sid is delivered or buffered at s.
HeldIn(sid, s, x) == s.remote = sid /\ (x < s.rnext \/ Payload(sid, x) \in s.buffered)

\* What side c may acknowledge.
AckIn(c, s, x) == s.remote # Unbound /\ (s.remote = Peer(c) => HeldIn(Peer(c), s, x))

\* What joins side c's channel s to the peer's channel t.
Joined(c, s, t) ==
  /\ s.remote \in {Peer(c), Unbound} \cup StaleIds
  /\ s.remote = Peer(c) => s.rnext <= t.next /\ \A p \in s.buffered : p.id < t.next
  /\ s.remote \in {Peer(c), Unbound} /\ t.remote \in {c, Unbound} =>
       \A i \in (0 .. s.next - 1) \ s.flight : HeldIn(c, t, i)

Good(c, s, rd, t) ==
  /\ Shape(s) /\ Ordered(s, rd) /\ Buffer(s) /\ Joined(c, s, t)
  /\ \A i \in 1 .. Len(s.pending) : AckIn(c, s, s.pending[i])
  /\ ~s.up => s.next = 1 /\ s.remote = Unbound

\* A channel moves on: it never unbinds, and lets go of nothing it holds.
Later(c, s, u) ==
  /\ u.next >= s.next /\ (u.remote = s.remote \/ s.remote = Unbound)
  /\ \A x \in Int : HeldIn(Peer(c), s, x) => HeldIn(Peer(c), u, x)

PacketFrom(c, s, p) ==
  /\ p.to = Peer(c) /\ p.sid = c /\ p.id < s.next
  /\ \A i \in DOMAIN p.acks : p.acks[i] \in Int /\ AckIn(c, s, p.acks[i])
PacketOK(p) ==
  /\ p.id \in Nat \cup {PACKV1}
  /\ \/ p.to \in Sides /\ p.sid \in StaleIds
     \/ \E c \in Sides : PacketFrom(c, ch[c], p)

Written(c) ==
  /\ wrote[c] \in Seq(Messages) /\ Len(wrote[c]) = ch[c].next - 1
  /\ \A i \in 1 .. Len(wrote[c]) : wrote[c][i] = Payload(c, i)

IInv ==
  /\ DOMAIN ch = Sides /\ DOMAIN read = Sides /\ DOMAIN wrote = Sides
  /\ \A c \in Sides : Good(c, ch[c], read[c], ch[Peer(c)]) /\ Written(c)
  /\ \A p \in net : PacketOK(p)

-----------------------------------------------------------------------------
(* The receiver                                                            *)

LEMMA LeastExists ==
  ASSUME NEW S, S \subseteq Nat, S # {}
  PROVE  \E x \in S : \A y \in S : x <= y
<1>1. PICK x \in S : \A y \in S : ~(<<y, x>> \in OpToRel(<, Nat))
  BY NatLessThanWellFounded, WFMin, ZenonT(40)
<1>2. \A y \in S : ~(y < x)
  BY <1>1, ZenonT(40) DEF OpToRel
<1>3. QED BY <1>2

\* The loop at the end of Receiver.Receive ends, at the first message that is missing.
LEMMA CaughtIs ==
  ASSUME NEW r, NEW from \in Nat, NEW b \in Nat, \A p \in r.buffered : p.id \in Nat /\ p.id >= from /\ p.id < b
  PROVE  LET held == {p.id : p \in r.buffered}
             high == Caught(r, from)
         IN  high \in Nat /\ high >= from /\ high \notin held /\ from .. high - 1 \subseteq held
<1> DEFINE held == {p.id : p \in r.buffered}
           free == {n \in Nat : n >= from /\ n \notin held}
<1>1. \A x \in held : x \in Nat /\ x >= from /\ x < b
  BY Zenon
<1>2. Caught(r, from) = CHOOSE n \in {from} \cup {x + 1 : x \in held} : n \notin held /\ from .. n - 1 \subseteq held
  BY Zenon DEF Caught
<1> HIDE DEF held
<1>3. from + b \in free
  BY <1>1
<1>4. PICK m \in free : \A y \in free : m <= y
  BY <1>3, LeastExists, ZenonT(40)
<1>5. from .. m - 1 \subseteq held /\ m \notin held
  BY <1>4
<1>6. m \in {from} \cup {x + 1 : x \in held}
  <2>1. CASE m = from
    BY <2>1, Zenon
  <2>2. CASE m # from
    <3>1. m - 1 \in from .. m - 1 /\ m = (m - 1) + 1
      BY <2>2, <1>4
    <3>2. QED BY <3>1, <1>5, Zenon
  <2>3. QED BY <2>1, <2>2, Zenon
<1>7. \A n \in {from} \cup {x + 1 : x \in held} : n \in Nat /\ n >= from
  BY <1>1
<1>8. QED BY <1>2, <1>5, <1>6, <1>7, Zenon DEF held

\* The buffer r of session sid holds every message from one ID up to another.
Holds(r, sid, from, to) ==
  /\ \A p \in r.buffered : p.id \in Nat /\ p = Payload(sid, p.id)
  /\ to >= from /\ \A x \in from .. to - 1 : \E p \in r.buffered : p.id = x

\* What handleDatagram hands on is the run of messages the loop took out of the buffer.
LEMMA RunIs ==
  ASSUME NEW r, NEW sid \in Sides \cup StaleIds, NEW from \in Nat, NEW to \in Nat, Holds(r, sid, from, to)
  PROVE  Run(r, from, to) = [i \in 1 .. Out(to) - Out(from) |-> Payload(sid, Out(from) + i)]
<1> DEFINE first == IF from = 0 THEN 1 ELSE from
           m == IF to - first >= 0 THEN to - first ELSE 0
           g(i) == CHOOSE p \in r.buffered : p.id = first + i - 1
<1>0. /\ \A p \in r.buffered : p.id \in Nat /\ p = Payload(sid, p.id)
      /\ to >= from /\ \A x \in from .. to - 1 : \E p \in r.buffered : p.id = x
  BY Zenon DEF Holds
<1>1. first \in Nat /\ m \in Nat /\ 1 .. to - first = 1 .. m
  OBVIOUS
<1>2. ASSUME NEW i \in 1 .. m
      PROVE  g(i) = Payload(sid, first + i - 1)
  <2>1. first + i - 1 \in from .. to - 1
    OBVIOUS
  <2>2. \E p \in r.buffered : p.id = first + i - 1
    BY <1>0, <2>1, Zenon
  <2>3. g(i) \in r.buffered /\ g(i).id = first + i - 1
    BY <2>2, Zenon
  <2>4. QED BY <1>0, <2>3
<1>3. Run(r, from, to) = [i \in 1 .. m |-> g(i)]
  BY <1>1, Zenon DEF Run
<1> HIDE DEF g
<1>4. m = Out(to) - Out(from)
  BY <1>0 DEF Out
<1>5. ASSUME NEW i \in 1 .. m
      PROVE  g(i) = Payload(sid, Out(from) + i)
  <2>1. first + i - 1 = Out(from) + i
    BY DEF Out
  <2>2. QED BY <2>1, <1>2, Zenon
<1>6. QED BY <1>3, <1>4, <1>5, Zenon

-----------------------------------------------------------------------------
(* What the steps of one end do to its channel                             *)

\* What depends only on the peer's session and on what is held of it stays when the two do.
LEMMA FrameLater ==
  ASSUME NEW c, NEW s, NEW u, s.next \in Nat, u.next = s.next,
         u.remote = s.remote, u.rnext = s.rnext, u.buffered = s.buffered
  PROVE  Later(c, s, u)
BY DEF Later, HeldIn

LEMMA FrameAcks ==
  ASSUME NEW c, NEW s, NEW u, u.remote = s.remote, u.rnext = s.rnext, u.buffered = s.buffered
  PROVE  \A x : AckIn(c, s, x) => AckIn(c, u, x)
BY Zenon DEF AckIn, HeldIn

LEMMA FrameBuffer ==
  ASSUME NEW s, NEW u, u.remote = s.remote, u.rnext = s.rnext, u.buffered = s.buffered, u.pending = s.pending, Buffer(s)
  PROVE  Buffer(u)
BY Zenon DEF Buffer

LEMMA FrameJoined ==
  ASSUME NEW c, NEW s, NEW u, NEW t, u.remote = s.remote, u.rnext = s.rnext, u.buffered = s.buffered,
         u.next = s.next, u.flight = s.flight, Joined(c, s, t)
  PROVE  Joined(c, u, t)
BY Zenon DEF Joined

\* handleDatagram's first packet binds the channel.
LEMMA BindKeeps ==
  ASSUME ConstantsOK, NEW c \in Sides, NEW s, NEW rd, NEW t, Good(c, s, rd, t),
         NEW sid \in {Peer(c)} \cup StaleIds, s.remote \in {Unbound, sid}, s.up,
         t.next \in Nat
  PROVE  LET u == [s EXCEPT !.remote = sid]
         IN  Good(c, u, rd, t) /\ Later(c, s, u) /\ u.remote = sid /\ u.rest = s.rest
<1> DEFINE u == [s EXCEPT !.remote = sid]
<1>1. /\ DOMAIN u = Fields /\ u.remote = sid /\ u.up = s.up /\ u.next = s.next /\ u.turn = s.turn /\ u.flight = s.flight
      /\ u.rnext = s.rnext /\ u.buffered = s.buffered /\ u.pending = s.pending /\ u.rest = s.rest /\ u.inbound = s.inbound
  BY ZenonT(40) DEF Good, Shape, Fields
<1> HIDE DEF u
<1>2. sid # Unbound
  BY Zenon DEF ConstantsOK, Sides, Peer, Unbound
<1>3. CASE s.remote = Unbound
  <2>1. s.rnext = 0 /\ s.buffered = {} /\ s.pending = <<>> /\ Len(s.pending) = 0
    BY <1>3, Zenon DEF Good, Buffer
  <2>2. Len(rd) = 0 /\ Len(s.inbound) = 0 /\ Len(s.rest) = 0
    <3>1. Len(rd) \in Nat /\ Len(s.inbound) \in Nat /\ Len(s.rest) \in Nat
      BY DEF Good, Shape, Ordered
    <3>2. Len(rd) + Len(s.inbound) + Len(s.rest) = 0
      BY <2>1, ZenonT(40) DEF Good, Ordered, Out
    <3>3. \A x \in Nat, y \in Nat, z \in Nat : x + y + z = 0 => x = 0 /\ y = 0 /\ z = 0
      OBVIOUS
    <3>4. QED BY <3>1, <3>2, <3>3, ZenonT(40)
  <2>3. Shape(u) /\ Ordered(u, rd) /\ Buffer(u)
    BY <1>1, <1>2, <2>1, <2>2 DEF Good, Shape, Ordered, Buffer
  <2>4. Joined(c, u, t)
    BY <1>1, <1>3, <2>1 DEF Good, Joined, Shape
  <2>5. \A i \in 1 .. Len(u.pending) : AckIn(c, u, u.pending[i])
    BY <1>1, <2>1
  <2>6. Later(c, s, u)
    BY <1>1, <1>3, <2>1 DEF Later, HeldIn, Good, Shape, Peer, Unbound
  <2>7. QED BY <1>1, <2>3, <2>4, <2>5, <2>6, Zenon DEF Good, u
<1>4. CASE s.remote = sid
  <2>1. Shape(u) /\ Ordered(u, rd) /\ Buffer(u) /\ Joined(c, u, t)
    BY <1>1, <1>4, ZenonT(40) DEF Good, Shape, Ordered, Buffer, Joined
  <2>2. \A i \in 1 .. Len(u.pending) : AckIn(c, u, u.pending[i])
    BY <1>1, <1>4, Zenon DEF Good, AckIn, HeldIn
  <2>3. Later(c, s, u)
    BY <1>1, <1>4 DEF Later, HeldIn, Good, Shape
  <2>4. QED BY <1>1, <2>1, <2>2, <2>3, Zenon DEF Good, u
<1>5. QED BY <1>3, <1>4, Zenon

\* Sender.Ack, with IDs the peer may acknowledge.
LEMMA AckKeeps ==
  ASSUME NEW c \in Sides, NEW s, NEW rd, NEW t, Good(c, s, rd, t), NEW ids, s.remote # Unbound,
         s.remote = Peer(c) => \A i \in DOMAIN ids : ids[i] \in Int /\ AckIn(Peer(c), t, ids[i])
  PROVE  /\ Good(c, Ack(s, ids), rd, t) /\ Later(c, s, Ack(s, ids))
         /\ Ack(s, ids).remote = s.remote /\ Ack(s, ids).rest = s.rest
<1> DEFINE u == Ack(s, ids)
<1>1. /\ DOMAIN u = Fields /\ u.remote = s.remote /\ u.up = s.up /\ u.next = s.next /\ u.turn = s.turn
      /\ u.flight = s.flight \ {ids[i] : i \in DOMAIN ids}
      /\ u.rnext = s.rnext /\ u.buffered = s.buffered /\ u.pending = s.pending /\ u.rest = s.rest /\ u.inbound = s.inbound
  BY Zenon DEF Good, Shape, Fields, Ack
<1> HIDE DEF u
<1>2. Shape(u)
  BY <1>1, Zenon DEF Good, Shape
<1>3. Ordered(u, rd) /\ Buffer(u)
  BY <1>1, ZenonT(40) DEF Good, Ordered, Buffer
<1>4. Joined(c, u, t)
  <2>1. ASSUME s.remote = Peer(c), t.remote \in {c, Unbound}, NEW i \in (0 .. s.next - 1) \ u.flight
        PROVE  HeldIn(c, t, i)
    <3>1. CASE i \notin s.flight
      BY <2>1, <3>1, Zenon DEF Good, Joined
    <3>2. CASE i \in s.flight
      <4>1. PICK j \in DOMAIN ids : ids[j] = i
        BY <1>1, <2>1, <3>2, Zenon
      <4>2. AckIn(Peer(c), t, i) /\ Peer(Peer(c)) = c
        BY <4>1, <2>1, Zenon DEF Peer, Sides
      <4>3. QED BY <4>2, <2>1, Zenon DEF AckIn
    <3>3. QED BY <3>1, <3>2, Zenon
  <2>2. QED BY <1>1, <2>1, Zenon DEF Good, Joined
<1>5. \A i \in 1 .. Len(u.pending) : AckIn(c, u, u.pending[i])
  BY <1>1, Zenon DEF Good, AckIn, HeldIn
<1>6. Later(c, s, u)
  BY <1>1 DEF Later, HeldIn, Good, Shape
<1>7. QED BY <1>1, <1>2, <1>3, <1>4, <1>5, <1>6, Zenon DEF Good, u

\* Receiver.Receive, with a message of the session the channel is bound to.
LEMMA ReceiveKeeps ==
  ASSUME ConstantsOK, NEW c \in Sides, NEW s, NEW rd, NEW t, Good(c, s, rd, t), s.rest = <<>>,
         s.remote # Unbound, NEW id \in Nat, t.next \in Nat, s.remote = Peer(c) => id < t.next
  PROVE  LET u == Receive(s, Payload(s.remote, id))
         IN  Good(c, u, rd, t) /\ Later(c, s, u) /\ u.remote = s.remote
<1> DEFINE p == Payload(s.remote, id)
           new == [s EXCEPT !.pending = Append(@, p.id), !.buffered = @ \cup {p}]
           high == Caught(new, s.rnext)
           u == Receive(s, p)
<1>0. p.id = id /\ s.remote \in Sides \cup StaleIds /\ DOMAIN s = Fields /\ s.pending \in Seq(Int) /\ s.rnext \in Nat
  BY Zenon DEF Payload, Good, Joined, Peer, Sides, Shape
<1>1. /\ DOMAIN new = Fields /\ new.remote = s.remote /\ new.up = s.up /\ new.next = s.next /\ new.turn = s.turn
      /\ new.flight = s.flight /\ new.rnext = s.rnext /\ new.buffered = s.buffered \cup {p}
      /\ new.pending = Append(s.pending, id) /\ new.rest = s.rest /\ new.inbound = s.inbound
  BY <1>0, Zenon DEF Fields
<1>2. CASE id < s.rnext \/ \E q \in s.buffered : q.id = id
  <2>1. u = [s EXCEPT !.pending = Append(@, id)]
    BY <1>2, <1>0, Zenon DEF Receive
  <2>2. /\ DOMAIN u = Fields /\ u.remote = s.remote /\ u.up = s.up /\ u.next = s.next /\ u.turn = s.turn
        /\ u.flight = s.flight /\ u.rnext = s.rnext /\ u.buffered = s.buffered
        /\ u.pending = Append(s.pending, id) /\ u.rest = s.rest /\ u.inbound = s.inbound
    BY <2>1, <1>0, Zenon DEF Fields
  <2> HIDE DEF u, p, new, high
  <2>3. Shape(u)
    BY <2>2, <1>0 DEF Good, Shape
  <2>4. Ordered(u, rd) /\ Buffer(u) /\ Joined(c, u, t)
    BY <2>2, SMTT(40) DEF Good, Ordered, Buffer, Joined
  <2>5. Later(c, s, u)
    BY <2>2 DEF Later, HeldIn, Good, Shape
  <2>6. HeldIn(s.remote, s, id)
    BY <1>2, Zenon DEF HeldIn, Good, Buffer
  <2>7. ASSUME NEW i \in 1 .. Len(u.pending)
        PROVE  AckIn(c, u, u.pending[i])
    <3>1. CASE i \in 1 .. Len(s.pending)
      BY <3>1, <2>2, <1>0 DEF Good, AckIn, HeldIn
    <3>2. CASE i = Len(s.pending) + 1
      BY <3>2, <2>2, <2>6, <1>0 DEF AckIn, HeldIn
    <3>3. QED BY <3>1, <3>2, <2>2, <1>0
  <2>8. QED BY <2>2, <2>3, <2>4, <2>5, <2>7, Zenon DEF Good, u, p
<1>3. CASE ~(id < s.rnext \/ \E q \in s.buffered : q.id = id)
  <2>1. u = [new EXCEPT !.rnext = high, !.buffered = {q \in @ : q.id >= high}, !.rest = Run(new, s.rnext, high)]
    BY <1>3, <1>0, Zenon DEF Receive
  <2>2. /\ DOMAIN u = Fields /\ u.remote = s.remote /\ u.up = s.up /\ u.next = s.next /\ u.turn = s.turn
        /\ u.flight = s.flight /\ u.rnext = high /\ u.buffered = {q \in new.buffered : q.id >= high}
        /\ u.pending = Append(s.pending, id) /\ u.rest = Run(new, s.rnext, high) /\ u.inbound = s.inbound
    BY <2>1, <1>1, Zenon DEF Fields
  <2>3. PICK b \in Nat : \A q \in new.buffered : q.id < b /\ q.id >= s.rnext
    <3>1. PICK a \in Nat : \A q \in s.buffered : q.id < a /\ q.id >= s.rnext /\ q.id \in Nat
      BY ZenonT(40) DEF Good, Buffer
    <3>2. \A q \in new.buffered : q.id < a + id + 1 /\ q.id >= s.rnext
      BY <3>1, <1>0, <1>1, <1>3
    <3>3. a + id + 1 \in Nat
      OBVIOUS
    <3>4. QED BY <3>2, <3>3, Zenon
  <2>4. \A q \in new.buffered : q.id \in Nat /\ q = Payload(s.remote, q.id)
    BY <1>0, <1>1, Zenon DEF Good, Buffer
  <2> DEFINE held == {q.id : q \in new.buffered}
  <2>5. high \in Nat /\ high >= s.rnext /\ high \notin held /\ s.rnext .. high - 1 \subseteq held
    BY <2>3, <2>4, <1>0, CaughtIs, ZenonT(40)
  <2> HIDE DEF u, new, high, p
  <2>6. /\ u.rest \in Seq(Messages)
        /\ Len(u.rest) = Out(high) - Out(s.rnext)
        /\ \A i \in 1 .. Len(u.rest) : u.rest[i] = Payload(s.remote, Out(s.rnext) + i)
    <3>1. \A x \in s.rnext .. high - 1 : \E q \in new.buffered : q.id = x
      BY <2>5, Zenon
    <3>2. s.remote \in Sides \cup StaleIds /\ s.rnext \in Nat /\ high \in Nat /\ high >= s.rnext
      BY <1>0, <2>5, Zenon
    <3> HIDE DEF held
    <3>3. u.rest = [i \in 1 .. Out(high) - Out(s.rnext) |-> Payload(s.remote, Out(s.rnext) + i)]
      <4>1. PICK sid \in Sides \cup StaleIds : sid = s.remote
        BY <3>2, Zenon
      <4>2. PICK from \in Nat : from = s.rnext
        BY <3>2, Zenon
      <4>3. PICK r : r = new
        BY Zenon
      <4>4. \A q \in r.buffered : q.id \in Nat /\ q = Payload(sid, q.id)
        BY <4>1, <4>3, <2>4, Zenon
      <4>5. PICK to \in Nat : to = high
        BY <3>2, Zenon
      <4>6. to >= from /\ \A x \in from .. to - 1 : \E q \in r.buffered : q.id = x
        BY <3>1, <3>2, <4>2, <4>3, <4>5, Zenon
      <4>7. Run(r, from, to) = [i \in 1 .. Out(to) - Out(from) |-> Payload(sid, Out(from) + i)]
        <5>1. Holds(r, sid, from, to)
          BY <4>4, <4>6, Zenon DEF Holds
        <5>2. QED BY <5>1, RunIs, SMTT(40)
      <4>8. u.rest = Run(r, from, to)
        BY <4>2, <4>3, <4>5, <2>2, Zenon
      <4>9. QED BY <4>1, <4>2, <4>5, <4>7, <4>8, Zenon
    <3>4. Out(high) - Out(s.rnext) \in Nat /\ Out(s.rnext) \in Nat
      BY <3>2 DEF Out
    <3>5. ASSUME NEW i \in 1 .. Out(high) - Out(s.rnext)
          PROVE  Payload(s.remote, Out(s.rnext) + i) \in Messages
      BY <3>2, <3>4 DEF Payload, Messages
    <3>6. QED BY <3>3, <3>4, <3>5
  <2>7. Shape(u)
    BY <2>2, <2>5, <2>6, <1>0 DEF Good, Shape
  <2>8. Ordered(u, rd)
    <3>1. Len(s.rest) = 0 /\ Len(rd) \in Nat /\ Len(s.inbound) \in Nat
      BY DEF Good, Shape, Ordered
    <3>2. Len(rd) + Len(s.inbound) = Out(s.rnext)
      BY <3>1 DEF Good, Ordered
    <3>3. Len(u.rest) \in Nat /\ Len(rd) + Len(s.inbound) + Len(u.rest) = Out(u.rnext)
      BY <3>1, <3>2, <2>2, <2>5, <2>6, <1>0, SMTT(40) DEF Out
    <3>4. \A i \in 1 .. Len(u.rest) : u.rest[i] = Payload(u.remote, Len(rd) + Len(u.inbound) + i)
      BY <3>2, <2>2, <2>6, Zenon
    <3>5. QED BY <3>3, <3>4, <2>2, ZenonT(40) DEF Good, Ordered
  <2>9. Buffer(u)
    <3>1. \A q \in u.buffered : q.id < b
      BY <2>2, <2>3, Zenon
    <3>2. QED BY <3>1, <2>2, <2>4, Zenon DEF Buffer
  <2>10. ASSUME s.remote = Peer(c)
         PROVE  u.rnext <= t.next /\ \A q \in u.buffered : q.id < t.next
    <3>1. s.rnext <= t.next /\ \A q \in s.buffered : q.id < t.next
      BY <2>10, Zenon DEF Good, Joined
    <3>2. \A q \in new.buffered : q.id < t.next
      BY <3>1, <1>0, <1>1, <2>10, Zenon
    <3>3. \A x \in held : x < t.next
      BY <3>2, Zenon
    <3>4. high <= t.next
      <4>1. CASE high = s.rnext
        BY <4>1, <3>1, Zenon
      <4>2. CASE high # s.rnext
        <5>1. high - 1 \in s.rnext .. high - 1
          BY <4>2, <2>5, <1>0
        <5>2. high - 1 < t.next
          BY <5>1, <2>5, <3>3, Zenon
        <5>3. QED BY <5>2, <2>5
      <4>3. QED BY <4>1, <4>2, Zenon
    <3>5. QED BY <3>2, <3>4, <2>2, Zenon
  <2>11. Joined(c, u, t)
    BY <2>2, <2>10, Zenon DEF Good, Joined
  <2>12. ASSUME NEW x \in Int, x < s.rnext \/ Payload(s.remote, x) \in new.buffered
         PROVE  x < u.rnext \/ Payload(s.remote, x) \in u.buffered
    <3>1. CASE x < s.rnext
      BY <3>1, <2>2, <2>5, <1>0
    <3>2. CASE Payload(s.remote, x) \in new.buffered
      <4>1. Payload(s.remote, x).id = x
        BY Zenon DEF Payload
      <4>2. QED BY <3>2, <4>1, <2>2, <2>5
    <3>3. QED BY <2>12, <3>1, <3>2, Zenon
  <2>13. Later(c, s, u)
    BY <2>2, <2>12, <1>1, SMTT(40) DEF Later, HeldIn, Good, Shape
  <2>14. ASSUME NEW i \in 1 .. Len(u.pending)
         PROVE  AckIn(c, u, u.pending[i])
    <3>1. CASE i \in 1 .. Len(s.pending)
      <4>1. u.pending[i] = s.pending[i] /\ s.pending[i] \in Int /\ AckIn(c, s, s.pending[i])
        BY <3>1, <2>2, <1>0, SMTT(40) DEF Good
      <4>2. QED BY <4>1, <2>2, <2>13, Zenon DEF AckIn, Later
    <3>2. CASE i = Len(s.pending) + 1
      <4>1. u.pending[i] = id
        BY <3>2, <2>2, <1>0
      <4>2. Payload(s.remote, id) \in new.buffered
        BY <1>1, Zenon DEF p
      <4>3. QED BY <4>1, <4>2, <2>2, <2>12 DEF AckIn, HeldIn
    <3>3. QED BY <3>1, <3>2, <2>2, <1>0
  <2>15. QED BY <2>2, <2>7, <2>8, <2>9, <2>11, <2>13, <2>14, Zenon DEF Good, u, p
<1>4. QED BY <1>2, <1>3, Zenon

-----------------------------------------------------------------------------
(* Both ends together                                                      *)

LEMMA Sides2 ==
  ASSUME NEW c \in Sides
  PROVE  Peer(c) \in Sides /\ Peer(c) # c /\ Peer(Peer(c)) = c /\ c # Unbound /\ \A d \in Sides : d = c \/ d = Peer(c)
BY Zenon DEF Sides, Peer, Unbound

LEMMA AckStays ==
  ASSUME NEW c, NEW s, NEW u, Later(c, s, u), NEW x \in Int, AckIn(c, s, x)
  PROVE  AckIn(c, u, x)
BY Zenon DEF Later, AckIn

LEMMA LaterTrans ==
  ASSUME NEW c, NEW s, NEW u, NEW w, Later(c, s, u), Later(c, u, w), s.next \in Nat, u.next \in Nat, w.next \in Nat
  PROVE  Later(c, s, w)
BY DEF Later

\* One end moves on, with packets of its own.
LEMMA UpdateKeeps ==
  ASSUME IInv, NEW c \in Sides, NEW u, Good(c, u, read'[c], ch[Peer(c)]), Later(c, ch[c], u),
         DOMAIN ch' = Sides, ch'[c] = u, ch'[Peer(c)] = ch[Peer(c)],
         DOMAIN read' = Sides, read'[Peer(c)] = read[Peer(c)],
         DOMAIN wrote' = Sides, wrote'[Peer(c)] = wrote[Peer(c)],
         wrote'[c] \in Seq(Messages), Len(wrote'[c]) = u.next - 1,
         \A i \in 1 .. Len(wrote'[c]) : wrote'[c][i] = Payload(c, i),
         \A p \in net' : p \in net \/ (p.id \in Nat \cup {PACKV1} /\ PacketFrom(c, u, p))
  PROVE  IInv'
<1> DEFINE d == Peer(c)
<1>1. d \in Sides /\ d # c /\ Peer(d) = c /\ \A e \in Sides : e = c \/ e = d
  BY Sides2, Zenon
<1> HIDE DEF d
<1>2. Good(d, ch[d], read[d], ch[c]) /\ Written(d)
  BY <1>1, Zenon DEF IInv
<1>3. u.next \in Nat /\ ch[c].next \in Nat /\ ch[d].rnext \in Nat /\ \A p \in ch[d].buffered : p.id \in Nat
  BY <1>1, Zenon DEF IInv, Good, Shape, Buffer
<1>4. Joined(d, ch[d], u)
  <2>1. Joined(d, ch[d], ch[c])
    BY <1>2, Zenon DEF Good
  <2>2. ASSUME ch[d].remote = c
        PROVE  ch[d].rnext <= u.next /\ \A p \in ch[d].buffered : p.id < u.next
    <3>1. ch[d].rnext <= ch[c].next /\ \A p \in ch[d].buffered : p.id < ch[c].next
      BY <1>1, <2>1, <2>2, Zenon DEF Joined
    <3>2. QED BY <3>1, <1>3 DEF Later
  <2>3. ASSUME ch[d].remote \in {c, Unbound}, u.remote \in {d, Unbound},
               NEW i \in (0 .. ch[d].next - 1) \ ch[d].flight
        PROVE  HeldIn(d, u, i)
    <3>1. ch[c].remote \in {d, Unbound}
      BY <2>3, Zenon DEF Later
    <3>2. HeldIn(d, ch[c], i)
      BY <1>1, <2>1, <2>3, <3>1, Zenon DEF Joined
    <3>3. i \in Int
      OBVIOUS
    <3>4. QED BY <3>2, <3>3, Zenon DEF Later, d
  <2>4. QED BY <1>1, <2>1, <2>2, <2>3, Zenon DEF Joined
<1>5. Good(d, ch[d], read[d], u)
  BY <1>2, <1>4, Zenon DEF Good
<1>6. Good(c, ch'[c], read'[c], ch'[d]) /\ Good(d, ch'[d], read'[d], ch'[c])
  BY <1>5, Zenon DEF d
<1>7. Written(c)' /\ Written(d)'
  <2>1. Written(c)'
    BY Zenon DEF Written
  <2>2. Written(d)'
    BY <1>2, Zenon DEF Written, d
  <2>3. QED BY <2>1, <2>2, Zenon
<1>8. ASSUME NEW p \in net'
      PROVE  PacketOK(p)'
  <2>1. CASE p.id \in Nat \cup {PACKV1} /\ PacketFrom(c, u, p)
    BY <2>1, Zenon DEF PacketOK
  <2>2. CASE p \in net
    <3>1. PacketOK(p)
      BY <2>2, Zenon DEF IInv
    <3>2. CASE p.to \in Sides /\ p.sid \in StaleIds
      BY <3>1, <3>2, Zenon DEF PacketOK
    <3>3. CASE PacketFrom(d, ch[d], p)
      BY <1>1, <3>1, <3>3, Zenon DEF PacketOK, d
    <3>4. CASE PacketFrom(c, ch[c], p)
      <4>1. p.id < u.next /\ \A i \in DOMAIN p.acks : p.acks[i] \in Int /\ AckIn(c, u, p.acks[i])
        <5>1. p.id < ch[c].next /\ u.next >= ch[c].next /\ p.id \in Int
          BY <3>1, <3>4 DEF PacketFrom, Later, PacketOK, PACKV1
        <5>2. QED BY <5>1, <3>4, <1>3, AckStays DEF PacketFrom
      <4>2. PacketFrom(c, u, p)
        BY <3>4, <4>1, Zenon DEF PacketFrom
      <4>3. QED BY <3>1, <4>2, Zenon DEF PacketOK
    <3>5. QED BY <1>1, <3>1, <3>2, <3>3, <3>4, Zenon DEF PacketOK
  <2>3. QED BY <2>1, <2>2, Zenon
<1>9. ASSUME NEW e \in Sides
      PROVE  Good(e, ch'[e], read'[e], ch'[Peer(e)]) /\ Written(e)'
  <2>1. CASE e = c
    BY <2>1, <1>6, <1>7, Zenon DEF d
  <2>2. CASE e = d
    BY <2>2, <1>1, <1>6, <1>7, Zenon
  <2>3. QED BY <1>1, <2>1, <2>2, Zenon
<1>10. QED BY <1>8, <1>9, Zenon DEF IInv

\* transmit: the ACKs it packs are of messages that are held.
LEMMA TransmitKeeps ==
  ASSUME ConstantsOK, IInv, NEW c \in Sides, NEW s, DOMAIN s = Fields, NEW due, due \subseteq 0 .. s.next - 1,
         NEW g, Good(c, g, read[c], ch[Peer(c)]), Later(c, ch[c], g),
         g.remote = s.remote, g.up = s.up, g.next = s.next, g.turn = s.turn, g.flight = s.flight \cup due,
         g.rnext = s.rnext, g.buffered = s.buffered, g.pending = s.pending, g.rest = s.rest, g.inbound = s.inbound,
         NEW base, \A p \in base : p \in net \/ (p.id \in Nat \cup {PACKV1} /\ PacketFrom(c, g, p)),
         Transmit(c, s, due, base), read' = read,
         DOMAIN wrote' = Sides, wrote'[Peer(c)] = wrote[Peer(c)],
         wrote'[c] \in Seq(Messages), Len(wrote'[c]) = s.next - 1,
         \A i \in 1 .. Len(wrote'[c]) : wrote'[c][i] = Payload(c, i)
  PROVE  IInv'
<1> DEFINE n == IF s.remote = Unbound THEN 0 ELSE IF MaxACK < Len(s.pending) THEN MaxACK ELSE Len(s.pending)
           acks == SubSeq(s.pending, 1, n)
           u == [s EXCEPT !.flight = @ \cup due, !.pending = SubSeq(@, n + 1, Len(@))]
<1>1. /\ g.remote = s.remote /\ g.up = s.up /\ g.next = s.next /\ g.turn = s.turn /\ g.flight = s.flight \cup due
      /\ g.rnext = s.rnext /\ g.buffered = s.buffered /\ g.pending = s.pending /\ g.rest = s.rest /\ g.inbound = s.inbound
  BY Zenon
<1>2. s.pending \in Seq(Int) /\ Len(s.pending) \in Nat /\ s.next \in Nat
  BY <1>1 DEF Good, Shape
<1>3. n \in Nat /\ n <= Len(s.pending)
  BY <1>2, SMTT(40) DEF ConstantsOK
<1>4. ch' = [ch EXCEPT ![c] = u] /\ net' = base \cup Packets(c, due, acks)
  BY Zenon DEF Transmit
<1> HIDE DEF n
<1>5. /\ DOMAIN u = Fields /\ u.remote = g.remote /\ u.up = g.up /\ u.next = g.next /\ u.turn = g.turn /\ u.flight = g.flight
      /\ u.rnext = g.rnext /\ u.buffered = g.buffered /\ u.rest = g.rest /\ u.inbound = g.inbound
      /\ u.pending = SubSeq(s.pending, n + 1, Len(s.pending))
  BY <1>1, ZenonT(40) DEF Fields
<1> HIDE DEF u
<1>6. /\ u.pending \in Seq(Int) /\ Len(u.pending) = Len(s.pending) - n
      /\ \A i \in 1 .. Len(u.pending) : u.pending[i] = s.pending[n + i] /\ n + i \in 1 .. Len(s.pending)
  <2>2. PICK q \in Seq(Int) : q = s.pending
    BY <1>2, Zenon
  <2>3. PICK m \in Nat : m = n + 1
    BY <1>3
  <2>4. 1 <= m /\ m <= Len(q) + 1 /\ Len(q) \in Nat
    BY <1>3, <2>2, <2>3
  <2>5. SubSeq(q, m, Len(q)) \in Seq(Int)
    BY <2>4
  <2>6. Len(SubSeq(q, m, Len(q))) = Len(q) - m + 1
    BY <2>4
  <2>7. \A i \in 1 .. Len(q) - m + 1 : SubSeq(q, m, Len(q))[i] = q[m + i - 1]
    BY <2>4
  <2>8. u.pending = SubSeq(q, m, Len(q))
    BY <1>5, <2>2, <2>3, Zenon
  <2>9. PICK l \in Nat : l = Len(q)
    BY <2>4, Zenon
  <2>10. n \in Nat /\ n <= l /\ l - m + 1 = l - n
    BY <1>3, <2>2, <2>3, <2>9
  <2>11. ASSUME NEW i \in 1 .. l - n
         PROVE  u.pending[i] = s.pending[n + i] /\ n + i \in 1 .. Len(s.pending)
    <3>1. PICK k \in Nat : k = n
      BY <2>10, Zenon
    <3>2. k \in Nat /\ l \in Nat /\ k <= l /\ i \in 1 .. l - k /\ m = k + 1
      BY <2>3, <2>10, <3>1, Zenon
    <3>3. i \in Int /\ 1 <= i /\ i <= l - k
      BY <3>2
    <3>4. m + i - 1 = k + i
      BY <3>2, <3>3
    <3>5. 1 <= k + i /\ k + i <= l /\ k + i \in Int
      BY <3>2, <3>3
    <3>6. i <= l - m + 1 /\ l - m + 1 \in Int
      BY <3>2, <3>3
    <3>7. m + i - 1 = n + i /\ n + i \in 1 .. l /\ i \in 1 .. l - m + 1
      BY <3>1, <3>2, <3>3, <3>4, <3>5, <3>6, SMTT(40)
    <3>8. QED BY <2>2, <2>7, <2>8, <2>9, <3>7, Zenon
  <2>12. QED BY <2>2, <2>5, <2>6, <2>8, <2>9, <2>10, <2>11, ZenonT(40)
<1>7. /\ acks \in Seq(Int) /\ Len(acks) = n
      /\ \A i \in 1 .. n : acks[i] = s.pending[i] /\ i \in 1 .. Len(s.pending)
  BY <1>2, <1>3, SMTT(40)
<1> HIDE DEF acks
<1>8. \A i \in 1 .. Len(s.pending) : s.pending[i] \in Int /\ AckIn(c, u, s.pending[i])
  <2>1. \A i \in 1 .. Len(s.pending) : s.pending[i] \in Int
    BY <1>2
  <2>2. \A i \in 1 .. Len(s.pending) : AckIn(c, g, s.pending[i])
    BY <1>1, Zenon DEF Good
  <2>3. \A x : AckIn(c, g, x) => AckIn(c, u, x)
    BY <1>5, FrameAcks, Zenon
  <2>4. QED BY <2>1, <2>2, <2>3, Zenon
<1>9. Good(c, u, read[c], ch[Peer(c)])
  <2>1. Shape(u)
    <3>1. Shape(g)
      BY Zenon DEF Good
    <3>2. QED BY <1>5, <1>6, <3>1, ZenonT(40) DEF Shape
  <2>2. Ordered(u, read[c]) /\ Joined(c, u, ch[Peer(c)])
    BY <1>5, ZenonT(40) DEF Good, Ordered, Joined
  <2>3. Buffer(u)
    <3>1. s.remote = Unbound => u.pending = <<>>
      <4>1. s.remote = Unbound => s.pending = <<>>
        BY <1>1, Zenon DEF Good, Buffer
      <4>2. s.remote = Unbound => Len(u.pending) = 0
        BY <1>2, <1>3, <1>6, <4>1, SMTT(40)
      <4>3. QED BY <4>2, <1>6, SMTT(40)
    <3>2. QED BY <1>1, <1>5, <3>1, Zenon DEF Good, Buffer
  <2>4. \A i \in 1 .. Len(u.pending) : AckIn(c, u, u.pending[i])
    BY <1>6, <1>8, ZenonT(40)
  <2>5. QED BY <1>5, <2>1, <2>2, <2>3, <2>4, ZenonT(40) DEF Good
<1>10. Later(c, ch[c], u)
  BY <1>5, Zenon DEF Later, HeldIn
<1>11. ASSUME NEW p \in net'
       PROVE  p \in net \/ (p.id \in Nat \cup {PACKV1} /\ PacketFrom(c, u, p))
  <2>1. CASE p \in base
    <3>1. CASE p \in net
      BY <3>1, Zenon
    <3>2. CASE p.id \in Nat \cup {PACKV1} /\ PacketFrom(c, g, p)
      BY <3>2, <1>5, Zenon DEF PacketFrom, AckIn, HeldIn
    <3>3. QED BY <2>1, <3>1, <3>2, Zenon
  <2>2. CASE p \in Packets(c, due, acks)
    <3>1. /\ p.to = Peer(c) /\ p.sid = c /\ p.id \in due \cup {PACKV1} /\ p.acks \in {acks, <<>>}
      BY <2>2, SMTT(40) DEF Packets
    <3>2. p.id \in Nat \cup {PACKV1} /\ p.id < u.next
      <4>1. u.next = s.next /\ 1 <= s.next
        BY <1>1, <1>5, Zenon DEF Good, Shape
      <4>2. \A i \in 0 .. s.next - 1 : i \in Nat /\ i < s.next
        BY <1>2
      <4>3. CASE p.id \in due
        BY <4>1, <4>2, <4>3, Zenon
      <4>4. CASE p.id = PACKV1
        <5>1. PACKV1 < s.next
          BY <1>2, <4>1 DEF PACKV1
        <5>2. QED BY <4>1, <4>4, <5>1, Zenon
      <4>5. QED BY <3>1, <4>3, <4>4, Zenon
    <3>3. \A i \in DOMAIN p.acks : p.acks[i] \in Int /\ AckIn(c, u, p.acks[i])
      <4>1. CASE p.acks = acks
        BY <4>1, <1>7, <1>8, SMTT(40)
      <4>2. CASE p.acks = <<>>
        BY <4>2, SMTT(40)
      <4>3. QED BY <3>1, <4>1, <4>2, Zenon
    <3>4. QED BY <3>1, <3>2, <3>3, Zenon DEF PacketFrom
  <2>3. QED BY <1>4, <2>1, <2>2, Zenon
<1>12. /\ DOMAIN ch' = Sides /\ ch'[c] = u /\ ch'[Peer(c)] = ch[Peer(c)]
       /\ DOMAIN read' = Sides /\ read'[c] = read[c] /\ read'[Peer(c)] = read[Peer(c)] /\ u.next = s.next
  BY <1>1, <1>4, <1>5, Sides2, Zenon DEF IInv
<1>13. QED BY <1>9, <1>10, <1>11, <1>12, UpdateKeeps, Zenon

-----------------------------------------------------------------------------
(* One step per action                                                     *)

LEMMA PacketStays ==
  ASSUME NEW c, NEW s, NEW u, Later(c, s, u), s.next \in Nat, u.next \in Nat,
         NEW p, p.id \in Nat \cup {PACKV1}, PacketFrom(c, s, p)
  PROVE  PacketFrom(c, u, p)
<1>1. p.id < u.next
  BY DEF PacketFrom, Later, PACKV1
<1>2. \A i \in DOMAIN p.acks : p.acks[i] \in Int /\ AckIn(c, u, p.acks[i])
  BY AckStays, Zenon DEF PacketFrom
<1>3. QED BY <1>1, <1>2, Zenon DEF PacketFrom

\* The pump hands over what a datagram released, or transmits.
LEMMA ResumeKeeps ==
  ASSUME ConstantsOK, IInv, NEW c \in Sides, NEW s, Good(c, s, read[c], ch[Peer(c)]), Later(c, ch[c], s),
         s.next = ch[c].next, NEW base,
         \A p \in base : p \in net \/ (p.id \in Nat \cup {PACKV1} /\ PacketFrom(c, s, p)),
         Resume(c, s, base), UNCHANGED <<wrote, read>>
  PROVE  IInv'
<1>1. /\ DOMAIN wrote' = Sides /\ wrote'[Peer(c)] = wrote[Peer(c)]
      /\ wrote'[c] \in Seq(Messages) /\ Len(wrote'[c]) = s.next - 1
      /\ \A i \in 1 .. Len(wrote'[c]) : wrote'[c][i] = Payload(c, i)
  BY Zenon DEF IInv, Written
<1>2. CASE s.rest = <<>>
  <2>1. DOMAIN s = Fields
    BY Zenon DEF Good, Shape
  <2>2. s.flight = s.flight \cup {} /\ {} \subseteq 0 .. s.next - 1
    BY Zenon
  <2>3. Transmit(c, s, {}, base)
    BY <1>2, Zenon DEF Resume
  <2>4. QED BY <1>1, <2>1, <2>2, <2>3, TransmitKeeps, Zenon
<1>3. CASE s.rest # <<>>
  <2>1. ch' = [ch EXCEPT ![c] = s] /\ net' = base
    BY <1>3, Zenon DEF Resume
  <2>2. /\ DOMAIN ch' = Sides /\ ch'[c] = s /\ ch'[Peer(c)] = ch[Peer(c)]
        /\ DOMAIN read' = Sides /\ read'[c] = read[c] /\ read'[Peer(c)] = read[Peer(c)]
    BY <2>1, Sides2, Zenon DEF IInv
  <2>3. QED BY <1>1, <2>1, <2>2, UpdateKeeps, Zenon
<1>4. QED BY <1>2, <1>3, Zenon

\* handleDatagram.
LEMMA HandleKeeps ==
  ASSUME ConstantsOK, IInv, NEW c \in Sides, NEW s, Good(c, s, read[c], ch[Peer(c)]), Later(c, ch[c], s),
         s.next = ch[c].next, s.rest = <<>>, NEW p \in net, p.to = c, s.remote = p.sid,
         NEW base, \A q \in base : q \in net \/ (q.id \in Nat \cup {PACKV1} /\ PacketFrom(c, s, q)),
         Handle(c, s, p, base), UNCHANGED <<wrote, read>>
  PROVE  IInv'
<1> DEFINE t == ch[Peer(c)]
           a == Ack(s, p.acks)
           u == IF p.id = PACKV1 THEN a ELSE Receive(a, Payload(p.sid, p.id))
<1>1. p.id \in Nat \cup {PACKV1} /\ (p.sid \in StaleIds \/ PacketFrom(Peer(c), t, p))
  <2>1. PacketOK(p)
    BY Zenon DEF IInv
  <2>2. ASSUME NEW d \in Sides, PacketFrom(d, ch[d], p)
        PROVE  d = Peer(c)
    BY <2>2, Zenon DEF PacketFrom, Peer, Sides
  <2>3. QED BY <2>1, <2>2, Zenon DEF PacketOK
<1>2. s.remote # Unbound /\ s.next \in Nat /\ t.next \in Nat
  <2>1. p.sid # Unbound
    BY <1>1, Sides2, Zenon DEF ConstantsOK, PacketFrom
  <2>2. QED BY <2>1, Sides2, ZenonT(40) DEF IInv, Good, Shape
<1>3. s.remote = Peer(c) => PacketFrom(Peer(c), t, p)
  BY <1>1, Sides2, SMTT(40) DEF ConstantsOK
<1>4. Good(c, a, read[c], t) /\ Later(c, s, a) /\ a.remote = s.remote /\ a.rest = <<>>
  <2>1. s.remote = Peer(c) => \A i \in DOMAIN p.acks : p.acks[i] \in Int /\ AckIn(Peer(c), t, p.acks[i])
    BY <1>3, Zenon DEF PacketFrom
  <2>2. QED BY <1>2, <2>1, AckKeeps
<1>5. a.next = s.next
  BY Zenon DEF Ack, Good, Shape, Fields
<1> HIDE DEF a
<1>6. Good(c, u, read[c], t) /\ Later(c, a, u) /\ u.next = a.next
  <2>1. CASE p.id = PACKV1
    <3>1. u = a
      BY <2>1, Zenon
    <3>2. Later(c, a, a)
      BY <1>2, <1>5, Zenon DEF Later
    <3>3. QED BY <1>4, <3>1, <3>2, Zenon
  <2>2. CASE p.id # PACKV1
    <3>1. p.id \in Nat /\ (a.remote = Peer(c) => p.id < t.next) /\ a.remote = p.sid
      BY <1>1, <1>3, <1>4, <2>2, Zenon DEF PacketFrom
    <3>2. PICK id \in Nat : id = p.id
      BY <3>1, Zenon
    <3>3. u = Receive(a, Payload(a.remote, id))
      BY <2>2, <3>1, <3>2, Zenon
    <3>4. Good(c, u, read[c], t) /\ Later(c, a, u)
      <4>1. a.rest = <<>> /\ a.remote # Unbound /\ t.next \in Nat /\ (a.remote = Peer(c) => id < t.next)
        BY <1>2, <1>4, <3>1, <3>2, Zenon
      <4>2. PICK rd, v : rd = read[c] /\ v = t
        BY Zenon
      <4>3. Good(c, a, rd, v) /\ v.next \in Nat /\ (a.remote = Peer(c) => id < v.next)
        BY <1>4, <4>1, <4>2, Zenon
      <4>4. Good(c, Receive(a, Payload(a.remote, id)), rd, v) /\ Later(c, a, Receive(a, Payload(a.remote, id)))
        BY <4>1, <4>3, ReceiveKeeps, Zenon
      <4>5. QED BY <3>3, <4>2, <4>4, Zenon
    <3>5. u.next = a.next
      <4>1. DOMAIN a = Fields
        BY <1>4, Zenon DEF Good, Shape
      <4>2. QED BY <3>3, <4>1, Zenon DEF Receive, Fields
    <3>6. QED BY <3>4, <3>5, Zenon
  <2>3. QED BY <2>1, <2>2, Zenon
<1>7. Resume(c, u, base)
  BY Zenon DEF Handle, a
<1> HIDE DEF u
<1>8. Later(c, s, u) /\ Later(c, ch[c], u) /\ u.next = ch[c].next /\ u.next \in Nat
  <2>1. Later(c, s, u)
    BY <1>2, <1>4, <1>5, <1>6, LaterTrans, Zenon
  <2>2. QED BY <1>2, <1>5, <1>6, <2>1, LaterTrans, Zenon
<1>9. \A q \in base : q \in net \/ (q.id \in Nat \cup {PACKV1} /\ PacketFrom(c, u, q))
  BY <1>2, <1>8, PacketStays, Zenon
<1>10. QED BY <1>6, <1>7, <1>8, <1>9, ResumeKeeps, Zenon

LEMMA DatagramKeeps ==
  ASSUME ConstantsOK, IInv, NEW p \in net, NEW base, base \subseteq net, Datagram(p, base)
  PROVE  IInv'
<1> DEFINE c == p.to
           s == [ch[c] EXCEPT !.remote = p.sid]
<1>1. PacketOK(p)
  BY Zenon DEF IInv
<1>2. c \in Sides /\ p.sid \in {Peer(c)} \cup StaleIds
  BY <1>1, Zenon DEF PacketOK, PacketFrom, Sides, Peer
<1>3. /\ ch[c].up /\ ch[c].rest = <<>> /\ ch[c].remote \in {Unbound, p.sid}
      /\ Handle(c, s, p, base) /\ UNCHANGED <<wrote, read>>
  BY Zenon DEF Datagram, Selecting
<1>4. Good(c, ch[c], read[c], ch[Peer(c)]) /\ ch[Peer(c)].next \in Nat
  BY <1>2, Sides2, ZenonT(40) DEF IInv, Good, Shape
<1>5. s.next = ch[c].next
  BY <1>4, Zenon DEF Good, Shape, Fields
<1> HIDE DEF c
<1>6. Good(c, s, read[c], ch[Peer(c)]) /\ Later(c, ch[c], s) /\ s.remote = p.sid /\ s.rest = <<>>
  <2>1. PICK sid \in {Peer(c)} \cup StaleIds : sid = p.sid
    BY <1>2, Zenon
  <2>2. PICK e : e = ch[c]
    BY Zenon
  <2>3. LET u == [e EXCEPT !.remote = sid]
        IN  Good(c, u, read[c], ch[Peer(c)]) /\ Later(c, e, u) /\ u.remote = sid /\ u.rest = e.rest
    <3>1. e.remote \in {Unbound, sid} /\ e.up /\ c \in Sides /\ Good(c, e, read[c], ch[Peer(c)])
      BY <1>2, <1>3, <1>4, <2>1, <2>2, Zenon
    <3>2. QED BY <1>4, <2>1, <3>1, BindKeeps
  <2>4. QED BY <1>3, <2>1, <2>2, <2>3, Zenon
<1> HIDE DEF s
<1>7. QED BY <1>2, <1>3, <1>5, <1>6, HandleKeeps, Zenon DEF c

LEMMA AcceptKeeps ==
  ASSUME ConstantsOK, IInv, NEW p \in net, NEW base, base \subseteq net, Accept(p, base)
  PROVE  IInv'
<1> DEFINE c == "server"
           s == [NewChannel EXCEPT !.remote = p.sid]
           all == base \cup Packets(c, {0}, <<>>)
<1>1. c \in Sides /\ p.to = c /\ ~ch[c].up /\ Handle(c, s, p, all) /\ UNCHANGED <<wrote, read>>
  BY Zenon DEF Accept, Sides
<1>2. PacketOK(p)
  BY Zenon DEF IInv
<1>3. p.sid \in {Peer(c)} \cup StaleIds
  BY <1>1, <1>2, Zenon DEF PacketOK, PacketFrom, Sides, Peer
<1>4. Good(c, ch[c], read[c], ch[Peer(c)]) /\ ch[Peer(c)].next \in Nat
  BY <1>1, Sides2, Zenon DEF IInv, Good, Shape
<1>5. ch[c].next = 1 /\ ch[c].remote = Unbound /\ ch[c].rnext = 0
  BY <1>1, <1>4, Zenon DEF Good, Buffer
<1>6. read[c] = <<>>
  <2>1. Len(read[c]) \in Nat /\ Len(ch[c].inbound) \in Nat /\ Len(ch[c].rest) \in Nat
    BY <1>4, SMTT(40) DEF Good, Shape, Ordered
  <2>2. Len(read[c]) + Len(ch[c].inbound) + Len(ch[c].rest) = 0
    BY <1>4, <1>5, ZenonT(40) DEF Good, Ordered, Out
  <2>3. Len(read[c]) = 0
    <3>1. \A x, y, z \in Nat : x + y + z = 0 => x = 0
      OBVIOUS
    <3>2. QED BY <2>1, <2>2, <3>1, ZenonT(40)
  <2>4. QED BY <2>3, <1>4 DEF Good, Ordered
<1>7. /\ DOMAIN s = Fields /\ s.up = TRUE /\ s.remote = p.sid /\ s.next = 1 /\ s.flight = {0} /\ s.rnext = 0
      /\ s.buffered = {} /\ s.pending = <<>> /\ s.rest = <<>> /\ s.inbound = <<>> /\ s.turn = 1
  BY Zenon DEF NewChannel, Fields
<1> HIDE DEF c, s
<1>8. p.sid # Unbound
  BY <1>1, <1>3, Sides2, Zenon DEF ConstantsOK
<1>9. Good(c, s, read[c], ch[Peer(c)])
  <2>1. Shape(s)
    BY <1>7 DEF Shape
  <2>2. Ordered(s, read[c])
    BY <1>6, <1>7 DEF Ordered, Out
  <2>3. Buffer(s)
    BY <1>7, Zenon DEF Buffer
  <2>4. Joined(c, s, ch[Peer(c)])
    BY <1>3, <1>4, <1>7 DEF Joined
  <2>5. QED BY <1>7, <2>1, <2>2, <2>3, <2>4 DEF Good
<1>10. Later(c, ch[c], s)
  BY <1>1, <1>5, <1>7, Sides2 DEF Later, HeldIn
<1>11. \A q \in all : q \in net \/ (q.id \in Nat \cup {PACKV1} /\ PacketFrom(c, s, q))
  <2>1. ASSUME NEW q \in Packets(c, {0}, <<>>)
        PROVE  q.id \in Nat \cup {PACKV1} /\ PacketFrom(c, s, q)
    <3>1. q.to = Peer(c) /\ q.sid = c /\ q.id = 0 /\ q.acks = <<>>
      BY <2>1, SMTT(40) DEF Packets
    <3>2. QED BY <3>1, <1>7 DEF PacketFrom
  <2>2. QED BY <2>1, Zenon
<1> HIDE DEF all
<1>12. QED BY <1>1, <1>5, <1>7, <1>9, <1>10, <1>11, HandleKeeps, Zenon

LEMMA TimerKeeps ==
  ASSUME ConstantsOK, IInv, NEW c \in Sides, NEW i \in ch[c].flight, Timer(c, i)
  PROVE  IInv'
<1>1. Good(c, ch[c], read[c], ch[Peer(c)]) /\ Written(c)
  BY Zenon DEF IInv
<1>2. PICK s : s = ch[c]
  BY Zenon
<1>3. DOMAIN s = Fields /\ s.flight = s.flight \cup {i} /\ {i} \subseteq 0 .. s.next - 1 /\ Later(c, ch[c], s)
  BY <1>1, <1>2 DEF Good, Shape, Later
<1>4. Transmit(c, s, {i}, net) /\ read' = read /\ wrote' = wrote
  BY <1>2, Zenon DEF Timer
<1>5. /\ DOMAIN wrote' = Sides /\ wrote'[Peer(c)] = wrote[Peer(c)]
      /\ wrote'[c] \in Seq(Messages) /\ Len(wrote'[c]) = s.next - 1
      /\ \A j \in 1 .. Len(wrote'[c]) : wrote'[c][j] = Payload(c, j)
  BY <1>1, <1>2, <1>4, Zenon DEF IInv, Written
<1>6. Good(c, s, read[c], ch[Peer(c)])
  BY <1>1, <1>2, Zenon
<1>7. QED BY <1>3, <1>4, <1>5, <1>6, TransmitKeeps, Zenon

LEMMA PushKeeps ==
  ASSUME ConstantsOK, IInv, NEW c \in Sides, Push(c)
  PROVE  IInv'
<1> DEFINE s == ch[c]
           u == [s EXCEPT !.inbound = Append(@, Head(s.rest)), !.rest = Tail(@)]
<1>1. Good(c, s, read[c], ch[Peer(c)])
  BY Zenon DEF IInv
<1>2. s.rest # <<>> /\ Resume(c, u, net) /\ UNCHANGED <<wrote, read>>
  BY Zenon DEF Push
<1>3. s.rest \in Seq(Messages) /\ s.inbound \in Seq(Messages) /\ read[c] \in Seq(Messages) /\ DOMAIN s = Fields
  BY <1>1, Zenon DEF Good, Shape, Ordered
<1>4. /\ DOMAIN u = Fields /\ u.remote = s.remote /\ u.up = s.up /\ u.next = s.next /\ u.turn = s.turn /\ u.flight = s.flight
      /\ u.rnext = s.rnext /\ u.buffered = s.buffered /\ u.pending = s.pending
      /\ u.inbound = Append(s.inbound, Head(s.rest)) /\ u.rest = Tail(s.rest)
  BY <1>3, Zenon DEF Fields
<1> HIDE DEF s, u
<1>5. PICK r \in Seq(Messages), b \in Seq(Messages), l \in Nat : r = s.rest /\ b = s.inbound /\ l = Len(read[c])
  BY <1>3
<1>6. /\ r # <<>> /\ Len(r) \in Nat /\ Len(r) >= 1 /\ Len(b) \in Nat
      /\ Append(b, Head(r)) \in Seq(Messages) /\ Len(Append(b, Head(r))) = Len(b) + 1
      /\ Tail(r) \in Seq(Messages) /\ Len(Tail(r)) = Len(r) - 1
      /\ \A i \in 1 .. Len(b) : Append(b, Head(r))[i] = b[i]
      /\ Append(b, Head(r))[Len(b) + 1] = r[1]
      /\ \A i \in 1 .. Len(r) - 1 : Tail(r)[i] = r[i + 1]
  BY <1>2, <1>5
<1>7. /\ \A i \in 1 .. Len(b) : b[i] = Payload(s.remote, l + i)
      /\ \A i \in 1 .. Len(r) : r[i] = Payload(s.remote, l + Len(b) + i)
      /\ l + Len(b) + Len(r) = Out(s.rnext)
  BY <1>1, <1>5, ZenonT(40) DEF Good, Ordered
<1>8. Ordered(u, read[c])
  <2>1. ASSUME NEW i \in 1 .. Len(b) + 1
        PROVE  Append(b, Head(r))[i] = Payload(s.remote, l + i)
    <3>1. CASE i = Len(b) + 1
      <4>1. l + Len(b) + 1 = l + i /\ 1 \in 1 .. Len(r)
        BY <3>1, <1>6
      <4>2. r[1] = Payload(s.remote, l + i)
        BY <1>7, <4>1, Zenon
      <4>3. QED BY <3>1, <4>2, <1>6, Zenon
    <3>2. CASE i \in 1 .. Len(b)
      BY <3>2, <1>6, <1>7, ZenonT(40)
    <3>3. QED BY <3>1, <3>2, <1>6
  <2>2. ASSUME NEW i \in 1 .. Len(r) - 1
        PROVE  Tail(r)[i] = Payload(s.remote, l + (Len(b) + 1) + i)
    <3>1. i + 1 \in 1 .. Len(r) /\ l + Len(b) + (i + 1) = l + (Len(b) + 1) + i
      BY <1>6
    <3>2. QED BY <3>1, <1>6, <1>7, Zenon
  <2>3. l + (Len(b) + 1) + (Len(r) - 1) = Out(s.rnext)
    BY <1>6, <1>7
  <2>4. read[c] \in Seq(Messages) /\ \A i \in 1 .. Len(read[c]) : read[c][i] = Payload(u.remote, i)
    BY <1>1, <1>4, Zenon DEF Good, Ordered
  <2>5. \A i \in 1 .. Len(u.inbound) : u.inbound[i] = Payload(u.remote, Len(read[c]) + i)
    BY <1>4, <1>5, <1>6, <2>1, Zenon
  <2>6. \A i \in 1 .. Len(u.rest) : u.rest[i] = Payload(u.remote, Len(read[c]) + Len(u.inbound) + i)
    <3>1. Len(read[c]) + Len(u.inbound) = l + (Len(b) + 1) /\ Len(u.rest) = Len(r) - 1 /\ u.rest = Tail(r)
      BY <1>4, <1>5, <1>6, Zenon
    <3>2. QED BY <1>4, <2>2, <3>1, ZenonT(40)
  <2>7. Len(read[c]) + Len(u.inbound) + Len(u.rest) = Out(u.rnext)
    BY <1>4, <1>5, <1>6, <2>3, ZenonT(40)
  <2>8. QED BY <2>4, <2>5, <2>6, <2>7, ZenonT(40) DEF Ordered
<1>9. Good(c, u, read[c], ch[Peer(c)])
  <2>1. Shape(u)
    BY <1>1, <1>4, <1>5, <1>6, Zenon DEF Good, Shape
  <2>2. Buffer(u) /\ Joined(c, u, ch[Peer(c)])
    BY <1>1, <1>4, FrameBuffer, FrameJoined, ZenonT(40) DEF Good
  <2>3. \A i \in 1 .. Len(u.pending) : AckIn(c, u, u.pending[i])
    <3>1. \A x : AckIn(c, s, x) => AckIn(c, u, x)
      BY <1>4, FrameAcks, Zenon
    <3>2. QED BY <1>1, <1>4, <3>1, ZenonT(40) DEF Good
  <2>4. QED BY <1>1, <1>4, <1>8, <2>1, <2>2, <2>3, Zenon DEF Good
<1>10. Later(c, ch[c], u) /\ u.next = ch[c].next
  <2>1. s.next \in Nat
    BY <1>1, Zenon DEF Good, Shape
  <2>2. Later(c, s, u) /\ u.next = s.next
    BY <1>4, <2>1, FrameLater, Zenon
  <2>3. QED BY <2>2, Zenon DEF s
<1>11. QED BY <1>2, <1>9, <1>10, ResumeKeeps, Zenon

LEMMA WriteKeeps ==
  ASSUME ConstantsOK, IInv, NEW c \in Sides, Write(c)
  PROVE  IInv'
<1> DEFINE o == ch[c]
           s == [o EXCEPT !.next = @ + 1, !.turn = @ + 1]
           g == [s EXCEPT !.flight = @ \cup {o.next}]
           t == ch[Peer(c)]
<1>1. Good(c, o, read[c], t) /\ Written(c)
  BY Zenon DEF IInv
<1>2. /\ o.up /\ Transmit(c, s, {o.next}, net) /\ read' = read
      /\ wrote' = [wrote EXCEPT ![c] = Append(@, Payload(c, o.next))]
  BY Zenon DEF Write, Selecting
<1>3. DOMAIN o = Fields /\ o.next \in Nat /\ 1 <= o.next /\ o.flight \subseteq 0 .. o.next - 1
  BY <1>1, Zenon DEF Good, Shape
<1>4. /\ DOMAIN s = Fields /\ s.remote = o.remote /\ s.up = o.up /\ s.next = o.next + 1 /\ s.turn = o.turn + 1
      /\ s.flight = o.flight /\ s.rnext = o.rnext /\ s.buffered = o.buffered /\ s.pending = o.pending
      /\ s.inbound = o.inbound /\ s.rest = o.rest
  BY <1>3, Zenon DEF Fields
<1> HIDE DEF o, s
<1>5. /\ DOMAIN g = Fields /\ g.remote = s.remote /\ g.up = s.up /\ g.next = s.next /\ g.turn = s.turn
      /\ g.flight = s.flight \cup {o.next} /\ g.rnext = s.rnext /\ g.buffered = s.buffered /\ g.pending = s.pending
      /\ g.inbound = s.inbound /\ g.rest = s.rest
  BY <1>4, Zenon DEF Fields
<1> HIDE DEF g
<1>6. Good(c, g, read[c], t)
  <2>1. Shape(g)
    BY <1>1, <1>3, <1>4, <1>5, SMTT(40) DEF Good, Shape
  <2>2. Ordered(g, read[c]) /\ Buffer(g) /\ \A i \in 1 .. Len(g.pending) : AckIn(c, g, g.pending[i])
    <3>1. /\ g.remote = o.remote /\ g.rnext = o.rnext /\ g.buffered = o.buffered /\ g.pending = o.pending
          /\ g.inbound = o.inbound /\ g.rest = o.rest
      BY <1>4, <1>5, Zenon
    <3>2. Ordered(g, read[c])
      BY <1>1, <3>1, ZenonT(40) DEF Good, Ordered
    <3>3. Buffer(g)
      BY <1>1, <3>1, Zenon DEF Good, Buffer
    <3>4. \A i \in 1 .. Len(g.pending) : AckIn(c, g, g.pending[i])
      BY <1>1, <3>1, Zenon DEF Good, AckIn, HeldIn
    <3>5. QED BY <3>2, <3>3, <3>4, Zenon
  <2>3. Joined(c, g, t)
    <3>1. \A i \in (0 .. g.next - 1) \ g.flight : i \in (0 .. o.next - 1) \ o.flight
      BY <1>3, <1>4, <1>5, SMTT(40)
    <3>2. QED BY <1>1, <1>4, <1>5, <3>1, Zenon DEF Good, Joined
  <2>4. QED BY <1>2, <1>4, <1>5, <2>1, <2>2, <2>3, ZenonT(40) DEF Good
<1>7. Later(c, o, g)
  <2>1. g.next >= o.next /\ g.remote = o.remote /\ g.rnext = o.rnext /\ g.buffered = o.buffered
    BY <1>3, <1>4, <1>5
  <2>2. QED BY <2>1, ZenonT(40) DEF Later, HeldIn
<1>8. /\ DOMAIN wrote' = Sides /\ wrote'[Peer(c)] = wrote[Peer(c)] /\ wrote'[c] = Append(wrote[c], Payload(c, o.next))
  BY <1>2, Sides2, Zenon DEF IInv
<1>9. /\ wrote'[c] \in Seq(Messages) /\ Len(wrote'[c]) = s.next - 1
      /\ \A j \in 1 .. Len(wrote'[c]) : wrote'[c][j] = Payload(c, j)
  <2>1. PICK w \in Seq(Messages) : w = wrote[c]
    BY <1>1, Zenon DEF Written
  <2>2. PICK m \in Messages : m = Payload(c, o.next)
    BY <1>3, ZenonT(40) DEF Messages, Payload
  <2>3. Len(w) = o.next - 1 /\ \A j \in 1 .. Len(w) : w[j] = Payload(c, j)
    BY <1>1, <2>1, Zenon DEF Written, o
  <2>4. /\ wrote'[c] = Append(w, m) /\ Append(w, m) \in Seq(Messages) /\ Len(Append(w, m)) = Len(w) + 1 /\ Len(w) \in Nat
        /\ \A j \in 1 .. Len(w) : Append(w, m)[j] = w[j]
        /\ Append(w, m)[Len(w) + 1] = m
    BY <1>8, <2>1, <2>2
  <2>5. Len(wrote'[c]) = o.next /\ s.next - 1 = o.next /\ Len(w) + 1 = o.next
    BY <1>3, <1>4, <2>3, <2>4
  <2>6. ASSUME NEW j \in 1 .. Len(wrote'[c])
        PROVE  wrote'[c][j] = Payload(c, j)
    <3>1. j \in 1 .. Len(w) \/ j = Len(w) + 1
      BY <2>4, <2>5
    <3>2. QED BY <2>2, <2>3, <2>4, <2>5, <3>1, Zenon
  <2>7. QED BY <2>4, <2>5, <2>6, Zenon
<1>10. {o.next} \subseteq 0 .. s.next - 1 /\ \A p \in net : p \in net \/ (p.id \in Nat \cup {PACKV1} /\ PacketFrom(c, g, p))
  BY <1>3, <1>4
<1>11. Later(c, ch[c], g)
  BY <1>7, Zenon DEF o
<1>12. QED BY <1>2, <1>4, <1>5, <1>6, <1>8, <1>9, <1>10, <1>11, TransmitKeeps, ZenonT(40)

LEMMA ReadKeeps ==
  ASSUME IInv, NEW c \in Sides, Read(c)
  PROVE  IInv'
<1> DEFINE s == ch[c]
           u == [s EXCEPT !.inbound = Tail(@), !.turn = @ + 1]
           t == ch[Peer(c)]
<1>1. Good(c, s, read[c], t) /\ Written(c)
  BY Zenon DEF IInv
<1>2. s.rest \in Seq(Messages) /\ s.inbound \in Seq(Messages) /\ read[c] \in Seq(Messages) /\ DOMAIN s = Fields
  BY <1>1, Zenon DEF Good, Shape, Ordered
<1>3. s.inbound # <<>> /\ read' = [read EXCEPT ![c] = Append(@, Head(s.inbound))] /\ net' = net /\ wrote' = wrote
  BY Zenon DEF Read
<1>4. /\ DOMAIN ch' = Sides /\ ch'[c] = u /\ ch'[Peer(c)] = t
      /\ DOMAIN read' = Sides /\ read'[c] = Append(read[c], Head(s.inbound)) /\ read'[Peer(c)] = read[Peer(c)]
  BY <1>2, <1>3, Sides2, Zenon DEF Read, IInv, Fields
<1>5. /\ DOMAIN u = Fields /\ u.remote = s.remote /\ u.up = s.up /\ u.next = s.next /\ u.turn = s.turn + 1
      /\ u.flight = s.flight /\ u.rnext = s.rnext /\ u.buffered = s.buffered /\ u.pending = s.pending
      /\ u.inbound = Tail(s.inbound) /\ u.rest = s.rest
  BY <1>2, Zenon DEF Fields
<1> HIDE DEF s, u
<1>6. PICK r \in Seq(Messages), b \in Seq(Messages), n \in Nat : r = read[c] /\ b = s.inbound /\ n = Len(s.rest)
  BY <1>2
<1>7. /\ b # <<>> /\ Len(b) \in Nat /\ Len(b) >= 1 /\ Len(r) \in Nat
      /\ Append(r, Head(b)) \in Seq(Messages) /\ Len(Append(r, Head(b))) = Len(r) + 1
      /\ Tail(b) \in Seq(Messages) /\ Len(Tail(b)) = Len(b) - 1
      /\ \A i \in 1 .. Len(r) : Append(r, Head(b))[i] = r[i]
      /\ Append(r, Head(b))[Len(r) + 1] = b[1]
      /\ \A i \in 1 .. Len(b) - 1 : Tail(b)[i] = b[i + 1]
  BY <1>3, <1>6
<1>8. /\ \A i \in 1 .. Len(r) : r[i] = Payload(s.remote, i)
      /\ \A i \in 1 .. Len(b) : b[i] = Payload(s.remote, Len(r) + i)
      /\ \A i \in 1 .. n : s.rest[i] = Payload(s.remote, Len(r) + Len(b) + i)
      /\ Len(r) + Len(b) + n = Out(s.rnext)
  BY <1>1, <1>6, ZenonT(40) DEF Good, Ordered
<1>9. Ordered(u, Append(r, Head(b)))
  <2>1. ASSUME NEW i \in 1 .. Len(r) + 1
        PROVE  Append(r, Head(b))[i] = Payload(s.remote, i)
    <3>1. CASE i = Len(r) + 1
      <4>1. b[1] = Payload(s.remote, Len(r) + 1)
        BY <1>7, <1>8
      <4>2. QED BY <3>1, <4>1, <1>7, Zenon
    <3>2. CASE i \in 1 .. Len(r)
      BY <3>2, <1>7, <1>8, Zenon
    <3>3. QED BY <3>1, <3>2, <1>7
  <2>2. ASSUME NEW i \in 1 .. Len(b) - 1
        PROVE  Tail(b)[i] = Payload(s.remote, (Len(r) + 1) + i)
    <3>1. i + 1 \in 1 .. Len(b) /\ Len(r) + (i + 1) = (Len(r) + 1) + i
      BY <1>7
    <3>2. QED BY <3>1, <1>7, <1>8, Zenon
  <2>3. (Len(r) + 1) + (Len(b) - 1) = Len(r) + Len(b)
    BY <1>7
  <2>4. \A i \in 1 .. Len(Append(r, Head(b))) : Append(r, Head(b))[i] = Payload(u.remote, i)
    BY <1>5, <1>7, <2>1, Zenon
  <2>5. \A i \in 1 .. Len(u.inbound) : u.inbound[i] = Payload(u.remote, Len(Append(r, Head(b))) + i)
    BY <1>5, <1>6, <1>7, <2>2, Zenon
  <2>6. Len(Append(r, Head(b))) + Len(u.inbound) = Len(r) + Len(b)
    BY <1>5, <1>6, <1>7, <2>3, ZenonT(40)
  <2>7. \A i \in 1 .. Len(u.rest) : u.rest[i] = Payload(u.remote, Len(Append(r, Head(b))) + Len(u.inbound) + i)
    BY <1>5, <1>6, <1>8, <2>6, ZenonT(40)
  <2>8. Len(Append(r, Head(b))) + Len(u.inbound) + Len(u.rest) = Out(u.rnext)
    BY <1>5, <1>6, <1>8, <2>6, ZenonT(40)
  <2>9. QED BY <1>7, <2>4, <2>5, <2>7, <2>8, ZenonT(40) DEF Ordered
<1>10. Good(c, u, read'[c], ch[Peer(c)])
  <2>1. Shape(u)
    BY <1>1, <1>5, <1>6, <1>7, SMTT(40) DEF Good, Shape
  <2>2. Buffer(u) /\ Joined(c, u, t)
    BY <1>1, <1>5, FrameBuffer, FrameJoined, ZenonT(40) DEF Good
  <2>4. \A i \in 1 .. Len(u.pending) : AckIn(c, u, u.pending[i])
    <3>1. \A x : AckIn(c, s, x) => AckIn(c, u, x)
      BY <1>5, FrameAcks, Zenon
    <3>2. QED BY <1>1, <1>5, <3>1, ZenonT(40) DEF Good
  <2>5. Ordered(u, read'[c])
    BY <1>4, <1>6, <1>9, Zenon
  <2>6. QED BY <1>1, <1>5, <2>1, <2>2, <2>4, <2>5, Zenon DEF Good
<1>11. Later(c, ch[c], u) /\ u.next = ch[c].next
  <2>1. s.next \in Nat
    BY <1>1, Zenon DEF Good, Shape
  <2>2. Later(c, s, u) /\ u.next = s.next
    BY <1>5, <2>1, FrameLater, Zenon
  <2>3. QED BY <2>2, Zenon DEF s
<1>12. /\ DOMAIN wrote' = Sides /\ wrote'[Peer(c)] = wrote[Peer(c)]
       /\ wrote'[c] \in Seq(Messages) /\ Len(wrote'[c]) = u.next - 1
       /\ \A i \in 1 .. Len(wrote'[c]) : wrote'[c][i] = Payload(c, i)
  BY <1>1, <1>3, <1>11, Zenon DEF IInv, Written
<1>13. QED BY <1>3, <1>4, <1>10, <1>11, <1>12, UpdateKeeps, Zenon

LEMMA CloseKeeps ==
  ASSUME IInv, NEW c \in Sides, Close(c)
  PROVE  IInv'
<1> DEFINE s == ch[c]
           u == [s EXCEPT !.closed = TRUE]
           t == ch[Peer(c)]
<1>1. Good(c, s, read[c], t) /\ Written(c) /\ DOMAIN s = Fields
  BY Zenon DEF IInv, Good, Shape
<1>2. net' = net /\ wrote' = wrote /\ read' = read
  BY Zenon DEF Close
<1>3. /\ DOMAIN ch' = Sides /\ ch'[c] = u /\ ch'[Peer(c)] = t
      /\ DOMAIN read' = Sides /\ read'[c] = read[c] /\ read'[Peer(c)] = read[Peer(c)]
  BY <1>1, <1>2, Sides2, Zenon DEF Close, IInv, Fields
<1>4. /\ DOMAIN u = Fields /\ u.remote = s.remote /\ u.up = s.up /\ u.next = s.next /\ u.turn = s.turn
      /\ u.flight = s.flight /\ u.rnext = s.rnext /\ u.buffered = s.buffered /\ u.pending = s.pending
      /\ u.inbound = s.inbound /\ u.rest = s.rest
  BY <1>1, Zenon DEF Fields
<1> HIDE DEF s, u
<1>5. Good(c, u, read[c], t)
  <2>1. Shape(u)
    BY <1>1, <1>4, Zenon DEF Good, Shape
  <2>2. Ordered(u, read[c])
    BY <1>1, <1>4, ZenonT(40) DEF Good, Ordered
  <2>3. Buffer(u) /\ Joined(c, u, t)
    BY <1>1, <1>4, FrameBuffer, FrameJoined, ZenonT(40) DEF Good
  <2>5. \A i \in 1 .. Len(u.pending) : AckIn(c, u, u.pending[i])
    <3>1. \A x : AckIn(c, s, x) => AckIn(c, u, x)
      BY <1>4, FrameAcks, Zenon
    <3>2. QED BY <1>1, <1>4, <3>1, ZenonT(40) DEF Good
  <2>6. QED BY <1>1, <1>4, <2>1, <2>2, <2>3, <2>5, ZenonT(40) DEF Good
<1>6. Later(c, ch[c], u) /\ u.next = ch[c].next
  <2>1. s.next \in Nat
    BY <1>1, Zenon DEF Good, Shape
  <2>2. Later(c, s, u) /\ u.next = s.next
    BY <1>4, <2>1, FrameLater, Zenon
  <2>3. QED BY <2>2, Zenon DEF s
<1>7. /\ DOMAIN wrote' = Sides /\ wrote'[Peer(c)] = wrote[Peer(c)]
      /\ wrote'[c] \in Seq(Messages) /\ Len(wrote'[c]) = u.next - 1
      /\ \A i \in 1 .. Len(wrote'[c]) : wrote'[c][i] = Payload(c, i)
  BY <1>1, <1>2, <1>6, Zenon DEF IInv, Written
<1>8. QED BY <1>2, <1>3, <1>5, <1>6, <1>7, UpdateKeeps, Zenon

LEMMA LoseKeeps ==
  ASSUME IInv, NEW p \in net, Lose(p)
  PROVE  IInv'
BY Zenon DEF Lose, IInv, PacketOK, Written

LEMMA StutterKeeps == IInv /\ UNCHANGED vars => IInv'
BY Zenon DEF vars, IInv, PacketOK, Written

LEMMA InitHolds == ASSUME ConstantsOK, Init PROVE IInv
<1>1. ASSUME NEW c \in Sides
      PROVE  Good(c, ch[c], read[c], ch[Peer(c)]) /\ Written(c)
  <2>1. /\ DOMAIN ch[c] = Fields /\ ch[c].up = (c = "client") /\ ch[c].remote = Unbound /\ ch[c].next = 1 /\ ch[c].flight = {0}
        /\ ch[c].rnext = 0 /\ ch[c].buffered = {} /\ ch[c].pending = <<>> /\ ch[c].rest = <<>> /\ ch[c].inbound = <<>>
        /\ ch[c].turn = 1 /\ read[c] = <<>> /\ wrote[c] = <<>>
    BY Zenon DEF Init, NewChannel, Fields
  <2>2. Shape(ch[c])
    BY <2>1 DEF Shape
  <2>3. Ordered(ch[c], read[c])
    BY <2>1 DEF Ordered, Out
  <2>4. Buffer(ch[c])
    BY <2>1, Zenon DEF Buffer
  <2>5. Joined(c, ch[c], ch[Peer(c)])
    BY <2>1, Sides2 DEF Joined
  <2>6. Written(c)
    BY <2>1 DEF Written
  <2>7. QED BY <2>1, <2>2, <2>3, <2>4, <2>5, <2>6 DEF Good
<1>2. ASSUME NEW p \in net
      PROVE  PacketOK(p)
  <2>1. CASE p \in Stale
    BY <2>1, Zenon DEF ConstantsOK, PacketOK, StaleIds
  <2>2. CASE p = [to |-> "server", sid |-> "client", id |-> 0, acks |-> <<>>]
    <3>1. "client" \in Sides /\ Peer("client") = "server"
      BY Zenon DEF Sides, Peer
    <3>2. ch["client"].next = 1
      BY <3>1, Zenon DEF Init, NewChannel
    <3>3. PacketFrom("client", ch["client"], p)
      BY <2>2, <3>1, <3>2 DEF PacketFrom
    <3>4. QED BY <2>2, <3>1, <3>3, Zenon DEF PacketOK
  <2>3. QED BY <2>1, <2>2, Zenon DEF Init
<1>3. QED BY <1>1, <1>2, ZenonT(40) DEF IInv, Init

LEMMA StepKeeps == ASSUME ConstantsOK, IInv, [Next]_vars PROVE IInv'
<1>1. ASSUME NEW p \in net, Deliver(p)
      PROVE  IInv'
  BY <1>1, AcceptKeeps, DatagramKeeps, Zenon DEF Deliver
<1>2. ASSUME NEW c \in Sides, Push(c) \/ Write(c) \/ Read(c) \/ Close(c) \/ \E i \in ch[c].flight : Timer(c, i)
      PROVE  IInv'
  BY <1>2, PushKeeps, WriteKeeps, ReadKeeps, CloseKeeps, TimerKeeps, Zenon
<1>3. QED BY <1>1, <1>2, LoseKeeps, StutterKeeps, Zenon DEF Next

\* handleDatagram, Sender.Ack and Receiver.Receive, for every window, queue and ACK
\* limit, whatever the path loses, repeats, reorders or still holds of an earlier
\* client: TLS reads one session's messages in order, and a message the sender let
\* go of is held by its peer.
THEOREM OneSessionAlways == ASSUME ConstantsOK PROVE Spec => []OneSession
<1>1. Init => IInv
  BY InitHolds, Zenon
<1>2. IInv /\ [Next]_vars => IInv'
  BY StepKeeps, Zenon
<1>3. IInv => OneSession
  <2> SUFFICES ASSUME IInv PROVE InOrder /\ AckedIsHeld
    BY Zenon DEF OneSession
  <2>1. InOrder
    <3>1. SUFFICES ASSUME NEW c \in Sides
                   PROVE  \A i \in DOMAIN read[c] : read[c][i] = Payload(ch[c].remote, i)
      BY Zenon DEF InOrder
    <3>2. read[c] \in Seq(Messages) /\ \A i \in 1 .. Len(read[c]) : read[c][i] = Payload(ch[c].remote, i)
      BY ZenonT(40) DEF IInv, Good, Ordered
    <3>3. DOMAIN read[c] = 1 .. Len(read[c])
      BY <3>2
    <3>4. QED BY <3>2, <3>3, Zenon
  <2>2. AckedIsHeld
    <3>1. SUFFICES ASSUME NEW c \in Sides, Bound(c), NEW i \in (0 .. ch[c].next - 1) \ ch[c].flight
                   PROVE  i < ch[Peer(c)].rnext \/ Payload(c, i) \in ch[Peer(c)].buffered
      BY Zenon DEF AckedIsHeld
    <3>2. Joined(c, ch[c], ch[Peer(c)])
      BY Zenon DEF IInv, Good
    <3>3. QED BY <3>1, <3>2, Zenon DEF Joined, Bound, HeldIn
  <2>3. QED BY <2>1, <2>2, Zenon
<1>4. QED BY <1>1, <1>2, <1>3, PTL DEF Spec

LEMMA StepIsStream ==
  ASSUME ConstantsOK, IInv, [Next]_vars, Undisturbed
  PROVE  StreamStep
<1>1. ASSUME NEW c \in Sides, Write(c)
      PROVE  Stream!Next
  <2>1. Good(c, ch[c], read[c], ch[Peer(c)])
    BY Zenon DEF IInv
  <2>2. ch[c].next \in 0 .. Len(Turns)
    BY <1>1, <2>1, SMTT(40) DEF Good, Shape, Write, AtTurn, ConstantsOK
  <2>3. Payload(c, ch[c].next) \in {Payload(e, i) : e \in Sides, i \in 0 .. Len(Turns)}
    BY <2>2
  <2>4. Stream!Write(c, Payload(c, ch[c].next))
    BY <1>1, Zenon DEF Write, Stream!Write
  <2>5. QED BY <2>3, <2>4, SMTT(40) DEF Stream!Next
<1>2. ASSUME NEW c \in Sides, Read(c)
      PROVE  Stream!Next
  <2> DEFINE s == ch[c]
             d == Peer(c)
  <2>1. Good(c, s, read[c], ch[d]) /\ d \in Sides /\ Written(d) /\ ch[d].next \in Nat
    BY Sides2, ZenonT(40) DEF IInv, Good, Shape
  <2>2. s.inbound # <<>> /\ s.inbound \in Seq(Messages) /\ read[c] \in Seq(Messages) /\ s.rest \in Seq(Messages) /\ s.rnext \in Nat
    BY <1>2, <2>1, Zenon DEF Read, Good, Shape, Ordered
  <2> HIDE DEF s, d
  <2>3. PICK l \in Nat, b \in Nat, r \in Nat : l = Len(read[c]) /\ b = Len(s.inbound) /\ r = Len(s.rest)
    BY <2>2
  <2>4. b >= 1 /\ l + b + r = Out(s.rnext)
    <3>1. Len(s.inbound) # 0
      BY <2>2
    <3>2. Len(read[c]) + Len(s.inbound) + Len(s.rest) = Out(s.rnext)
      BY <2>1, ZenonT(40) DEF Good, Ordered
    <3>3. b >= 1
      BY <2>3, <3>1
    <3>4. l + b + r = Out(s.rnext)
      BY <2>3, <3>2, ZenonT(40)
    <3>5. QED BY <3>3, <3>4, Zenon
  <2>5. s.rnext # 0 /\ l + 1 <= s.rnext - 1
    <3>1. \A x, y, z, w \in Nat : y >= 1 /\ x + y + z = (IF w = 0 THEN 0 ELSE w - 1) => w # 0 /\ x + 1 <= w - 1
      OBVIOUS
    <3>2. PICK w \in Nat : w = s.rnext
      BY <2>2, Zenon
    <3>3. w # 0 /\ l + 1 <= w - 1
      BY <2>3, <2>4, <3>1, <3>2, ZenonT(40) DEF Out
    <3>4. QED BY <3>2, <3>3, Zenon
  <2>6. s.remote = d
    BY <2>1, <2>5, Zenon DEF Good, Buffer, Undisturbed, s, d
  <2>7. s.rnext <= ch[d].next
    BY <2>1, <2>6, ZenonT(40) DEF Good, Joined, d
  <2>8. Len(wrote[d]) = ch[d].next - 1 /\ \A i \in 1 .. Len(wrote[d]) : wrote[d][i] = Payload(d, i)
    BY <2>1, Zenon DEF Written
  <2>9. l + 1 \in 1 .. Len(wrote[d]) /\ l < Len(wrote[d])
    BY <2>1, <2>2, <2>3, <2>5, <2>7, <2>8, SMTT(40)
  <2>10. Head(s.inbound) = wrote[d][l + 1]
    <3>1. s.inbound[1] = Payload(d, l + 1)
      BY <2>1, <2>3, <2>4, <2>6, SMTT(40) DEF Good, Ordered
    <3>2. Head(s.inbound) = s.inbound[1]
      BY <2>2
    <3>3. QED BY <2>8, <2>9, <3>1, <3>2, Zenon
  <2>11. read' = [read EXCEPT ![c] = Append(@, wrote[d][l + 1])] /\ wrote' = wrote
    BY <1>2, <2>10, ZenonT(40) DEF Read, s
  <2>12. Stream!Read(c)
    BY <2>3, <2>9, <2>11, Zenon DEF Stream!Read, d
  <2>13. QED BY <2>12, SMTT(40) DEF Stream!Next
<1>3. ASSUME NEW c \in Sides, Push(c) \/ Close(c) \/ \E i \in ch[c].flight : Timer(c, i)
      PROVE  UNCHANGED Stream!vars
  BY <1>3, ZenonT(40) DEF Push, Close, Timer, Stream!vars
<1>4. ASSUME NEW p \in net, Deliver(p) \/ Lose(p)
      PROVE  UNCHANGED Stream!vars
  BY <1>4, Zenon DEF Deliver, Accept, Datagram, Lose, Stream!vars
<1>5. CASE UNCHANGED vars
  BY <1>5, Zenon DEF vars, Stream!vars, StreamStep
<1>6. QED BY <1>1, <1>2, <1>3, <1>4, <1>5, Zenon DEF Next, StreamStep

\* control.Channel under crypto/tls, for every window, queue and ACK limit: as long as
\* no channel is bound to an earlier client, every step of the two channels is a step
\* of the ordered stream or leaves it as it is, and they start as it starts.
THEOREM ControlRefinesStream == ASSUME ConstantsOK PROVE Spec => Stream!Init /\ ControlIsStream
<1>1. Init => IInv
  BY InitHolds, Zenon
<1>2. IInv /\ [Next]_vars => IInv'
  BY StepKeeps, Zenon
<1>3. IInv /\ [Next]_vars => [Undisturbed => StreamStep]_vars
  BY StepIsStream, Zenon
<1>4. Init => Stream!Init
  BY Zenon DEF Init, Stream!Init
<1>5. QED BY <1>1, <1>2, <1>3, <1>4, PTL DEF Spec, ControlIsStream

\* Where no earlier client's packet is under way the two channels are the ordered
\* stream from beginning to end.
THEOREM ControlImplementsStream == ASSUME ConstantsOK, Stale = {} PROVE Spec => Stream!Init /\ [][StreamStep]_vars
<1>1. Init => IInv
  BY InitHolds, Zenon
<1>2. IInv /\ [Next]_vars => IInv'
  BY StepKeeps, Zenon
<1>3. IInv => Undisturbed
  BY Zenon DEF IInv, Good, Joined, StaleIds, Undisturbed
<1>4. IInv /\ [Next]_vars => [StreamStep]_vars
  BY <1>3, StepIsStream, Zenon
<1>5. Init => Stream!Init
  BY Zenon DEF Init, Stream!Init
<1>6. QED BY <1>1, <1>2, <1>4, <1>5, PTL DEF Spec
====
