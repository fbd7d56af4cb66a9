---- MODULE WgWire ----
(***************************************************************************)
(* WireGuard's datagrams and AmneziaWG's transforms of them:               *)
(* internal/wireguard/wire/wire.go and obfuscate.go, with the parameters   *)
(* amneziawg/amneziawg.go reads. A message is its kind, its size and the   *)
(* type word its mac1 was computed over; a datagram is what is left of it  *)
(* on the wire: padding in front, a type word, a length. An octet of the   *)
(* padding or of ciphertext read as a type word matches none.              *)
(***************************************************************************)
EXTENDS Integers

CONSTANTS Words,     \* type words an operator may set (H1..H4), stock ones among them
          MaxPad,    \* bound: padding (S1..S4)
          MaxSize    \* bound: transport packets' length

VARIABLES cfg,       \* ObfuscationConfig, the same at both ends
          sent,      \* the message, or "junk"
          got        \* what the receiver makes of it

vars == <<cfg, sent, got>>

Initiation == 1
Response == 2
Cookie == 3
Transport == 4
Kinds == 1 .. 4

\* The fixed sizes of the control messages, in their order; MinTransportData.
MessageSize == <<5, 4, 3>>
MinTransportData == 2
Messages == {[kind |-> k, size |-> MessageSize[k]] : k \in 1 .. 3}
            \cup {[kind |-> Transport, size |-> n] : n \in MinTransportData .. MaxSize}

Dropped == [kind |-> 0, size |-> 0, mac |-> 0]
\* A slice with a negative bound: the process panics.
Panic == [kind |-> -1, size |-> 0, mac |-> 0]

\* parseObfuscation: a value that does not parse leaves the stock one. Any word and any
\* integer is taken, the same word twice, another kind's stock word and a negative
\* padding included.
Obfuscation == [type : [Kinds -> {0} \cup Words], pad : [Kinds -> -1 .. MaxPad], junk : BOOLEAN]
Enabled(c) == c.junk \/ \E k \in Kinds : c.type[k] # 0 \/ c.pad[k] # 0

TypeFor(c, k) == IF c.type[k] # 0 THEN c.type[k] ELSE k
PadFor(c, k) == c.pad[k]

\* macOver: mac1 covers the type word that goes out.
MacOver(c, k) == IF k \in {Initiation, Response} THEN TypeFor(c, k) ELSE 0

\* Marshal and obfuscateSend, where the padding is not negative.
ObfuscateSend(c, m) ==
  IF ~Enabled(c) THEN [pad |-> 0, word |-> m.kind, len |-> m.size, mac |-> MacOver(c, m.kind)]
  ELSE [pad |-> PadFor(c, m.kind), word |-> TypeFor(c, m.kind),
        len |-> m.size + PadFor(c, m.kind), mac |-> MacOver(c, m.kind)]

\* The word a reader finds at an offset.
WordAt(d, o) == IF o = d.pad THEN d.word ELSE -1

\* junkPackets: random octets of any length.
Junk(n) == [pad |-> 0, word |-> -1, len |-> n, mac |-> 0]

\* Mutant of Control.
ControlByLength(c, d) == {k \in 1 .. 3 : d.len = PadFor(c, k) + MessageSize[k]}
\* deobfuscateRecv: a control message by its length and type word, else transport.
Control(c, d) ==
  {k \in 1 .. 3 : /\ d.len = PadFor(c, k) + MessageSize[k]
                  /\ PadFor(c, k) < 0 \/ WordAt(d, PadFor(c, k)) = TypeFor(c, k)}
DeobfuscateRecv(c, d) ==
  IF ~Enabled(c) THEN [kind |-> d.word, size |-> d.len, mac |-> d.mac]
  ELSE LET ks == Control(c, d)
           s4 == PadFor(c, Transport)
       IN  IF ks # {} THEN LET k == CHOOSE j \in ks : \A i \in ks : j <= i
                           IN  IF PadFor(c, k) < 0 THEN Panic ELSE [kind |-> k, size |-> MessageSize[k], mac |-> d.mac]
           ELSE IF d.len >= s4 + MinTransportData /\ s4 < 0 THEN Panic
           ELSE IF d.len >= s4 + MinTransportData /\ WordAt(d, s4) = TypeFor(c, Transport)
                THEN [kind |-> Transport, size |-> d.len - s4, mac |-> 0]
           ELSE Dropped

\* wire.Type and the parsers: an unknown word or a wrong length is dropped, and so is a
\* message whose mac1 was computed over another type word (CheckMAC1, Consume).
Parse(c, m) ==
  IF m.kind \notin Kinds THEN Dropped
  ELSE IF m.kind # Transport /\ (m.size # MessageSize[m.kind] \/ m.mac # MacOver(c, m.kind)) THEN Dropped
  ELSE IF m.kind = Transport /\ m.size < MinTransportData THEN Dropped
  ELSE m

Receive(c, d) == LET m == DeobfuscateRecv(c, d) IN IF m = Panic THEN Panic ELSE Parse(c, m)

Init == cfg \in Obfuscation /\ sent = Dropped /\ got = Dropped

Send(m) ==
  /\ sent' = m /\ UNCHANGED cfg
  /\ got' = IF PadFor(cfg, m.kind) < 0 THEN Panic ELSE Receive(cfg, ObfuscateSend(cfg, m))
SendJunk(n) == cfg.junk /\ sent' = Dropped /\ got' = Receive(cfg, Junk(n)) /\ UNCHANGED cfg

Next ==
  /\ got # Panic
  /\ (\E m \in Messages : Send(m)) \/ (\E n \in 1 .. MaxSize : SendJunk(n))
Spec == Init /\ [][Next]_vars

\* What parseObfuscation would have to refuse and does not: a negative padding, and a
\* control message with the type word and the padding of the transport packets, which a
\* transport packet as long as that message is then taken for.
Malformed(c) == \E k \in Kinds : c.pad[k] < 0
Mistakable(c, m) ==
  /\ m.kind = Transport
  /\ \E k \in 1 .. 3 : /\ m.size = MessageSize[k]
                       /\ TypeFor(c, k) = TypeFor(c, Transport) /\ PadFor(c, k) = PadFor(c, Transport)

\* deobfuscateRecv undoes obfuscateSend for every message of every configuration, but
\* for those two cases: a transport packet as long as a padded control message is told
\* apart from it by either the word or the place of the word, two control messages may
\* even share a word, mac1 is still valid behind the substituted type word, and junk is
\* taken for nothing.
RoundTrip == Malformed(cfg) \/ Mistakable(cfg, sent) \/ (got.kind = sent.kind /\ got.size = sent.size)
====
