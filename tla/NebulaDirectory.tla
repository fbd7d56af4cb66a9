---- MODULE NebulaDirectory ----
(***************************************************************************)
(* How two hosts of a nebula mesh find each other through a lighthouse     *)
(* (internal/nebula/lighthouse.go, and sendPacket and beginHandshake of    *)
(* host.go): reports, queries, answers, punches, and the candidate         *)
(* addresses each host keeps. The tunnels to the lighthouse are up. An     *)
(* address is an underlay address; the messages are delivered late, out of *)
(* order or, left under way, not at all.                                   *)
(***************************************************************************)
EXTENDS Integers, Sequences, SequencesExt

CONSTANTS MaxMoves,    \* bound: changes of address
          MaxReports,  \* bound: reports
          MaxPackets,  \* bound: packets sent without a tunnel
          MaxInits,    \* bound: handshakes begun
          MaxData,     \* bound: data packets
          MaxDrops,    \* bound: tunnels dropped
          Natted       \* hosts that see themselves at another address than others do

VARIABLES at,          \* where each host is
          underlay,    \* each host's and the lighthouse's candidates for each host
          tun,         \* each host's peer record of the other: whether it has one, the
                       \* handshake in flight, the tunnel
          seen,        \* the address each host's tunnel last authenticated a packet from
          net,         \* messages under way
          n            \* [moves, reports, packets, inits, data, drops]

vars == <<at, underlay, tun, seen, net, n>>

Hosts == {1, 2}
L == 3
Other(h) == 3 - h
Private == 0

\* mergeAddrs: incoming first, no duplicates.
MergeAddrs(existing, incoming) ==
  LET all == incoming \o existing
  IN  SelectSeq([k \in DOMAIN all |-> IF \E j \in 1 .. k - 1 : all[j] = all[k] THEN -1 ELSE all[k]],
                LAMBDA a : a # -1)

\* A handshake is the host that began it and a number; so is the tunnel it makes.
Id(by, i) == [by |-> by, i |-> i]
Nil == Id(0, 0)

Msg(t, who, to, from, addrs, id) == [t |-> t, who |-> who, to |-> to, from |-> from, addrs |-> addrs, id |-> id]
Set(h, p, addrs) == underlay' = [underlay EXCEPT ![h][p] = addrs]
First(from, addrs) == <<from>> \o SelectSeq(addrs, LAMBDA a : a # from)

\* sendMeta: through the tunnel, to the first candidate the sender has.
SendMeta(s, h, m) == IF underlay[s][h] = <<>> THEN {} ELSE {[m EXCEPT !.to = Head(underlay[s][h])]}
QueryLighthouses(h) == {Msg("query", h, L, at[h], <<>>, Nil)}

\* beginHandshake with the candidates addrs: nothing if the tunnel is up or the last
\* attempt is recent, else the first message of the handshake in flight, or of a new one
\* if there is none or it has timed out, to every candidate; with none, a query. rest and
\* c are the messages and the counts its caller leaves.
BeginHandshake(h, addrs, rest, c) ==
  \/ /\ Nil # tun[h].cur \/ Nil # tun[h].pend
     /\ tun' = [tun EXCEPT ![h].known = TRUE]
     /\ net' = rest /\ n' = c
  \/ \E i \in {tun[h].pend.i, c.inits + 1} \cap 1 .. MaxInits :
       /\ tun[h].cur = Nil
       /\ tun' = [tun EXCEPT ![h].known = TRUE, ![h].pend = Id(h, i)]
       /\ net' = rest \cup IF addrs = <<>> THEN QueryLighthouses(h)
                           ELSE {Msg("first", h, addrs[k], at[h], <<>>, Id(h, i)) : k \in DOMAIN addrs}
       /\ n' = [c EXCEPT !.inits = IF i > @ THEN i ELSE @]

\* maintain and reportToLighthouses: localAddrPorts is what the socket says of itself.
Report(h) ==
  /\ n.reports < MaxReports
  /\ n' = [n EXCEPT !.reports = @ + 1]
  /\ net' = net \cup {Msg("update", h, L, at[h], <<IF h \in Natted THEN Private ELSE at[h]>>, Nil)}
  /\ UNCHANGED <<at, underlay, tun, seen>>

\* recordUpdate, for the reporter's own address.
RecordUpdate(m) ==
  /\ m \in net /\ m.t = "update"
  /\ Set(L, m.who, MergeAddrs(<<m.from>>, m.addrs))
  /\ net' = net \ {m}
  /\ UNCHANGED <<at, tun, seen, n>>

\* sendPacket without a tunnel.
SendPacket(h) ==
  /\ tun[h].cur = Nil /\ n.packets < MaxPackets
  /\ BeginHandshake(h, underlay[h][Other(h)], net, [n EXCEPT !.packets = @ + 1])
  /\ UNCHANGED <<at, underlay, seen>>
\* sendPacket with one.
SendData(h) ==
  /\ tun[h].cur # Nil /\ n.data < MaxData
  /\ n' = [n EXCEPT !.data = @ + 1]
  /\ net' = net \cup {Msg("data", h, Head(underlay[h][Other(h)]), at[h], <<>>, tun[h].cur)}
  /\ UNCHANGED <<at, underlay, tun, seen>>

\* answerHostQuery: the answer to the asker, the punch to the target.
AnswerHostQuery(m) ==
  /\ m \in net /\ m.t = "query"
  /\ LET target == Other(m.who)
         addrs == underlay[L][target]
     IN  net' = (net \ {m}) \cup
                (IF addrs = <<>> THEN {}
                 ELSE SendMeta(L, m.who, Msg("answer", target, 0, L, addrs, Nil))
                      \cup SendMeta(L, target, Msg("punch", m.who, 0, L, <<m.from>>, Nil)))
  /\ UNCHANGED <<at, underlay, tun, seen, n>>

Reaches(m, h) == m \in net /\ m.to = at[h]

\* Mutant of LearnAddresses.
LearnInFront(h, m) ==
  /\ Reaches(m, h) /\ m.t = "answer" /\ m.who = Other(h)
  /\ LET addrs == MergeAddrs(underlay[h][Other(h)], m.addrs)
     IN  Set(h, Other(h), addrs) /\ BeginHandshake(h, addrs, net \ {m}, n)
  /\ UNCHANGED <<at, seen>>
\* learnAddresses: new candidates first, but behind a live tunnel's own address.
LearnAddresses(h, m) ==
  /\ Reaches(m, h) /\ m.t = "answer" /\ m.who = Other(h)
  /\ LET addrs == IF tun[h].cur # Nil THEN MergeAddrs(<<>>, underlay[h][Other(h)] \o m.addrs)
                  ELSE MergeAddrs(underlay[h][Other(h)], m.addrs)
     IN  Set(h, Other(h), addrs) /\ BeginHandshake(h, addrs, net \ {m}, n)
  /\ UNCHANGED <<at, seen>>

\* punch: an empty datagram nobody parses, and a handshake if the asker is known.
Punch(h, m) ==
  /\ Reaches(m, h) /\ m.t = "punch" /\ m.who = Other(h)
  /\ IF tun[h].known THEN BeginHandshake(h, underlay[h][Other(h)], net \ {m}, n)
     ELSE net' = net \ {m} /\ UNCHANGED <<tun, n>>
  /\ UNCHANGED <<at, underlay, seen>>

\* install and resolveCollision: the tunnel the lower address began stays, of two that
\* one host began the newer; its peer is where it came from only if it is the one kept.
Install(h, id, from) ==
  IF tun[h].cur # Nil /\ tun[h].cur.by < id.by THEN UNCHANGED <<underlay, seen>>
  ELSE Set(h, Other(h), First(from, underlay[h][Other(h)])) /\ seen' = [seen EXCEPT ![h] = from]
Kept(h, id) == IF tun[h].cur # Nil /\ tun[h].cur.by < id.by THEN tun[h].cur ELSE id

\* handleHandshake on a first message, and on the answer to the handshake in flight.
Respond(h, m) ==
  /\ Reaches(m, h) /\ m.who = Other(h) /\ m.t = "first"
  /\ Install(h, m.id, m.from)
  /\ tun' = [tun EXCEPT ![h].known = TRUE, ![h].cur = Kept(h, m.id)]
  /\ net' = (net \ {m}) \cup {Msg("second", h, m.from, at[h], <<>>, m.id)}
  /\ UNCHANGED <<at, n>>
Complete(h, m) ==
  /\ Reaches(m, h) /\ m.who = Other(h) /\ m.t = "second"
  /\ IF m.id # tun[h].pend THEN UNCHANGED <<underlay, seen, tun>>
     ELSE /\ Install(h, m.id, m.from)
          /\ tun' = [tun EXCEPT ![h].pend = Nil, ![h].cur = Kept(h, m.id)]
  /\ net' = net \ {m}
  /\ UNCHANGED <<at, n>>

\* handleMessage and noteRoam: the tunnel it names opens it, and where it came from goes
\* first.
HandleMessage(h, m) ==
  /\ Reaches(m, h) /\ m.who = Other(h) /\ m.t = "data"
  /\ IF m.id # tun[h].cur THEN UNCHANGED <<underlay, seen>>
     ELSE Set(h, Other(h), First(m.from, underlay[h][Other(h)])) /\ seen' = [seen EXCEPT ![h] = m.from]
  /\ net' = net \ {m}
  /\ UNCHANGED <<at, tun, n>>

\* The peer fell silent; a dropped tunnel keeps its candidates.
DropTunnel(h) ==
  /\ tun[h].cur # Nil /\ n.drops < MaxDrops
  /\ tun' = [tun EXCEPT ![h].cur = Nil] /\ n' = [n EXCEPT !.drops = @ + 1]
  /\ UNCHANGED <<at, underlay, seen, net>>

Move(h) ==
  /\ n.moves < MaxMoves
  /\ at' = [at EXCEPT ![h] = 20 + n.moves] /\ n' = [n EXCEPT !.moves = @ + 1]
  /\ UNCHANGED <<underlay, tun, seen, net>>

\* The lighthouse has met both hosts: it knows where their handshakes came from.
Init ==
  /\ at = <<11, 12>>
  /\ underlay = <<<<<<>>, <<>>>>, <<<<>>, <<>>>>, <<<<11>>, <<12>>>>>>
  /\ tun = [h \in Hosts |-> [known |-> FALSE, pend |-> Nil, cur |-> Nil]] /\ seen = <<0, 0>>
  /\ net = {} /\ n = [moves |-> 0, reports |-> 0, packets |-> 0, inits |-> 0, data |-> 0, drops |-> 0]

Next ==
  \/ \E h \in Hosts : Report(h) \/ SendPacket(h) \/ SendData(h) \/ DropTunnel(h) \/ Move(h)
  \/ \E m \in net : RecordUpdate(m) \/ AnswerHostQuery(m)
  \/ \E h \in Hosts, m \in net : \/ LearnAddresses(h, m) \/ Punch(h, m)
                                 \/ Respond(h, m) \/ Complete(h, m) \/ HandleMessage(h, m)

Spec == Init /\ [][Next]_vars

----
(* Properties *)

\* install, noteRoam and learnAddresses: what a live tunnel sends goes to the address
\* its peer last authenticated from; an answer that arrives late displaces nothing.
NotDisplaced == \A h \in Hosts : tun[h].cur # Nil => Head(underlay[h][Other(h)]) = seen[h]

\* recordUpdate's comment, "the address the report arrived from is worth more than the
\* ones inside it": the lighthouse reaches a host first where it observed it.
ObservedFirst == \A h \in Hosts : Head(underlay[L][h]) # Private
====
