---- MODULE NebulaTunnels ----
(***************************************************************************)
(* Two hosts of a nebula mesh (internal/nebula/host.go, handshake.go,      *)
(* tunnel.go): each opens a tunnel to the other when it has traffic, both  *)
(* may do so at once, and each keeps its own idea of which tunnel is live  *)
(* and where the other host is. A host runs three goroutines, readUDP,     *)
(* readTUN and maintain; the peer's lock and the host's are taken one      *)
(* after the other, so what one goroutine does between them the others     *)
(* see. A tunnel is named by who initiated it and the two indices, which   *)
(* fix its keys. Packets of a tunnel carry a counter its replay window     *)
(* takes once (RingReplay), so they are delivered once here.               *)
(***************************************************************************)
EXTENDS Integers, Sequences, SequencesExt

CONSTANTS MaxInits,    \* bound: handshakes one host starts
          MaxSends,    \* bound: transmissions of one first message
          MaxReplies,  \* bound: responses one host gives
          MaxMoves,    \* bound: changes of underlay address
          MaxLosses,   \* bound: datagrams dropped
          MaxData,     \* bound: data packets
          Slow,        \* a round trip may take longer than handshakeRetry
          Idle,        \* tunnels may fall silent though they work
          CloseComes   \* a peer that closes tunnels (a stock nebula) is part of the mesh

VARIABLES host,        \* what each host holds for the other (peer, byIndex, the goroutines)
          net,         \* datagrams under way
          at,          \* the hosts' underlay addresses
          n            \* [init, reply, lost, data], counts that name things and limit them

vars == <<host, net, at, n>>

Hosts == {1, 2}
Other(h) == 3 - h
NoTun == [by |-> 0, i |-> 0, r |-> 0]
Free == [phase |-> "free", t |-> NoTun, from |-> 0, loser |-> NoTun]

\* NewHost with the other host in StaticHosts.
NewHost(h) == [tun |-> NoTun, pending |-> 0, sends |-> 0, idx |-> {}, underlay |-> <<at[Other(h)]>>,
               udp |-> Free, drop |-> NoTun, heard |-> {}, probe |-> {}]

Put(h, r) == host' = [host EXCEPT ![h] = r]
Send(m) == net' = net \cup m

\* sendToPeer: the first candidate only.
ToPeer(h, body) == {[to |-> Other(h), dst |-> Head(host[h].underlay), from |-> at[h], body |-> body]}
\* beginHandshake probes every candidate.
ToAll(h, body) == {[to |-> Other(h), dst |-> host[h].underlay[k], from |-> at[h], body |-> body] :
                   k \in DOMAIN host[h].underlay}
First(i) == [t |-> "m1", i |-> i, r |-> 0, tun |-> NoTun, k |-> 0]
Second(i, r) == [t |-> "m2", i |-> i, r |-> r, tun |-> NoTun, k |-> 0]
Packet(t, tun, k) == [t |-> t, i |-> 0, r |-> 0, tun |-> tun, k |-> k]

\* filterOut, and the address put in front.
Confirmed(s, a) == <<a>> \o SelectSeq(s, LAMBDA x : x # a)

----
(* readTUN *)

\* Mutant of Overdue.
NeverOverdue(h) == Slow
\* handshakeRetry is long against a round trip: the answer is not under way any more,
\* unless the path is slow (Slow).
Overdue(h) ==
  \/ Slow
  \/ /\ host[1].udp = Free /\ host[2].udp = Free
     /\ ~ \E m \in net : m.body.t \in {"m1", "m2"} /\ m.body.i = host[h].pending

\* beginHandshake: a fresh attempt, the same message again, or after handshakeTimeout a new one.
BeginHandshake(h) ==
  /\ host[h].tun = NoTun
  /\ \/ /\ host[h].pending # 0 /\ host[h].sends < MaxSends /\ Overdue(h)
        /\ Put(h, [host[h] EXCEPT !.sends = @ + 1])
        /\ Send(ToAll(h, First(host[h].pending)))
        /\ UNCHANGED <<at, n>>
     \/ /\ n.init[h] < MaxInits /\ (host[h].pending = 0 \/ Overdue(h))
        /\ LET i == 2 * n.init[h] + h
           IN  /\ n' = [n EXCEPT !.init[h] = @ + 1]
               /\ Put(h, [host[h] EXCEPT !.pending = i, !.sends = 1])
               /\ Send(ToAll(h, First(i)))
        /\ UNCHANGED at

\* sendPacket on a tunnel that is up.
SendPacket(h) ==
  /\ host[h].tun # NoTun /\ n.data < MaxData
  /\ n' = [n EXCEPT !.data = @ + 1]
  /\ Send(ToPeer(h, Packet("data", host[h].tun, n.data)))
  /\ UNCHANGED <<host, at>>

----
(* readUDP *)

Taken(m) == net \ {m}
Arrives(h, m) == m \in net /\ m.to = h /\ m.dst = at[h] /\ host[h].udp = Free

\* handleHandshake, a first message: respond, reply along the path it came, then install.
HandleFirst(h, m) ==
  /\ Arrives(h, m) /\ m.body.t = "m1" /\ n.reply[h] < MaxReplies
  /\ LET r == n.reply[h] + 1
         t == [by |-> Other(h), i |-> m.body.i, r |-> r]
     IN  /\ n' = [n EXCEPT !.reply[h] = r]
         /\ net' = Taken(m) \cup {[to |-> Other(h), dst |-> m.from, from |-> at[h], body |-> Second(m.body.i, r)]}
         /\ Put(h, [host[h] EXCEPT !.udp = [phase |-> "peer", t |-> t, from |-> m.from, loser |-> NoTun]])
  /\ UNCHANGED at

\* handleHandshake, a second message: peerAwaiting finds the attempt by its index and
\* complete derives the keys; any other is ignored.
HandleSecond(h, m) ==
  /\ Arrives(h, m) /\ m.body.t = "m2"
  /\ net' = Taken(m)
  /\ IF host[h].pending # m.body.i THEN UNCHANGED host
     ELSE Put(h, [host[h] EXCEPT !.udp = [phase |-> "clear", t |-> [by |-> h, i |-> m.body.i, r |-> m.body.r],
                                          from |-> m.from, loser |-> NoTun]])
  /\ UNCHANGED <<at, n>>

\* The attempt is over, whichever one is pending by now.
ClearPending(h) ==
  /\ host[h].udp.phase = "clear"
  /\ Put(h, [host[h] EXCEPT !.pending = 0, !.udp.phase = "peer"])
  /\ UNCHANGED <<net, at, n>>

\* Mutant of ResolveCollision.
NewerWins(h, old, fresh) == fresh
\* resolveCollision: the tunnel initiated by the lower address, or the newer of two by one side.
ResolveCollision(h, old, fresh) ==
  IF old.by = fresh.by \/ (fresh.by = h) = (h < Other(h)) THEN fresh ELSE old

\* install under the peer's lock: who wins, and where the peer is.
InstallPeer(h) ==
  /\ host[h].udp.phase = "peer"
  /\ LET x == host[h]
         t == x.udp.t
         keep == IF x.tun = NoTun THEN t ELSE ResolveCollision(h, x.tun, t)
     IN  Put(h, [x EXCEPT !.tun = keep,
                          !.underlay = IF keep = t THEN Confirmed(@, x.udp.from) ELSE @,
                          !.udp.phase = "index",
                          !.udp.loser = IF keep = t THEN x.tun ELSE t,
                          !.udp.t = keep])
  /\ UNCHANGED <<net, at, n>>

\* install under the host's lock: the loser's index goes, the winner's stays.
InstallIndex(h) ==
  /\ host[h].udp.phase = "index"
  /\ LET x == host[h]
     IN  Put(h, [x EXCEPT !.idx = (@ \ (IF x.udp.loser # x.udp.t THEN {x.udp.loser} ELSE {})) \cup {x.udp.t},
                          !.heard = @ \cup {x.udp.t},
                          !.udp = Free])
  /\ UNCHANGED <<net, at, n>>

\* handleMessage, handleTest: the index leads to the tunnel, its keys open the packet;
\* data moves the peer's address (noteRoam), a test request is answered.
HandlePacket(h, m) ==
  /\ Arrives(h, m) /\ m.body.t \in {"data", "test", "reply"}
  /\ LET t == m.body.tun
         x == host[h]
         y == [x EXCEPT !.heard = @ \cup {t},
                        !.underlay = IF m.body.t = "data" THEN Confirmed(@, m.from) ELSE @]
     IN  IF t \notin x.idx THEN net' = Taken(m) /\ UNCHANGED host
         ELSE /\ Put(h, y)
              /\ net' = Taken(m) \cup (IF m.body.t = "test" THEN ToPeer(h, Packet("reply", t, m.body.k)) ELSE {})
  /\ UNCHANGED <<at, n>>

\* handleClose, on a tunnel the peer closed.
HandleClose(h, t) ==
  /\ CloseComes /\ host[h].udp = Free /\ t \in host[h].idx
  /\ Put(h, [host[h] EXCEPT !.idx = @ \ {t}, !.tun = IF @ = t THEN NoTun ELSE @])
  /\ UNCHANGED <<net, at, n>>

----
(* maintain *)

\* tunnelProbeIdle is long against a round trip: a tunnel is quiet when its peer has
\* dropped it or moved away, or else when Idle says so.
Silent(h, t) ==
  \/ Idle
  \/ /\ \/ t \notin host[Other(h)].idx \/ host[Other(h)].tun # t
        \/ Head(host[Other(h)].underlay) # at[h] \/ Head(host[h].underlay) # at[Other(h)]
     /\ net = {} /\ host[1].udp = Free /\ host[2].udp = Free

\* probeQuietTunnels: a tunnel heard from needs no probe; a quiet one is probed once,
\* and dropped when the probe's grace has passed.
Sweep(h, t) ==
  /\ host[h].drop = NoTun /\ t \in host[h].idx
  /\ Silent(h, t)
  /\ LET x == host[h]
     IN  \/ /\ t \in x.heard
            /\ Put(h, [x EXCEPT !.heard = @ \ {t}, !.probe = @ \ {t}])
            /\ UNCHANGED net
         \/ /\ t \notin x.heard /\ t \notin x.probe
            /\ Put(h, [x EXCEPT !.probe = @ \cup {t}])
            /\ Send(ToPeer(h, Packet("test", t, h)))
         \/ /\ t \notin x.heard /\ t \in x.probe
            /\ Put(h, [x EXCEPT !.idx = @ \ {t}, !.probe = @ \ {t}, !.drop = t])
            /\ UNCHANGED net
  /\ UNCHANGED <<at, n>>

\* expireTunnels: idle for tunnelIdleTimeout.
Expire(h, t) ==
  /\ Idle /\ host[h].drop = NoTun /\ t \in host[h].idx \ host[h].heard
  /\ Put(h, [host[h] EXCEPT !.idx = @ \ {t}, !.probe = @ \ {t}, !.drop = t])
  /\ UNCHANGED <<net, at, n>>

\* releaseTunnel: the peer's reference, if it is still this one.
ReleaseTunnel(h) ==
  /\ host[h].drop # NoTun
  /\ Put(h, [host[h] EXCEPT !.tun = IF @ = host[h].drop THEN NoTun ELSE @, !.drop = NoTun])
  /\ UNCHANGED <<net, at, n>>

----
(* Surroundings *)

Move(h, a) ==
  /\ n.moves < MaxMoves /\ a \notin {at[1], at[2]}
  /\ at' = [at EXCEPT ![h] = a] /\ n' = [n EXCEPT !.moves = @ + 1]
  /\ UNCHANGED <<host, net>>
Lose(m) ==
  /\ m \in net /\ n.lost < MaxLosses
  /\ net' = net \ {m} /\ n' = [n EXCEPT !.lost = @ + 1] /\ UNCHANGED <<host, at>>
Undelivered(m) == m \in net /\ m.dst # at[m.to] /\ net' = net \ {m} /\ UNCHANGED <<host, at, n>>

Init ==
  /\ at = <<11, 12>>
  /\ host = [h \in Hosts |-> NewHost(h)]
  /\ net = {}
  /\ n = [init |-> <<0, 0>>, reply |-> <<0, 0>>, lost |-> 0, data |-> 0, moves |-> 0]

Install(h) == ClearPending(h) \/ InstallPeer(h) \/ InstallIndex(h)
Receive(h) == \E m \in net : HandleFirst(h, m) \/ HandleSecond(h, m) \/ HandlePacket(h, m)
Maintain(h) == (\E t \in host[h].idx : Sweep(h, t)) \/ ReleaseTunnel(h)

Next ==
  \/ \E h \in Hosts :
       \/ BeginHandshake(h) \/ SendPacket(h) \/ Install(h) \/ Receive(h) \/ Maintain(h)
       \/ \E t \in host[h].idx : HandleClose(h, t) \/ Expire(h, t)
       \/ \E a \in 13 .. 12 + MaxMoves : Move(h, a)
  \/ \E m \in net : Lose(m) \/ Undelivered(m)

Spec == Init /\ [][Next]_vars

----
(* Properties *)

\* install and releaseTunnel, against the goroutine of the other one: the tunnel a host
\* sends on is one it also receives on, so no answer comes back to an index that is gone.
SendsWhereItReceives ==
  \A h \in Hosts : host[h].tun # NoTun /\ host[h].udp.phase # "index" /\ host[h].drop = NoTun
                   => host[h].tun \in host[h].idx

\* resolveCollision: two hosts that key a tunnel to each other at the same time end up
\* on the same one, in whatever order each sees the two.
Settled == net = {} /\ n.lost = 0 /\ n.moves = 0 /\ \A h \in Hosts : host[h].udp = Free /\ host[h].drop = NoTun /\ host[h].pending = 0
Agree == Settled /\ host[1].tun # NoTun /\ host[2].tun # NoTun => host[1].tun = host[2].tun

\* install and noteRoam: traffic of a live tunnel goes to an address its peer
\* authenticated from, which is the peer's current one unless it moved since.
Located == \A h \in Hosts : n.moves = 0 => Head(host[h].underlay) = at[Other(h)]

\* What the tunnels are for.
Linked == host[1].tun # NoTun /\ host[1].tun = host[2].tun /\ \A h \in Hosts : host[h].tun \in host[h].idx
====
