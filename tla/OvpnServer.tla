---- MODULE OvpnServer ----
(***************************************************************************)
(* The sessions of the OpenVPN server (internal/openvpn/server.go): the    *)
(* socket's read loop opens them, a goroutine per session negotiates and   *)
(* then watches over it, and address pool, admission gate, peer-ids, pump  *)
(* and client map are shared between them.                                 *)
(***************************************************************************)
EXTENDS Integers, FiniteSets, FiniteSetsExt, FiniteSetTheorems, TLAPS

CONSTANTS Sessions,    \* serverClient structs
          Addrs,       \* UDP source addresses
          Pool,        \* assignable addresses
          MaxHalfOpen,
          WireSpace,   \* peer-ids the three octets of a P_DATA_V2 header tell apart
          MaxPeers,    \* bound: peer-ids handed out
          CanExhaust,  \* whether a cipher's packet counter may run out
          CanClose,    \* whether Close may be called
          None

VARIABLES sess,        \* [Sessions -> session]
          clients,     \* the map from address to session
          used,        \* addresses taken from the pool
          halfOpen,    \* the gate's reservations
          nextPeerID,
          tunnels,     \* sessions whose tunnel the pump knows
          closed

serverVars == <<sess, clients, used, halfOpen, nextPeerID, tunnels, closed>>

\* addr, the goroutine's place, control channel open, assigned address and
\* peer-id, whether the client has left for good, whether its counter is spent.
NewSession == [addr |-> None, pc |-> "none", open |-> FALSE, ip |-> None,
               peer |-> 0, gone |-> FALSE, spent |-> FALSE]

ServerInit ==
  /\ sess = [i \in Sessions |-> NewSession]
  /\ clients = [a \in Addrs |-> None]
  /\ used = {}
  /\ halfOpen = 0
  /\ nextPeerID = 0
  /\ tunnels = {}
  /\ closed = FALSE

At(i, pc) == sess[i].pc = pc
Ended(i) == sess[i].pc \in {"none", "done"}

\* AddrPool.Allocate: the lowest free address.
Free == Pool \ used

----
(* The read loop *)

\* handleControl: a hard reset from an unknown address that authenticates and is
\* admitted opens a session and starts its handshake.
Open(i, a) ==
  /\ ~closed /\ Ended(i) /\ clients[a] = None /\ halfOpen < MaxHalfOpen
  /\ sess' = [sess EXCEPT ![i] = [NewSession EXCEPT !.addr = a, !.pc = "negotiating", !.open = TRUE]]
  /\ clients' = [clients EXCEPT ![a] = i]
  /\ halfOpen' = halfOpen + 1
  /\ UNCHANGED <<used, nextPeerID, tunnels, closed>>

\* The channel fails under its users: a send error.
ChannelFails(i) ==
  /\ ~Ended(i) /\ sess[i].open
  /\ sess' = [sess EXCEPT ![i].open = FALSE]
  /\ UNCHANGED <<clients, used, halfOpen, nextPeerID, tunnels, closed>>

----
(* handshake *)

\* Mutant of Drop: a reservation returned twice.
DropTwice(i) ==
  /\ sess' = [sess EXCEPT ![i].pc = "done", ![i].open = FALSE]
  /\ clients' = [clients EXCEPT ![sess[i].addr] = None]
  /\ halfOpen' = halfOpen - 2
  /\ UNCHANGED <<nextPeerID, tunnels, closed>>

\* dropClient and the deferred gate.Done.
Drop(i) ==
  /\ sess' = [sess EXCEPT ![i].pc = "done", ![i].open = FALSE]
  /\ clients' = [clients EXCEPT ![sess[i].addr] = None]
  /\ halfOpen' = halfOpen - 1
  /\ UNCHANGED <<nextPeerID, tunnels, closed>>

\* TLS, the key exchange or the push request fails or runs into the deadline.
NegotiationFails(i) == At(i, "negotiating") /\ Drop(i) /\ UNCHANGED used

\* The pool has no address left.
Exhausted(i) == At(i, "negotiating") /\ sess[i].open /\ Free = {} /\ Drop(i) /\ UNCHANGED used

\* The negotiation is through to the push request: address and peer-id are taken.
Allocate(i) ==
  /\ At(i, "negotiating") /\ sess[i].open /\ Free # {} /\ nextPeerID < MaxPeers
  /\ nextPeerID' = nextPeerID + 1
  /\ used' = used \cup {Min(Free)}
  /\ sess' = [sess EXCEPT ![i].pc = "allocated", ![i].ip = Min(Free), ![i].peer = nextPeerID + 1]
  /\ UNCHANGED <<clients, halfOpen, tunnels, closed>>

\* The cipher cannot be built or the push reply cannot be sent.
ReplyFails(i) == At(i, "allocated") /\ Drop(i) /\ used' = used \ {sess[i].ip}

\* The push reply is out: the tunnel is installed and serveClient takes over.
Install(i) ==
  /\ At(i, "allocated") /\ sess[i].open
  /\ tunnels' = tunnels \cup {i}
  /\ sess' = [sess EXCEPT ![i].pc = "up"]
  /\ halfOpen' = halfOpen - 1
  /\ UNCHANGED <<clients, used, nextPeerID, closed>>

----
(* serveClient *)

\* Mutant of Release: the address returns to the pool before the tunnel leaves the pump.
ReleaseFirst(i) ==
  /\ sess' = [sess EXCEPT ![i].pc = "reaping", ![i].open = FALSE]
  /\ used' = used \ {sess[i].ip}
  /\ UNCHANGED <<clients, halfOpen, nextPeerID, tunnels, closed>>

\* reapClient, up to the lock: channel, tunnel, address.
Release(i) ==
  /\ sess' = [sess EXCEPT ![i].pc = "reaping", ![i].open = FALSE]
  /\ tunnels' = tunnels \ {i}
  /\ used' = used \ {sess[i].ip}
  /\ UNCHANGED <<clients, halfOpen, nextPeerID, closed>>

\* The control channel closed.
ReapClosed(i) == At(i, "up") /\ ~sess[i].open /\ Release(i)

\* Mutant of ReapSilent: a client silent for too long is only logged.
ReapSilentNever(i) == At(i, "up") /\ UNCHANGED serverVars

\* silentFor: nothing from the client for longer than pingRestart. It may be the
\* network that dropped everything.
ReapSilent(i) == At(i, "up") /\ Release(i)

\* The rest of reapClient: the map entry, if it is still this session's.
Forget(i) ==
  /\ At(i, "reaping")
  /\ sess' = [sess EXCEPT ![i].pc = "done"]
  /\ clients' = [clients EXCEPT ![sess[i].addr] = IF @ = i THEN None ELSE @]
  /\ UNCHANGED <<used, halfOpen, nextPeerID, tunnels, closed>>

\* The ping cannot be sealed: serveClient returns.
PingFails(i) ==
  /\ At(i, "up") /\ sess[i].spent
  /\ sess' = [sess EXCEPT ![i].pc = "unwatched"]
  /\ UNCHANGED <<clients, used, halfOpen, nextPeerID, tunnels, closed>>

\* The server is closing: serveClient leaves everything as it is.
ServeEnds(i) ==
  /\ closed /\ At(i, "up")
  /\ sess' = [sess EXCEPT ![i].pc = "unwatched"]
  /\ UNCHANGED <<clients, used, halfOpen, nextPeerID, tunnels, closed>>

----
(* The rest of the world *)

Leave(i) ==
  /\ ~Ended(i) /\ ~sess[i].gone
  /\ sess' = [sess EXCEPT ![i].gone = TRUE]
  /\ UNCHANGED <<clients, used, halfOpen, nextPeerID, tunnels, closed>>

\* nextPacketID reaches its last value.
Spend(i) ==
  /\ CanExhaust /\ At(i, "up") /\ ~sess[i].spent
  /\ sess' = [sess EXCEPT ![i].spent = TRUE]
  /\ UNCHANGED <<clients, used, halfOpen, nextPeerID, tunnels, closed>>

ServerClose ==
  /\ CanClose /\ ~closed
  /\ closed' = TRUE
  /\ UNCHANGED <<sess, clients, used, halfOpen, nextPeerID, tunnels>>

Step(i) ==
  \/ NegotiationFails(i) \/ Exhausted(i) \/ Allocate(i) \/ ReplyFails(i) \/ Install(i)
  \/ ReapClosed(i) \/ ReapSilent(i) \/ Forget(i) \/ PingFails(i) \/ ServeEnds(i)

ServerNext ==
  \/ \E i \in Sessions : Step(i) \/ ChannelFails(i) \/ Leave(i) \/ Spend(i)
  \/ \E i \in Sessions, a \in Addrs : Open(i, a)
  \/ ServerClose

ServerSpec == ServerInit /\ [][ServerNext]_serverVars

----
(* Properties *)

\* The gate counts exactly the handshakes that are under way: no way out of handshake
\* keeps a reservation or returns it twice (gate.Admit, the deferred gate.Done).
GateExact == halfOpen = Cardinality({i \in Sessions : sess[i].pc \in {"negotiating", "allocated"}})

\* The pump routes by assigned address: no two tunnels it knows claim the same
\* one, and none is free for the next client while a tunnel claims it.
RoutesExclusive ==
  \A i, j \in tunnels : sess[i].ip \in used /\ (i # j => sess[i].ip # sess[j].ip)

\* Every address missing from the pool is one a session holds, from Allocate until
\* its reaper gives it back: no error path of handshake loses one. A session serveClient
\* stopped watching (the ping could not be sealed, or the server closes) still holds its
\* own; nothing gives it back.
AddressesAccounted ==
  used = {sess[i].ip : i \in {j \in Sessions : sess[j].pc \in {"allocated", "up", "unwatched"}}}

\* A client whose tunnel is up can be reached over its control channel: the map
\* names its session, whatever else came from its address.
SessionReachable == \A i \in tunnels : clients[sess[i].addr] = i

\* What handshake, serveClient and reapClient keep in step.
SessionsConsistent == RoutesExclusive /\ AddressesAccounted /\ SessionReachable /\ GateExact

\* A client that left for good while serveClient watched over it, and the two ways in
\* which serveClient returns without reaping: the server closes, or the ping cannot be
\* sealed because the send counter is spent.
Departed(i) == sess[i].gone /\ sess[i].pc \in {"up", "reaping"}
Unwatched(i) == closed \/ sess[i].spent

----
(* Proof that the sessions are consistent whatever the number of sessions, *)
(* addresses and handshakes                                                *)

\* What the code fixes about the constants: there are finitely many sessions at any
\* time, and the addresses of a pool are ordered (AddrPool.Allocate takes the lowest).
ServerConstants ==
  /\ IsFiniteSet(Sessions)
  /\ None \notin Sessions
  /\ \A S \in SUBSET Pool : S # {} => \E x \in S : \A y \in S : x <= y

Negotiating == {i \in Sessions : sess[i].pc \in {"negotiating", "allocated"}}
Holding == {i \in Sessions : sess[i].pc \in {"allocated", "up", "unwatched"}}

Places == {"none", "negotiating", "allocated", "up", "unwatched", "reaping", "done"}
SessionRecord == [addr : Addrs \cup {None}, open : BOOLEAN, ip : Pool \cup {None}, peer : Int,
                  gone : BOOLEAN, spent : BOOLEAN, pc : Places]

TypeOK ==
  /\ sess \in [Sessions -> SessionRecord]
  /\ clients \in [Addrs -> Sessions \cup {None}]
  /\ used \subseteq Pool
  /\ nextPeerID \in Int

\* The inductive invariant: a session stays in the client map from Open until its
\* goroutine ends, the reaper's last step included, and so alone at its address; the
\* pump knows exactly the sessions that are up; the holders of addresses differ.
ServerInv ==
  /\ TypeOK
  /\ \A i \in Sessions : ~Ended(i) => sess[i].addr \in Addrs /\ clients[sess[i].addr] = i
  /\ tunnels = {i \in Sessions : sess[i].pc \in {"up", "unwatched"}}
  /\ used = {sess[i].ip : i \in Holding}
  /\ \A i, j \in Holding : i # j => sess[i].ip # sess[j].ip
  /\ halfOpen = Cardinality(Negotiating)

\* AddrPool.Allocate returns an address that is free.
LEMMA FreeAddress ==
  ASSUME ServerConstants, Free # {}
  PROVE  Min(Free) \in Pool /\ Min(Free) \notin used
<1>1. PICK x \in Free : \A y \in Free : x <= y
  BY ZenonT(40) DEF ServerConstants, Free
<1>2. Min(Free) \in Free
  BY <1>1 DEF Min
<1>3. QED BY <1>2 DEF Free

LEMMA InitServerInv ==
  ASSUME ServerConstants, ServerInit
  PROVE  ServerInv
<1>1. Negotiating = {} /\ Holding = {}
  BY DEF ServerInit, NewSession, Negotiating, Holding
<1>2. halfOpen = Cardinality(Negotiating)
  BY <1>1, FS_EmptySet DEF ServerInit
<1>3. TypeOK
  BY DEF ServerInit, NewSession, TypeOK, SessionRecord, Places
<1>4. QED BY <1>1, <1>2, <1>3 DEF ServerInit, NewSession, ServerInv, Ended

\* A session that enters or leaves its handshake moves the gate's count by one.
LEMMA OneMoreNegotiating ==
  ASSUME ServerConstants, NEW i \in Sessions, i \notin Negotiating, Negotiating' = Negotiating \cup {i}
  PROVE  Cardinality(Negotiating') = Cardinality(Negotiating) + 1
<1>1. IsFiniteSet(Negotiating)
  BY FS_Subset DEF ServerConstants, Negotiating
<1>2. QED BY <1>1, FS_AddElement, ZenonT(40)

LEMMA OneLessNegotiating ==
  ASSUME ServerConstants, NEW i \in Sessions, i \in Negotiating, Negotiating' = Negotiating \ {i}
  PROVE  Cardinality(Negotiating') = Cardinality(Negotiating) - 1
<1>1. IsFiniteSet(Negotiating)
  BY FS_Subset DEF ServerConstants, Negotiating
<1>2. Cardinality(Negotiating \ {i}) = Cardinality(Negotiating) - 1
  BY <1>1, FS_RemoveElement
<1>3. QED BY <1>2

\* Steps that leave every session's place, client address and pool address alone.
LEMMA QuietStep ==
  ASSUME ServerInv, TypeOK', UNCHANGED <<clients, used, halfOpen, tunnels>>,
         \A j \in Sessions : /\ sess'[j].pc = sess[j].pc /\ sess'[j].addr = sess[j].addr
                             /\ sess'[j].ip = sess[j].ip
  PROVE  ServerInv'
<1>1. Negotiating' = Negotiating /\ Holding' = Holding
  BY DEF Negotiating, Holding
<1>2. Holding \subseteq Sessions
  BY DEF Holding
<1>3. QED BY <1>1, <1>2 DEF ServerInv, Ended

LEMMA OpenStep ==
  ASSUME ServerConstants, ServerInv, NEW i \in Sessions, NEW a \in Addrs, Open(i, a)
  PROVE  ServerInv'
<1>1. TypeOK'
  <2>1. sess \in [Sessions -> SessionRecord]
    BY DEF ServerInv, TypeOK
  <2>2. NewSession \in SessionRecord
    BY DEF NewSession, SessionRecord, Places
  <2>3. [NewSession EXCEPT !.addr = a, !.pc = "negotiating", !.open = TRUE] \in SessionRecord
    BY <2>2, ZenonT(40) DEF SessionRecord, Places
  <2>4. sess' \in [Sessions -> SessionRecord]
    BY <2>1, <2>3 DEF Open
  <2>5. QED BY <2>4 DEF ServerInv, TypeOK, Open
<1>2. i \notin Negotiating /\ Negotiating' = Negotiating \cup {i} /\ Holding' = Holding /\ i \notin Holding
  BY DEF ServerInv, TypeOK, SessionRecord, Places, Open, NewSession, Negotiating, Holding, Ended
<1>3. \A j \in Sessions : j # i => sess'[j] = sess[j]
  BY DEF ServerInv, TypeOK, SessionRecord, Places, Open
<1>4. \A j \in Sessions : ~Ended(j)' => sess'[j].addr \in Addrs /\ clients'[sess'[j].addr] = j
  BY <1>3 DEF ServerInv, TypeOK, SessionRecord, Places, Open, NewSession, Ended, ServerConstants
<1>5. halfOpen' = Cardinality(Negotiating')
  BY <1>2, OneMoreNegotiating, ZenonT(40) DEF ServerInv, Open
<1>6. tunnels' = {j \in Sessions : sess'[j].pc \in {"up", "unwatched"}}
  BY <1>3 DEF ServerInv, TypeOK, SessionRecord, Places, Open, NewSession, Ended
<1>7. used' = {sess'[j].ip : j \in Holding'} /\ \A j, k \in Holding' : j # k => sess'[j].ip # sess'[k].ip
  <2>1. Holding \subseteq Sessions /\ \A j \in Holding : sess'[j].ip = sess[j].ip
    BY <1>2, <1>3 DEF Holding
  <2>2. QED BY <1>2, <2>1 DEF ServerInv, Open
<1>8. QED BY <1>1, <1>4, <1>5, <1>6, <1>7 DEF ServerInv

LEMMA DropStep ==
  ASSUME ServerConstants, ServerInv, NEW i \in Sessions, Drop(i),
         \/ At(i, "negotiating") /\ used' = used
         \/ At(i, "allocated") /\ used' = used \ {sess[i].ip}
  PROVE  ServerInv'
<1>1. TypeOK'
  <2>1. sess \in [Sessions -> SessionRecord]
    BY DEF ServerInv, TypeOK
  <2>2. sess' \in [Sessions -> SessionRecord]
    <3> DEFINE a == [sess EXCEPT ![i].pc = "done"]
    <3>1. a \in [Sessions -> SessionRecord]
      BY <2>1 DEF SessionRecord, Places
    <3>2. sess' = [a EXCEPT ![i].open = FALSE]
      BY <2>1 DEF Drop
    <3> HIDE DEF a
    <3>3. QED BY <3>1, <3>2, ZenonT(40) DEF SessionRecord
  <2>3. QED BY <2>2, ZenonT(40) DEF ServerInv, TypeOK, Drop
<1>2. i \in Negotiating /\ Negotiating' = Negotiating \ {i} /\ Holding' = Holding \ {i}
  BY DEF ServerInv, TypeOK, SessionRecord, Places, Drop, Negotiating, Holding, At
<1>3. \A j \in Sessions : j # i => sess'[j] = sess[j]
  BY DEF ServerInv, TypeOK, SessionRecord, Places, Drop
<1>4. \A j \in Sessions : ~Ended(j)' => sess'[j].addr \in Addrs /\ clients'[sess'[j].addr] = j
  <2>1. sess[i].addr \in Addrs /\ clients[sess[i].addr] = i
    BY DEF ServerInv, Ended, At
  <2>2. SUFFICES ASSUME NEW j \in Sessions, ~Ended(j)'
                 PROVE  sess'[j].addr \in Addrs /\ clients'[sess'[j].addr] = j
    OBVIOUS
  <2>3. j # i
    BY <2>2 DEF ServerInv, TypeOK, SessionRecord, Places, Drop, Ended
  <2>4. QED BY <1>3, <2>1, <2>2, <2>3 DEF ServerInv, TypeOK, SessionRecord, Places, Drop, Ended
<1>5. halfOpen' = Cardinality(Negotiating')
  BY <1>2, OneLessNegotiating, ZenonT(40) DEF ServerInv, Drop
<1>6. tunnels' = {j \in Sessions : sess'[j].pc \in {"up", "unwatched"}}
  BY <1>3 DEF ServerInv, TypeOK, SessionRecord, Places, Drop, At
<1>7. used' = {sess'[j].ip : j \in Holding'} /\ \A j, k \in Holding' : j # k => sess'[j].ip # sess'[k].ip
  <2>1. Holding \subseteq Sessions /\ \A j \in Holding' : sess'[j].ip = sess[j].ip
    BY <1>2, <1>3 DEF Holding
  <2>2. i \in Holding <=> At(i, "allocated")
    BY SMTT(40) DEF Holding, At
  <2>3. QED BY <1>2, <2>1, <2>2 DEF ServerInv, At
<1>8. QED BY <1>1, <1>4, <1>5, <1>6, <1>7 DEF ServerInv

LEMMA AllocateStep ==
  ASSUME ServerConstants, ServerInv, NEW i \in Sessions, Allocate(i)
  PROVE  ServerInv'
<1>0. sess \in [Sessions -> SessionRecord] /\ nextPeerID \in Int
  BY DEF ServerInv, TypeOK
<1>1. Min(Free) \in Pool /\ Min(Free) \notin used
  BY FreeAddress DEF Allocate
<1>2. TypeOK'
  <2>1. sess' \in [Sessions -> SessionRecord]
    <3> DEFINE ip == Min(Free)
               id == nextPeerID + 1
    <3>1. ip \in Pool /\ id \in Int
      BY <1>0, <1>1
    <3>2. sess' = [sess EXCEPT ![i].pc = "allocated", ![i].ip = ip, ![i].peer = id]
      BY DEF Allocate
    <3> HIDE DEF ip, id
    <3> DEFINE a == [sess EXCEPT ![i].pc = "allocated"]
               s == [a EXCEPT ![i].ip = ip]
    <3>3. sess' = [s EXCEPT ![i].peer = id]
      BY <1>0, <3>2
    <3>4. a \in [Sessions -> SessionRecord]
      BY <1>0 DEF SessionRecord, Places
    <3> HIDE DEF a
    <3>5. s \in [Sessions -> SessionRecord]
      BY <3>1, <3>4 DEF SessionRecord
    <3> HIDE DEF s
    <3>6. QED BY <3>1, <3>3, <3>5 DEF SessionRecord
  <2>2. QED BY <2>1, <1>1 DEF ServerInv, TypeOK, Allocate
<1>3. Negotiating' = Negotiating /\ Holding' = Holding \cup {i} /\ i \notin Holding
  BY <1>0 DEF Allocate, SessionRecord, Places, Negotiating, Holding, At
<1>4. \A j \in Sessions : j # i => sess'[j] = sess[j]
  BY <1>0 DEF Allocate
<1>5. sess'[i].pc = "allocated" /\ sess'[i].addr = sess[i].addr /\ sess'[i].ip = Min(Free)
  BY <1>0 DEF Allocate, SessionRecord
<1>6. \A j \in Sessions : ~Ended(j)' => sess'[j].addr \in Addrs /\ clients'[sess'[j].addr] = j
  <2>1. clients' = clients /\ \A j \in Sessions : sess'[j].addr = sess[j].addr
    BY <1>4, <1>5, ZenonT(40) DEF Allocate
  <2>2. \A j \in Sessions : ~Ended(j)' => ~Ended(j)
    BY <1>4 DEF Ended, Allocate, At
  <2>3. QED BY <2>1, <2>2 DEF ServerInv
<1>7. tunnels' = {j \in Sessions : sess'[j].pc \in {"up", "unwatched"}}
  BY <1>4, <1>5, ZenonT(40) DEF ServerInv, Allocate, At
<1>8. used' = {sess'[j].ip : j \in Holding'} /\ \A j, k \in Holding' : j # k => sess'[j].ip # sess'[k].ip
  <2>1. Holding \subseteq Sessions /\ \A j \in Holding : sess'[j].ip = sess[j].ip /\ sess[j].ip \in used
    BY <1>3, <1>4 DEF Holding, ServerInv
  <2>2. used' = used \cup {Min(Free)}
    BY DEF Allocate
  <2>3. QED BY <1>3, <1>5, <1>1, <2>1, <2>2 DEF ServerInv
<1>9. QED BY <1>2, <1>3, <1>6, <1>7, <1>8, ZenonT(40) DEF ServerInv, Allocate

LEMMA InstallStep ==
  ASSUME ServerConstants, ServerInv, NEW i \in Sessions, Install(i)
  PROVE  ServerInv'
<1>0. sess \in [Sessions -> SessionRecord]
  BY DEF ServerInv, TypeOK
<1>1. TypeOK'
  <2>1. sess' \in [Sessions -> SessionRecord]
    BY <1>0 DEF Install, SessionRecord, Places
  <2>2. QED BY <2>1 DEF ServerInv, TypeOK, Install
<1>2. i \in Negotiating /\ Negotiating' = Negotiating \ {i} /\ Holding' = Holding
  BY <1>0 DEF Install, SessionRecord, Places, Negotiating, Holding, At
<1>3. /\ \A j \in Sessions : j # i => sess'[j] = sess[j]
      /\ sess'[i].pc = "up" /\ sess'[i].addr = sess[i].addr /\ sess'[i].ip = sess[i].ip
  BY <1>0 DEF Install, SessionRecord
<1>4. \A j \in Sessions : ~Ended(j)' => sess'[j].addr \in Addrs /\ clients'[sess'[j].addr] = j
  BY <1>3 DEF ServerInv, Install, At, Ended
<1>5. halfOpen' = Cardinality(Negotiating')
  BY <1>2, OneLessNegotiating, ZenonT(40) DEF ServerInv, Install
<1>6. tunnels' = {j \in Sessions : sess'[j].pc \in {"up", "unwatched"}}
  BY <1>3 DEF ServerInv, Install
<1>7. used' = {sess'[j].ip : j \in Holding'} /\ \A j, k \in Holding' : j # k => sess'[j].ip # sess'[k].ip
  <2>1. Holding \subseteq Sessions /\ \A j \in Holding : sess'[j].ip = sess[j].ip
    BY <1>3 DEF Holding
  <2>2. QED BY <1>2, <2>1 DEF ServerInv, Install
<1>8. QED BY <1>1, <1>4, <1>5, <1>6, <1>7 DEF ServerInv

\* reapClient's first half gives back address and route together.
LEMMA ReleaseStep ==
  ASSUME ServerConstants, ServerInv, NEW i \in Sessions, At(i, "up"), Release(i)
  PROVE  ServerInv'
<1>0. sess \in [Sessions -> SessionRecord]
  BY DEF ServerInv, TypeOK
<1>1. TypeOK'
  <2>1. sess' \in [Sessions -> SessionRecord]
    <3> DEFINE a == [sess EXCEPT ![i].pc = "reaping"]
    <3>1. a \in [Sessions -> SessionRecord]
      BY <1>0 DEF SessionRecord, Places
    <3>2. sess' = [a EXCEPT ![i].open = FALSE]
      BY <1>0 DEF Release
    <3> HIDE DEF a
    <3>3. QED BY <3>1, <3>2, ZenonT(40) DEF SessionRecord
  <2>2. QED BY <2>1 DEF ServerInv, TypeOK, Release
<1>2. Negotiating' = Negotiating /\ Holding' = Holding \ {i} /\ i \in Holding
  BY <1>0 DEF Release, SessionRecord, Places, Negotiating, Holding, At
<1>3. /\ \A j \in Sessions : j # i => sess'[j] = sess[j]
      /\ sess'[i].pc = "reaping" /\ sess'[i].addr = sess[i].addr
  BY <1>0 DEF Release, SessionRecord
<1>4. \A j \in Sessions : ~Ended(j)' => sess'[j].addr \in Addrs /\ clients'[sess'[j].addr] = j
  <2>1. clients' = clients /\ \A j \in Sessions : sess'[j].addr = sess[j].addr
    BY <1>3, ZenonT(40) DEF Release
  <2>2. \A j \in Sessions : ~Ended(j)' => ~Ended(j)
    BY <1>3 DEF Ended, At
  <2>3. QED BY <2>1, <2>2 DEF ServerInv
<1>5. tunnels' = {j \in Sessions : sess'[j].pc \in {"up", "unwatched"}}
  BY <1>3, ZenonT(40) DEF ServerInv, Release
<1>6. used' = {sess'[j].ip : j \in Holding'} /\ \A j, k \in Holding' : j # k => sess'[j].ip # sess'[k].ip
  <2>1. Holding \subseteq Sessions /\ \A j \in Holding' : sess'[j].ip = sess[j].ip
    BY <1>2, <1>3 DEF Holding
  <2>2. /\ used = {sess[j].ip : j \in Holding}
        /\ \A j, k \in Holding : j # k => sess[j].ip # sess[k].ip
        /\ used' = used \ {sess[i].ip}
    BY DEF ServerInv, Release
  <2>3. QED BY <1>2, <2>1, <2>2
<1>7. QED BY <1>1, <1>2, <1>4, <1>5, <1>6, ZenonT(40) DEF ServerInv, Release

\* reapClient's second half frees the client address for a new session.
LEMMA ForgetStep ==
  ASSUME ServerConstants, ServerInv, NEW i \in Sessions, Forget(i)
  PROVE  ServerInv'
<1>0. sess \in [Sessions -> SessionRecord]
  BY DEF ServerInv, TypeOK
<1>1. TypeOK'
  <2>1. sess' \in [Sessions -> SessionRecord]
    BY <1>0 DEF Forget, SessionRecord, Places
  <2>2. QED BY <2>1, ZenonT(40) DEF ServerInv, TypeOK, Forget
<1>2. Negotiating' = Negotiating /\ Holding' = Holding /\ i \notin Holding
  BY <1>0 DEF Forget, SessionRecord, Places, Negotiating, Holding, At
<1>3. (\A j \in Sessions : j # i => sess'[j] = sess[j]) /\ sess'[i].pc = "done"
  BY <1>0 DEF Forget, SessionRecord
<1>4. \A j \in Sessions : ~Ended(j)' => sess'[j].addr \in Addrs /\ clients'[sess'[j].addr] = j
  <2>1. sess[i].addr \in Addrs /\ clients[sess[i].addr] = i /\ clients \in [Addrs -> Sessions \cup {None}]
    BY DEF ServerInv, TypeOK, Ended, At, Forget
  <2>2. clients' = [clients EXCEPT ![sess[i].addr] = None]
    BY <2>1 DEF Forget
  <2>3. QED BY <1>3, <2>1, <2>2 DEF ServerInv, Ended
<1>5. tunnels' = {j \in Sessions : sess'[j].pc \in {"up", "unwatched"}}
  BY <1>3 DEF ServerInv, Forget, At
<1>6. used' = {sess'[j].ip : j \in Holding'} /\ \A j, k \in Holding' : j # k => sess'[j].ip # sess'[k].ip
  <2>1. Holding \subseteq Sessions /\ \A j \in Holding : sess'[j].ip = sess[j].ip
    BY <1>2, <1>3 DEF Holding
  <2>2. QED BY <1>2, <2>1 DEF ServerInv, Forget
<1>7. QED BY <1>1, <1>2, <1>4, <1>5, <1>6 DEF ServerInv, Forget

\* serveClient returns and leaves a tunnel that nobody watches over.
LEMMA UnwatchedStep ==
  ASSUME ServerConstants, ServerInv, NEW i \in Sessions, PingFails(i) \/ ServeEnds(i)
  PROVE  ServerInv'
<1>0. sess \in [Sessions -> SessionRecord] /\ At(i, "up") /\ sess' = [sess EXCEPT ![i].pc = "unwatched"]
      /\ UNCHANGED <<clients, used, halfOpen, nextPeerID, tunnels>>
  BY DEF ServerInv, TypeOK, PingFails, ServeEnds
<1>1. TypeOK'
  <2>1. sess' \in [Sessions -> SessionRecord]
    BY <1>0 DEF SessionRecord, Places
  <2>2. QED BY <1>0, <2>1 DEF ServerInv, TypeOK
<1>2. Negotiating' = Negotiating /\ Holding' = Holding
  BY <1>0 DEF SessionRecord, Places, Negotiating, Holding, At
<1>3. /\ \A j \in Sessions : j # i => sess'[j] = sess[j]
      /\ sess'[i].pc = "unwatched" /\ sess'[i].addr = sess[i].addr /\ sess'[i].ip = sess[i].ip
  BY <1>0 DEF SessionRecord
<1>4. \A j \in Sessions : ~Ended(j)' => sess'[j].addr \in Addrs /\ clients'[sess'[j].addr] = j
  BY <1>0, <1>3 DEF ServerInv, At, Ended
<1>5. tunnels' = {j \in Sessions : sess'[j].pc \in {"up", "unwatched"}}
  BY <1>0, <1>3 DEF ServerInv, At
<1>6. used' = {sess'[j].ip : j \in Holding'} /\ \A j, k \in Holding' : j # k => sess'[j].ip # sess'[k].ip
  <2>1. Holding \subseteq Sessions /\ \A j \in Holding : sess'[j].ip = sess[j].ip
    BY <1>3 DEF Holding
  <2>2. QED BY <1>0, <1>2, <2>1 DEF ServerInv
<1>7. QED BY <1>0, <1>1, <1>2, <1>4, <1>5, <1>6 DEF ServerInv

\* Failing channels, departures, spent counters and Close change no one's place.
LEMMA OtherStep ==
  ASSUME ServerInv, NEW i \in Sessions, ChannelFails(i) \/ Leave(i) \/ Spend(i) \/ ServerClose \/ UNCHANGED serverVars
  PROVE  ServerInv'
<1>0. sess \in [Sessions -> SessionRecord]
  BY DEF ServerInv, TypeOK
<1>1. UNCHANGED <<clients, used, halfOpen, nextPeerID, tunnels>>
  BY DEF ChannelFails, Leave, Spend, ServerClose, serverVars
<1>2. sess' \in [Sessions -> SessionRecord]
  <2>1. CASE ChannelFails(i)
    BY <1>0, <2>1, ZenonT(40) DEF ChannelFails, SessionRecord
  <2>2. CASE Leave(i)
    BY <1>0, <2>2, ZenonT(40) DEF Leave, SessionRecord
  <2>3. CASE Spend(i)
    BY <1>0, <2>3, ZenonT(40) DEF Spend, SessionRecord
  <2>4. QED BY <1>0, <2>1, <2>2, <2>3 DEF ServerClose, serverVars
<1>3. \A j \in Sessions : sess'[j].pc = sess[j].pc /\ sess'[j].addr = sess[j].addr /\ sess'[j].ip = sess[j].ip
  BY <1>0 DEF ChannelFails, Leave, Spend, ServerClose, serverVars, SessionRecord
<1>4. TypeOK'
  BY <1>1, <1>2 DEF ServerInv, TypeOK
<1>5. QED BY <1>1, <1>3, <1>4, QuietStep

LEMMA NextServerInv ==
  ASSUME ServerConstants, ServerInv, [ServerNext]_serverVars
  PROVE  ServerInv'
<1>1. ASSUME NEW i \in Sessions, NegotiationFails(i) \/ Exhausted(i) \/ ReplyFails(i) PROVE ServerInv'
  BY <1>1, DropStep DEF NegotiationFails, Exhausted, ReplyFails
<1>2. ASSUME NEW i \in Sessions, ReapClosed(i) \/ ReapSilent(i) PROVE ServerInv'
  BY <1>2, ReleaseStep DEF ReapClosed, ReapSilent
<1>3. ASSUME NEW i \in Sessions, Step(i) PROVE ServerInv'
  BY <1>1, <1>2, <1>3, AllocateStep, InstallStep, ForgetStep, UnwatchedStep DEF Step
<1>4. CASE ServerClose \/ UNCHANGED serverVars
  <2>1. CASE Sessions = {}
    BY <1>4, <2>1, QuietStep, ZenonT(40) DEF ServerInv, TypeOK, ServerClose, serverVars
  <2>2. CASE Sessions # {}
    BY <1>4, <2>2, OtherStep
  <2>3. QED BY <2>1, <2>2
<1>5. QED BY <1>3, <1>4, OpenStep, OtherStep DEF ServerNext

\* For any number of clients, addresses and handshakes, and whatever fails, leaves or
\* runs out: no two tunnels claim an address, every address missing from the pool is
\* held by a session, every tunnel's session is the one the client map names, and the
\* gate counts exactly the handshakes under way (handshake, serveClient, reapClient).
THEOREM SessionsStayConsistent ==
  ASSUME ServerConstants
  PROVE  ServerSpec => []SessionsConsistent
<1>1. ServerInv => SessionsConsistent
  <2> SUFFICES ASSUME ServerInv PROVE SessionsConsistent
    OBVIOUS
  <2>1. tunnels \subseteq Holding /\ Holding \subseteq Sessions
    BY DEF ServerInv, Holding
  <2>2. RoutesExclusive
    BY <2>1 DEF ServerInv, RoutesExclusive
  <2>3. AddressesAccounted
    BY DEF ServerInv, Holding, AddressesAccounted
  <2>4. SessionReachable
    BY DEF ServerInv, SessionReachable, Ended
  <2>5. GateExact
    BY DEF ServerInv, Negotiating, GateExact
  <2>6. QED BY <2>2, <2>3, <2>4, <2>5 DEF SessionsConsistent
<1>2. QED BY InitServerInv, NextServerInv, <1>1, PTL DEF ServerSpec
====
