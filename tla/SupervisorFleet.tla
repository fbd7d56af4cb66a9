--------------------------- MODULE SupervisorFleet ---------------------------
(***************************************************************************)
(* For every number of listeners, callers, handles and servers: a server   *)
(* that was not asked to close has an owner, so that no race of Rebuild    *)
(* with Stop, Close or Apply leaves one behind, and the status a listener  *)
(* shows is that of its current generation. With one caller, the rules on  *)
(* the host are those of the tracked servers. The supervisor's theorems    *)
(* are at the end.                                                         *)
(***************************************************************************)
EXTENDS SupervisorProofs

\* Inside buildMu: from the Capture on, from start on, anywhere.
Stopping == {"stopClose", "stopHost", "stopForget"}
Starting == Own \cup {"start", "construct", "closeFailed"}
Inside == Stopping \cup Starting \cup {"rebuildStop"}

\* The calls whose locals are x: a Rebuild outside Manager.mu that will look back before it
\* returns, the build of a handle the map does not name yet, a call whose handle is the one
\* the map has under its name; the stop or the rebuild a handle shown as building waits for.
Rebuilder(x) == "rebuildCheck" \in {x.pc, x.ret}
Builder(x) == "applyBuilt" \in {x.pc, x.ret}
SlotRets == MuRets \ {"applyBuilt", "applyScan"}
Slotted(x) == x.ret \in SlotRets \cup {"applyScan"} \/ x.pc \in SlotRets
Minds(x) == Rebuilder(x) \/ Builder(x) \/ x.pc = "stopLock"
Building(x) == x.rb \/ (Builder(x) /\ x.pc \in Starting)

\* What a call relies on while other calls run: the map under Manager.mu, the handle under
\* buildMu or, before the map names it, because nobody else knows it.
CallOK(t) ==
  LET x == th[t]
  IN /\ Slotted(x) => x.n \in Names /\ x.r \in Handles /\ listeners[x.n] = x.r
     /\ Rebuilder(x) => x.n \in Names
     /\ Builder(x) => /\ x.n \in Names /\ listeners[x.n] = None
                      /\ \A m \in Names : listeners[m] # x.r
                      /\ \A u \in Threads : u # t => th[u].r # x.r
                      /\ x.pc \in Starting \cup {"applyBuilt"}
     /\ x.rb \in BOOLEAN /\ (x.rb => x.pc \in Inside /\ ~Builder(x))
     /\ x.pc = "rebuildStop" => x.rb
     /\ x.rb \/ x.pc = "rebuildLock" => x.ret \in {"rebuildCheck", "applyScan"}
     /\ x.pc \in Starting => x.rb \/ Builder(x)
     /\ x.pc \in Inside /\ ~Builder(x) => hd[x.r].buildMu = t
     /\ x.pc \in Stopping \cup Starting => hd[x.r].srv = None
     /\ x.pc \in {"applyRemoved", "stopDelete", "closeDelete"} =>
          hd[x.r].srv = None \/ \E u \in Threads : th[u].r = x.r /\ Rebuilder(th[u])

\* What a handle shows and holds.
HandleOK(r) ==
  LET h == hd[r]
  IN /\ h.srv = h.done
     /\ h.state = "building" => \E t \in Threads : th[t].r = r /\ Building(th[t])
     /\ h.srv # None => \/ \E n \in Names : listeners[n] = r
                        \/ \E t \in Threads : th[t].r = r /\ Minds(th[t])
     /\ h.state = "running" => h.srv # None /\ sv[h.srv].serve
     /\ h.srv # None /\ sv[h.srv].serve => h.state \notin {"stopped", "error"} /\ sv[h.srv].owner = r

\* A server that was not asked to close belongs to a call or to a handle.
Owned == \A s \in Servers : sv[s].close = "no" =>
           \/ \E t \in Threads : th[t].pc \in Own /\ th[t].s = s
           \/ \E r \in Handles : hd[r].srv = s

Fleet == (\A t \in Threads : CallOK(t)) /\ (\A r \in Handles : HandleOK(r)) /\ Owned

-----------------------------------------------------------------------------
(* Frames: what a step of one call leaves of the others *)

\* No other call is inside the buildMu of t's handle.
Mine(t) == \A u \in Threads : u # t /\ th[u].pc \in Inside => th[u].r # th[t].r

LEMMA InsideIsMine ==
  ASSUME Fleet, NEW t \in Threads, th[t].pc \in Inside
  PROVE  Mine(t)
<1> SUFFICES ASSUME NEW u \in Threads, u # t, th[u].pc \in Inside PROVE th[u].r # th[t].r
  BY Zenon DEF Mine
<1>1. CallOK(t) /\ CallOK(u)
  BY Zenon DEF Fleet
<1>2. CASE Builder(th[t]) \/ Builder(th[u])
  BY <1>1, <1>2, Zenon DEF CallOK
<1>3. CASE ~Builder(th[t]) /\ ~Builder(th[u])
  BY <1>1, <1>3, Zenon DEF CallOK
<1>4. QED BY <1>2, <1>3, Zenon

LEMMA UnlockedIsMine ==
  ASSUME Fleet, NEW t \in Threads, hd[th[t].r].buildMu = None
  PROVE  Mine(t)
<1> SUFFICES ASSUME NEW u \in Threads, u # t, th[u].pc \in Inside PROVE th[u].r # th[t].r
  BY Zenon DEF Mine
<1>1. CallOK(u) /\ u # None
  BY NoneAssumption, Zenon DEF Fleet
<1>2. QED BY <1>1, Zenon DEF CallOK

\* A thread that does not hold Manager.mu is in no call that relies on the map.
LEMMA OutsideMu ==
  ASSUME IInv, NEW u \in Threads, mu # u
  PROVE  /\ ~Slotted(th[u]) /\ ~Builder(th[u])
         /\ th[u].pc \notin {"applyRemoved", "stopDelete", "closeDelete"}
<1>1. ~HoldsMu(th[u]) /\ th[u].ret \in Rets
  BY Zenon DEF IInv, LocksOK, ThreadOK
<1>2. QED BY <1>1, Zenon DEF HoldsMu, Slotted, Builder, SlotRets, MuRets, MuPcs, Rets

LEMMA OthersOK ==
  ASSUME IInv, Fleet, NEW t \in Threads, NEW u \in Threads, u # t,
         \A v \in Threads : v # t => th'[v] = th[v],
         listeners' = listeners \/ mu = t,
         \A q \in Handles : \/ hd'[q].buildMu = hd[q].buildMu /\ hd'[q].srv = hd[q].srv
                            \/ q = th[t].r /\ Mine(t)
                            \/ \A v \in Threads : th[v].r # q,
         \/ th'[t].r \in {th[t].r, None}
         \/ \E n \in Names : th'[t].r = listeners[n]
         \/ mu = t,
         \A q \in Handles : hd'[q].srv \in {hd[q].srv, None} \/ mu = t \/ (q = th'[t].r /\ Rebuilder(th'[t])),
         Rebuilder(th[t]) => (Rebuilder(th'[t]) /\ th'[t].r = th[t].r) \/ mu = None
  PROVE  CallOK(u)'
<1> DEFINE x == th[u]
<1>1. CallOK(u) /\ th'[u] = th[u] /\ ThreadOK(th[u], u)
  BY Zenon DEF Fleet, IInv, LocksOK
<1>2. x.pc \in Inside \cup {"applyRemoved", "stopDelete", "closeDelete"} => x.r \in Handles
  <2>1. x.pc \in HandlePcs => x.r \in Handles
    BY <1>1, Zenon DEF ThreadOK
  <2>2. x.pc \in Inside => x.pc \in HandlePcs
    BY Zenon DEF Inside, Stopping, Starting, HandlePcs, CallPcs, Own
  <2>3. x.pc \in {"applyRemoved", "stopDelete", "closeDelete"} => x.r \in Handles
    BY <1>1, ZenonT(40) DEF CallOK, Slotted, SlotRets, MuRets, Rets
  <2>4. QED BY <2>1, <2>2, <2>3, Zenon
<1>3. CASE mu = u
  <2>1. listeners' = listeners /\ mu # t /\ mu # None
    BY <1>3, NoneAssumption, Zenon
  <2>2. Builder(x) => \A v \in Threads : v # u => th'[v].r # x.r
    <3> SUFFICES ASSUME Builder(x), NEW v \in Threads, v # u PROVE th'[v].r # x.r
      BY Zenon
    <3>1. x.pc \in Inside \cup {"applyBuilt"} /\ x.r # th[v].r /\ \A m \in Names : listeners[m] # x.r
      BY <1>1, Zenon DEF CallOK, Inside
    <3>2. x.r # None
      BY <1>1, <1>2, <3>1, NoneAssumption, ZenonT(40) DEF ThreadOK, HandlePcs
    <3>3. CASE v # t
      BY <3>1, <3>3, Zenon
    <3>4. CASE v = t
      BY <2>1, <3>1, <3>2, <3>4, Zenon
    <3>5. QED BY <3>3, <3>4, Zenon
  <2>3. x.pc \in Inside => hd'[x.r].buildMu = hd[x.r].buildMu /\ hd'[x.r].srv = hd[x.r].srv
    BY <1>2, Zenon DEF Mine
  <2>4. x.pc \in {"applyRemoved", "stopDelete", "closeDelete"} =>
          hd'[x.r].srv = None \/ \E v \in Threads : th'[v].r = x.r /\ Rebuilder(th'[v])
    <3> SUFFICES ASSUME x.pc \in {"applyRemoved", "stopDelete", "closeDelete"}, hd'[x.r].srv # None
                 PROVE  \E v \in Threads : th'[v].r = x.r /\ Rebuilder(th'[v])
      BY Zenon
    <3>1. CASE x.r = th'[t].r /\ Rebuilder(th'[t])
      BY <3>1, Zenon
    <3>2. CASE hd'[x.r].srv = hd[x.r].srv
      <4>1. PICK w \in Threads : th[w].r = x.r /\ Rebuilder(th[w])
        BY <1>1, <3>2, Zenon DEF CallOK
      <4>2. th'[w].r = x.r /\ Rebuilder(th'[w])
        BY <2>1, <4>1, ZenonT(40)
      <4>3. QED BY <4>2, Zenon
    <3>3. QED BY <1>2, <2>1, <3>1, <3>2, Zenon
  <2>5. QED
    BY <1>1, <2>1, <2>2, <2>3, <2>4, Zenon DEF CallOK, Inside
<1>4. CASE mu # u
  <2>1. /\ ~Slotted(x) /\ ~Builder(x)
        /\ x.pc \notin {"applyRemoved", "stopDelete", "closeDelete"}
    BY <1>4, OutsideMu, Zenon
  <2>2. x.pc \in Inside => hd'[x.r].buildMu = hd[x.r].buildMu /\ hd'[x.r].srv = hd[x.r].srv
    BY <1>2, Zenon DEF Mine
  <2>3. QED
    BY <1>1, <2>1, <2>2, Zenon DEF CallOK, Inside
<1>5. QED BY <1>3, <1>4, Zenon

LEMMA HandleKept ==
  ASSUME Fleet, NEW t \in Threads, NEW q \in Handles,
         \A v \in Threads : v # t => th'[v] = th[v],
         hd'[q].srv = hd[q].srv /\ hd'[q].done = hd[q].done /\ hd'[q].state = hd[q].state,
         hd[q].srv # None => /\ sv'[hd[q].srv].serve = sv[hd[q].srv].serve
                             /\ sv'[hd[q].srv].owner = sv[hd[q].srv].owner,
         th[t].r = q /\ Building(th[t]) => th'[t].r = q /\ Building(th'[t]),
         th[t].r = q /\ Minds(th[t]) => \/ th'[t].r = q /\ Minds(th'[t])
                                        \/ \E n \in Names : listeners'[n] = q,
         \A n \in Names : listeners[n] = q /\ hd[q].srv # None =>
            \/ listeners'[n] = q
            \/ \E v \in Threads : th'[v].r = q /\ Minds(th'[v])
  PROVE  HandleOK(q)'
<1>1. HandleOK(q)
  BY Zenon DEF Fleet
<1>2. hd[q].state = "building" => \E v \in Threads : th'[v].r = q /\ Building(th'[v])
  <2> SUFFICES ASSUME hd[q].state = "building"
               PROVE  \E v \in Threads : th'[v].r = q /\ Building(th'[v])
    BY Zenon
  <2>1. PICK v \in Threads : th[v].r = q /\ Building(th[v])
    BY <1>1, Zenon DEF HandleOK
  <2>2. th'[v].r = q /\ Building(th'[v])
    BY <2>1, Zenon
  <2>3. QED BY <2>2, Zenon
<1>3. hd[q].srv # None => \/ \E n \in Names : listeners'[n] = q
                          \/ \E v \in Threads : th'[v].r = q /\ Minds(th'[v])
  <2> SUFFICES ASSUME hd[q].srv # None
               PROVE  \/ \E n \in Names : listeners'[n] = q
                      \/ \E v \in Threads : th'[v].r = q /\ Minds(th'[v])
    BY Zenon
  <2>1. CASE \E n \in Names : listeners[n] = q
    BY <2>1, Zenon
  <2>2. CASE \E v \in Threads : th[v].r = q /\ Minds(th[v])
    <3>1. PICK v \in Threads : th[v].r = q /\ Minds(th[v])
      BY <2>2, Zenon
    <3>2. CASE v = t
      BY <3>1, <3>2, Zenon
    <3>3. CASE v # t
      <4>1. th'[v].r = q /\ Minds(th'[v])
        BY <3>1, <3>3, Zenon
      <4>2. QED BY <4>1, ZenonT(40)
    <3>4. QED BY <3>2, <3>3, Zenon
  <2>3. QED BY <1>1, <2>1, <2>2, Zenon DEF HandleOK
<1>4. QED BY <1>1, <1>2, <1>3, Zenon DEF HandleOK

LEMMA OwnedKept ==
  ASSUME Owned, NEW t \in Threads,
         \A v \in Threads : v # t => th'[v] = th[v],
         \A s \in Servers : sv'[s].close = "no" =>
            sv[s].close = "no" \/ (th'[t].pc \in Own /\ th'[t].s = s),
         th[t].pc \in Own /\ sv'[th[t].s].close = "no" =>
            \/ th'[t].pc \in Own /\ th'[t].s = th[t].s
            \/ \E q \in Handles : hd'[q].srv = th[t].s,
         \A r \in Handles : hd[r].srv \in Servers /\ sv'[hd[r].srv].close = "no" =>
            \E q \in Handles : hd'[q].srv = hd[r].srv
  PROVE  Owned'
<1> SUFFICES ASSUME NEW s \in Servers, sv'[s].close = "no"
             PROVE  \/ \E v \in Threads : th'[v].pc \in Own /\ th'[v].s = s
                    \/ \E q \in Handles : hd'[q].srv = s
  BY Zenon DEF Owned
<1>1. CASE th'[t].pc \in Own /\ th'[t].s = s
  BY <1>1, Zenon
<1>2. CASE \E v \in Threads : th[v].pc \in Own /\ th[v].s = s
  <2>1. PICK v \in Threads : th[v].pc \in Own /\ th[v].s = s
    BY <1>2, Zenon
  <2>2. CASE v = t
    BY <2>1, <2>2, Zenon
  <2>3. CASE v # t
    BY <2>1, <2>3, Zenon
  <2>4. QED BY <2>2, <2>3, Zenon
<1>3. CASE \E r \in Handles : hd[r].srv = s
  BY <1>3
<1>4. QED BY <1>1, <1>2, <1>3, Zenon DEF Owned

-----------------------------------------------------------------------------
(* The steps, by what they touch *)

\* A step inside buildMu that leaves every handle and the map alone.
LEMMA PcMove ==
  ASSUME IInv, Fleet, NEW t \in Threads,
         \A v \in Threads : v # t => th'[v] = th[v],
         hd' = hd, listeners' = listeners,
         th[t].pc \in Stopping \cup Starting, th'[t].pc \in Stopping \cup Starting,
         th[t].pc \in Starting => th'[t].pc \in Starting,
         th'[t].pc \in Starting => th[t].pc \in Starting \/ th[t].rb,
         th'[t].ret = th[t].ret, th'[t].r = th[t].r, th'[t].n = th[t].n, th'[t].rb = th[t].rb,
         \A s \in Servers : sv'[s].serve = sv[s].serve /\ sv'[s].owner = sv[s].owner,
         \A s \in Servers : sv'[s].close = "no" =>
            sv[s].close = "no" \/ (th'[t].pc \in Own /\ th'[t].s = s),
         th[t].pc \in Own /\ sv'[th[t].s].close = "no" => th'[t].pc \in Own /\ th'[t].s = th[t].s
  PROVE  Fleet'
<1>0. CallOK(t) /\ Owned /\ \A q \in Handles : hd[q].srv \in Servers \cup {None}
  BY Zenon DEF Fleet, IInv, ServersOK,
      ServersTyped, NoUseAfterClose, HandlesApart, BuildersOwn, UnaskedAwake, WaitersApart
<1>1. /\ Rebuilder(th'[t]) <=> Rebuilder(th[t])
      /\ Builder(th'[t]) <=> Builder(th[t])
      /\ Slotted(th'[t]) <=> Slotted(th[t])
      /\ th'[t].pc \notin {"stopLock", "rebuildLock", "rebuildStop", "applyRemoved", "stopDelete", "closeDelete"}
      /\ th[t].pc \notin {"stopLock", "applyBuilt"}
  BY Zenon DEF Rebuilder, Builder, Slotted, SlotRets, MuRets, Rets, Stopping, Starting, Own
<1>2. CallOK(t)'
  BY <1>0, <1>1, ZenonT(40) DEF CallOK, Inside
<1>3. ASSUME NEW u \in Threads PROVE CallOK(u)'
  <2>1. CASE u # t
    BY <1>1, <2>1, OthersOK, Zenon
  <2>2. QED BY <1>2, <2>1, Zenon
<1>4. ASSUME NEW q \in Handles PROVE HandleOK(q)'
  <2>1. Building(th[t]) => Building(th'[t])
    BY <1>1, Zenon DEF Building
  <2>2. Minds(th[t]) => Minds(th'[t])
    BY <1>1, Zenon DEF Minds
  <2>3. QED BY <1>0, <2>1, <2>2, HandleKept, ZenonT(40)
<1>5. Owned'
  BY <1>0, OwnedKept, ZenonT(40)
<1>6. QED BY <1>3, <1>4, <1>5, Zenon DEF Fleet

\* A step outside buildMu that changes only the locals of t.
LEMMA OwnMove ==
  ASSUME IInv, Fleet, NEW t \in Threads,
         \A v \in Threads : v # t => th'[v] = th[v],
         hd' = hd, listeners' = listeners, sv' = sv,
         th[t].pc \notin Inside \cup {"applyBuilt"}, th'[t].pc \notin Inside,
         ~Builder(th'[t]), th'[t].rb = FALSE,
         th'[t].pc \notin {"applyRemoved", "stopDelete", "closeDelete"},
         th'[t].pc = "rebuildLock" => th'[t].ret \in {"rebuildCheck", "applyScan"},
         Slotted(th'[t]) => th'[t].n \in Names /\ th'[t].r \in Handles /\ listeners[th'[t].n] = th'[t].r,
         Rebuilder(th'[t]) => th'[t].n \in Names,
         th'[t].r \in {th[t].r, None} \/ \E n \in Names : th'[t].r = listeners[n],
         Minds(th[t]) => (th'[t].r = th[t].r /\ Minds(th'[t])) \/ \E n \in Names : listeners[n] = th[t].r,
         Rebuilder(th[t]) => (Rebuilder(th'[t]) /\ th'[t].r = th[t].r) \/ mu = None
  PROVE  Fleet'
<1>0. CallOK(t) /\ Owned /\ \A q \in Handles : hd[q].srv \in Servers \cup {None}
  BY Zenon DEF Fleet, IInv, ServersOK,
      ServersTyped, NoUseAfterClose, HandlesApart, BuildersOwn, UnaskedAwake, WaitersApart
<1>1. ~Building(th[t]) /\ th[t].pc \notin Own /\ th'[t].pc \notin Own
  BY <1>0, ZenonT(40) DEF Building, CallOK, Inside, Starting
<1>2. CallOK(t)'
  BY Zenon DEF CallOK, Inside
<1>3. ASSUME NEW u \in Threads PROVE CallOK(u)'
  <2>1. CASE u # t
    BY <2>1, OthersOK, Zenon
  <2>2. QED BY <1>2, <2>1, Zenon
<1>4. ASSUME NEW q \in Handles PROVE HandleOK(q)'
  BY <1>0, <1>1, HandleKept, Zenon
<1>5. Owned'
  BY <1>0, <1>1, OwnedKept, Zenon
<1>6. QED BY <1>3, <1>4, <1>5, Zenon DEF Fleet

\* A step that changes the handle t works on, and no other handle.
LEMMA OwnHandle ==
  ASSUME IInv, Fleet, NEW t \in Threads, NEW r \in Handles, th[t].r = r, Mine(t),
         \A v \in Threads : v # t => th'[v] = th[v],
         \A q \in Handles : q # r => hd'[q] = hd[q],
         listeners' = listeners,
         \A s \in Servers : \/ sv'[s].serve = sv[s].serve /\ sv'[s].owner = sv[s].owner
                            \/ \A q \in Handles : hd[q].srv # s,
         th'[t].r \in {r, None},
         hd'[r].srv \in {hd[r].srv, None} \/ mu = t \/ (Rebuilder(th'[t]) /\ th'[t].r = r),
         Rebuilder(th[t]) => Rebuilder(th'[t]) /\ th'[t].r = r,
         CallOK(t)', HandleOK(r)', Owned'
  PROVE  Fleet'
<1>0. \A q \in Handles : hd[q].srv \in Servers \cup {None}
  BY Zenon DEF IInv, ServersOK, ServersTyped, NoUseAfterClose, HandlesApart, BuildersOwn, UnaskedAwake, WaitersApart
<1>1. ASSUME NEW u \in Threads PROVE CallOK(u)'
  <2>1. CASE u # t
    BY <2>1, OthersOK, Zenon
  <2>2. QED BY <2>1, Zenon
<1>2. ASSUME NEW q \in Handles PROVE HandleOK(q)'
  <2>1. CASE q # r
    <3>1. hd[q].srv # None => /\ sv'[hd[q].srv].serve = sv[hd[q].srv].serve
                              /\ sv'[hd[q].srv].owner = sv[hd[q].srv].owner
      BY <1>0, Zenon
    <3>2. QED BY <2>1, <3>1, HandleKept, ZenonT(40)
  <2>2. QED BY <2>1, Zenon
<1>3. QED BY <1>1, <1>2, Zenon DEF Fleet

-----------------------------------------------------------------------------
(* The teardown and the start *)

\* What every step of t starts from.
LEMMA StepFacts ==
  ASSUME IInv, NEW t \in Threads
  PROVE  /\ DOMAIN th = Threads /\ DOMAIN th[t] = ThFields
         /\ DOMAIN hd = Handles /\ DOMAIN sv = Servers
         /\ \A r \in Handles : DOMAIN hd[r] = HdFields /\ hd[r].srv \in Servers \cup {None}
         /\ \A s \in Servers : DOMAIN sv[s] = SvFields
         /\ th[t].pc \in HandlePcs => th[t].r \in Handles
         /\ th[t].pc \in Own => th[t].s \in Servers
         /\ th[t].pc = "stopClose" => th[t].s \in Servers
<1>1. th[t].pc \in HandlePcs => th[t].r \in Handles
  BY Zenon DEF IInv, LocksOK, ThreadOK
<1>2. th[t].pc \in Own => th[t].s \in Servers
  BY Zenon DEF IInv, ServersOK, BuildersOwn
<1>3. th[t].pc = "stopClose" => th[t].s \in Servers
  BY Zenon DEF IInv, ServersOK, WaitersApart
<1>4. DOMAIN th = Threads /\ DOMAIN th[t] = ThFields
  BY ZenonT(40) DEF IInv, LocksOK, ThreadOK
<1>5. QED BY <1>1, <1>2, <1>3, <1>4, Zenon DEF IInv, ServersOK, ServersTyped

LEMMA PcSteps ==
  ASSUME IInv, Fleet, NEW t \in Threads,
         \/ StopClosed(t) \/ StopAbandon(t) \/ HostApply(t) \/ HostApplyFails(t) \/ Persist(t)
         \/ At(t, "stopHost") /\ hd' = hd /\ sv' = sv /\ listeners' = listeners
              /\ th' = [th EXCEPT ![t].pc = "stopForget"]
  PROVE  Fleet'
<1> USE StepFacts
<1>1. PICK p \in {"stopHost", "persist", "closeFailed", "publish", "stopForget"} :
        /\ th' = [th EXCEPT ![t].pc = p]
        /\ \/ th[t].pc \in Stopping /\ p \in Stopping
           \/ th[t].pc = "hostApply" /\ p = "persist"
           \/ th[t].pc = "persist" /\ p = "publish"
           \/ th[t].pc = "hostApply" /\ p = "closeFailed" /\ sv'[th[t].s].close = "running"
        /\ hd' = hd /\ listeners' = listeners
  BY ZenonT(40) DEF StopClosed, StopAbandon, HostApply, HostApplyFails, Persist, At, Stopping, Own, SvFields
<1>2. /\ th'[t].pc = p /\ th'[t].ret = th[t].ret /\ th'[t].r = th[t].r /\ th'[t].n = th[t].n
      /\ th'[t].rb = th[t].rb /\ th'[t].s = th[t].s
      /\ \A v \in Threads : v # t => th'[v] = th[v]
  BY <1>1, Zenon DEF ThFields
<1>3. \A s \in Servers : /\ sv'[s].serve = sv[s].serve /\ sv'[s].owner = sv[s].owner
                         /\ sv'[s].close = "no" => sv[s].close = "no"
  <2>1. CASE StopAbandon(t)
    BY <2>1, Zenon DEF StopAbandon, At, SvFields
  <2>2. CASE HostApply(t)
    <3>1. PICK w \in BOOLEAN : sv' = [sv EXCEPT ![th[t].s].nat = w]
      BY <2>2, Zenon DEF HostApply
    <3>2. QED BY <2>2, <3>1, ZenonT(40) DEF HostApply, At, Own, SvFields
  <2>3. CASE HostApplyFails(t)
    BY <2>3, Zenon DEF HostApplyFails, At, Own, SvFields
  <2>4. CASE sv' = sv
    BY <2>4, Zenon
  <2>5. QED BY <2>1, <2>2, <2>3, <2>4, Zenon DEF StopClosed, Persist
<1>4. /\ th[t].pc \in Stopping \cup Starting /\ p \in Stopping \cup Starting
      /\ th[t].pc \in Starting <=> p \in Starting
      /\ th[t].pc \in Own /\ sv'[th[t].s].close = "no" => p \in Own
  BY <1>1, Zenon DEF Stopping, Starting, Own
<1>5. QED BY <1>1, <1>2, <1>3, <1>4, PcMove, SMTT(30)

LEMMA ConstructKeeps ==
  ASSUME IInv, Fleet, NEW t \in Threads, Construct(t)
  PROVE  Fleet'
<1> USE StepFacts
<1>1. PICK s \in Servers :
        /\ ServerFree(s)
        /\ sv' = [sv EXCEPT ![s].close = "no"]
        /\ th' = [th EXCEPT ![t] =
                    [th[t] EXCEPT !.s = s, !.pc = IF th[t].cfg.nat THEN "hostApply" ELSE "publish"]]
        /\ th[t].pc = "construct" /\ hd' = hd /\ listeners' = listeners
  BY Zenon DEF Construct, At
<1>2. /\ th'[t].pc \in Own /\ th'[t].ret = th[t].ret /\ th'[t].r = th[t].r /\ th'[t].n = th[t].n
      /\ th'[t].rb = th[t].rb /\ th'[t].s = s
      /\ \A v \in Threads : v # t => th'[v] = th[v]
  BY <1>1, Zenon DEF ThFields, Own
<1>3. \A q \in Servers : /\ sv'[q].serve = sv[q].serve /\ sv'[q].owner = sv[q].owner
                         /\ sv'[q].close = "no" => sv[q].close = "no" \/ q = s
  BY <1>1, Zenon DEF SvFields
<1>4. th[t].pc \in Starting /\ th'[t].pc \in Starting /\ th[t].pc \notin Own
  BY <1>1, <1>2, Zenon DEF Starting, Own
<1>5. QED BY <1>1, <1>2, <1>3, <1>4, PcMove, ZenonT(40)

LEMMA RebuildGoesOn ==
  ASSUME IInv, Fleet, NEW t \in Threads, th[t].pc \in Stopping, th[t].rb, StopReturns(t),
         sv' = sv, listeners' = listeners
  PROVE  Fleet'
<1> USE StepFacts
<1>1. th' = [th EXCEPT ![t] = [th[t] EXCEPT !.pc = "start", !.s = None, !.nat = FALSE]] /\ hd' = hd
  BY Zenon DEF StopReturns
<1>2. /\ th'[t].pc = "start" /\ th'[t].ret = th[t].ret /\ th'[t].r = th[t].r /\ th'[t].n = th[t].n
      /\ th'[t].rb = th[t].rb
      /\ \A v \in Threads : v # t => th'[v] = th[v]
  BY <1>1, Zenon DEF ThFields
<1>3. th'[t].pc \in Starting /\ th[t].pc \notin Own
  BY <1>2, Zenon DEF Starting, Own, Stopping
<1>4. QED BY <1>1, <1>2, <1>3, PcMove, Zenon

\* The first section of a teardown: the handle lets go of its server.
LEMMA CaptureKeeps ==
  ASSUME IInv, Fleet, NEW t \in Threads, StopLock(t) \/ RebuildStop(t)
  PROVE  Fleet'
<1> USE StepFacts
<1>1. PICK r \in Handles : th[t].r = r
  BY ZenonT(40) DEF StopLock, RebuildStop, At, HandlePcs, CallPcs
<1>2. /\ th'[t].pc \in Stopping /\ th'[t].ret = th[t].ret /\ th'[t].r = r /\ th'[t].n = th[t].n
      /\ th'[t].rb = th[t].rb
      /\ \A v \in Threads : v # t => th'[v] = th[v]
  <2>1. PICK p \in Stopping : \E s, nat : th' = [th EXCEPT ![t] = [th[t] EXCEPT !.s = s, !.nat = nat, !.pc = p]]
    BY <1>1, ZenonT(40) DEF StopLock, RebuildStop, Capture, Stopping
  <2>2. QED BY <1>1, <2>1, Zenon DEF ThFields
<1>3. /\ hd'[r].srv = None /\ hd'[r].done = None /\ hd'[r].buildMu = t
      /\ hd'[r].state = "stopped" \/ (hd'[r].state = "building" /\ hd[r].state = "building")
      /\ \A q \in Handles : q # r => hd'[q] = hd[q]
  <2>1. PICK st : /\ hd' = [hd EXCEPT ![r] =
                            [hd[r] EXCEPT !.srv = None, !.done = None, !.buildMu = t, !.state = st]]
                  /\ st = "stopped" \/ (st = "building" /\ hd[r].state = "building")
    BY <1>1, Zenon DEF StopLock, RebuildStop, Capture, HdFields
  <2>2. QED BY <2>1, Zenon DEF HdFields
<1>4. /\ \A s \in Servers : /\ sv'[s].serve = sv[s].serve /\ sv'[s].owner = sv[s].owner
                            /\ sv'[s].close = "no" => sv[s].close = "no" /\ s # hd[r].srv
      /\ listeners' = listeners
  <2>1. CASE hd[r].srv = None
    BY <1>1, <2>1, NoneAssumption, Zenon DEF StopLock, RebuildStop, Capture
  <2>2. CASE hd[r].srv # None
    BY <1>1, <2>2 DEF StopLock, RebuildStop, Capture, SvFields
  <2>3. QED BY <2>1, <2>2, ZenonT(40)
<1>5. CallOK(t) /\ HandleOK(r) /\ Owned
  BY Zenon DEF Fleet
<1>6. th[t].pc \in {"stopLock", "rebuildStop"} /\ (th[t].pc = "stopLock" => hd[r].buildMu = None)
  BY <1>1, Zenon DEF StopLock, RebuildStop, At
<1>7. /\ ~Builder(th[t]) /\ ~Builder(th'[t]) /\ (Slotted(th'[t]) <=> Slotted(th[t]))
      /\ Rebuilder(th[t]) <=> Rebuilder(th'[t])
      /\ th'[t].pc \in Inside \ (Starting \cup {"rebuildStop", "rebuildLock", "applyRemoved", "stopDelete", "closeDelete"})
      /\ th[t].pc \notin Own
  BY <1>2, <1>5, <1>6, Zenon DEF CallOK, Builder, Rebuilder, Slotted, SlotRets, MuRets, Rets, Inside, Stopping, Starting, Own
<1>8. CallOK(t)'
  <2>1. th[t].rb \in BOOLEAN /\ (th[t].rb => th[t].ret \in {"rebuildCheck", "applyScan"})
    BY <1>5, ZenonT(40) DEF CallOK
  <2>2. /\ Slotted(th[t]) => th[t].n \in Names /\ listeners[th[t].n] = r
        /\ Rebuilder(th[t]) => th[t].n \in Names
    BY <1>1, <1>5, Zenon DEF CallOK
  <2>3. QED BY <1>2, <1>3, <1>4, <1>7, <2>1, <2>2, Zenon DEF CallOK
<1>9. hd'[r].state = "building" => th[t].rb
  <2> SUFFICES ASSUME hd[r].state = "building", th[t].pc = "stopLock" PROVE FALSE
    BY <1>3, <1>5, <1>6, ZenonT(40) DEF CallOK
  <2>1. PICK v \in Threads : th[v].r = r /\ Building(th[v])
    BY <1>5, Zenon DEF HandleOK
  <2>2. CallOK(v)
    BY Zenon DEF Fleet
  <2>3. v # None
    BY NoneAssumption, ZenonT(40)
  <2>4. CASE th[v].rb
    BY <1>6, <2>1, <2>2, <2>3, <2>4, Zenon DEF CallOK
  <2>5. CASE Builder(th[v])
    BY <1>1, <1>7, <2>1, <2>2, <2>5, ZenonT(40) DEF CallOK
  <2>6. QED BY <2>1, <2>4, <2>5, Zenon DEF Building
<1>10. HandleOK(r)'
  BY <1>2, <1>3, <1>9, Zenon DEF HandleOK, Building
<1>11. Owned'
  BY <1>2, <1>3, <1>4, <1>5, <1>7, OwnedKept, ZenonT(40)
<1>12. Mine(t)
  <2>1. CASE th[t].pc = "stopLock"
    BY <1>1, <1>6, <2>1, UnlockedIsMine, Zenon
  <2>2. CASE th[t].pc = "rebuildStop"
    BY <2>2, InsideIsMine, ZenonT(40) DEF Inside
  <2>3. QED BY <1>6, <2>1, <2>2, Zenon
<1>13. QED BY <1>1, <1>2, <1>3, <1>4, <1>7, <1>8, <1>10, <1>11, <1>12, OwnHandle, ZenonT(40)

\* A call on a handle returns to its caller.
LEMMA ReturnedClass ==
  ASSUME IInv, Fleet, NEW t \in Threads, th' = [th EXCEPT ![t] = Returned(t)],
         th[t].pc \in Stopping \cup Starting
  PROVE  /\ \A v \in Threads : v # t => th'[v] = th[v]
         /\ th'[t].pc = th[t].ret /\ th'[t].rb = FALSE
         /\ th'[t].pc \notin Inside \cup {"stopLock", "rebuildLock"}
         /\ th'[t].r \in {th[t].r, None}
         /\ Slotted(th'[t]) => Slotted(th[t]) /\ th'[t].n = th[t].n /\ th'[t].r = th[t].r
         /\ Builder(th'[t]) <=> Builder(th[t])
         /\ Builder(th[t]) => th'[t].n = th[t].n /\ th'[t].r = th[t].r /\ th'[t].pc = "applyBuilt"
         /\ Rebuilder(th[t]) => Rebuilder(th'[t]) /\ th'[t].r = th[t].r
         /\ Rebuilder(th'[t]) => Rebuilder(th[t]) /\ th'[t].n = th[t].n
         /\ th'[t].pc \in {"applyRemoved", "stopDelete", "closeDelete"} => th'[t].r = th[t].r
<1> USE StepFacts
<1>1. th[t].ret \in Rets /\ LocksOK
  BY Zenon DEF IInv, LocksOK, ThreadOK
<1>2. th'[t] = Returned(t) /\ \A v \in Threads : v # t => th'[v] = th[v]
  BY Zenon
<1>3. Returned(t).rb = FALSE /\ Returned(t).r \in {th[t].r, None}
  <2>1. CASE th[t].ret = "idle"
    BY <2>1, Zenon DEF Returned, Idle
  <2>2. CASE th[t].ret = "applyScan"
    BY <2>2, Zenon DEF Returned, ThFields
  <2>3. CASE th[t].ret \notin {"idle", "applyScan"}
    BY <2>3, Zenon DEF Returned, ThFields
  <2>4. QED BY <2>1, <2>2, <2>3, Zenon
<1>4. /\ th'[t].pc = th[t].ret /\ th'[t].ret = "idle" /\ th'[t].rb = FALSE /\ th'[t].r \in {th[t].r, None}
      /\ th[t].ret \notin {"idle", "applyScan"} => th'[t].n = th[t].n /\ th'[t].r = th[t].r
  BY <1>1, <1>2, <1>3, ReturnedFacts, ZenonT(40)
<1>5. QED
  BY <1>1, <1>2, <1>4, Zenon DEF Slotted, SlotRets, MuRets, Builder, Rebuilder, Inside, Stopping, Starting, Own, Rets

LEMMA ReturnedCall ==
  ASSUME IInv, Fleet, NEW t \in Threads, th' = [th EXCEPT ![t] = Returned(t)],
         th[t].pc \in Stopping \cup Starting, listeners' = listeners,
         th'[t].pc \in {"applyRemoved", "stopDelete", "closeDelete"} => hd'[th'[t].r].srv = None
  PROVE  CallOK(t)'
<1>1. CallOK(t)
  BY ZenonT(40) DEF Fleet
<1>2. /\ \A v \in Threads : v # t => th'[v] = th[v]
      /\ th'[t].rb = FALSE
      /\ th'[t].pc \notin Inside \cup {"stopLock", "rebuildLock"}
      /\ Slotted(th'[t]) => Slotted(th[t]) /\ th'[t].n = th[t].n /\ th'[t].r = th[t].r
      /\ Builder(th'[t]) <=> Builder(th[t])
      /\ Builder(th[t]) => th'[t].n = th[t].n /\ th'[t].r = th[t].r /\ th'[t].pc = "applyBuilt"
      /\ Rebuilder(th'[t]) => Rebuilder(th[t]) /\ th'[t].n = th[t].n
  BY ReturnedClass, Zenon
<1>3. Slotted(th'[t]) => /\ th'[t].n \in Names /\ th'[t].r \in Handles
                         /\ listeners'[th'[t].n] = th'[t].r
  BY <1>1, <1>2, Zenon DEF CallOK
<1>r. Rebuilder(th'[t]) => th'[t].n \in Names
  BY <1>1, <1>2, ZenonT(40) DEF CallOK
<1>4. Builder(th'[t]) => /\ th'[t].n \in Names /\ listeners'[th'[t].n] = None
                         /\ \A m \in Names : listeners'[m] # th'[t].r
                         /\ \A u \in Threads : u # t => th'[u].r # th'[t].r
                         /\ th'[t].pc \in Starting \cup {"applyBuilt"}
  BY <1>1, <1>2, Zenon DEF CallOK
<1>5. th'[t].pc \notin Stopping \cup Starting \cup {"rebuildStop"}
  BY <1>2, ZenonT(40) DEF Inside
<1>6. QED BY <1>2, <1>3, <1>r, <1>4, <1>5, Zenon DEF CallOK

\* A teardown that is not part of a rebuild ends and releases buildMu.
LEMMA StopEnds ==
  ASSUME IInv, Fleet, NEW t \in Threads, th[t].pc \in Stopping, ~th[t].rb, StopReturns(t),
         sv' = sv, listeners' = listeners
  PROVE  Fleet'
<1> USE StepFacts
<1>1. PICK r \in Handles : th[t].r = r
  BY Zenon DEF Stopping, HandlePcs, CallPcs
<1>2. th' = [th EXCEPT ![t] = Returned(t)] /\ hd' = [hd EXCEPT ![r].buildMu = None]
  BY <1>1, Zenon DEF StopReturns
<1>3. /\ hd'[r].srv = hd[r].srv /\ hd'[r].done = hd[r].done /\ hd'[r].state = hd[r].state
      /\ \A q \in Handles : q # r => hd'[q] = hd[q]
  BY <1>2, Zenon DEF HdFields
<1>4. CallOK(t) /\ Owned
  BY ZenonT(40) DEF Fleet
<1>5. /\ ~Builder(th[t]) /\ ~Building(th[t]) /\ hd[r].srv = None
      /\ th[t].pc \notin Own /\ th[t].pc # "stopLock"
  BY <1>1, <1>4, Zenon DEF CallOK, Builder, Building, Stopping, Starting, Own
<1>6. /\ \A v \in Threads : v # t => th'[v] = th[v]
      /\ th'[t].pc = th[t].ret /\ th'[t].rb = FALSE
      /\ th'[t].pc \notin Inside \cup {"stopLock", "rebuildLock"}
      /\ th'[t].r \in {r, None}
      /\ Slotted(th'[t]) => Slotted(th[t]) /\ th'[t].n = th[t].n /\ th'[t].r = r
      /\ ~Builder(th'[t])
      /\ Rebuilder(th[t]) => Rebuilder(th'[t]) /\ th'[t].r = r
      /\ th'[t].pc \in {"applyRemoved", "stopDelete", "closeDelete"} => th'[t].r = r
  BY <1>1, <1>2, <1>5, ReturnedClass, Zenon
<1>7. CallOK(t)'
  BY <1>2, <1>3, <1>5, <1>6, ReturnedCall, ZenonT(40)
<1>8. HandleOK(r)'
  BY <1>1, <1>3, <1>5, <1>6, HandleKept, Zenon DEF Minds
<1>9. Owned'
  BY <1>3, <1>4, <1>5, <1>6, OwnedKept, ZenonT(40)
<1>10. Mine(t)
  BY InsideIsMine, Zenon DEF Inside
<1>11. QED BY <1>1, <1>3, <1>6, <1>7, <1>8, <1>9, <1>10, OwnHandle, Zenon

\* start returns without a server, then with one.
LEMMA StartEnds ==
  ASSUME IInv, Fleet, NEW t \in Threads, StartDisabled(t) \/ ConstructFails(t) \/ CloseFailed(t)
  PROVE  Fleet'
<1> USE StepFacts
<1>0. th[t].pc \in Starting \ Own /\ th[t].pc \in HandlePcs
  BY Zenon DEF StartDisabled, ConstructFails, CloseFailed, At, Starting, Own, HandlePcs, CallPcs
<1>1. PICK r \in Handles : th[t].r = r
  BY <1>0, Zenon
<1>2. /\ th' = [th EXCEPT ![t] = Returned(t)] /\ sv' = sv /\ listeners' = listeners
      /\ \E st \in {"disabled", "error"}, e \in BOOLEAN : \E b :
           hd' = [hd EXCEPT ![r] = [[hd[r] EXCEPT !.cfg = th[t].cfg, !.srv = None, !.state = st, !.err = e]
                                        EXCEPT !.buildMu = b]]
  <2>1. CASE th[t].rb
    BY <1>1, <2>1, ZenonT(40) DEF StartDisabled, ConstructFails, CloseFailed, StartReturns, SetState
  <2>2. CASE ~th[t].rb
    BY <1>1, <2>2, Zenon DEF StartDisabled, ConstructFails, CloseFailed, StartReturns, SetState
  <2>3. QED BY <2>1, <2>2, Zenon
<1>3. /\ hd'[r].srv = None /\ hd'[r].done = hd[r].done /\ hd'[r].state \in {"disabled", "error"}
      /\ \A q \in Handles : q # r => hd'[q] = hd[q]
  BY <1>2 DEF HdFields
<1>4. CallOK(t) /\ HandleOK(r) /\ Owned
  BY Zenon DEF Fleet
<1>5. hd[r].srv = None /\ hd[r].done = None
  BY <1>0, <1>1, <1>4, Zenon DEF CallOK, HandleOK
<1>6. /\ \A v \in Threads : v # t => th'[v] = th[v]
      /\ th'[t].rb = FALSE
      /\ th'[t].pc \notin Inside \cup {"stopLock", "rebuildLock"}
      /\ th'[t].r \in {r, None}
      /\ Slotted(th'[t]) => Slotted(th[t]) /\ th'[t].n = th[t].n /\ th'[t].r = r
      /\ Builder(th'[t]) <=> Builder(th[t])
      /\ Builder(th[t]) => th'[t].n = th[t].n /\ th'[t].r = r /\ th'[t].pc = "applyBuilt"
      /\ Rebuilder(th[t]) => Rebuilder(th'[t]) /\ th'[t].r = r
      /\ th'[t].pc \in {"applyRemoved", "stopDelete", "closeDelete"} => th'[t].r = r
  BY <1>0, <1>1, <1>2, ReturnedClass, ZenonT(40)
<1>7. CallOK(t)'
  BY <1>0, <1>2, <1>3, <1>6, ReturnedCall, Zenon
<1>8. HandleOK(r)'
  BY <1>3, <1>5, ZenonT(40) DEF HandleOK
<1>9. Owned'
  <2>1. \A q \in Handles : hd[q].srv \in Servers => hd'[q].srv = hd[q].srv
    BY <1>3, <1>5, NoneAssumption, ZenonT(40)
  <2>2. QED BY <1>0, <1>2, <1>4, <1>6, <2>1, OwnedKept, Zenon
<1>10. Mine(t)
  BY <1>0, InsideIsMine, Zenon DEF Inside
<1>11. QED BY <1>1, <1>2, <1>3, <1>6, <1>7, <1>8, <1>9, <1>10, OwnHandle, Zenon

LEMMA PublishKeeps ==
  ASSUME IInv, Fleet, NEW t \in Threads, Publish(t)
  PROVE  Fleet'
<1> USE StepFacts
<1>0. th[t].pc = "publish" /\ th[t].pc \in Starting /\ th[t].pc \in Own /\ th[t].pc \in HandlePcs
  BY ZenonT(40) DEF Publish, At, Starting, Own, HandlePcs, CallPcs
<1>1. PICK r \in Handles : th[t].r = r
  BY <1>0, Zenon
<1>s. PICK s \in Servers : th[t].s = s
  BY <1>0, Zenon
<1>2. /\ th' = [th EXCEPT ![t] = Returned(t)] /\ listeners' = listeners
      /\ sv' = [sv EXCEPT ![s] = [sv[s] EXCEPT !.serve = TRUE, !.owner = r]]
      /\ \E b : hd' = [hd EXCEPT ![r] =
           [[hd[r] EXCEPT !.cfg = th[t].cfg, !.srv = s, !.done = s, !.state = "running", !.err = FALSE]
              EXCEPT !.buildMu = b]]
  <2>1. CASE th[t].rb
    BY <1>1, <1>s, <2>1, Zenon DEF Publish, StartReturns
  <2>2. CASE ~th[t].rb
    BY <1>1, <1>s, <2>2, ZenonT(40) DEF Publish, StartReturns
  <2>3. QED BY <2>1, <2>2, ZenonT(40)
<1>3. /\ hd'[r].srv = s /\ hd'[r].done = s /\ hd'[r].state = "running"
      /\ \A q \in Handles : q # r => hd'[q] = hd[q]
  BY <1>2 DEF HdFields
<1>4. /\ sv'[s].serve = TRUE /\ sv'[s].owner = r
      /\ \A q \in Servers : q # s => sv'[q] = sv[q]
      /\ \A q \in Servers : sv'[q].close = sv[q].close
  BY <1>2, ZenonT(40) DEF SvFields
<1>5. CallOK(t) /\ Owned /\ \A q \in Handles : hd[q].srv # s
  BY <1>0, <1>s, Zenon DEF Fleet, IInv, ServersOK,
      ServersTyped, NoUseAfterClose, HandlesApart, BuildersOwn, UnaskedAwake, WaitersApart
<1>6. /\ \A v \in Threads : v # t => th'[v] = th[v]
      /\ th'[t].pc = th[t].ret /\ th'[t].rb = FALSE
      /\ th'[t].pc \notin Inside \cup {"stopLock", "rebuildLock"}
      /\ th'[t].r \in {r, None}
      /\ Slotted(th'[t]) => Slotted(th[t]) /\ th'[t].n = th[t].n /\ th'[t].r = r
      /\ Builder(th'[t]) <=> Builder(th[t])
      /\ Builder(th[t]) => th'[t].n = th[t].n /\ th'[t].r = r /\ th'[t].pc = "applyBuilt"
      /\ Rebuilder(th[t]) => Rebuilder(th'[t]) /\ th'[t].r = r
  BY <1>0, <1>1, <1>2, ReturnedClass, Zenon
<1>7. \/ th[t].ret = "rebuildCheck" /\ Rebuilder(th'[t]) /\ th'[t].r = r
      \/ th[t].ret = "applyScan" /\ mu = t /\ \E n \in Names : listeners[n] = r
      \/ th[t].ret = "applyBuilt" /\ mu = t /\ Builder(th'[t]) /\ th'[t].r = r
  <2>1. th[t].ret \in MuRets => mu = t
    <3>1. ThreadOK(th[t], t)
      BY ZenonT(40) DEF IInv, LocksOK
    <3>2. QED BY <3>1, Zenon DEF ThreadOK, HoldsMu
  <2>2. CASE th[t].rb
    BY <1>1, <1>5, <1>6, <2>1, <2>2, Zenon DEF CallOK, Rebuilder, Slotted, MuRets, Rets
  <2>3. CASE Builder(th[t])
    BY <1>0, <1>6, <2>1, <2>3, ZenonT(40) DEF Builder, MuRets, Rets
  <2>4. QED BY <1>0, <1>5, <2>2, <2>3, ZenonT(40) DEF CallOK
<1>8. CallOK(t)'
  <2>1. th'[t].pc \notin {"applyRemoved", "stopDelete", "closeDelete"}
    BY <1>6, <1>7, ZenonT(40)
  <2>2. QED BY <1>0, <1>2, <2>1, ReturnedCall, Zenon
<1>9. HandleOK(r)'
  <2>1. (\E n \in Names : listeners'[n] = r) \/ (th'[t].r = r /\ Minds(th'[t]))
    BY <1>2, <1>7, ZenonT(40) DEF Minds
  <2>2. QED BY <1>3, <1>4, <2>1, NoneAssumption, Zenon DEF HandleOK
<1>10. Owned'
  <2>1. hd[r].srv = None
    BY <1>0, <1>1, <1>5, Zenon DEF CallOK
  <2>2. \A q \in Handles : hd[q].srv \in Servers => hd'[q].srv = hd[q].srv
    BY <1>3, <2>1, NoneAssumption, Zenon
  <2>3. QED BY <1>s, <1>3, <1>4, <1>5, <1>6, <2>2, OwnedKept
<1>11. Mine(t)
  BY <1>0, InsideIsMine, ZenonT(40) DEF Inside
<1>12. \A q \in Servers : \/ sv'[q].serve = sv[q].serve /\ sv'[q].owner = sv[q].owner
                          \/ \A h \in Handles : hd[h].srv # q
  BY <1>4, <1>5, Zenon
<1>13. mu = t \/ (Rebuilder(th'[t]) /\ th'[t].r = r)
  BY <1>7, Zenon
<1>14. QED BY <1>1, <1>2, <1>3, <1>6, <1>8, <1>9, <1>10, <1>11, <1>12, <1>13, OwnHandle, ZenonT(40)

\* The handle is shown as building: at the start of a rebuild and of the build proper.
LEMMA StartBuildingKeeps ==
  ASSUME IInv, Fleet, NEW t \in Threads, StartBuilding(t)
  PROVE  Fleet'
<1> USE StepFacts
<1>0. th[t].pc = "start" /\ th[t].pc \in Starting \ Own /\ th[t].pc \in HandlePcs
  BY Zenon DEF StartBuilding, At, Starting, Own, HandlePcs, CallPcs
<1>1. PICK r \in Handles : th[t].r = r
  BY <1>0, Zenon
<1>2. /\ th' = [th EXCEPT ![t].pc = "construct"] /\ hd' = [hd EXCEPT ![r].state = "building"]
      /\ sv' = sv /\ listeners' = listeners
  BY <1>1, Zenon DEF StartBuilding
<1>3. /\ hd'[r].srv = hd[r].srv /\ hd'[r].done = hd[r].done /\ hd'[r].buildMu = hd[r].buildMu
      /\ hd'[r].state = "building"
      /\ \A q \in Handles : q # r => hd'[q] = hd[q]
  BY <1>2, Zenon DEF HdFields
<1>4. /\ th'[t].pc = "construct" /\ th'[t].ret = th[t].ret /\ th'[t].r = r /\ th'[t].n = th[t].n
      /\ th'[t].rb = th[t].rb
      /\ \A v \in Threads : v # t => th'[v] = th[v]
  BY <1>1, <1>2, Zenon DEF ThFields
<1>5. CallOK(t) /\ HandleOK(r) /\ Owned
  BY Zenon DEF Fleet
<1>6. /\ Rebuilder(th'[t]) <=> Rebuilder(th[t])
      /\ Builder(th'[t]) <=> Builder(th[t])
      /\ Slotted(th'[t]) <=> Slotted(th[t])
      /\ th'[t].pc \in Starting /\ th'[t].pc \in Inside /\ th[t].pc \in Inside
  BY <1>0, <1>4, ZenonT(40) DEF Rebuilder, Builder, Slotted, SlotRets, MuRets, Rets, Starting, Own, Inside
<1>7. CallOK(t)'
  BY <1>0, <1>1, <1>2, <1>3, <1>4, <1>5, <1>6 DEF CallOK
<1>8. HandleOK(r)'
  BY <1>0, <1>1, <1>3, <1>4, <1>5, <1>6, Zenon DEF HandleOK, CallOK, Building
<1>9. Owned'
  BY <1>0, <1>2, <1>3, <1>4, <1>5, OwnedKept
<1>10. Mine(t)
  BY <1>6, InsideIsMine, Zenon
<1>11. QED BY <1>1, <1>2, <1>3, <1>4, <1>6, <1>7, <1>8, <1>9, <1>10, OwnHandle, ZenonT(40)

LEMMA RebuildLockKeeps ==
  ASSUME IInv, Fleet, NEW t \in Threads, RebuildLock(t)
  PROVE  Fleet'
<1> USE StepFacts
<1>0. th[t].pc = "rebuildLock" /\ th[t].pc \notin Own \cup Inside /\ th[t].pc \in HandlePcs
  BY Zenon DEF RebuildLock, At, Starting, Stopping, Inside, Own, HandlePcs, CallPcs
<1>1. PICK r \in Handles : th[t].r = r
  BY <1>0, Zenon
<1>2. /\ th' = [th EXCEPT ![t] = [th[t] EXCEPT !.pc = "rebuildStop", !.rb = TRUE]]
      /\ hd' = [hd EXCEPT ![r] = [hd[r] EXCEPT !.buildMu = t, !.state = "building"]]
      /\ sv' = sv /\ listeners' = listeners /\ hd[r].buildMu = None
  BY <1>1, Zenon DEF RebuildLock
<1>3. /\ hd'[r].srv = hd[r].srv /\ hd'[r].done = hd[r].done /\ hd'[r].buildMu = t
      /\ hd'[r].state = "building"
      /\ \A q \in Handles : q # r => hd'[q] = hd[q]
  BY <1>2, ZenonT(40) DEF HdFields
<1>4. /\ th'[t].pc = "rebuildStop" /\ th'[t].ret = th[t].ret /\ th'[t].r = r /\ th'[t].n = th[t].n
      /\ th'[t].rb = TRUE
      /\ \A v \in Threads : v # t => th'[v] = th[v]
  BY <1>1, <1>2, Zenon DEF ThFields
<1>5. CallOK(t) /\ HandleOK(r) /\ Owned
  BY Zenon DEF Fleet
<1>6. /\ Rebuilder(th'[t]) <=> Rebuilder(th[t])
      /\ ~Builder(th[t]) /\ ~Builder(th'[t])
      /\ Slotted(th'[t]) <=> Slotted(th[t])
      /\ th'[t].pc \notin Stopping \cup Starting \cup Own /\ th'[t].pc \in Inside
      /\ Minds(th[t]) => Minds(th'[t])
  BY <1>0, <1>4, <1>5, Zenon DEF CallOK, Minds, Rebuilder, Builder, Slotted, SlotRets, MuRets, Rets, Stopping, Starting, Own, Inside
<1>7. CallOK(t)'
  <2>1. th[t].ret \in {"rebuildCheck", "applyScan"}
    BY <1>0, <1>5, Zenon DEF CallOK
  <2>2. /\ Slotted(th[t]) => th[t].n \in Names /\ listeners[th[t].n] = r
        /\ Rebuilder(th[t]) => th[t].n \in Names
    BY <1>1, <1>5, ZenonT(40) DEF CallOK
  <2>3. QED BY <1>2, <1>3, <1>4, <1>6, <2>1, <2>2, ZenonT(40) DEF CallOK
<1>8. hd[r].srv # None => \/ \E n \in Names : listeners'[n] = r
                          \/ \E v \in Threads : th'[v].r = r /\ Minds(th'[v])
  <2> SUFFICES ASSUME NEW v \in Threads, th[v].r = r, Minds(th[v])
               PROVE  th'[v].r = r /\ Minds(th'[v])
    BY <1>2, <1>5, ZenonT(40) DEF HandleOK
  <2>1. CASE v = t
    BY <1>4, <1>6, <2>1, Zenon
  <2>2. CASE v # t
    BY <1>4, <2>2, Zenon
  <2>3. QED BY <2>1, <2>2, Zenon
<1>9. HandleOK(r)'
  BY <1>2, <1>3, <1>4, <1>5, <1>8, ZenonT(40) DEF HandleOK, Building
<1>10. Owned'
  BY <1>0, <1>2, <1>3, <1>4, <1>5, OwnedKept
<1>11. Mine(t)
  BY <1>1, <1>2, UnlockedIsMine, ZenonT(40)
<1>12. QED BY <1>1, <1>2, <1>3, <1>4, <1>6, <1>7, <1>9, <1>10, <1>11, OwnHandle, Zenon

-----------------------------------------------------------------------------
(* The scans of Apply and Close, and the calls from outside *)

Scans == {"idle", "applyLock", "applyScan", "closeScan"}

\* A call goes from a scan to a scan, or sets out for the handle the map has under n.
LEMMA ScanMove ==
  ASSUME IInv, Fleet, NEW t \in Threads, th[t].pc \in Scans,
         \A v \in Threads : v # t => th'[v] = th[v],
         hd' = hd, listeners' = listeners, sv' = sv,
         th'[t].rb = FALSE,
         \/ th'[t].pc \in Scans /\ th'[t].ret = "idle" /\ th'[t].r \in {th[t].r, None}
         \/ /\ th'[t].n \in Tracked /\ th'[t].r = listeners[th'[t].n]
            /\ \/ th'[t].pc = "stopLock" /\ th'[t].ret \in SlotRets
               \/ th'[t].pc = "rebuildLock" /\ th'[t].ret \in {"rebuildCheck", "applyScan"}
  PROVE  Fleet'
<1>1. th[t].ret = "idle" /\ listeners \in [Names -> Handles \cup {None}]
  BY ZenonT(40) DEF IInv, LocksOK, ThreadOK, Top, Rets, Scans
<1>2. /\ th[t].pc \notin Inside \cup {"applyBuilt"} /\ th'[t].pc \notin Inside /\ ~Builder(th'[t])
      /\ th'[t].pc \notin {"applyRemoved", "stopDelete", "closeDelete"}
      /\ ~Minds(th[t]) /\ ~Rebuilder(th[t])
  BY <1>1, Zenon DEF Scans, Inside, Stopping, Starting, Own, Builder, Minds, Rebuilder, SlotRets, MuRets, Rets
<1>3. /\ th'[t].pc = "rebuildLock" => th'[t].ret \in {"rebuildCheck", "applyScan"}
      /\ Slotted(th'[t]) => th'[t].n \in Names /\ th'[t].r \in Handles /\ listeners[th'[t].n] = th'[t].r
      /\ Rebuilder(th'[t]) => th'[t].n \in Names
      /\ th'[t].r \in {th[t].r, None} \/ \E n \in Names : th'[t].r = listeners[n]
  BY <1>1, Zenon DEF Scans, Slotted, SlotRets, MuRets, Rets, Rebuilder, Tracked
<1>4. QED BY <1>2, <1>3, OwnMove, Zenon

LEMMA ScanKeeps ==
  ASSUME IInv, Fleet, NEW t \in Threads, NEW n,
         \/ Rebuild(t, n) \/ ApplyLoad(t) \/ ApplyLock(t) \/ ApplyStop(t, n) \/ ApplyRebuild(t, n)
         \/ ApplyKeep(t, n) \/ ApplyDone(t) \/ Stop(t, n) \/ Close(t) \/ CloseStop(t, n) \/ CloseDone(t)
  PROVE  Fleet'
<1> USE StepFacts
<1>1. CallOK(t)
  BY Zenon DEF Fleet
<1>2. th[t].pc \in Scans
  BY ZenonT(40) DEF Scans, At, Rebuild, ApplyLoad, ApplyLock, ApplyStop, ApplyRebuild, ApplyKeep, ApplyDone,
         Stop, Close, CloseStop, CloseDone
<1>3. th[t].ret = "idle" /\ th[t].rb = FALSE
  BY <1>1, <1>2, Zenon DEF IInv, LocksOK, ThreadOK, Top, Rets, Scans, CallOK, Inside, Stopping, Starting, Own
<1>4. th[t].pc \in {"applyScan", "closeScan"} => th[t].todo \subseteq Tracked
  BY ZenonT(40) DEF IInv, LocksOK, ThreadOK, HoldsMu, MuPcs, MuRets, Rets
<1>5. /\ \A v \in Threads : v # t => th'[v] = th[v]
      /\ hd' = hd /\ listeners' = listeners /\ sv' = sv
  BY Zenon DEF Rebuild, ApplyLoad, ApplyLock, ApplyStop, ApplyRebuild, ApplyKeep, ApplyDone,
         Stop, Close, CloseStop, CloseDone
<1>6. CASE th' = [th EXCEPT ![t] = Idle]
  <2>1. th'[t].rb = FALSE /\ th'[t].pc \in Scans /\ th'[t].ret = "idle" /\ th'[t].r = None
    BY <1>6, ZenonT(40) DEF Idle, Scans
  <2>2. QED BY <1>2, <1>5, <2>1, ScanMove, Zenon
<1>7. CASE ApplyLoad(t) \/ (ApplyLock(t) /\ ~closed) \/ ApplyKeep(t, n) \/ Close(t)
  <2>1. th'[t].rb = FALSE /\ th'[t].pc \in Scans /\ th'[t].ret = "idle" /\ th'[t].r = th[t].r
    <3>1. CASE ApplyLoad(t)
      BY <1>3, <3>1, Zenon DEF ApplyLoad, ThFields, Scans
    <3>2. CASE ApplyLock(t) /\ ~closed
      <4>1. th' = [th EXCEPT ![t] = [th[t] EXCEPT !.pc = "applyScan", !.todo = Tracked]]
        BY <3>2, Zenon DEF ApplyLock
      <4>2. QED BY <1>3, <4>1, ZenonT(40) DEF ThFields, Scans
    <3>3. CASE ApplyKeep(t, n)
      BY <1>2, <1>3, <3>3, Zenon DEF ApplyKeep, ThFields
    <3>4. CASE Close(t)
      BY <1>3, <3>4, ZenonT(40) DEF Close, ThFields, Scans
    <3>5. QED BY <1>7, <3>1, <3>2, <3>3, <3>4, ZenonT(40)
  <2>2. QED BY <1>2, <1>5, <2>1, ScanMove, Zenon
<1>8. CASE ApplyStop(t, n) \/ Stop(t, n) \/ CloseStop(t, n)
  <2>1. /\ th'[t].rb = FALSE /\ th'[t].n = n /\ th'[t].r = listeners[n]
        /\ th'[t].pc = "stopLock" /\ th'[t].ret \in SlotRets
    <3>1. CASE ApplyStop(t, n)
      BY <1>3, <3>1, Zenon DEF ApplyStop, ThFields, SlotRets, MuRets, Rets
    <3>2. CASE Stop(t, n)
      BY <1>3, <3>2, ZenonT(40) DEF Stop, ThFields, SlotRets, MuRets, Rets
    <3>3. CASE CloseStop(t, n)
      BY <1>3, <3>3, Zenon DEF CloseStop, ThFields, SlotRets, MuRets, Rets
    <3>4. QED BY <1>8, <3>1, <3>2, <3>3, ZenonT(40)
  <2>2. n \in Tracked
    BY <1>4, <1>8, Zenon DEF ApplyStop, Stop, CloseStop, At
  <2>3. QED BY <1>2, <1>5, <2>1, <2>2, ScanMove, Zenon
<1>9. CASE Rebuild(t, n) \/ ApplyRebuild(t, n)
  <2>1. /\ th'[t].rb = FALSE /\ th'[t].n = n /\ th'[t].r = listeners[n]
        /\ th'[t].pc = "rebuildLock" /\ th'[t].ret \in {"rebuildCheck", "applyScan"}
    <3>1. CASE Rebuild(t, n)
      BY <1>3, <3>1, Zenon DEF Rebuild, ThFields
    <3>2. CASE ApplyRebuild(t, n)
      BY <1>3, <3>2, ZenonT(40) DEF ApplyRebuild, ThFields
    <3>3. QED BY <1>9, <3>1, <3>2, ZenonT(40)
  <2>2. n \in Tracked
    BY <1>4, <1>9, Zenon DEF Rebuild, ApplyRebuild, At
  <2>3. QED BY <1>2, <1>5, <2>1, <2>2, ScanMove, Zenon
<1>10. QED BY <1>6, <1>7, <1>8, <1>9, ZenonT(40) DEF ApplyLock, ApplyDone, CloseDone

\* The look back of a Rebuild: the handle is tracked, or it is torn down by this very call.
LEMMA RebuildCheckKeeps ==
  ASSUME IInv, Fleet, NEW t \in Threads, RebuildCheck(t)
  PROVE  Fleet'
<1> USE StepFacts
<1>1. CallOK(t) /\ th[t].pc = "rebuildCheck" /\ mu = None
  BY ZenonT(40) DEF Fleet, RebuildCheck, At
<1>2. th[t].ret = "idle" /\ th[t].rb = FALSE /\ th[t].n \in Names /\ th[t].pc \notin Inside
  BY <1>1, Zenon DEF IInv, LocksOK, ThreadOK, Top, Rets, CallOK, Rebuilder, Inside, Stopping, Starting, Own
<1>3. /\ \A v \in Threads : v # t => th'[v] = th[v]
      /\ hd' = hd /\ listeners' = listeners /\ sv' = sv
  BY Zenon DEF RebuildCheck
<1>4. CASE listeners[th[t].n] = th[t].r
  <2>1. th'[t] = Idle
    BY <1>4, ZenonT(40) DEF RebuildCheck
  <2>2. th'[t].pc = "idle" /\ th'[t].ret = "idle" /\ th'[t].rb = FALSE /\ th'[t].r = None
    BY <2>1, SMTT(30) DEF Idle
  <2>3. /\ th'[t].pc \notin Inside /\ ~Builder(th'[t]) /\ ~Slotted(th'[t]) /\ ~Rebuilder(th'[t])
        /\ th'[t].pc \notin {"applyRemoved", "stopDelete", "closeDelete", "rebuildLock"}
    BY <2>2, Zenon DEF Inside, Stopping, Starting, Own, Builder, Slotted, SlotRets, MuRets, Rets, Rebuilder
  <2>4. QED BY <1>1, <1>2, <1>3, <1>4, <2>2, <2>3, OwnMove, ZenonT(40)
<1>5. CASE listeners[th[t].n] # th[t].r
  <2>1. /\ th'[t].pc = "stopLock" /\ th'[t].ret = "idle" /\ th'[t].rb = FALSE /\ th'[t].r = th[t].r
    BY <1>2, <1>5, ZenonT(40) DEF RebuildCheck, ThFields
  <2>2. /\ th'[t].pc \notin Inside /\ ~Builder(th'[t]) /\ ~Slotted(th'[t]) /\ ~Rebuilder(th'[t])
        /\ th'[t].pc \notin {"applyRemoved", "stopDelete", "closeDelete", "rebuildLock"}
        /\ Minds(th'[t])
    BY <2>1, Zenon DEF Inside, Stopping, Starting, Own, Builder, Slotted, SlotRets, MuRets, Rets, Rebuilder, Minds
  <2>3. QED BY <1>1, <1>2, <1>3, <2>1, <2>2, OwnMove, Zenon
<1>6. QED BY <1>4, <1>5, Zenon

\* A call that arrives at a scan with no handle in hand relies on nothing.
LEMMA AtScan ==
  ASSUME NEW t \in Threads, th'[t].pc \in Scans, th'[t].ret = "idle", th'[t].rb = FALSE
  PROVE  CallOK(t)' /\ th'[t].pc \notin Own
<1>1. /\ ~Slotted(th'[t]) /\ ~Builder(th'[t]) /\ ~Rebuilder(th'[t])
      /\ th'[t].pc \notin Inside \cup {"rebuildLock", "applyRemoved", "stopDelete", "closeDelete"}
  BY Zenon DEF Scans, Inside, Stopping, Starting, Own, Builder, Slotted, SlotRets, MuRets, Rets, Rebuilder
<1>2. th'[t].pc \notin Stopping \cup Starting \cup {"rebuildStop"} /\ th'[t].pc \notin Own
  BY <1>1, Zenon DEF Inside, Starting
<1>3. QED BY <1>1, <1>2, Zenon DEF CallOK

\* A listener leaves the map, and one enters it.
LEMMA DeleteKeeps ==
  ASSUME IInv, Fleet, NEW t \in Threads, ApplyRemoved(t) \/ StopDelete(t) \/ CloseDelete(t)
  PROVE  Fleet'
<1> USE StepFacts
<1>1. CallOK(t) /\ Owned /\ th[t].pc \in {"applyRemoved", "stopDelete", "closeDelete"}
  BY ZenonT(40) DEF Fleet, ApplyRemoved, StopDelete, CloseDelete, At
<1>2. th[t].ret = "idle" /\ mu = t /\ listeners \in [Names -> Handles \cup {None}]
  BY <1>1, Zenon DEF IInv, LocksOK, ThreadOK, Top, Rets, HoldsMu, MuPcs, MuRets
<1>3. /\ Slotted(th[t]) /\ ~Builder(th[t]) /\ ~Rebuilder(th[t]) /\ ~Minds(th[t])
      /\ th[t].pc \notin Inside \cup Own
  BY <1>1, <1>2, Zenon DEF Slotted, Minds, SlotRets, MuRets, Rets, Builder, Rebuilder, Inside, Stopping, Starting, Own
<1>4. th[t].rb = FALSE /\ th[t].n \in Names /\ listeners[th[t].n] = th[t].r
  BY <1>1, <1>3, ZenonT(40) DEF CallOK
<1>5. /\ th'[t].pc \in Scans /\ th'[t].ret = "idle" /\ th'[t].rb = FALSE /\ th'[t].r = None
      /\ \A v \in Threads : v # t => th'[v] = th[v]
      /\ hd' = hd /\ sv' = sv /\ listeners' = [listeners EXCEPT ![th[t].n] = None]
  <2>1. CASE ApplyRemoved(t)
    BY <1>2, <1>4, <2>1, Zenon DEF ApplyRemoved, ThFields, Scans
  <2>2. CASE StopDelete(t)
    BY <2>2, Zenon DEF StopDelete, Idle, Scans
  <2>3. CASE CloseDelete(t)
    BY <1>2, <1>4, <2>3, ZenonT(40) DEF CloseDelete, ThFields, Scans
  <2>4. QED BY <2>1, <2>2, <2>3, Zenon
<1>6. ASSUME NEW u \in Threads PROVE CallOK(u)'
  <2>1. CASE u # t
    BY <1>2, <1>3, <1>5, <2>1, OthersOK, ZenonT(40)
  <2>2. QED BY <1>5, <2>1, AtScan, Zenon
<1>7. ASSUME NEW q \in Handles PROVE HandleOK(q)'
  <2>1. ASSUME NEW n \in Names, listeners[n] = q, hd[q].srv # None
        PROVE  listeners'[n] = q \/ \E v \in Threads : th'[v].r = q /\ Minds(th'[v])
    <3>1. CASE n # th[t].n
      BY <1>2, <1>5, <2>1, <3>1, Zenon
    <3>2. CASE n = th[t].n
      <4>1. PICK v \in Threads : th[v].r = q /\ Rebuilder(th[v])
        BY <1>1, <1>4, <2>1, <3>2, Zenon DEF CallOK
      <4>2. th'[v] = th[v]
        BY <1>3, <1>5, <4>1, ZenonT(40)
      <4>3. QED BY <4>1, <4>2, ZenonT(40) DEF Minds
    <3>3. QED BY <3>1, <3>2, ZenonT(40)
  <2>2. ~Building(th[t])
    BY <1>3, <1>4, Zenon DEF Building
  <2>3. QED BY <1>3, <1>5, <2>1, <2>2, HandleKept, Zenon
<1>8. Owned'
  BY <1>1, <1>3, <1>5, OwnedKept, ZenonT(40)
<1>9. QED BY <1>6, <1>7, <1>8, Zenon DEF Fleet

LEMMA BuiltKeeps ==
  ASSUME IInv, Fleet, NEW t \in Threads, ApplyBuilt(t)
  PROVE  Fleet'
<1> USE StepFacts
<1>1. CallOK(t) /\ Owned /\ th[t].pc = "applyBuilt"
  BY ZenonT(40) DEF Fleet, ApplyBuilt, At
<1>2. th[t].ret = "idle" /\ mu = t /\ listeners \in [Names -> Handles \cup {None}]
  BY <1>1, Zenon DEF IInv, LocksOK, ThreadOK, Top, Rets, HoldsMu, MuPcs, MuRets
<1>3. Builder(th[t]) /\ ~Rebuilder(th[t]) /\ th[t].pc \notin Inside /\ th[t].pc \notin Own /\ th[t].pc \notin Starting
  BY <1>1, <1>2, Zenon DEF Builder, Rebuilder, Inside, Stopping, Starting, Own
<1>4. th[t].rb = FALSE /\ th[t].n \in Names /\ listeners[th[t].n] = None
  BY <1>1, <1>3, ZenonT(40) DEF CallOK
<1>5. /\ th'[t].pc \in Scans /\ th'[t].ret = "idle" /\ th'[t].rb = FALSE /\ th'[t].r = None
      /\ \A v \in Threads : v # t => th'[v] = th[v]
      /\ hd' = hd /\ sv' = sv /\ listeners' = [listeners EXCEPT ![th[t].n] = th[t].r]
  BY <1>2, <1>4, Zenon DEF ApplyBuilt, ThFields, Scans
<1>6. ASSUME NEW u \in Threads PROVE CallOK(u)'
  <2>1. CASE u # t
    BY <1>2, <1>3, <1>5, <2>1, OthersOK, ZenonT(40)
  <2>2. QED BY <1>5, <2>1, AtScan, Zenon
<1>7. ASSUME NEW q \in Handles PROVE HandleOK(q)'
  <2>1. \A n \in Names : listeners[n] = q => listeners'[n] = q
    BY <1>2, <1>4, <1>5, NoneAssumption, ZenonT(40)
  <2>2. th[t].r = q => \E n \in Names : listeners'[n] = q
    BY <1>2, <1>4, <1>5, Zenon
  <2>3. ~Building(th[t])
    BY <1>3, <1>4, ZenonT(40) DEF Building
  <2>4. QED BY <1>5, <2>1, <2>2, <2>3, HandleKept, Zenon
<1>8. Owned'
  BY <1>1, <1>3, <1>5, OwnedKept, Zenon
<1>9. QED BY <1>6, <1>7, <1>8, Zenon DEF Fleet

\* A disabled listener stays in the map and shows it.
LEMMA DisabledKeeps ==
  ASSUME IInv, Fleet, NEW t \in Threads, ApplyDisabled(t)
  PROVE  Fleet'
<1> USE StepFacts
<1>1. CallOK(t) /\ Owned /\ th[t].pc = "applyDisabled"
  BY Zenon DEF Fleet, ApplyDisabled, At
<1>2. th[t].ret = "idle" /\ mu = t
  BY <1>1, ZenonT(40) DEF IInv, LocksOK, ThreadOK, Top, Rets, HoldsMu, MuPcs, MuRets
<1>3. /\ ~Builder(th[t]) /\ ~Rebuilder(th[t]) /\ ~Minds(th[t])
      /\ th[t].pc \notin Inside /\ th[t].pc \notin Own
  BY <1>1, <1>2, Zenon DEF Minds, Builder, Rebuilder, Inside, Stopping, Starting, Own
<1>4. th[t].rb = FALSE /\ ~Building(th[t])
  BY <1>1, <1>3, ZenonT(40) DEF CallOK, Building
<1>5. PICK r \in Handles : th[t].r = r
  BY <1>1, Zenon DEF HandlePcs
<1>6. /\ th'[t].pc \in Scans /\ th'[t].ret = "idle" /\ th'[t].rb = FALSE /\ th'[t].r = None
      /\ \A v \in Threads : v # t => th'[v] = th[v]
      /\ sv' = sv /\ listeners' = listeners
  BY <1>2, <1>4, Zenon DEF ApplyDisabled, ThFields, Scans
<1>7. /\ hd'[r].srv = hd[r].srv /\ hd'[r].done = hd[r].done /\ hd'[r].buildMu = hd[r].buildMu
      /\ hd'[r].state = "disabled"
      /\ \A q \in Handles : q # r => hd'[q] = hd[q]
  BY <1>5, ZenonT(40) DEF ApplyDisabled, HdFields
<1>8. ASSUME NEW u \in Threads PROVE CallOK(u)'
  <2>1. CASE u # t
    BY <1>2, <1>3, <1>6, <1>7, <2>1, OthersOK, ZenonT(40)
  <2>2. QED BY <1>6, <2>1, AtScan, Zenon
<1>9. ASSUME NEW q \in Handles PROVE HandleOK(q)'
  <2>1. CASE q # r
    BY <1>3, <1>4, <1>6, <1>7, <2>1, HandleKept, ZenonT(40)
  <2>2. CASE q = r
    <3>1. HandleOK(q)
      BY ZenonT(40) DEF Fleet
    <3>2. hd[q].srv # None => \/ \E n \in Names : listeners'[n] = q
                              \/ \E v \in Threads : th'[v].r = q /\ Minds(th'[v])
      <4> SUFFICES ASSUME NEW v \in Threads, th[v].r = q, Minds(th[v])
                   PROVE  th'[v].r = q /\ Minds(th'[v])
        BY <1>6, <3>1, Zenon DEF HandleOK
      <4>1. QED BY <1>3, <1>6, Zenon
    <3>3. QED BY <1>6, <1>7, <2>2, <3>1, <3>2, Zenon DEF HandleOK
  <2>3. QED BY <2>1, <2>2, Zenon
<1>10. Owned'
  BY <1>1, <1>3, <1>6, <1>7, OwnedKept, ZenonT(40)
<1>11. QED BY <1>8, <1>9, <1>10, ZenonT(40) DEF Fleet

\* A new handle is known to the call that builds it and to nobody else.
LEMMA BuildKeeps ==
  ASSUME IInv, Fleet, NEW t \in Threads, NEW n \in Names, NEW r \in Handles, ApplyBuild(t, n, r)
  PROVE  Fleet'
<1> USE StepFacts
<1>1. CallOK(t) /\ Owned /\ HandleOK(r) /\ th[t].pc = "applyScan" /\ HandleFree(r)
  BY ZenonT(40) DEF Fleet, ApplyBuild, At
<1>2. th[t].ret = "idle" /\ mu = t /\ listeners[n] = None
  BY <1>1, Zenon DEF ApplyBuild, Tracked, IInv, LocksOK, ThreadOK, Top, Rets, HoldsMu, MuPcs, MuRets
<1>3. /\ ~Builder(th[t]) /\ ~Rebuilder(th[t]) /\ ~Minds(th[t])
      /\ th[t].pc \notin Inside /\ th[t].pc \notin Own
  BY <1>1, <1>2, Zenon DEF Minds, Builder, Rebuilder, Inside, Stopping, Starting, Own
<1>4. th[t].rb = FALSE /\ ~Building(th[t])
  BY <1>1, <1>3, ZenonT(40) DEF CallOK, Building
<1>5. /\ th'[t].pc = "start" /\ th'[t].ret = "applyBuilt" /\ th'[t].rb = FALSE
      /\ th'[t].r = r /\ th'[t].n = n
      /\ \A v \in Threads : v # t => th'[v] = th[v]
      /\ sv' = sv /\ listeners' = listeners
  BY <1>4, Zenon DEF ApplyBuild, ThFields
<1>6. /\ hd'[r].srv = None /\ hd'[r].done = None /\ hd'[r].state = ""
      /\ \A q \in Handles : q # r => hd'[q] = hd[q]
  BY Zenon DEF ApplyBuild, NewHandle
<1>7. /\ \A m \in Names : listeners[m] # r
      /\ \A v \in Threads : th[v].r # r
  BY <1>1, ZenonT(40) DEF HandleFree
<1>8. hd[r].srv = None
  BY <1>1, <1>7, Zenon DEF HandleOK
<1>9. CallOK(t)'
  <2>1. /\ Builder(th'[t]) /\ ~Slotted(th'[t]) /\ ~Rebuilder(th'[t])
        /\ th'[t].pc \in Starting
        /\ th'[t].pc \notin {"rebuildStop", "rebuildLock", "applyRemoved", "stopDelete", "closeDelete"}
    BY <1>5, ZenonT(40) DEF Builder, Slotted, SlotRets, MuRets, Rets, Rebuilder, Starting
  <2>2. QED BY <1>2, <1>5, <1>6, <1>7, <2>1, Zenon DEF CallOK
<1>10. ASSUME NEW u \in Threads PROVE CallOK(u)'
  <2>1. CASE u # t
    <3>1. /\ \A q \in Handles : \/ hd'[q].buildMu = hd[q].buildMu /\ hd'[q].srv = hd[q].srv
                                \/ \A v \in Threads : th[v].r # q
          /\ \A q \in Handles : hd'[q].srv \in {hd[q].srv, None}
      BY <1>6, <1>7, Zenon
    <3>2. QED BY <1>2, <1>3, <1>5, <2>1, <3>1, OthersOK, ZenonT(40)
  <2>2. QED BY <1>9, <2>1, Zenon
<1>11. ASSUME NEW q \in Handles PROVE HandleOK(q)'
  <2>1. CASE q # r
    BY <1>3, <1>4, <1>5, <1>6, <2>1, HandleKept, Zenon
  <2>2. CASE q = r
    BY <1>6, <2>2, ZenonT(40) DEF HandleOK
  <2>3. QED BY <2>1, <2>2, ZenonT(40)
<1>12. Owned'
  <2>1. \A q \in Handles : hd[q].srv \in Servers => hd'[q].srv = hd[q].srv
    BY <1>6, <1>8, NoneAssumption, ZenonT(40)
  <2>2. QED BY <1>1, <1>3, <1>5, <2>1, OwnedKept, Zenon
<1>13. QED BY <1>10, <1>11, <1>12, Zenon DEF Fleet

-----------------------------------------------------------------------------
(* The goroutines of the servers, and the theorems *)

LEMMA CallsSame ==
  ASSUME Fleet, UNCHANGED <<th, listeners>>, NEW t \in Threads,
         \A q \in Handles : hd'[q].buildMu = hd[q].buildMu /\ hd'[q].srv = hd[q].srv, IInv
  PROVE  CallOK(t)'
<1>1. CallOK(t) /\ ThreadOK(th[t], t)
  BY Zenon DEF Fleet, IInv, LocksOK
<1>2. th[t].pc \in Inside \cup {"applyRemoved", "stopDelete", "closeDelete"} => th[t].r \in Handles
  <2>1. th[t].pc \in Inside => th[t].pc \in HandlePcs
    BY Zenon DEF Inside, Stopping, Starting, HandlePcs, CallPcs, Own
  <2>2. th[t].pc \in {"applyRemoved", "stopDelete", "closeDelete"} => Slotted(th[t])
    BY ZenonT(40) DEF Slotted, SlotRets, MuRets, Rets
  <2>3. QED BY <1>1, <2>1, <2>2, Zenon DEF CallOK, ThreadOK
<1>3. QED BY <1>1, <1>2, Zenon DEF CallOK, Inside

\* A server's serve goroutine publishes its end only while the handle names its generation.
LEMMA ServeKeeps ==
  ASSUME IInv, Fleet, NEW s \in Servers, ServeReturns(s)
  PROVE  Fleet'
<1>0. /\ DOMAIN hd = Handles /\ DOMAIN sv = Servers
      /\ \A r \in Handles : DOMAIN hd[r] = HdFields /\ hd[r].srv \in Servers \cup {None}
      /\ \A q \in Servers : DOMAIN sv[q] = SvFields
  BY Zenon DEF IInv, ServersOK, ServersTyped
<1>1. /\ UNCHANGED <<th, listeners>> /\ sv'[s].serve = FALSE /\ sv'[s].close = sv[s].close
      /\ \A q \in Servers : q # s => sv'[q] = sv[q]
      /\ sv[s].serve
  BY <1>0, ZenonT(40) DEF ServeReturns, SvFields
<1>2. ASSUME NEW q \in Handles
      PROVE  /\ hd'[q].srv = hd[q].srv /\ hd'[q].done = hd[q].done /\ hd'[q].buildMu = hd[q].buildMu
             /\ \/ hd'[q].state = hd[q].state /\ (sv[s].owner # q \/ hd[q].done # s)
                \/ hd'[q].state \in {"error", "stopped"} /\ hd[q].done = s
  <2>1. CASE hd[sv[s].owner].done = s
    <3>1. PICK f \in BOOLEAN : hd' = [hd EXCEPT ![sv[s].owner] =
                 [hd[sv[s].owner] EXCEPT !.err = f, !.state = IF f THEN "error" ELSE "stopped"]]
      BY <2>1, ZenonT(40) DEF ServeReturns
    <3>2. CASE sv[s].owner = q
      BY <1>0, <2>1, <3>1, <3>2, Zenon DEF HdFields
    <3>3. CASE sv[s].owner # q
      BY <1>0, <3>1, <3>3, Zenon
    <3>4. QED BY <3>2, <3>3, Zenon
  <2>2. CASE hd[sv[s].owner].done # s
    BY <2>2, ZenonT(40) DEF ServeReturns
  <2>3. QED BY <2>1, <2>2, Zenon
<1>3. ASSUME NEW u \in Threads PROVE CallOK(u)'
  BY <1>1, <1>2, CallsSame, Zenon
<1>4. ASSUME NEW q \in Handles PROVE HandleOK(q)'
  <2>1. HandleOK(q)
    BY ZenonT(40) DEF Fleet
  <2>2. CASE hd[q].srv = s
    <3>1. sv[s].owner = q /\ hd[q].done = s
      BY <1>1, <2>1, <2>2, NoneAssumption, Zenon DEF HandleOK
    <3>2. hd'[q].state \in {"error", "stopped"}
      BY <1>2, <3>1, Zenon
    <3>3. QED BY <1>1, <1>2, <2>1, <2>2, <3>2, Zenon DEF HandleOK
  <2>3. CASE hd[q].srv # s
    <3>1. hd'[q].state = hd[q].state
      BY <1>2, <2>1, <2>3, Zenon DEF HandleOK
    <3>2. hd[q].srv # None => sv'[hd[q].srv] = sv[hd[q].srv]
      BY <1>0, <1>1, <2>3, Zenon
    <3>3. QED BY <1>1, <1>2, <2>1, <3>1, <3>2, SMTT(30) DEF HandleOK
  <2>4. QED BY <2>2, <2>3, Zenon
<1>5. Owned'
  BY <1>1, <1>2 DEF Fleet, Owned
<1>6. QED BY <1>3, <1>4, <1>5, Zenon DEF Fleet

LEMMA ServersSameFleet ==
  ASSUME IInv, Fleet, UNCHANGED <<th, hd, listeners>>,
         \A s \in Servers : /\ sv'[s].serve = sv[s].serve /\ sv'[s].owner = sv[s].owner
                            /\ sv'[s].close = "no" => sv[s].close = "no"
  PROVE  Fleet'
<1>0. \A r \in Handles : hd[r].srv \in Servers \cup {None}
  BY Zenon DEF IInv, ServersOK, ServersTyped, NoUseAfterClose, HandlesApart, BuildersOwn, UnaskedAwake, WaitersApart
<1>1. ASSUME NEW u \in Threads PROVE CallOK(u)'
  BY CallsSame, Zenon
<1>2. ASSUME NEW q \in Handles PROVE HandleOK(q)'
  <2>1. HandleOK(q)
    BY Zenon DEF Fleet
  <2>2. QED BY <1>0, <2>1, Zenon DEF HandleOK
<1>3. Owned'
  BY ZenonT(40) DEF Fleet, Owned
<1>4. QED BY <1>1, <1>2, <1>3, Zenon DEF Fleet

LEMMA FleetInit ==
  ASSUME Init
  PROVE  Fleet
<1>1. ASSUME NEW t \in Threads PROVE CallOK(t)
  <2>1. th[t].pc = "idle" /\ th[t].ret = "idle" /\ th[t].rb = FALSE
    BY Zenon DEF Init, Idle
  <2>2. /\ ~Slotted(th[t]) /\ ~Builder(th[t]) /\ ~Rebuilder(th[t])
        /\ th[t].pc \notin Inside \cup {"rebuildStop", "rebuildLock", "applyRemoved", "stopDelete", "closeDelete"}
    BY <2>1, Zenon DEF Inside, Stopping, Starting, Own, Builder, Slotted, SlotRets, MuRets, Rets, Rebuilder
  <2>3. QED BY <2>1, <2>2, Zenon DEF CallOK, Inside
<1>2. ASSUME NEW r \in Handles PROVE HandleOK(r)
  BY Zenon DEF Init, NewHandle, HandleOK
<1>3. Owned
  BY Zenon DEF Init, Retired, Owned
<1>4. QED BY <1>1, <1>2, <1>3, Zenon DEF Fleet

LEMMA FleetStep ==
  IInv /\ Fleet /\ [Next]_vars => Fleet'
<1> SUFFICES ASSUME IInv, Fleet, [Next]_vars PROVE Fleet'
  BY Zenon
<1>1. ASSUME NEW t \in Threads, Call(t) PROVE Fleet'
  BY <1>1, ScanKeeps, ZenonT(40) DEF Call
<1>2. ASSUME NEW t \in Threads, LockStep(t) PROVE Fleet'
  BY <1>2, CaptureKeeps, RebuildLockKeeps, RebuildCheckKeeps, ScanKeeps, Zenon DEF LockStep
<1>3. ASSUME NEW t \in Threads, WorkStep(t) PROVE Fleet'
  <2>1. CASE StopHost(t) \/ StopForget(t)
    <3>1. th[t].pc \in Stopping /\ sv' = sv /\ listeners' = listeners
      BY <2>1, Zenon DEF StopHost, StopForget, At, Stopping
    <3>2. \/ StopReturns(t)
          \/ At(t, "stopHost") /\ hd' = hd /\ th' = [th EXCEPT ![t].pc = "stopForget"]
      BY <2>1, Zenon DEF StopHost, StopForget
    <3>3. QED BY <3>1, <3>2, PcSteps, RebuildGoesOn, StopEnds, ZenonT(40)
  <2>2. CASE StopClosed(t) \/ StopAbandon(t) \/ HostApply(t) \/ HostApplyFails(t) \/ Persist(t)
    BY <2>2, PcSteps, ZenonT(40)
  <2>3. CASE RebuildStop(t) \/ Construct(t) \/ Publish(t) \/ StartBuilding(t)
    BY <2>3, CaptureKeeps, ConstructKeeps, PublishKeeps, StartBuildingKeeps, Zenon
  <2>4. CASE StartDisabled(t) \/ ConstructFails(t) \/ CloseFailed(t)
    BY <2>4, StartEnds, Zenon
  <2>5. CASE \/ \E n \in Names : ApplyStop(t, n) \/ ApplyRebuild(t, n) \/ ApplyKeep(t, n)
             \/ \E n \in Names : CloseStop(t, n)
             \/ ApplyDone(t) \/ CloseDone(t)
    BY <2>5, ScanKeeps, ZenonT(40)
  <2>6. CASE \E n \in Names, r \in Handles : ApplyBuild(t, n, r)
    BY <2>6, BuildKeeps, Zenon
  <2>7. CASE ApplyRemoved(t) \/ ApplyDisabled(t) \/ ApplyBuilt(t) \/ StopDelete(t) \/ CloseDelete(t)
    BY <2>7, DeleteKeeps, DisabledKeeps, BuiltKeeps, Zenon
  <2>8. QED BY <1>3, <2>1, <2>2, <2>3, <2>4, <2>5, <2>6, <2>7, Zenon DEF WorkStep
<1>4. ASSUME NEW s \in Servers, ServeReturns(s) \/ CloseReturns(s) \/ Reap(s) PROVE Fleet'
  <2>1. CASE ServeReturns(s)
    BY <2>1, ServeKeeps, Zenon
  <2>2. CASE CloseReturns(s) \/ Reap(s)
    <3>1. DOMAIN sv = Servers /\ \A q \in Servers : DOMAIN sv[q] = SvFields
      BY Zenon DEF IInv, ServersOK, ServersTyped
    <3>2. \A q \in Servers : /\ sv'[q].serve = sv[q].serve /\ sv'[q].owner = sv[q].owner
                             /\ sv'[q].close = "no" => sv[q].close = "no"
      BY <2>2, <3>1 DEF CloseReturns, Reap, SvFields
    <3>3. QED BY <2>2, <3>2, ServersSameFleet, Zenon DEF CloseReturns, Reap
  <2>3. QED BY <1>4, <2>1, <2>2, Zenon
<1>5. ASSUME NEW n \in Names, NEW c \in Configs \cup {None}, Edit(n, c) PROVE Fleet'
  BY <1>5, ServersSameFleet, Zenon DEF Edit
<1>6. CASE UNCHANGED vars
  BY <1>6, ServersSameFleet, Zenon DEF vars
<1>7. QED BY <1>1, <1>2, <1>3, <1>4, <1>5, <1>6, Zenon DEF Next

\* The two halves of the inductive invariant imply what Status and All show.
LEMMA HonestNow ==
  ASSUME IInv, Fleet
  PROVE  StatusHonest
<1>1. StatusTruthful
  <2> SUFFICES ASSUME NEW r \in Handles
               PROVE  LET s == hd[r].done
                      IN /\ hd[r].state = "running" => s # None /\ hd[r].srv = s /\ sv[s].serve
                         /\ (s # None /\ sv[s].serve) => hd[r].state \notin {"stopped", "error"}
    BY Zenon DEF StatusTruthful
  <2>1. QED BY Zenon DEF Fleet, HandleOK
<1>2. NeverStuckBuilding
  <2> SUFFICES ASSUME NEW n \in Tracked, hd[listeners[n]].buildMu = None,
                      hd[listeners[n]].state = "building"
               PROVE  FALSE
    BY Zenon DEF NeverStuckBuilding
  <2>1. n \in Names /\ listeners[n] \in Handles
    BY Zenon DEF Tracked, IInv, LocksOK
  <2>2. PICK t \in Threads : th[t].r = listeners[n] /\ Building(th[t])
    BY <2>1, Zenon DEF Fleet, HandleOK
  <2>3. CallOK(t) /\ t # None
    BY NoneAssumption, ZenonT(40) DEF Fleet
  <2>4. CASE th[t].rb
    BY <2>2, <2>3, <2>4, Zenon DEF CallOK
  <2>5. CASE Builder(th[t])
    BY <2>1, <2>2, <2>3, <2>5, Zenon DEF CallOK
  <2>6. QED BY <2>2, <2>4, <2>5, Zenon DEF Building
<1>3. QED BY <1>1, <1>2, Zenon DEF StatusHonest, IInv

LEMMA OwnedNow ==
  ASSUME IInv, Fleet
  PROVE  FleetOwned
<1>1. NoOrphans
  <2> SUFFICES ASSUME Quiet, NEW s \in Servers, sv[s].close = "no"
               PROVE  \E n \in Tracked : hd[listeners[n]].srv = s
    BY Zenon DEF NoOrphans
  <2>1. \A t \in Threads : th[t].pc \notin Own /\ ~Minds(th[t])
    <3>1. \A t \in Threads : th[t].pc = "idle" /\ th[t].ret = "idle"
      BY Zenon DEF Quiet, IInv, LocksOK, ThreadOK, Top, Rets
    <3>2. QED BY <3>1, Zenon DEF Own, Minds, Rebuilder, Builder
  <2>2. PICK r \in Handles : hd[r].srv = s
    BY <2>1, Zenon DEF Fleet, Owned
  <2>3. PICK n \in Names : listeners[n] = r
    BY <2>1, <2>2, NoneAssumption, ZenonT(40) DEF Fleet, HandleOK
  <2>4. n \in Tracked
    BY <2>3, NoneAssumption, Zenon DEF Tracked
  <2>5. QED BY <2>2, <2>3, <2>4, Zenon
<1>2. QED BY <1>1, Zenon DEF FleetOwned, IInv, LocksOK

-----------------------------------------------------------------------------
(* One caller: the rules on the host *)

\* For the name n: the handle it has or is being built for, the server whose rules may be
\* on the host, and whether the config asks for rules, as the one caller w sees them.
Slot(w, n) == IF Builder(th[w]) /\ th[w].n = n THEN th[w].r ELSE listeners[n]
Holding(w, n) == th[w].n = n /\ th[w].pc \in Own \cup {"stopClose", "stopHost"}
Current(w, n) ==
  IF Holding(w, n) THEN th[w].s ELSE IF Slot(w, n) = None THEN None ELSE hd[Slot(w, n)].srv
Asks(w, n) ==
  IF Holding(w, n) THEN IF th[w].pc \in Own THEN th[w].cfg.nat ELSE th[w].nat
  ELSE hd[Slot(w, n)].cfg.nat
RulesOf(s) == {q \in Servers : q = s /\ sv[q].nat}

\* The rules of a name are those of its server, the state file names no other, and neither
\* exists without a config by which the teardown knows of them.
NameOK(w, n) ==
  IF th[w].n = n /\ th[w].pc = "stopForget"
  THEN rules[n] = {}
  ELSE /\ rules[n] = RulesOf(Current(w, n))
       /\ record[n] \in {None, Current(w, n)}
       /\ rules[n] # {} \/ record[n] # None => Asks(w, n)

\* Nobody else calls, so a Rebuild still finds its handle in the map; a listener about to
\* be shown as disabled has no server; one about to ask for rules has none yet.
WorkerOK(w) ==
  /\ \A u \in Threads : u # w => th[u] = Idle
  /\ \A m, n \in Names : m # n /\ listeners[m] # None => listeners[m] # listeners[n]
  /\ th[w].pc \in CallPcs => th[w].ret # "idle"
  /\ Rebuilder(th[w]) => listeners[th[w].n] = th[w].r
  /\ th[w].pc = "applyDisabled" => hd[th[w].r].srv = None
  /\ th[w].pc \in {"hostApply", "persist"} => th[w].cfg.nat
  /\ th[w].pc = "hostApply" => ~sv[th[w].s].nat /\ record[th[w].n] = None

HostOK(w) ==
  /\ DOMAIN rules = Names /\ DOMAIN record = Names
  /\ WorkerOK(w)
  /\ \A n \in Names : NameOK(w, n)

\* The call with the locals x is not in the middle of the name n.
Off(x, n) ==
  x.n # n \/ (~Builder(x) /\ x.pc \notin Own \cup {"stopClose", "stopHost", "stopForget"})

LEMMA OffName ==
  ASSUME NEW w \in Threads, NEW n \in Names, NameOK(w, n), Off(th[w], n), Off(th[w], n)',
         listeners'[n] = listeners[n], rules'[n] = rules[n], record'[n] = record[n],
         listeners[n] # None => /\ hd'[listeners[n]].srv = hd[listeners[n]].srv
                                /\ hd'[listeners[n]].cfg = hd[listeners[n]].cfg,
         \A q \in Servers : listeners[n] # None /\ hd[listeners[n]].srv = q => sv'[q].nat = sv[q].nat
  PROVE  NameOK(w, n)'
<1>1. /\ ~Holding(w, n) /\ ~Holding(w, n)' /\ Slot(w, n) = listeners[n] /\ Slot(w, n)' = listeners[n]
      /\ ~(th[w].n = n /\ th[w].pc = "stopForget") /\ ~(th'[w].n = n /\ th'[w].pc = "stopForget")
  BY Zenon DEF Off, Holding, Slot
<1>2. rules[n] = RulesOf(Current(w, n)) /\ record[n] \in {None, Current(w, n)}
      /\ (rules[n] # {} \/ record[n] # None => Asks(w, n))
  BY <1>1, Zenon DEF NameOK
<1>3. CASE listeners[n] = None
  <2>1. Current(w, n) = None /\ Current(w, n)' = None
    BY <1>1, <1>3, Zenon DEF Current
  <2>2. RulesOf(None) = {} /\ RulesOf(None)' = {}
    BY NoneAssumption, Zenon DEF RulesOf
  <2>3. rules'[n] = {} /\ record'[n] = None
    BY <1>2, <2>1, <2>2, Zenon
  <2>4. RulesOf(Current(w, n))' = {}
    BY <2>1, NoneAssumption, Zenon DEF RulesOf
  <2>5. QED BY <1>1, <2>1, <2>3, <2>4, Zenon DEF NameOK
<1>4. CASE listeners[n] # None
  <2>1. Current(w, n) = hd[listeners[n]].srv /\ Current(w, n)' = hd[listeners[n]].srv
    BY <1>1, <1>4, Zenon DEF Current
  <2>2. RulesOf(Current(w, n))' = RulesOf(Current(w, n))
    BY <1>4, <2>1, Zenon DEF RulesOf
  <2>3. Asks(w, n)' = Asks(w, n)
    BY <1>1, <1>4, Zenon DEF Asks
  <2>4. QED BY <1>1, <1>2, <2>1, <2>2, <2>3, Zenon DEF NameOK
<1>5. QED BY <1>3, <1>4, Zenon

\* A name without a server has no rules and no state file, before a step and after it.
LEMMA NoServer ==
  ASSUME NEW w \in Threads, NEW n \in Names, NameOK(w, n), Current(w, n) = None,
         ~(th[w].n = n /\ th[w].pc = "stopForget")
  PROVE  rules[n] = {} /\ record[n] = None
<1>1. RulesOf(None) = {}
  BY NoneAssumption, Zenon DEF RulesOf
<1>2. QED BY <1>1, Zenon DEF NameOK

LEMMA Settled ==
  ASSUME NEW w \in Threads, NEW n \in Names, rules'[n] = {}, record'[n] = None,
         th'[w].n = n => th'[w].pc \notin Own \cup {"stopClose", "stopHost", "stopForget"},
         Slot(w, n)' = None \/ hd'[Slot(w, n)'].srv = None
  PROVE  NameOK(w, n)'
<1>1. Current(w, n)' = None
  BY Zenon DEF Current, Holding
<1>2. RulesOf(Current(w, n))' = {}
  BY <1>1, NoneAssumption, Zenon DEF RulesOf
<1>3. QED BY <1>1, <1>2, Zenon DEF NameOK

\* A call works on the handle of its name, which no other name has.
LEMMA WorkerFacts ==
  ASSUME IInv, Fleet, NEW w \in Threads, HostOK(w), th[w].pc \in CallPcs
  PROVE  /\ th[w].n \in Names /\ th[w].r \in Handles /\ Slot(w, th[w].n) = th[w].r
         /\ ~Builder(th[w]) => listeners[th[w].n] = th[w].r
         /\ \A m \in Names : m # th[w].n => listeners[m] # th[w].r
         /\ NameOK(w, th[w].n)
<1>1. CallOK(w) /\ WorkerOK(w) /\ ThreadOK(th[w], w)
  BY Zenon DEF Fleet, HostOK, IInv, LocksOK
<1>2. th[w].ret \in Rets \ {"idle"} /\ th[w].r \in Handles /\ th[w].r # None
  BY <1>1, NoneAssumption, Zenon DEF WorkerOK, ThreadOK, HandlePcs
<1>3. Slotted(th[w]) \/ Rebuilder(th[w]) \/ Builder(th[w])
  BY <1>2, Zenon DEF Slotted, Rebuilder, Builder, SlotRets, MuRets, Rets
<1>4. CASE Builder(th[w])
  BY <1>1, <1>2, <1>4, Zenon DEF CallOK, Slot, HostOK
<1>5. CASE ~Builder(th[w])
  <2>1. th[w].n \in Names /\ listeners[th[w].n] = th[w].r
    BY <1>1, <1>3, <1>5, Zenon DEF CallOK, WorkerOK
  <2>2. \A m \in Names : m # th[w].n => listeners[m] # th[w].r
    BY <1>1, <1>2, <2>1, Zenon DEF WorkerOK
  <2>3. QED BY <1>2, <1>5, <2>1, <2>2, Zenon DEF Slot, HostOK
<1>6. QED BY <1>4, <1>5, Zenon

\* A call goes on with its name, or returns.
Moves(w) ==
  \/ th'[w] = Returned(w)
  \/ /\ th'[w].n = th[w].n /\ th'[w].r = th[w].r /\ th'[w].ret = th[w].ret
     /\ th'[w].pc \in CallPcs

LEMMA MoveFacts ==
  ASSUME IInv, Fleet, NEW w \in Threads, HostOK(w), th[w].pc \in CallPcs, Moves(w),
         NEW n \in Names, th[w].n = n, listeners' = listeners
  PROVE  /\ Slot(w, n)' = th[w].r
         /\ Builder(th'[w]) <=> Builder(th[w])
         /\ th'[w].n \in {th[w].n, None}
         /\ th'[w].pc \in CallPcs => th'[w].ret # "idle"
         /\ Rebuilder(th'[w]) => Rebuilder(th[w]) /\ th'[w].n = th[w].n /\ th'[w].r = th[w].r
         /\ th'[w] = Returned(w) =>
              /\ th'[w].pc \notin Own \cup {"stopClose", "stopHost", "stopForget", "hostApply", "persist"}
              /\ th'[w].pc = "applyDisabled" => th'[w].r = th[w].r
<1>1. /\ LocksOK /\ th[w].ret \in Rets \ {"idle"} /\ DOMAIN th[w] = ThFields
  BY Zenon DEF IInv, LocksOK, ThreadOK, HostOK, WorkerOK
<1>2. /\ th[w].n \in Names /\ Slot(w, th[w].n) = th[w].r
      /\ ~Builder(th[w]) => listeners[th[w].n] = th[w].r
  BY WorkerFacts, Zenon
<1>3. CASE th'[w] = Returned(w)
  <2>1. /\ th'[w].pc = th[w].ret /\ th'[w].ret = "idle"
        /\ th[w].ret # "applyScan" => th'[w].n = th[w].n /\ th'[w].r = th[w].r
    BY <1>1, <1>3, ReturnedFacts, Zenon
  <2>2. th[w].ret = "applyScan" => th'[w].n = None
    BY <1>1, <1>3, Zenon DEF Returned, ThFields
  <2>3. Builder(th'[w]) <=> Builder(th[w])
    BY <1>1, <2>1, Zenon DEF Builder, CallPcs, Own
  <2>4. Builder(th[w]) => th[w].ret = "applyBuilt"
    BY Zenon DEF Builder, CallPcs, Own
  <2>5. Slot(w, n)' = th[w].r
    BY <1>2, <2>1, <2>3, <2>4, Zenon DEF Slot
  <2>6. th'[w].pc \notin CallPcs \cup Own \cup {"stopClose", "stopHost", "stopForget", "hostApply", "persist"}
    BY <1>1, <2>1, Zenon DEF Rets, CallPcs, Own
  <2>7. Rebuilder(th'[w]) => th[w].ret = "rebuildCheck"
    BY <2>1, Zenon DEF Rebuilder
  <2>8. QED BY <2>1, <2>2, <2>3, <2>5, <2>6, <2>7, Zenon DEF Rebuilder
<1>4. CASE th'[w] # Returned(w)
  <2>1. /\ th'[w].n = th[w].n /\ th'[w].r = th[w].r /\ th'[w].ret = th[w].ret
        /\ th'[w].pc \in CallPcs
    BY <1>4, Zenon DEF Moves
  <2>2. (Builder(th'[w]) <=> Builder(th[w])) /\ (Rebuilder(th'[w]) <=> Rebuilder(th[w]))
    BY <2>1, Zenon DEF Builder, Rebuilder, CallPcs, Own
  <2>3. Slot(w, n)' = th[w].r
    BY <1>2, <2>1, <2>2, Zenon DEF Slot
  <2>4. QED BY <1>1, <1>4, <2>1, <2>2, <2>3, Zenon
<1>5. QED BY <1>3, <1>4, Zenon

\* A step of a call, given what it does to its own name.
LEMMA HostCallStep ==
  ASSUME IInv, Fleet, NEW w \in Threads, HostOK(w), th[w].pc \in CallPcs, Moves(w),
         NEW n \in Names, th[w].n = n,
         \A u \in Threads : u # w => th'[u] = th[u],
         listeners' = listeners, DOMAIN rules' = Names, DOMAIN record' = Names,
         \A q \in Handles : q # th[w].r => hd'[q].srv = hd[q].srv /\ hd'[q].cfg = hd[q].cfg,
         \A q \in Servers : sv'[q].nat = sv[q].nat \/ \A p \in Handles : hd[p].srv # q,
         \A m \in Names : m # th[w].n => rules'[m] = rules[m] /\ record'[m] = record[m],
         th'[w].pc = "applyDisabled" => hd'[th[w].r].srv = None,
         th'[w].pc \in {"hostApply", "persist"} => th'[w].cfg.nat,
         th'[w].pc = "hostApply" => ~sv'[th'[w].s].nat /\ record'[th'[w].n] = None,
         NameOK(w, n)'
  PROVE  HostOK(w)'
<1>1. /\ th[w].n \in Names /\ th[w].r \in Handles
      /\ \A m \in Names : m # th[w].n => listeners[m] # th[w].r
  BY WorkerFacts, Zenon
<1>2. /\ th'[w].n \in {th[w].n, None}
      /\ th'[w].pc \in CallPcs => th'[w].ret # "idle"
      /\ Rebuilder(th'[w]) => Rebuilder(th[w]) /\ th'[w].n = th[w].n /\ th'[w].r = th[w].r
      /\ th'[w] = Returned(w) => (th'[w].pc = "applyDisabled" => th'[w].r = th[w].r)
  BY MoveFacts, Zenon
<1>3. WorkerOK(w)'
  <2>1. WorkerOK(w)
    BY Zenon DEF HostOK
  <2>2. th'[w].pc = "applyDisabled" => hd'[th'[w].r].srv = None
    BY <1>2, Zenon DEF Moves, CallPcs, Own
  <2>3. (\A u \in Threads : u # w => th[u] = Idle)'
    BY <2>1, Zenon DEF WorkerOK, Idle
  <2>4. QED BY <1>2, <2>1, <2>2, <2>3, Zenon DEF WorkerOK
<1>4. ASSUME NEW m \in Names, m # th[w].n PROVE NameOK(w, m)'
  <2>0. th[w].n # m /\ th'[w].n # m
    BY <1>2, <1>4, NoneAssumption
  <2>1. NameOK(w, m) /\ Off(th[w], m) /\ Off(th[w], m)'
    BY <1>4, <2>0, Zenon DEF HostOK, Off
  <2>2. listeners[m] \in Handles \cup {None} /\ listeners[m] # th[w].r
    BY <1>1, <1>4, Zenon DEF IInv, LocksOK
  <2>3. listeners[m] # None => /\ hd'[listeners[m]].srv = hd[listeners[m]].srv
                               /\ hd'[listeners[m]].cfg = hd[listeners[m]].cfg
    BY <2>2, Zenon
  <2>4. \A q \in Servers : listeners[m] # None /\ hd[listeners[m]].srv = q => sv'[q].nat = sv[q].nat
    BY <2>2, Zenon
  <2>5. QED BY <1>4, <2>1, <2>3, <2>4, OffName, Zenon
<1>5. QED BY <1>3, <1>4, Zenon DEF HostOK

\* The steps of a teardown.
LEMMA HostCapture ==
  ASSUME IInv, Fleet, NEW w \in Threads, HostOK(w), StopLock(w) \/ RebuildStop(w)
  PROVE  HostOK(w)'
<1> USE StepFacts
<1>0. th[w].pc \in CallPcs /\ th[w].pc \notin Starting \cup Own \cup {"applyBuilt", "stopClose", "stopHost", "stopForget"}
  BY Zenon DEF StopLock, RebuildStop, At, CallPcs, Starting, Own
<1>1. PICK n \in Names : th[w].n = n
  BY <1>0, WorkerFacts, Zenon
<1>2. PICK r \in Handles : th[w].r = r
  BY <1>0, WorkerFacts, Zenon
<1>3. ~Builder(th[w]) /\ listeners[n] = r /\ Slot(w, n) = r /\ NameOK(w, n) /\ r # None
  BY <1>0, <1>1, <1>2, WorkerFacts, NoneAssumption, Zenon DEF Fleet, CallOK
<1>4. /\ UNCHANGED <<listeners, rules, record>>
      /\ hd' = [hd EXCEPT ![r] = [hd[r] EXCEPT !.srv = None, !.done = None, !.buildMu = w,
                                                !.state = IF @ = "building" THEN @ ELSE "stopped"]]
      /\ sv' = IF hd[r].srv = None THEN sv ELSE [sv EXCEPT ![hd[r].srv].close = "running"]
      /\ th' = [th EXCEPT ![w] = [th[w] EXCEPT !.s = hd[r].srv, !.nat = hd[r].cfg.nat,
                                               !.pc = IF hd[r].srv = None THEN "stopHost" ELSE "stopClose"]]
  BY <1>2, Zenon DEF StopLock, RebuildStop, Capture, host
<1>5. /\ \A u \in Threads : u # w => th'[u] = th[u]
      /\ th'[w].pc \in {"stopHost", "stopClose"} /\ th'[w].n = n /\ th'[w].r = th[w].r
      /\ th'[w].ret = th[w].ret /\ th'[w].s = hd[r].srv /\ th'[w].nat = hd[r].cfg.nat
  BY <1>1, <1>4, Zenon DEF ThFields
<1>6. \A q \in Handles : q # r => hd'[q] = hd[q]
  BY <1>4, Zenon
<1>7. \A q \in Servers : sv'[q].nat = sv[q].nat
  BY <1>4, Zenon DEF SvFields
<1>8. th'[w].pc \in CallPcs \ Own /\ th'[w].pc \notin {"stopForget", "applyDisabled", "hostApply", "persist"}
  BY <1>5, Zenon DEF CallPcs, Own
<1>9. NameOK(w, n)'
  <2>1. ~Holding(w, n) /\ Current(w, n) = hd[r].srv /\ Asks(w, n) = hd[r].cfg.nat
    BY <1>0, <1>3, Zenon DEF Holding, Current, Asks
  <2>2. Holding(w, n)' /\ Current(w, n)' = hd[r].srv /\ Asks(w, n)' = hd[r].cfg.nat
    BY <1>5, <1>8, Zenon DEF Holding, Current, Asks
  <2>3. RulesOf(Current(w, n))' = RulesOf(Current(w, n))
    BY <1>7, <2>1, <2>2, Zenon DEF RulesOf
  <2>4. /\ rules[n] = RulesOf(Current(w, n)) /\ record[n] \in {None, Current(w, n)}
        /\ rules[n] # {} \/ record[n] # None => Asks(w, n)
    BY <1>0, <1>3, Zenon DEF NameOK
  <2>5. QED BY <1>4, <1>8, <2>1, <2>2, <2>3, <2>4, Zenon DEF NameOK
<1>10. Moves(w)
  BY <1>1, <1>5, <1>8, Zenon DEF Moves
<1>11. QED BY <1>0, <1>1, <1>2, <1>4, <1>5, <1>6, <1>7, <1>8, <1>9, <1>10, HostCallStep, Zenon DEF HostOK

LEMMA HostStopClose ==
  ASSUME IInv, Fleet, NEW w \in Threads, HostOK(w), StopClosed(w) \/ StopAbandon(w)
  PROVE  HostOK(w)'
<1> USE StepFacts
<1>0. th[w].pc = "stopClose" /\ th[w].pc \in CallPcs \ Own /\ "stopHost" \in CallPcs \ Own
  BY Zenon DEF StopClosed, StopAbandon, At, CallPcs, Own
<1>1. PICK n \in Names : th[w].n = n
  BY <1>0, WorkerFacts, Zenon
<1>2. /\ UNCHANGED <<listeners, hd, rules, record>> /\ th' = [th EXCEPT ![w].pc = "stopHost"]
      /\ sv' = sv \/ sv' = [sv EXCEPT ![th[w].s].reap = TRUE]
  BY Zenon DEF StopClosed, StopAbandon, host
<1>3. /\ \A u \in Threads : u # w => th'[u] = th[u]
      /\ th'[w].pc = "stopHost" /\ th'[w].n = n /\ th'[w].r = th[w].r
      /\ th'[w].ret = th[w].ret /\ th'[w].s = th[w].s /\ th'[w].nat = th[w].nat
  BY <1>1, <1>2, Zenon DEF ThFields
<1>4. \A q \in Servers : sv'[q].nat = sv[q].nat
  BY <1>2 DEF SvFields
<1>5. NameOK(w, n)'
  <2>1. /\ Holding(w, n) /\ Current(w, n) = th[w].s /\ Asks(w, n) = th[w].nat
        /\ Holding(w, n)' /\ Current(w, n)' = th[w].s /\ Asks(w, n)' = th[w].nat
    BY <1>0, <1>1, <1>3, Zenon DEF Holding, Current, Asks
  <2>2. RulesOf(Current(w, n))' = RulesOf(Current(w, n))
    BY <1>4, <2>1, Zenon DEF RulesOf
  <2>3. /\ rules[n] = RulesOf(Current(w, n)) /\ record[n] \in {None, Current(w, n)}
        /\ rules[n] # {} \/ record[n] # None => Asks(w, n)
    BY <1>0, Zenon DEF HostOK, NameOK
  <2>4. QED BY <1>2, <1>3, <2>1, <2>2, <2>3, Zenon DEF NameOK
<1>6. Moves(w)
  BY <1>0, <1>1, <1>3, Zenon DEF Moves
<1>7. QED BY <1>0, <1>1, <1>2, <1>3, <1>4, <1>5, <1>6, HostCallStep, Zenon DEF HostOK

\* The end of a teardown, the name without rules and without a state file.
LEMMA HostStopReturns ==
  ASSUME IInv, Fleet, NEW w \in Threads, HostOK(w), th[w].pc \in Stopping, StopReturns(w),
         UNCHANGED <<listeners, sv>>, NEW n \in Names, th[w].n = n,
         DOMAIN rules' = Names, DOMAIN record' = Names, rules'[n] = {}, record'[n] = None,
         \A m \in Names : m # n => rules'[m] = rules[m] /\ record'[m] = record[m]
  PROVE  HostOK(w)'
<1> USE StepFacts
<1>0. th[w].pc \in CallPcs
  BY Zenon DEF Stopping, CallPcs
<1>1. PICK r \in Handles : th[w].r = r
  BY <1>0, WorkerFacts, Zenon
<1>2. hd[r].srv = None
  BY <1>1, Zenon DEF Fleet, CallOK
<1>3. hd' = hd \/ hd' = [hd EXCEPT ![r].buildMu = None]
  BY <1>1, Zenon DEF StopReturns
<1>4. \A q \in Handles : hd'[q].srv = hd[q].srv /\ hd'[q].cfg = hd[q].cfg
  BY <1>3 DEF HdFields
<1>5. /\ \A u \in Threads : u # w => th'[u] = th[u]
      /\ \/ th'[w] = Returned(w)
         \/ /\ th'[w].pc = "start" /\ th'[w].n = n /\ th'[w].r = th[w].r /\ th'[w].ret = th[w].ret
  <2>1. CASE th[w].rb
    <3>1. th' = [th EXCEPT ![w] = [th[w] EXCEPT !.pc = "start", !.s = None, !.nat = FALSE]]
      BY <2>1, Zenon DEF StopReturns
    <3>2. QED BY <3>1, Zenon DEF ThFields
  <2>2. CASE ~th[w].rb
    BY <2>2, Zenon DEF StopReturns
  <2>3. QED BY <2>1, <2>2, Zenon
<1>6. Moves(w)
  BY <1>5, Zenon DEF Moves, CallPcs
<1>7. Slot(w, n)' = r /\ th'[w].pc \notin Own \cup {"stopClose", "stopHost", "stopForget", "hostApply", "persist"}
  BY <1>0, <1>1, <1>5, <1>6, MoveFacts, Zenon DEF Own
<1>8. NameOK(w, n)'
  <2>1. hd'[Slot(w, n)'].srv = None
    BY <1>2, <1>4, <1>7, Zenon
  <2>2. QED BY <1>7, <2>1, Settled, Zenon
<1>9. QED BY <1>0, <1>1, <1>2, <1>4, <1>5, <1>6, <1>7, <1>8, HostCallStep, Zenon

LEMMA HostStopHost ==
  ASSUME IInv, Fleet, NEW w \in Threads, HostOK(w), StopHost(w) \/ StopForget(w)
  PROVE  HostOK(w)'
<1> USE StepFacts
<1>0. th[w].pc \in {"stopHost", "stopForget"} /\ th[w].pc \in CallPcs \ Own /\ th[w].pc \in Stopping
  BY Zenon DEF StopHost, StopForget, At, CallPcs, Own, Stopping
<1>1. PICK n \in Names : th[w].n = n
  BY <1>0, WorkerFacts, Zenon
<1>2. /\ NameOK(w, n) /\ DOMAIN rules = Names /\ DOMAIN record = Names
  BY Zenon DEF HostOK
<1>3. CASE StopForget(w)
  <2>1. /\ rules' = rules /\ record' = [record EXCEPT ![n] = None] /\ rules[n] = {}
        /\ StopReturns(w) /\ UNCHANGED <<listeners, sv>>
    BY <1>1, <1>2, <1>3, Zenon DEF StopForget, NameOK, At
  <2>2. /\ record'[n] = None /\ DOMAIN record' = Names
        /\ \A m \in Names : m # n => record'[m] = record[m]
    BY <1>2, <2>1, Zenon
  <2>3. QED BY <1>0, <1>1, <1>2, <2>1, <2>2, HostStopReturns, Zenon
<1>4. CASE StopHost(w)
  <2>1. /\ Holding(w, n) /\ Current(w, n) = th[w].s /\ Asks(w, n) = th[w].nat /\ th[w].pc = "stopHost"
    BY <1>0, <1>1, <1>4, Zenon DEF StopHost, At, Holding, Current, Asks
  <2>2. /\ rules[n] = RulesOf(th[w].s) /\ record[n] \in {None, th[w].s}
        /\ rules[n] # {} \/ record[n] # None => th[w].nat
    BY <1>2, <2>1, Zenon DEF NameOK
  <2>3. CASE ~th[w].nat
    <3>1. StopReturns(w) /\ UNCHANGED <<rules, record, listeners, sv>>
      BY <1>4, <2>3, Zenon DEF StopHost
    <3>2. QED BY <1>0, <1>1, <1>2, <2>2, <2>3, <3>1, HostStopReturns, Zenon
  <2>4. CASE th[w].nat
    <3>1. /\ rules' = [rules EXCEPT ![n] = IF record[n] # None THEN @ \ {record[n]} ELSE {}]
          /\ th' = [th EXCEPT ![w].pc = "stopForget"] /\ UNCHANGED <<record, listeners, sv, hd>>
      BY <1>1, <1>4, <2>4, Zenon DEF StopHost
    <3>2. RulesOf(th[w].s) \ {th[w].s} = {}
      BY Zenon DEF RulesOf
    <3>3. /\ rules'[n] = {} /\ DOMAIN rules' = Names
          /\ \A m \in Names : m # n => rules'[m] = rules[m]
      BY <1>2, <2>2, <3>1, <3>2, Zenon
    <3>4. /\ \A u \in Threads : u # w => th'[u] = th[u]
          /\ th'[w].pc = "stopForget" /\ th'[w].n = n /\ th'[w].r = th[w].r /\ th'[w].ret = th[w].ret
      BY <1>1, <3>1, Zenon DEF ThFields
    <3>5. NameOK(w, n)'
      BY <3>3, <3>4, Zenon DEF NameOK
    <3>6. Moves(w)
      BY <1>1, <3>4, Zenon DEF Moves, CallPcs
    <3>7. QED BY <1>0, <1>1, <1>2, <3>1, <3>3, <3>4, <3>5, <3>6, HostCallStep, Zenon
  <2>5. QED BY <2>3, <2>4, Zenon
<1>5. QED BY <1>3, <1>4, Zenon

\* The steps of start. Before a server is built the name has no rules.
LEMMA StartFacts ==
  ASSUME IInv, Fleet, NEW w \in Threads, HostOK(w), th[w].pc \in Starting, NEW n \in Names, th[w].n = n
  PROVE  /\ th[w].pc \in CallPcs /\ hd[th[w].r].srv = None
         /\ th[w].pc \notin Own => rules[n] = {} /\ record[n] = None
<1>1. th[w].pc \in CallPcs /\ th[w].pc \notin {"stopClose", "stopHost", "stopForget"}
  BY Zenon DEF Starting, CallPcs, Own
<1>2. hd[th[w].r].srv = None /\ Slot(w, n) = th[w].r /\ NameOK(w, n)
  BY <1>1, WorkerFacts, Zenon DEF Fleet, CallOK
<1>3. th[w].pc \notin Own => Current(w, n) = None
  BY <1>1, <1>2, Zenon DEF Current, Holding
<1>4. QED BY <1>1, <1>2, <1>3, NoServer, Zenon

LEMMA HostStartEnds ==
  ASSUME IInv, Fleet, NEW w \in Threads, HostOK(w),
         StartDisabled(w) \/ ConstructFails(w) \/ CloseFailed(w)
  PROVE  HostOK(w)'
<1> USE StepFacts
<1>0. th[w].pc \in Starting \ Own /\ th[w].pc \in CallPcs
  BY Zenon DEF StartDisabled, ConstructFails, CloseFailed, At, Starting, Own, CallPcs
<1>1. PICK n \in Names : th[w].n = n
  BY <1>0, WorkerFacts, Zenon
<1>2. PICK r \in Handles : th[w].r = r
  BY <1>0, WorkerFacts, Zenon
<1>3. /\ th' = [th EXCEPT ![w] = Returned(w)] /\ UNCHANGED <<sv, listeners, rules, record>>
      /\ \E st \in {"disabled", "error"}, e \in BOOLEAN : \E b :
           hd' = [hd EXCEPT ![r] = [[hd[r] EXCEPT !.cfg = th[w].cfg, !.srv = None, !.state = st, !.err = e]
                                        EXCEPT !.buildMu = b]]
  <2>1. CASE th[w].rb
    BY <1>2, <2>1, ZenonT(40) DEF StartDisabled, ConstructFails, CloseFailed, StartReturns, SetState, host
  <2>2. CASE ~th[w].rb
    BY <1>2, <2>2, ZenonT(40) DEF StartDisabled, ConstructFails, CloseFailed, StartReturns, SetState, host
  <2>3. QED BY <2>1, <2>2, Zenon
<1>4. hd'[r].srv = None /\ \A q \in Handles : q # r => hd'[q] = hd[q]
  BY <1>3 DEF HdFields
<1>5. th'[w] = Returned(w) /\ \A u \in Threads : u # w => th'[u] = th[u]
  BY <1>3, Zenon
<1>6. Moves(w)
  BY <1>5, Zenon DEF Moves
<1>7. Slot(w, n)' = r /\ th'[w].pc \notin Own \cup {"stopClose", "stopHost", "stopForget", "hostApply", "persist"}
  BY <1>0, <1>1, <1>2, <1>3, <1>5, <1>6, MoveFacts, Zenon
<1>8. rules'[n] = {} /\ record'[n] = None
  BY <1>0, <1>1, <1>3, StartFacts, Zenon
<1>9. NameOK(w, n)'
  <2>1. hd'[Slot(w, n)'].srv = None
    BY <1>4, <1>7, Zenon
  <2>2. QED BY <1>7, <1>8, <2>1, Settled, Zenon
<1>10. DOMAIN rules' = Names /\ DOMAIN record' = Names
  BY <1>3, Zenon DEF HostOK
<1>11. QED BY <1>0, <1>1, <1>2, <1>3, <1>4, <1>5, <1>6, <1>7, <1>9, <1>10, HostCallStep, Zenon

LEMMA HostStartBuilding ==
  ASSUME IInv, Fleet, NEW w \in Threads, HostOK(w), StartBuilding(w) \/ HostApplyFails(w)
  PROVE  HostOK(w)'
<1> USE StepFacts
<1>0. th[w].pc \in Starting /\ th[w].pc \in CallPcs /\ th[w].pc \in {"start", "hostApply"}
  BY Zenon DEF StartBuilding, HostApplyFails, At, Starting, Own, CallPcs
<1>1. PICK n \in Names : th[w].n = n
  BY <1>0, WorkerFacts, Zenon
<1>2. PICK r \in Handles : th[w].r = r
  BY <1>0, WorkerFacts, Zenon
<1>3. /\ UNCHANGED <<listeners, rules, record>>
      /\ \E p \in {"construct", "closeFailed"} : th' = [th EXCEPT ![w].pc = p]
      /\ hd' = hd \/ hd' = [hd EXCEPT ![r].state = "building"]
      /\ sv' = sv \/ sv' = [sv EXCEPT ![th[w].s].close = "running"]
  BY <1>2, Zenon DEF StartBuilding, HostApplyFails, host
<1>4. \A q \in Handles : hd'[q].srv = hd[q].srv /\ hd'[q].cfg = hd[q].cfg
  BY <1>3 DEF HdFields
<1>5. /\ \A u \in Threads : u # w => th'[u] = th[u]
      /\ th'[w].pc \in {"construct", "closeFailed"} /\ th'[w].n = n /\ th'[w].r = th[w].r /\ th'[w].ret = th[w].ret
  <2>1. PICK p \in {"construct", "closeFailed"} : th' = [th EXCEPT ![w].pc = p]
    BY <1>3, Zenon
  <2>2. QED BY <1>1, <2>1, Zenon DEF ThFields
<1>6. \A q \in Servers : sv'[q].nat = sv[q].nat
  BY <1>3 DEF SvFields
<1>7. Moves(w) /\ th'[w].pc \notin Own \cup {"stopClose", "stopHost", "stopForget", "hostApply", "persist", "applyDisabled"}
  BY <1>1, <1>5, Zenon DEF Moves, CallPcs, Own
<1>8. rules[n] = {} /\ record[n] = None
  <2>1. CASE th[w].pc = "start"
    BY <1>0, <1>1, <2>1, StartFacts, Zenon DEF Own
  <2>2. CASE th[w].pc = "hostApply"
    <3>1. Current(w, n) = th[w].s /\ ~sv[th[w].s].nat /\ record[n] = None /\ NameOK(w, n)
      BY <1>1, <2>2, Zenon DEF Current, Holding, Own, HostOK, WorkerOK
    <3>2. RulesOf(Current(w, n)) = {}
      BY <3>1, Zenon DEF RulesOf
    <3>3. QED BY <2>2, <3>1, <3>2, Zenon DEF NameOK
  <2>3. QED BY <1>0, <2>1, <2>2, Zenon
<1>9. NameOK(w, n)'
  <2>1. hd'[Slot(w, n)'].srv = None
    <3>1. Slot(w, n)' = r
      BY <1>0, <1>1, <1>2, <1>3, <1>7, MoveFacts, Zenon
    <3>2. hd[r].srv = None
      BY <1>0, <1>1, <1>2, StartFacts, Zenon
    <3>3. QED BY <1>4, <3>1, <3>2, Zenon
  <2>2. QED BY <1>3, <1>7, <1>8, <2>1, Settled, Zenon
<1>10. DOMAIN rules' = Names /\ DOMAIN record' = Names
  BY <1>3, Zenon DEF HostOK
<1>11. QED BY <1>0, <1>1, <1>2, <1>3, <1>4, <1>5, <1>6, <1>7, <1>9, <1>10, HostCallStep, Zenon

LEMMA HostConstruct ==
  ASSUME IInv, Fleet, NEW w \in Threads, HostOK(w), Construct(w)
  PROVE  HostOK(w)'
<1> USE StepFacts
<1>1. PICK s \in Servers :
        /\ ServerFree(s)
        /\ sv' = [sv EXCEPT ![s].close = "no"]
        /\ th' = [th EXCEPT ![w] =
                    [th[w] EXCEPT !.s = s, !.pc = IF th[w].cfg.nat THEN "hostApply" ELSE "publish"]]
        /\ th[w].pc = "construct" /\ UNCHANGED <<hd, listeners, rules, record>>
  BY Zenon DEF Construct, At, host
<1>0. th[w].pc \in Starting \ Own /\ th[w].pc \in CallPcs
  BY <1>1, Zenon DEF Starting, Own, CallPcs
<1>2. PICK n \in Names : th[w].n = n
  BY <1>0, WorkerFacts, Zenon
<1>3. /\ th'[w].pc = IF th[w].cfg.nat THEN "hostApply" ELSE "publish"
      /\ th'[w].ret = th[w].ret /\ th'[w].r = th[w].r /\ th'[w].n = n
      /\ th'[w].s = s /\ th'[w].cfg = th[w].cfg
      /\ \A u \in Threads : u # w => th'[u] = th[u]
  BY <1>1, <1>2, Zenon DEF ThFields
<1>4. /\ \A q \in Servers : sv'[q].nat = sv[q].nat
  BY <1>1, Zenon DEF SvFields
<1>5. ~sv'[s].nat
  <2>1. sv[s] = Retired /\ ~Retired.nat
    BY <1>1, Zenon DEF ServerFree, Retired
  <2>2. QED BY <1>4, <2>1, Zenon
<1>6. rules'[n] = {} /\ record'[n] = None
  BY <1>0, <1>1, <1>2, StartFacts, Zenon
<1>7. Moves(w) /\ th'[w].pc \in Own /\ th'[w].pc \notin {"stopForget", "applyDisabled", "persist"}
  BY <1>2, <1>3, Zenon DEF Moves, Own, CallPcs
<1>8. NameOK(w, n)'
  <2>1. Current(w, n)' = s
    BY <1>3, <1>7, Zenon DEF Current, Holding
  <2>2. RulesOf(Current(w, n))' = {}
    BY <1>5, <2>1, Zenon DEF RulesOf
  <2>3. QED BY <1>6, <1>7, <2>2, Zenon DEF NameOK
<1>9. th'[w].pc = "hostApply" => th'[w].cfg.nat /\ ~sv'[th'[w].s].nat /\ record'[th'[w].n] = None
  BY <1>3, <1>5, <1>6, Zenon
<1>10. DOMAIN rules' = Names /\ DOMAIN record' = Names
  BY <1>1, Zenon DEF HostOK
<1>11. QED BY <1>0, <1>1, <1>2, <1>3, <1>4, <1>7, <1>8, <1>9, <1>10, HostCallStep, Zenon

LEMMA HostHostApply ==
  ASSUME IInv, Fleet, NEW w \in Threads, HostOK(w), HostApply(w)
  PROVE  HostOK(w)'
<1> USE StepFacts
<1>0. th[w].pc = "hostApply" /\ th[w].pc \in Own /\ th[w].pc \in CallPcs
  BY Zenon DEF HostApply, At, Own, CallPcs
<1>1. PICK n \in Names : th[w].n = n
  BY <1>0, WorkerFacts, Zenon
<1>2. PICK s \in Servers : th[w].s = s
  BY <1>0, Zenon
<1>3. PICK wan \in BOOLEAN :
        /\ rules' = IF wan THEN [rules EXCEPT ![n] = @ \cup {s}] ELSE rules
        /\ sv' = [sv EXCEPT ![s].nat = wan]
        /\ th' = [th EXCEPT ![w].pc = "persist"]
        /\ UNCHANGED <<listeners, hd, record>>
  BY <1>1, <1>2, Zenon DEF HostApply
<1>4. /\ DOMAIN rules = Names /\ DOMAIN record = Names /\ th[w].cfg.nat
      /\ ~sv[s].nat /\ record[n] = None /\ NameOK(w, n)
  BY <1>0, <1>1, <1>2, Zenon DEF HostOK, WorkerOK
<1>5. /\ \A u \in Threads : u # w => th'[u] = th[u]
      /\ th'[w].pc = "persist" /\ th'[w].n = n /\ th'[w].r = th[w].r /\ th'[w].ret = th[w].ret
      /\ th'[w].s = s /\ th'[w].cfg = th[w].cfg
  BY <1>1, <1>2, <1>3, Zenon DEF ThFields
<1>6. sv'[s].nat = wan /\ \A q \in Servers : q # s => sv'[q].nat = sv[q].nat
  BY <1>3, Zenon DEF SvFields
<1>7. \A p \in Handles : hd[p].srv # s
  BY <1>0, <1>2, Zenon DEF IInv, ServersOK, BuildersOwn
<1>8. rules[n] = {}
  <2>1. Current(w, n) = s
    BY <1>0, <1>1, <1>2, Zenon DEF Current, Holding
  <2>2. RulesOf(Current(w, n)) = {}
    BY <1>4, <2>1, Zenon DEF RulesOf
  <2>3. QED BY <1>0, <1>4, <2>2, Zenon DEF NameOK
<1>9. /\ rules'[n] = IF wan THEN {s} ELSE {}
      /\ DOMAIN rules' = Names /\ \A m \in Names : m # n => rules'[m] = rules[m]
  <2>1. CASE wan
    BY <1>3, <1>4, <1>8, <2>1, Zenon
  <2>2. CASE ~wan
    BY <1>3, <1>4, <1>8, <2>2, Zenon
  <2>3. QED BY <2>1, <2>2, Zenon
<1>10. Moves(w) /\ th'[w].pc \in Own
  BY <1>1, <1>5, Zenon DEF Moves, CallPcs, Own
<1>11. NameOK(w, n)'
  <2>1. Current(w, n)' = s /\ Asks(w, n)' = th[w].cfg.nat
    BY <1>5, <1>10, Zenon DEF Current, Asks, Holding
  <2>2. RulesOf(Current(w, n))' = IF wan THEN {s} ELSE {}
    <3>1. CASE wan
      BY <1>6, <2>1, <3>1, Zenon DEF RulesOf
    <3>2. CASE ~wan
      BY <1>6, <2>1, <3>2, Zenon DEF RulesOf
    <3>3. QED BY <3>1, <3>2, Zenon
  <2>3. QED BY <1>3, <1>4, <1>5, <1>9, <2>1, <2>2, Zenon DEF NameOK
<1>12. \A q \in Servers : sv'[q].nat = sv[q].nat \/ \A p \in Handles : hd[p].srv # q
  BY <1>6, <1>7, Zenon
<1>13. DOMAIN record' = Names /\ th'[w].cfg.nat
  BY <1>3, <1>4, <1>5, Zenon
<1>14. QED BY <1>0, <1>1, <1>3, <1>5, <1>9, <1>10, <1>11, <1>12, <1>13, HostCallStep, Zenon

LEMMA HostPersist ==
  ASSUME IInv, Fleet, NEW w \in Threads, HostOK(w), Persist(w)
  PROVE  HostOK(w)'
<1> USE StepFacts
<1>0. th[w].pc = "persist" /\ th[w].pc \in Own /\ th[w].pc \in CallPcs
  BY Zenon DEF Persist, At, Own, CallPcs
<1>1. PICK n \in Names : th[w].n = n
  BY <1>0, WorkerFacts, Zenon
<1>2. /\ record' \in {record, [record EXCEPT ![n] = th[w].s]}
      /\ th' = [th EXCEPT ![w].pc = "publish"]
      /\ UNCHANGED <<listeners, hd, sv, rules>>
  BY <1>1, Zenon DEF Persist
<1>3. DOMAIN rules = Names /\ DOMAIN record = Names /\ th[w].cfg.nat /\ NameOK(w, n)
  BY <1>0, Zenon DEF HostOK, WorkerOK
<1>4. /\ record'[n] \in {record[n], th[w].s} /\ DOMAIN record' = Names
      /\ \A m \in Names : m # n => record'[m] = record[m]
  <2>1. CASE record' = record
    BY <1>3, <2>1, Zenon
  <2>2. CASE record' = [record EXCEPT ![n] = th[w].s]
    BY <1>3, <2>2, Zenon
  <2>3. QED BY <1>2, <2>1, <2>2, Zenon
<1>5. /\ \A u \in Threads : u # w => th'[u] = th[u]
      /\ th'[w].pc = "publish" /\ th'[w].n = n /\ th'[w].r = th[w].r /\ th'[w].ret = th[w].ret
      /\ th'[w].s = th[w].s /\ th'[w].cfg = th[w].cfg
  BY <1>1, <1>2, Zenon DEF ThFields
<1>6. Moves(w) /\ th'[w].pc \in Own
  BY <1>1, <1>5, Zenon DEF Moves, CallPcs, Own
<1>7. NameOK(w, n)'
  <2>1. Current(w, n) = th[w].s /\ Current(w, n)' = th[w].s /\ Asks(w, n)' = th[w].cfg.nat
    BY <1>0, <1>1, <1>5, <1>6, Zenon DEF Current, Asks, Holding
  <2>2. RulesOf(Current(w, n))' = RulesOf(Current(w, n))
    BY <1>2, <2>1, Zenon DEF RulesOf
  <2>3. rules[n] = RulesOf(Current(w, n)) /\ record[n] \in {None, Current(w, n)}
    BY <1>0, <1>3, Zenon DEF NameOK
  <2>4. record'[n] \in {None, th[w].s}
    BY <1>4, <2>1, <2>3, Zenon
  <2>5. QED BY <1>2, <1>3, <1>5, <2>1, <2>2, <2>3, <2>4, Zenon DEF NameOK
<1>8. DOMAIN rules' = Names
  BY <1>2, <1>3, Zenon
<1>9. QED BY <1>0, <1>1, <1>2, <1>4, <1>5, <1>6, <1>7, <1>8, HostCallStep, Zenon

LEMMA HostPublish ==
  ASSUME IInv, Fleet, NEW w \in Threads, HostOK(w), Publish(w)
  PROVE  HostOK(w)'
<1> USE StepFacts
<1>0. th[w].pc = "publish" /\ th[w].pc \in Own /\ th[w].pc \in CallPcs
  BY Zenon DEF Publish, At, Own, CallPcs
<1>1. PICK n \in Names : th[w].n = n
  BY <1>0, WorkerFacts, Zenon
<1>2. PICK r \in Handles : th[w].r = r
  BY <1>0, WorkerFacts, Zenon
<1>3. /\ th' = [th EXCEPT ![w] = Returned(w)] /\ UNCHANGED <<listeners, rules, record>>
      /\ \E b : hd' = [hd EXCEPT ![r] = [[hd[r] EXCEPT !.cfg = th[w].cfg, !.srv = th[w].s, !.done = th[w].s,
                                                     !.state = "running", !.err = FALSE] EXCEPT !.buildMu = b]]
      /\ sv' = [sv EXCEPT ![th[w].s] = [@ EXCEPT !.serve = TRUE, !.owner = r]]
  <2>1. CASE th[w].rb
    BY <1>2, <2>1, ZenonT(40) DEF Publish, StartReturns, host
  <2>2. CASE ~th[w].rb
    BY <1>2, <2>2, ZenonT(40) DEF Publish, StartReturns, host
  <2>3. QED BY <2>1, <2>2, Zenon
<1>4. hd'[r].srv = th[w].s /\ hd'[r].cfg = th[w].cfg /\ \A q \in Handles : q # r => hd'[q] = hd[q]
  BY <1>3 DEF HdFields
<1>5. \A q \in Servers : sv'[q].nat = sv[q].nat
  BY <1>0, <1>3 DEF SvFields
<1>6. th'[w] = Returned(w) /\ (\A u \in Threads : u # w => th'[u] = th[u]) /\ Moves(w)
  BY <1>3, Zenon DEF Moves
<1>7. /\ Slot(w, n)' = r /\ th'[w].pc \notin Own \cup {"stopClose", "stopHost", "stopForget", "hostApply", "persist"}
  BY <1>0, <1>1, <1>2, <1>3, <1>6, MoveFacts, Zenon
<1>8. NameOK(w, n)'
  <2>1. Current(w, n) = th[w].s /\ Asks(w, n) = th[w].cfg.nat /\ NameOK(w, n)
    BY <1>0, <1>1, Zenon DEF Current, Asks, Holding, HostOK
  <2>2. r # None
    BY NoneAssumption, Zenon
  <2>3. Current(w, n)' = th[w].s /\ Asks(w, n)' = th[w].cfg.nat
    BY <1>4, <1>7, <2>2, Zenon DEF Current, Asks, Holding
  <2>4. RulesOf(Current(w, n))' = RulesOf(Current(w, n))
    BY <1>5, <2>1, <2>3, Zenon DEF RulesOf
  <2>5. /\ rules[n] = RulesOf(Current(w, n)) /\ record[n] \in {None, Current(w, n)}
        /\ rules[n] # {} \/ record[n] # None => Asks(w, n)
    BY <1>0, <2>1, Zenon DEF NameOK
  <2>6. QED BY <1>3, <1>7, <2>1, <2>3, <2>4, <2>5, Zenon DEF NameOK
<1>9. DOMAIN rules' = Names /\ DOMAIN record' = Names
  BY <1>3, Zenon DEF HostOK
<1>10. th'[w].pc # "applyDisabled"
  <2>1. CallOK(w) /\ th[w].pc \in Starting
    BY <1>0, Zenon DEF Fleet, Starting
  <2>2. th[w].ret \in {"applyBuilt", "rebuildCheck", "applyScan"}
    BY <1>0, <2>1, Zenon DEF CallOK, Builder, Starting
  <2>3. th'[w].pc = th[w].ret
    BY <1>6, ReturnedFacts, Zenon DEF IInv
  <2>4. QED BY <2>2, <2>3, Zenon
<1>11. QED BY <1>0, <1>1, <1>2, <1>3, <1>4, <1>5, <1>6, <1>7, <1>8, <1>9, <1>10, HostCallStep, Zenon

LEMMA HostRebuildLock ==
  ASSUME IInv, Fleet, NEW w \in Threads, HostOK(w), RebuildLock(w)
  PROVE  HostOK(w)'
<1> USE StepFacts
<1>0. th[w].pc = "rebuildLock" /\ th[w].pc \in CallPcs
  BY Zenon DEF RebuildLock, At, CallPcs
<1>1. PICK n \in Names : th[w].n = n
  BY <1>0, WorkerFacts, Zenon
<1>2. PICK r \in Handles : th[w].r = r
  BY <1>0, WorkerFacts, Zenon
<1>3. /\ UNCHANGED <<listeners, sv, rules, record>>
      /\ hd' = [hd EXCEPT ![r] = [hd[r] EXCEPT !.buildMu = w, !.state = "building"]]
      /\ th' = [th EXCEPT ![w] = [th[w] EXCEPT !.pc = "rebuildStop", !.rb = TRUE]]
  BY <1>2, Zenon DEF RebuildLock, host
<1>4. \A q \in Handles : hd'[q].srv = hd[q].srv /\ hd'[q].cfg = hd[q].cfg
  BY <1>3, Zenon DEF HdFields
<1>5. /\ \A u \in Threads : u # w => th'[u] = th[u]
      /\ th'[w].pc = "rebuildStop" /\ th'[w].n = n /\ th'[w].r = th[w].r /\ th'[w].ret = th[w].ret
  BY <1>1, <1>3, Zenon DEF ThFields
<1>6. Moves(w)
  BY <1>1, <1>5, Zenon DEF Moves, CallPcs
<1>7. ~Builder(th[w]) /\ ~Builder(th'[w])
  <2>1. ~Builder(th[w])
    BY <1>0, Zenon DEF Fleet, CallOK, Starting, Own
  <2>2. QED BY <1>5, <2>1, Zenon DEF Builder
<1>8. NameOK(w, n)'
  <2>1. NameOK(w, n) /\ Off(th[w], n) /\ Off(th[w], n)'
    BY <1>0, <1>5, <1>7, Zenon DEF HostOK, Off, Own
  <2>2. listeners[n] \in Handles \cup {None}
    BY Zenon DEF IInv, LocksOK
  <2>3. listeners[n] # None => /\ hd'[listeners[n]].srv = hd[listeners[n]].srv
                               /\ hd'[listeners[n]].cfg = hd[listeners[n]].cfg
    BY <1>4, <2>2, Zenon
  <2>4. QED BY <1>3, <2>1, <2>3, OffName, Zenon
<1>9. DOMAIN rules' = Names /\ DOMAIN record' = Names
  BY <1>3, Zenon DEF HostOK
<1>10. QED BY <1>0, <1>1, <1>3, <1>4, <1>5, <1>6, <1>8, <1>9, HostCallStep, Zenon

\* A step that only takes the call from one listener to the next, or ends or begins it.
LEMMA HostCalm ==
  ASSUME IInv, NEW w \in Threads, HostOK(w), UNCHANGED <<listeners, hd, sv, rules, record>>,
         \A u \in Threads : u # w => th'[u] = th[u],
         ~Builder(th[w]), ~Builder(th'[w]),
         th[w].pc \notin Own \cup {"stopClose", "stopHost", "stopForget"},
         th'[w].pc \notin Own \cup {"stopClose", "stopHost", "stopForget", "hostApply", "persist", "applyDisabled"},
         th'[w].pc \in CallPcs => th'[w].ret # "idle",
         Rebuilder(th'[w]) => listeners[th'[w].n] = th'[w].r
  PROVE  HostOK(w)'
<1>1. ASSUME NEW n \in Names PROVE NameOK(w, n)'
  <2>1. NameOK(w, n) /\ Off(th[w], n) /\ Off(th[w], n)'
    BY Zenon DEF HostOK, Off
  <2>2. QED BY <2>1, OffName, Zenon
<1>2. WorkerOK(w)'
  <2>1. WorkerOK(w)
    BY Zenon DEF HostOK
  <2>2. (\A u \in Threads : u # w => th[u] = Idle)'
    BY <2>1, Zenon DEF WorkerOK, Idle
  <2>3. QED BY <2>1, <2>2, Zenon DEF WorkerOK
<1>3. QED BY <1>1, <1>2, Zenon DEF HostOK

LEMMA HostScan ==
  ASSUME IInv, Fleet, NEW w \in Threads, HostOK(w),
         \/ ApplyLoad(w) \/ Close(w) \/ ApplyLock(w) \/ ApplyDone(w) \/ CloseDone(w) \/ RebuildCheck(w)
         \/ \E n \in Names : \/ Rebuild(w, n) \/ Stop(w, n)
                             \/ ApplyStop(w, n) \/ ApplyRebuild(w, n) \/ ApplyKeep(w, n) \/ CloseStop(w, n)
  PROVE  HostOK(w)'
<1> USE StepFacts
<1>1. /\ UNCHANGED <<listeners, hd, sv, rules, record>>
      /\ th[w].pc \in {"idle", "applyLock", "applyScan", "closeScan", "rebuildCheck"}
  BY ZenonT(40) DEF ApplyLoad, Close, ApplyLock, ApplyDone, CloseDone, RebuildCheck, Rebuild, Stop,
     ApplyStop, ApplyRebuild, ApplyKeep, CloseStop, At, host
<1>2. th[w].ret = "idle"
  BY <1>1, Zenon DEF IInv, LocksOK, ThreadOK, Top, Rets
<1>3. ~Builder(th[w]) /\ th[w].pc \notin Own \cup {"stopClose", "stopHost", "stopForget"}
  BY <1>1, <1>2, Zenon DEF Builder, Own
<1> DEFINE Ends(x) == x.pc \in {"idle", "applyLock", "applyScan", "closeScan"} /\ x.ret = "idle"
           Goes(x) == \/ /\ x.pc = "stopLock" /\ x.ret \in {"applyRemoved", "applyDisabled", "stopDelete", "closeDelete"}
                      \/ /\ x.pc = "rebuildLock" /\ x.ret \in {"applyScan", "rebuildCheck"}
                         /\ listeners[x.n] = x.r
<1>4. (\A u \in Threads : u # w => th'[u] = th[u]) /\ (Ends(th'[w]) \/ Goes(th'[w]))
  <2>1. CASE ApplyLoad(w)
    BY <1>2, <2>1, Zenon DEF ApplyLoad, ThFields
  <2>2. CASE Close(w)
    BY <1>2, <2>2, Zenon DEF Close, ThFields
  <2>3. CASE ApplyLock(w)
    <3>1. CASE closed
      <4>1. th' = [th EXCEPT ![w] = Idle]
        BY <2>3, <3>1, Zenon DEF ApplyLock
      <4>2. QED BY <4>1, IdleFacts, Zenon
    <3>2. CASE ~closed
      <4>1. th' = [th EXCEPT ![w] = [th[w] EXCEPT !.pc = "applyScan", !.todo = Tracked]]
        BY <2>3, <3>2, Zenon DEF ApplyLock
      <4>2. QED BY <1>2, <4>1, Zenon DEF ThFields
    <3>3. QED BY <3>1, <3>2, Zenon
  <2>4. CASE ApplyDone(w) \/ CloseDone(w)
    <3>1. th' = [th EXCEPT ![w] = Idle]
      BY <2>4, Zenon DEF ApplyDone, CloseDone
    <3>2. QED BY <3>1, IdleFacts, Zenon
  <2>5. CASE RebuildCheck(w)
    <3>1. listeners[th[w].n] = th[w].r
      BY <2>5, Zenon DEF RebuildCheck, At, Rebuilder, HostOK, WorkerOK
    <3>2. QED BY <2>5, <3>1, Zenon DEF RebuildCheck, Idle
  <2>6. ASSUME NEW n \in Names, Rebuild(w, n) PROVE (\A u \in Threads : u # w => th'[u] = th[u]) /\ Goes(th'[w])
    BY <2>6, Zenon DEF Rebuild, ThFields
  <2>7. ASSUME NEW n \in Names, Stop(w, n) PROVE (\A u \in Threads : u # w => th'[u] = th[u]) /\ Goes(th'[w])
    BY <2>7, Zenon DEF Stop, ThFields
  <2>8. ASSUME NEW n \in Names, ApplyStop(w, n) PROVE (\A u \in Threads : u # w => th'[u] = th[u]) /\ Goes(th'[w])
    BY <2>8, Zenon DEF ApplyStop, ThFields
  <2>9. ASSUME NEW n \in Names, ApplyRebuild(w, n) PROVE (\A u \in Threads : u # w => th'[u] = th[u]) /\ Goes(th'[w])
    BY <2>9, Zenon DEF ApplyRebuild, ThFields
  <2>10. ASSUME NEW n \in Names, ApplyKeep(w, n) PROVE (\A u \in Threads : u # w => th'[u] = th[u]) /\ Ends(th'[w])
    BY <1>2, <2>10, Zenon DEF ApplyKeep, At, ThFields
  <2>11. ASSUME NEW n \in Names, CloseStop(w, n) PROVE (\A u \in Threads : u # w => th'[u] = th[u]) /\ Goes(th'[w])
    <3>1. th' = [th EXCEPT ![w] = [th[w] EXCEPT !.pc = "stopLock", !.ret = "closeDelete", !.n = n,
                                                !.r = listeners[n], !.todo = @ \ {n}]]
      BY <2>11, Zenon DEF CloseStop
    <3>2. th'[w].pc = "stopLock" /\ th'[w].ret = "closeDelete" /\ \A u \in Threads : u # w => th'[u] = th[u]
      BY <3>1, Zenon DEF ThFields
    <3>3. QED BY <3>2, Zenon
  <2> HIDE DEF Ends, Goes
  <2>12. QED BY <2>1, <2>2, <2>3, <2>4, <2>5, <2>6, <2>7, <2>8, <2>9, <2>10, <2>11, Zenon
<1>5. /\ ~Builder(th'[w])
      /\ th'[w].pc \notin Own \cup {"stopClose", "stopHost", "stopForget", "hostApply", "persist", "applyDisabled"}
      /\ th'[w].pc \in CallPcs => th'[w].ret # "idle"
      /\ Rebuilder(th'[w]) => listeners[th'[w].n] = th'[w].r
  <2>1. CASE Ends(th'[w])
    BY <2>1, Zenon DEF Builder, Own, CallPcs, Rebuilder
  <2>2. CASE Goes(th'[w])
    BY <2>2, Zenon DEF Builder, Own, Rebuilder
  <2>3. QED BY <1>4, <2>1, <2>2, Zenon
<1>6. QED BY <1>1, <1>3, <1>4, <1>5, HostCalm, Zenon

\* A listener is dropped from the map, or shown as disabled, once it has no server.
LEMMA HostLetsGo ==
  ASSUME IInv, Fleet, NEW w \in Threads, HostOK(w),
         ApplyRemoved(w) \/ StopDelete(w) \/ CloseDelete(w) \/ ApplyDisabled(w)
  PROVE  HostOK(w)'
<1> USE StepFacts
<1>1. /\ th[w].pc \in {"applyRemoved", "stopDelete", "closeDelete", "applyDisabled"}
      /\ UNCHANGED <<sv, rules, record>>
  BY Zenon DEF ApplyRemoved, StopDelete, CloseDelete, ApplyDisabled, At, host
<1>2. th[w].ret = "idle" /\ CallOK(w) /\ WorkerOK(w) /\ \A u \in Threads : u # w => ~Rebuilder(th[u])
  <2>1. th[w].ret = "idle"
    BY <1>1, Zenon DEF IInv, LocksOK, ThreadOK, Top, Rets
  <2>2. \A u \in Threads : u # w => ~Rebuilder(th[u])
    BY IdleFacts, Zenon DEF HostOK, WorkerOK, Rebuilder
  <2>3. QED BY <2>1, <2>2, Zenon DEF Fleet, HostOK
<1>3. Slotted(th[w]) /\ ~Builder(th[w]) /\ ~Rebuilder(th[w]) /\ th[w].pc \notin Own \cup {"stopClose", "stopHost", "stopForget"}
  BY <1>1, <1>2, Zenon DEF Slotted, SlotRets, MuRets, Rets, Builder, Rebuilder, Own
<1>4. PICK n \in Names : th[w].n = n
  BY <1>2, <1>3, Zenon DEF CallOK
<1>5. PICK r \in Handles : th[w].r = r
  BY <1>2, <1>3, Zenon DEF CallOK
<1>6. listeners[n] = r /\ hd[r].srv = None /\ r # None
  <2>1. listeners[n] = r
    BY <1>2, <1>3, <1>4, <1>5, Zenon DEF CallOK
  <2>2. hd[r].srv = None
    BY <1>1, <1>2, <1>3, <1>5, Zenon DEF CallOK, WorkerOK
  <2>3. QED BY <2>1, <2>2, NoneAssumption, Zenon
<1>7. rules[n] = {} /\ record[n] = None
  <2>1. Current(w, n) = None /\ NameOK(w, n)
    BY <1>3, <1>6, Zenon DEF Current, Holding, Slot, HostOK
  <2>2. QED BY <1>3, <2>1, NoServer, Zenon
<1>8. /\ \A u \in Threads : u # w => th'[u] = th[u]
      /\ th'[w].pc \in {"applyScan", "idle", "closeScan"} /\ th'[w].ret = "idle"
  <2>1. CASE StopDelete(w)
    <3>1. th' = [th EXCEPT ![w] = Idle]
      BY <2>1, Zenon DEF StopDelete
    <3>2. QED BY <3>1, IdleFacts, Zenon
  <2>2. CASE ~StopDelete(w)
    <3>1. PICK p \in {"applyScan", "closeScan"} :
            th' = [th EXCEPT ![w] = [th[w] EXCEPT !.pc = p, !.n = None, !.r = None]]
      BY <2>2, Zenon DEF ApplyRemoved, CloseDelete, ApplyDisabled
    <3>2. QED BY <1>2, <3>1, Zenon DEF ThFields
  <2>3. QED BY <2>1, <2>2, Zenon
<1>9. \/ hd' = hd /\ listeners' = [listeners EXCEPT ![n] = None]
      \/ listeners' = listeners /\ \E c : hd' = [hd EXCEPT ![r] = [hd[r] EXCEPT !.cfg = c, !.state = "disabled"]]
  BY <1>4, <1>5, Zenon DEF ApplyRemoved, StopDelete, CloseDelete, ApplyDisabled
<1>10. /\ listeners \in [Names -> Handles \cup {None}]
       /\ listeners'[n] \in {r, None} /\ \A m \in Names : m # n => listeners'[m] = listeners[m]
       /\ hd'[r].srv = None /\ \A q \in Handles : q # r => hd'[q] = hd[q]
  <2>0. listeners \in [Names -> Handles \cup {None}]
    BY Zenon DEF IInv, LocksOK
  <2>1. CASE hd' = hd /\ listeners' = [listeners EXCEPT ![n] = None]
    BY <1>6, <2>0, <2>1, Zenon
  <2>2. CASE listeners' = listeners /\ \E c : hd' = [hd EXCEPT ![r] = [hd[r] EXCEPT !.cfg = c, !.state = "disabled"]]
    BY <1>6, <2>0, <2>2, Zenon DEF HdFields
  <2>3. QED BY <1>9, <2>1, <2>2, Zenon
<1>11. /\ ~Builder(th'[w]) /\ ~Rebuilder(th'[w]) /\ th'[w].pc \notin CallPcs
       /\ th'[w].pc \notin Own \cup {"stopClose", "stopHost", "stopForget", "hostApply", "persist", "applyDisabled"}
  BY <1>8, Zenon DEF Builder, Rebuilder, Own, CallPcs
<1>12. NameOK(w, n)'
  <2>1. Slot(w, n)' = None \/ hd'[Slot(w, n)'].srv = None
    BY <1>10, <1>11, Zenon DEF Slot
  <2>2. QED BY <1>1, <1>7, <1>11, <2>1, Settled, Zenon
<1>13. ASSUME NEW m \in Names, m # n PROVE NameOK(w, m)'
  <2>1. NameOK(w, m) /\ Off(th[w], m) /\ Off(th[w], m)'
    BY <1>3, <1>11, Zenon DEF HostOK, Off
  <2>2. listeners[m] # r /\ listeners[m] \in Handles \cup {None}
    BY <1>2, <1>6, <1>10, <1>13, Zenon DEF WorkerOK
  <2>3. listeners[m] # None => hd'[listeners[m]] = hd[listeners[m]]
    BY <1>10, <2>2, Zenon
  <2>4. QED BY <1>1, <1>10, <1>13, <2>1, <2>3, OffName, Zenon
<1>14. WorkerOK(w)'
  <2>1. (\A u \in Threads : u # w => th[u] = Idle)'
    BY <1>2, <1>8, Zenon DEF WorkerOK, Idle
  <2>2. (\A m, k \in Names : m # k /\ listeners[m] # None => listeners[m] # listeners[k])'
    <3>1. \A m \in Names : m # n => listeners[m] # r
      BY <1>2, <1>6, Zenon DEF WorkerOK
    <3>2. SUFFICES ASSUME NEW m \in Names, NEW k \in Names, m # k, listeners'[m] # None
                   PROVE  listeners'[m] # listeners'[k]
      BY Zenon
    <3>3. CASE m = n
      BY <1>10, <3>1, <3>2, <3>3, Zenon
    <3>4. CASE k = n
      BY <1>10, <3>1, <3>2, <3>4, Zenon
    <3>5. CASE m # n /\ k # n
      <4>1. listeners'[m] = listeners[m] /\ listeners'[k] = listeners[k]
        BY <1>10, <3>5, Zenon
      <4>2. QED BY <1>2, <3>2, <4>1 DEF WorkerOK
    <3>6. QED BY <3>3, <3>4, <3>5, Zenon
  <2>3. QED BY <1>11, <2>1, <2>2, Zenon DEF WorkerOK
<1>15. QED BY <1>1, <1>12, <1>13, <1>14, Zenon DEF HostOK

\* A handle is built for a name that has none, then entered in the map.
LEMMA HostBuild ==
  ASSUME IInv, Fleet, NEW w \in Threads, HostOK(w), NEW n \in Names, NEW r \in Handles, ApplyBuild(w, n, r)
  PROVE  HostOK(w)'
<1> USE StepFacts
<1>1. /\ th[w].pc = "applyScan" /\ n \notin Tracked /\ HandleFree(r) /\ hd' = [hd EXCEPT ![r] = NewHandle]
      /\ UNCHANGED <<listeners, sv, rules, record>>
      /\ th' = [th EXCEPT ![w] = [th[w] EXCEPT !.pc = "start", !.ret = "applyBuilt", !.n = n,
                                               !.r = r, !.cfg = th[w].snap[n]]]
  BY Zenon DEF ApplyBuild, At, host
<1>2. /\ \A u \in Threads : u # w => th'[u] = th[u]
      /\ th'[w].pc = "start" /\ th'[w].ret = "applyBuilt" /\ th'[w].n = n /\ th'[w].r = r
  BY <1>1, Zenon DEF ThFields
<1>3. hd'[r].srv = None /\ \A q \in Handles : q # r => hd'[q] = hd[q]
  BY <1>1, Zenon DEF NewHandle
<1>4. /\ th[w].ret = "idle" /\ listeners \in [Names -> Handles \cup {None}] /\ listeners[n] = None
      /\ \A m \in Names : listeners[m] # r
  BY <1>1, Zenon DEF IInv, LocksOK, ThreadOK, Top, Rets, Tracked, HandleFree
<1>5. ~Builder(th[w]) /\ th[w].pc \notin Own \cup {"stopClose", "stopHost", "stopForget"}
  BY <1>1, <1>4, Zenon DEF Builder, Own
<1>6. rules[n] = {} /\ record[n] = None
  <2>1. Current(w, n) = None /\ NameOK(w, n)
    BY <1>4, <1>5, Zenon DEF Current, Holding, Slot, HostOK
  <2>2. QED BY <1>5, <2>1, NoServer, Zenon
<1>7. /\ Builder(th'[w]) /\ ~Rebuilder(th'[w])
      /\ th'[w].pc \notin Own \cup {"stopClose", "stopHost", "stopForget", "hostApply", "persist", "applyDisabled"}
  BY <1>2, Zenon DEF Builder, Rebuilder, Own
<1>8. NameOK(w, n)'
  <2>1. hd'[Slot(w, n)'].srv = None
    BY <1>2, <1>3, <1>7, Zenon DEF Slot
  <2>2. QED BY <1>1, <1>6, <1>7, <2>1, Settled, Zenon
<1>9. ASSUME NEW m \in Names, m # n PROVE NameOK(w, m)'
  <2>1. NameOK(w, m) /\ Off(th[w], m) /\ Off(th[w], m)'
    BY <1>2, <1>5, <1>9, Zenon DEF HostOK, Off
  <2>2. listeners[m] # None => hd'[listeners[m]] = hd[listeners[m]]
    BY <1>3, <1>4, Zenon
  <2>3. QED BY <1>1, <2>1, <2>2, OffName, Zenon
<1>10. WorkerOK(w)'
  <2>1. WorkerOK(w)
    BY Zenon DEF HostOK
  <2>2. (\A u \in Threads : u # w => th[u] = Idle)'
    BY <1>2, <2>1, Zenon DEF WorkerOK, Idle
  <2>3. QED BY <1>1, <1>2, <1>7, <2>1, <2>2, Zenon DEF WorkerOK
<1>11. QED BY <1>1, <1>8, <1>9, <1>10, Zenon DEF HostOK

LEMMA HostBuilt ==
  ASSUME IInv, Fleet, NEW w \in Threads, HostOK(w), ApplyBuilt(w)
  PROVE  HostOK(w)'
<1> USE StepFacts
<1>1. /\ th[w].pc = "applyBuilt" /\ UNCHANGED <<hd, sv, rules, record>>
      /\ listeners' = [listeners EXCEPT ![th[w].n] = th[w].r]
      /\ th' = [th EXCEPT ![w] = [th[w] EXCEPT !.pc = "applyScan", !.n = None, !.r = None]]
  BY Zenon DEF ApplyBuilt, At, host
<1>2. /\ Builder(th[w]) /\ CallOK(w) /\ WorkerOK(w) /\ th[w].ret = "idle" /\ th[w].r \in Handles
      /\ listeners \in [Names -> Handles \cup {None}]
  BY <1>1, Zenon DEF Builder, Fleet, HostOK, IInv, LocksOK, ThreadOK, Top, Rets, HandlePcs
<1>3. PICK n \in Names : th[w].n = n
  BY <1>2, Zenon DEF CallOK
<1>4. PICK r \in Handles : th[w].r = r
  BY <1>2, Zenon
<1>5. r # None /\ \A m \in Names : listeners[m] # r
  BY <1>2, <1>4, NoneAssumption, Zenon DEF CallOK
<1>6. listeners'[n] = r /\ \A m \in Names : m # n => listeners'[m] = listeners[m]
  BY <1>1, <1>2, <1>3, <1>4, Zenon
<1>7. /\ \A u \in Threads : u # w => th'[u] = th[u]
      /\ th'[w].pc = "applyScan" /\ th'[w].ret = "idle" /\ th'[w].n = None
  BY <1>1, <1>2, Zenon DEF ThFields
<1>8. /\ ~Builder(th'[w]) /\ ~Rebuilder(th'[w]) /\ th'[w].pc \notin CallPcs
      /\ th'[w].pc \notin Own \cup {"stopClose", "stopHost", "stopForget", "hostApply", "persist", "applyDisabled"}
      /\ th[w].pc \notin Own \cup {"stopClose", "stopHost", "stopForget"}
  BY <1>1, <1>7, Zenon DEF Builder, Rebuilder, Own, CallPcs
<1>9. NameOK(w, n)'
  <2>1. Current(w, n) = hd[r].srv /\ Asks(w, n) = hd[r].cfg.nat /\ NameOK(w, n)
    BY <1>2, <1>3, <1>4, <1>5, <1>8, Zenon DEF Current, Asks, Holding, Slot, HostOK
  <2>2. Current(w, n)' = hd[r].srv /\ Asks(w, n)' = hd[r].cfg.nat
    BY <1>1, <1>5, <1>6, <1>8, Zenon DEF Current, Asks, Holding, Slot
  <2>3. RulesOf(Current(w, n))' = RulesOf(Current(w, n))
    BY <1>1, <2>1, <2>2, Zenon DEF RulesOf
  <2>4. /\ rules[n] = RulesOf(Current(w, n)) /\ record[n] \in {None, Current(w, n)}
        /\ rules[n] # {} \/ record[n] # None => Asks(w, n)
    BY <1>8, <2>1, Zenon DEF NameOK
  <2>5. QED BY <1>1, <1>8, <2>1, <2>2, <2>3, <2>4, Zenon DEF NameOK
<1>10. ASSUME NEW m \in Names, m # n PROVE NameOK(w, m)'
  <2>1. NameOK(w, m) /\ Off(th[w], m) /\ Off(th[w], m)'
    BY <1>3, <1>8, <1>10, Zenon DEF HostOK, Off
  <2>2. QED BY <1>1, <1>6, <1>10, <2>1, OffName, Zenon
<1>11. WorkerOK(w)'
  <2>1. (\A u \in Threads : u # w => th[u] = Idle)'
    BY <1>2, <1>7, Zenon DEF WorkerOK, Idle
  <2>2. (\A m, k \in Names : m # k /\ listeners[m] # None => listeners[m] # listeners[k])'
    <3>1. SUFFICES ASSUME NEW m \in Names, NEW k \in Names, m # k, listeners'[m] # None
                   PROVE  listeners'[m] # listeners'[k]
      BY Zenon
    <3>2. CASE m = n \/ k = n
      BY <1>5, <1>6, <3>1, <3>2, Zenon
    <3>3. CASE m # n /\ k # n
      <4>1. listeners'[m] = listeners[m] /\ listeners'[k] = listeners[k]
        BY <1>6, <3>3, Zenon
      <4>2. QED BY <1>2, <3>1, <4>1 DEF WorkerOK
    <3>4. QED BY <3>2, <3>3, Zenon
  <2>3. QED BY <1>8, <2>1, <2>2, Zenon DEF WorkerOK
<1>12. QED BY <1>1, <1>9, <1>10, <1>11, Zenon DEF HostOK

\* A step of no call leaves every name as it is.
LEMMA HostSame ==
  ASSUME IInv, NEW w \in Threads, HostOK(w), UNCHANGED <<th, listeners, rules, record>>,
         \A q \in Handles : hd'[q].srv = hd[q].srv /\ hd'[q].cfg = hd[q].cfg,
         \A q \in Servers : sv'[q].nat = sv[q].nat
  PROVE  HostOK(w)'
<1>1. /\ listeners \in [Names -> Handles \cup {None}] /\ WorkerOK(w)
      /\ th[w].pc = "applyDisabled" => th[w].r \in Handles
      /\ th[w].pc = "hostApply" => th[w].s \in Servers
  BY StepFacts, Zenon DEF HostOK, IInv, LocksOK, HandlePcs, Own
<1>2. WorkerOK(w)'
  <2>1. (\A u \in Threads : u # w => th[u] = Idle)'
    BY <1>1, Zenon DEF WorkerOK, Idle
  <2>2. th'[w].pc = "applyDisabled" => hd'[th'[w].r].srv = None
    BY <1>1, Zenon DEF WorkerOK
  <2>3. th'[w].pc = "hostApply" => ~sv'[th'[w].s].nat /\ record'[th'[w].n] = None
    BY <1>1, Zenon DEF WorkerOK
  <2>4. QED BY <1>1, <2>1, <2>2, <2>3, Zenon DEF WorkerOK
<1>3. ASSUME NEW n \in Names PROVE NameOK(w, n)'
  <2>1. NameOK(w, n)
    BY Zenon DEF HostOK
  <2>2. CASE Off(th[w], n)
    <3>1. Off(th[w], n)'
      BY <2>2, Zenon DEF Off, Builder
    <3>2. listeners[n] # None => /\ hd'[listeners[n]].srv = hd[listeners[n]].srv
                                 /\ hd'[listeners[n]].cfg = hd[listeners[n]].cfg
      BY <1>1, Zenon
    <3>3. QED BY <2>1, <2>2, <3>1, <3>2, OffName, Zenon
  <2>3. CASE ~Off(th[w], n)
    <3>1. /\ th'[w] = th[w] /\ listeners'[n] = listeners[n]
          /\ (Builder(th[w]) \/ th[w].pc \in HandlePcs) /\ th[w].n = n
      BY <2>3, Zenon DEF Off, HandlePcs, CallPcs, Own
    <3>2. th[w].r \in Handles /\ th[w].r # None
      <4>1. th[w].pc \in HandlePcs
        <5>1. Builder(th[w]) => th[w].pc \in HandlePcs
          <6>1. th[w].pc \in Top => th[w].ret = "idle"
            BY Zenon DEF IInv, LocksOK, ThreadOK
          <6>2. th[w].pc \in Top \cup CallPcs
            BY Zenon DEF IInv, LocksOK, ThreadOK
          <6>3. QED BY <6>1, <6>2, Zenon DEF Builder, HandlePcs
        <5>2. QED BY <3>1, <5>1, Zenon
      <4>2. QED BY <4>1, StepFacts, NoneAssumption, Zenon
    <3>3. (Builder(th[w]))' = Builder(th[w]) /\ Slot(w, n)' = Slot(w, n) /\ Holding(w, n)' = Holding(w, n)
      BY <3>1, Zenon DEF Slot, Holding, Builder
    <3>4. Slot(w, n) \in Handles \cup {None}
      BY <1>1, <3>2, Zenon DEF Slot
    <3>5. Current(w, n)' = Current(w, n)
      BY <3>1, <3>3, <3>4, Zenon DEF Current
    <3>6. RulesOf(Current(w, n))' = RulesOf(Current(w, n))
      BY <3>5, Zenon DEF RulesOf
    <3>7. Current(w, n) # None => Asks(w, n)' = Asks(w, n)
      BY <3>1, <3>3, <3>4, Zenon DEF Asks, Current
    <3>8. CASE th[w].pc = "stopForget"
      BY <2>1, <3>1, <3>8, Zenon DEF NameOK
    <3>9. CASE th[w].pc # "stopForget"
      <4>1. /\ rules[n] = RulesOf(Current(w, n)) /\ record[n] \in {None, Current(w, n)}
            /\ rules[n] # {} \/ record[n] # None => Asks(w, n)
        BY <2>1, <3>9, Zenon DEF NameOK
      <4>2. Current(w, n) = None => rules[n] = {} /\ record[n] = None
        BY <2>1, <3>9, NoServer, Zenon
      <4>3. rules'[n] # {} \/ record'[n] # None => Asks(w, n)'
        BY <3>7, <4>1, <4>2, Zenon
      <4>4. QED BY <3>1, <3>5, <3>6, <3>9, <4>1, <4>3, Zenon DEF NameOK
    <3>10. QED BY <3>8, <3>9, Zenon
  <2>4. QED BY <2>2, <2>3, Zenon
<1>4. QED BY <1>2, <1>3, Zenon DEF HostOK

LEMMA HostInit ==
  ASSUME Init, NEW w \in Threads
  PROVE  HostOK(w)
<1>1. th[w].pc = "idle" /\ th[w].ret = "idle" /\ \A u \in Threads : th[u] = Idle
  BY IdleFacts, Zenon DEF Init
<1>2. /\ ~Builder(th[w]) /\ ~Rebuilder(th[w]) /\ th[w].pc \notin CallPcs
      /\ th[w].pc \notin Own \cup {"stopClose", "stopHost", "stopForget", "hostApply", "persist", "applyDisabled"}
  BY <1>1, Zenon DEF Builder, Rebuilder, CallPcs, Own
<1>3. \A n \in Names : listeners[n] = None /\ rules[n] = {} /\ record[n] = None
  BY Zenon DEF Init
<1>4. ASSUME NEW n \in Names PROVE NameOK(w, n)
  <2>1. Current(w, n) = None
    BY <1>2, <1>3, Zenon DEF Current, Holding, Slot
  <2>2. RulesOf(Current(w, n)) = {}
    BY <2>1, NoneAssumption, Zenon DEF RulesOf
  <2>3. QED BY <1>2, <1>3, <2>1, <2>2, Zenon DEF NameOK
<1>5. WorkerOK(w)
  BY <1>1, <1>2, <1>3, Zenon DEF WorkerOK
<1>6. DOMAIN rules = Names /\ DOMAIN record = Names
  BY Zenon DEF Init
<1>7. QED BY <1>4, <1>5, <1>6, Zenon DEF HostOK

\* The other threads call no method of the Manager.
OneCaller(w) == \A u \in Threads : u # w => Ops[u] = {}

LEMMA HostStep ==
  ASSUME NEW w \in Threads, OneCaller(w), IInv, Fleet, HostOK(w), [Next]_vars
  PROVE  HostOK(w)'
<1>1. ASSUME NEW u \in Threads, Call(u) \/ LockStep(u) \/ WorkStep(u) PROVE u = w
  <2> SUFFICES ASSUME u # w PROVE FALSE
    OBVIOUS
  <2>1. th[u].pc = "idle" /\ Ops[u] = {}
    BY IdleFacts, Zenon DEF HostOK, WorkerOK, OneCaller
  <2>2. ~Call(u)
    BY <2>1, Zenon DEF Call, ApplyLoad, Close, Rebuild, Stop
  <2>3. ~LockStep(u)
    BY <2>1, Zenon DEF LockStep, StopLock, RebuildLock, RebuildCheck, ApplyLock, At
  <2>4. ~WorkStep(u)
    BY <2>1, ZenonT(40) DEF WorkStep, RebuildStop, StopClosed, StopAbandon, StopHost, StopForget, StartDisabled,
       StartBuilding, Construct, ConstructFails, HostApply, HostApplyFails, CloseFailed, Persist, Publish,
       ApplyStop, ApplyRebuild, ApplyKeep, ApplyBuild, ApplyRemoved, ApplyDisabled, ApplyBuilt, ApplyDone,
       StopDelete, CloseDelete, CloseDone, CloseStop, At
  <2>5. QED BY <1>1, <2>2, <2>3, <2>4, Zenon
<1>2. CASE Call(w)
  BY <1>2, HostScan, Zenon DEF Call
<1>3. CASE LockStep(w)
  BY <1>3, HostScan, HostCapture, HostRebuildLock, Zenon DEF LockStep
<1>4. CASE WorkStep(w)
  <2>1. CASE RebuildStop(w) \/ StopClosed(w) \/ StopAbandon(w) \/ StopHost(w) \/ StopForget(w)
    BY <2>1, HostCapture, HostStopClose, HostStopHost, Zenon
  <2>2. CASE StartDisabled(w) \/ StartBuilding(w) \/ ConstructFails(w) \/ HostApplyFails(w) \/ CloseFailed(w)
    BY <2>2, HostStartEnds, HostStartBuilding, Zenon
  <2>3. CASE Construct(w) \/ HostApply(w) \/ Persist(w) \/ Publish(w)
    BY <2>3, HostConstruct, HostHostApply, HostPersist, HostPublish, Zenon
  <2>4. CASE \/ \E n \in Names : ApplyStop(w, n) \/ ApplyRebuild(w, n) \/ ApplyKeep(w, n)
             \/ \E n \in Names : CloseStop(w, n)
             \/ ApplyDone(w) \/ CloseDone(w)
    BY <2>4, HostScan, Zenon
  <2>5. CASE \E n \in Names, r \in Handles : ApplyBuild(w, n, r)
    BY <2>5, HostBuild, Zenon
  <2>6. CASE ApplyRemoved(w) \/ ApplyDisabled(w) \/ ApplyBuilt(w) \/ StopDelete(w) \/ CloseDelete(w)
    BY <2>6, HostLetsGo, HostBuilt, Zenon
  <2>7. QED BY <1>4, <2>1, <2>2, <2>3, <2>4, <2>5, <2>6, Zenon DEF WorkStep
<1>5. ASSUME NEW s \in Servers, ServeReturns(s) \/ CloseReturns(s) \/ Reap(s) PROVE HostOK(w)'
  <2> USE StepFacts
  <2>1. UNCHANGED <<th, listeners, rules, record>>
    BY <1>5, Zenon DEF ServeReturns, CloseReturns, Reap, host
  <2>2. \A q \in Servers : sv'[q].nat = sv[q].nat
    <3>1. DOMAIN sv = Servers /\ \A q \in Servers : DOMAIN sv[q] = SvFields
      OBVIOUS
    <3>2. CASE ServeReturns(s)
      BY <3>1, <3>2, ZenonT(40) DEF ServeReturns, SvFields
    <3>3. CASE CloseReturns(s)
      BY <3>1, <3>3, ZenonT(40) DEF CloseReturns, SvFields
    <3>4. CASE Reap(s)
      BY <3>1, <3>4, ZenonT(40) DEF Reap, SvFields
    <3>5. QED BY <1>5, <3>2, <3>3, <3>4, Zenon
  <2>3. \A q \in Handles : hd'[q].srv = hd[q].srv /\ hd'[q].cfg = hd[q].cfg
    <3>1. CASE hd' = hd
      BY <3>1, Zenon
    <3>2. CASE hd' # hd
      <4>1. PICK e \in BOOLEAN, x \in {"error", "stopped"} :
              hd' = [hd EXCEPT ![sv[s].owner] = [hd[sv[s].owner] EXCEPT !.err = e, !.state = x]]
        BY <1>5, <3>2 DEF ServeReturns, CloseReturns, Reap
      <4>2. QED BY <4>1, Zenon DEF HdFields
    <3>3. QED BY <3>1, <3>2, Zenon
  <2>4. QED BY <2>1, <2>2, <2>3, HostSame, Zenon
<1>6. ASSUME NEW n \in Names, NEW c \in Configs \cup {None}, Edit(n, c) PROVE HostOK(w)'
  BY <1>6, HostSame, Zenon DEF Edit, host
<1>7. CASE UNCHANGED vars
  BY <1>7, HostSame, Zenon DEF vars
<1>8. QED BY <1>1, <1>2, <1>3, <1>4, <1>5, <1>6, <1>7, Zenon DEF Next

LEMMA RulesNow ==
  ASSUME IInv, NEW w \in Threads, HostOK(w)
  PROVE  RulesFollowServers
<1> SUFFICES ASSUME Quiet, NEW n \in Names
             PROVE  rules[n] = {s \in Servers : n \in Tracked /\ hd[listeners[n]].srv = s /\ sv[s].nat}
  BY Zenon DEF RulesFollowServers
<1>1. th[w].pc = "idle" /\ th[w].ret = "idle" /\ DOMAIN th = Threads
  BY StepFacts, Zenon DEF Quiet, IInv, LocksOK, ThreadOK, Top, Rets
<1>2. ~Builder(th[w]) /\ th[w].pc \notin Own \cup {"stopClose", "stopHost", "stopForget"}
  BY <1>1, Zenon DEF Builder, Own
<1>3. Current(w, n) = IF listeners[n] = None THEN None ELSE hd[listeners[n]].srv
  BY <1>2, Zenon DEF Current, Holding, Slot
<1>4. rules[n] = RulesOf(Current(w, n))
  BY <1>2, Zenon DEF HostOK, NameOK
<1>5. n \in Tracked <=> listeners[n] # None
  BY Zenon DEF Tracked
<1>6. CASE listeners[n] = None
  <2>1. RulesOf(Current(w, n)) = {}
    BY <1>3, <1>6, NoneAssumption, Zenon DEF RulesOf
  <2>2. QED BY <1>4, <1>5, <1>6, <2>1, Zenon
<1>7. CASE listeners[n] # None
  <2>1. RulesOf(Current(w, n)) = {s \in Servers : n \in Tracked /\ hd[listeners[n]].srv = s /\ sv[s].nat}
    BY <1>3, <1>5, <1>7, Zenon DEF RulesOf
  <2>2. QED BY <1>4, <2>1, Zenon
<1>8. QED BY <1>6, <1>7, Zenon

-----------------------------------------------------------------------------
(* Theorems *)

\* The library on finite sets is used here only.
INSTANCE FiniteSetTheorems

LEMMA ServersCount ==
  ASSUME IsFiniteSet(Servers)
  PROVE  Counted
<1>1. ASSUME NEW R \in SUBSET Servers PROVE IsFiniteSet(R)
  BY FS_Subset, Zenon
<1>2. \A R \in SUBSET Servers : \A s \in Servers \ R : Cardinality(R \cup {s}) = Cardinality(R) + 1
  BY <1>1, FS_AddElement, Zenon
<1>3. \A R \in SUBSET Servers : \A s \in R : Cardinality(R \ {s}) = Cardinality(R) - 1
  BY <1>1, FS_RemoveElement, Zenon
<1>4. Cardinality({}) = 0
  BY FS_EmptySet, Zenon
<1>5. QED BY <1>2, <1>3, <1>4, Zenon DEF Counted

\* The inductive invariant holds throughout.
THEOREM FleetInvariant ==
  ASSUME IsFiniteSet(Servers)
  PROVE  Spec => []IInv
<1>1. Counted
  BY ServersCount, Zenon
<1>2. Init => IInv
  BY <1>1, InitOK, Zenon
<1>3. IInv /\ [Next]_vars => IInv'
  BY <1>1, StepOK, Zenon
<1>4. QED BY <1>2, <1>3, PTL DEF Spec

\* Peers and statusOf, which call a handle's server under r.mu, never reach one whose
\* Close has begun, for any number of listeners, callers and servers.
THEOREM NeverUsedAfterClose ==
  ASSUME IsFiniteSet(Servers)
  PROVE  Spec => []NoUseAfterClose
<1>1. IInv => NoUseAfterClose
  BY Zenon DEF IInv, ServersOK, ServersTyped, NoUseAfterClose, HandlesApart, BuildersOwn, UnaskedAwake, WaitersApart
<1>2. QED BY <1>1, FleetInvariant, PTL

\* The Manager's types, for every fleet: in whatever order callers, teardowns and serve
\* goroutines take their steps, a handle always carries a config Apply can compare (also
\* the one Apply shows as disabled), and the map names handles only.
THEOREM AlwaysTyped ==
  ASSUME IsFiniteSet(Servers)
  PROVE  Spec => []TypeOK
<1>1. Spec => []IInv
  BY FleetInvariant, Zenon
<1>2. Typed => TypeOK
  BY Zenon DEF Typed
<1>3. QED BY <1>1, <1>2, InitTyped, StepTyped, PTL DEF Spec

\* Whatever the calls of Rebuild, Stop, Apply and Close do to each other, Status and All
\* show a listener's current generation: running only while it serves, never stopped or
\* failed while it does, building only while someone builds, and the abandoned gauge exact.
THEOREM StatusAlwaysHonest ==
  ASSUME IsFiniteSet(Servers)
  PROVE  Spec => []StatusHonest
<1>1. Spec => []IInv
  BY FleetInvariant, Zenon
<1>2. QED BY <1>1, FleetInit, FleetStep, HonestNow, PTL DEF Spec

\* No race of Rebuild with Stop, Close or Apply leaves a server running that no tracked
\* listener names, and nothing is tracked once Close has returned.
THEOREM FleetAlwaysOwned ==
  ASSUME IsFiniteSet(Servers)
  PROVE  Spec => []FleetOwned
<1>1. Spec => []IInv
  BY FleetInvariant, Zenon
<1>2. QED BY <1>1, FleetInit, FleetStep, OwnedNow, PTL DEF Spec

\* stopListenerLocked, persistHostnetState and start: when one goroutine makes all the calls,
\* the rules on the host are, whenever it is between two of them, exactly those of the
\* tracked servers, whatever failed and whether or not a state file could be written.
THEOREM RulesAlwaysFollow ==
  ASSUME IsFiniteSet(Servers), NEW w \in Threads, OneCaller(w)
  PROVE  Spec => []RulesFollowServers
<1>1. Spec => []IInv
  BY FleetInvariant, Zenon
<1>2. Init => HostOK(w)
  BY HostInit, Zenon
<1>3. IInv /\ Fleet /\ HostOK(w) /\ [Next]_vars => HostOK(w)'
  BY HostStep, Zenon
<1>4. IInv /\ HostOK(w) => RulesFollowServers
  BY RulesNow, Zenon
<1>5. QED BY <1>1, <1>2, <1>3, <1>4, FleetInit, FleetStep, PTL DEF Spec
=============================================================================
