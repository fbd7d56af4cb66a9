-------------------------- MODULE SupervisorProofs --------------------------
(***************************************************************************)
(* For every number of listeners, callers, handles and servers: the        *)
(* invariant by which the Manager never uses a server it has begun to      *)
(* close, counts the Close calls that overran exactly, and tracks nothing  *)
(* once Close has returned; and its types. The theorems that follow from   *)
(* it are at the end of SupervisorFleet.                                   *)
(***************************************************************************)
EXTENDS Supervisor, TLAPS

\* The fields of a thread's locals, of a handle and of a server.
ThFields == {"pc", "ret", "rb", "n", "r", "cfg", "s", "nat", "snap", "todo"}
HdFields == {"cfg", "srv", "done", "state", "err", "buildMu"}
SvFields == {"serve", "close", "owner", "reap", "nat"}

\* Where a call is: at the top level of a method, in the part of start in which it owns
\* a server, where it works on a handle.
Rets == {"idle", "rebuildCheck", "applyRemoved", "applyDisabled", "applyScan", "applyBuilt",
         "stopDelete", "closeDelete"}
Own == {"hostApply", "persist", "publish"}
CallPcs == Own \cup {"stopLock", "rebuildLock", "rebuildStop", "stopClose", "stopHost", "stopForget",
                     "start", "construct", "closeFailed"}
HandlePcs == CallPcs \cup {"rebuildCheck", "applyBuilt", "applyDisabled"}
MuRets == Rets \ {"idle", "rebuildCheck"}
MuPcs == MuRets \cup {"closeScan"}
Top == Rets \cup {"applyLock", "closeScan"}

\* A thread with the locals x is inside Manager.mu, is about to delete its listener, is in
\* Close; the listeners it has yet to visit or delete.
HoldsMu(x) == x.pc \in MuPcs \/ x.ret \in MuRets
Deleting(x) == LET at == {"applyRemoved", "stopDelete", "closeDelete"} IN x.pc \in at \/ x.ret \in at
Closing(x) == x.pc \in {"closeScan", "closeDelete"} \/ x.ret = "closeDelete"
Pending(x) == x.todo \cup {n \in Names : Deleting(x) /\ x.n = n}

\* What the locals x of thread t have to do with mu, closed and listeners: exactly the
\* holder of Manager.mu is in a section of it, what it has yet to visit is tracked, and
\* after the latch it is a Close that has everything tracked before it.
ThreadOK(x, t) ==
  /\ DOMAIN x = ThFields
  /\ x.pc \in Top \cup CallPcs /\ x.ret \in Rets
  /\ x.pc \in Top => x.ret = "idle"
  /\ x.pc \in HandlePcs => x.r \in Handles
  /\ x.pc \in {"idle", "applyLock"} => x.todo = {}
  /\ HoldsMu(x) <=> mu = t
  /\ HoldsMu(x) => x.todo \subseteq Tracked /\ (Deleting(x) => x.n \notin x.todo)
  /\ HoldsMu(x) /\ closed => Closing(x) /\ Tracked \subseteq Pending(x)

LocksOK ==
  /\ DOMAIN th = Threads
  /\ \A t \in Threads : ThreadOK(th[t], t)
  /\ listeners \in [Names -> Handles \cup {None}]
  /\ ClosedIsEmpty

\* Who names a server: a server has one owner, a handle or a call that is building it,
\* and a call that waits for a Close waits for one nobody else waits for.
ServersTyped ==
  /\ DOMAIN hd = Handles /\ \A r \in Handles : DOMAIN hd[r] = HdFields /\ hd[r].srv \in Servers \cup {None}
  /\ DOMAIN sv = Servers /\ \A s \in Servers : DOMAIN sv[s] = SvFields /\ sv[s].reap \in BOOLEAN
HandlesApart == \A r, q \in Handles : r # q /\ hd[r].srv # None => hd[r].srv # hd[q].srv
BuildersOwn ==
  \A t \in Threads : th[t].pc \in Own =>
     /\ th[t].s \in Servers /\ sv[th[t].s].close = "no"
     /\ \A r \in Handles : hd[r].srv # th[t].s
     /\ \A u \in Threads : u # t /\ th[u].pc \in Own => th[u].s # th[t].s
UnaskedAwake == \A s \in Servers : sv[s].close = "no" => ~sv[s].reap
WaitersApart ==
  \A t \in Threads : th[t].pc = "stopClose" =>
     /\ th[t].s \in Servers /\ sv[th[t].s].close # "no" /\ ~sv[th[t].s].reap
     /\ \A u \in Threads : u # t /\ th[u].pc = "stopClose" => th[u].s # th[t].s

ServersOK ==
  ServersTyped /\ NoUseAfterClose /\ HandlesApart /\ BuildersOwn /\ UnaskedAwake /\ WaitersApart

IInv == LocksOK /\ ServersOK /\ GaugeExact

\* What the gauge needs of Servers: a set of them has one more with one more. Finite sets do.
Counted ==
  /\ Cardinality({}) = 0
  /\ \A R \in SUBSET Servers : \A s \in Servers \ R : Cardinality(R \cup {s}) = Cardinality(R) + 1
  /\ \A R \in SUBSET Servers : \A s \in R : Cardinality(R \ {s}) = Cardinality(R) - 1

-----------------------------------------------------------------------------
(* Lemmas about threads *)

LEMMA IdleFacts ==
  /\ DOMAIN Idle = ThFields /\ Idle.pc = "idle" /\ Idle.ret = "idle" /\ Idle.todo = {} /\ Idle.s = None
BY Zenon DEF Idle, ThFields

\* A call returns to its caller's next step and forgets its server.
LEMMA ReturnedFacts ==
  ASSUME NEW t \in Threads, LocksOK
  PROVE  LET x == Returned(t)
         IN /\ DOMAIN x = ThFields /\ x.pc = th[t].ret /\ x.ret = "idle" /\ x.s = None
            /\ th[t].ret # "idle" => x.todo = th[t].todo
            /\ th[t].ret = "idle" => x.todo = {}
            /\ th[t].ret \notin {"idle", "applyScan"} => x.n = th[t].n /\ x.r = th[t].r
<1> DEFINE back == [th[t] EXCEPT !.pc = th[t].ret, !.ret = "idle", !.rb = FALSE,
                                 !.cfg = ZeroConfig, !.s = None, !.nat = FALSE]
<1>0. DOMAIN th[t] = ThFields
  BY Zenon DEF LocksOK, ThreadOK
<1>1. /\ DOMAIN back = ThFields /\ back.pc = th[t].ret /\ back.ret = "idle" /\ back.s = None
      /\ back.todo = th[t].todo /\ back.n = th[t].n /\ back.r = th[t].r
  BY <1>0, Zenon DEF ThFields
<1>2. CASE th[t].ret = "idle"
  BY <1>2, IdleFacts, Zenon DEF Returned
<1>3. CASE th[t].ret = "applyScan"
  <2>1. Returned(t) = [back EXCEPT !.n = None, !.r = None]
    BY <1>3, Zenon DEF Returned
  <2> HIDE DEF back
  <2>2. QED BY <1>1, <1>3, <2>1, Zenon DEF ThFields
<1>4. CASE th[t].ret \notin {"idle", "applyScan"}
  <2>1. Returned(t) = back
    BY <1>4, Zenon DEF Returned
  <2> HIDE DEF back
  <2>2. QED BY <1>1, <1>4, <2>1, Zenon
<1>5. QED BY <1>2, <1>3, <1>4, Zenon

\* A step of t inside Manager.mu, or one that takes or releases it, does not concern
\* the threads outside; a step that touches neither lock nor map concerns only t.
LEMMA OtherThreads ==
  ASSUME LocksOK, NEW t \in Threads, NEW u \in Threads, u # t, th'[u] = th[u],
         \/ UNCHANGED <<mu, closed, listeners>>
         \/ mu \in {t, None} /\ mu' \in {t, None}
  PROVE  ThreadOK(th[u], u)'
<1>1. u # None
  BY NoneAssumption, Zenon
<1>2. ThreadOK(th[u], u)
  BY Zenon DEF LocksOK
<1>3. CASE UNCHANGED <<mu, closed, listeners>>
  BY <1>2, <1>3, Zenon DEF ThreadOK, HoldsMu, Deleting, Closing, Pending, Tracked
<1>4. CASE mu \in {t, None} /\ mu' \in {t, None}
  <2>1. mu # u /\ mu' # u
    BY <1>1, <1>4, Zenon
  <2>2. ~HoldsMu(th[u])
    BY <1>2, <2>1, Zenon DEF ThreadOK
  <2>3. ~HoldsMu(th'[u])
    BY <2>2, Zenon
  <2>4. QED BY <1>2, <2>1, <2>3, Zenon DEF ThreadOK
<1>5. QED BY <1>3, <1>4, Zenon

LEMMA LocalStep ==
  ASSUME LocksOK, NEW t \in Threads, UNCHANGED <<mu, closed, listeners>>, DOMAIN th' = Threads,
         \A u \in Threads : u # t => th'[u] = th[u],
         ThreadOK(th'[t], t)
  PROVE  LocksOK'
<1>1. ThreadOK(th[t], t)'
  BY Zenon DEF ThreadOK, HoldsMu, Deleting, Closing, Pending, Tracked
<1>2. \A u \in Threads : ThreadOK(th[u], u)'
  BY <1>1, OtherThreads, Zenon
<1>3. QED BY <1>2, Zenon DEF LocksOK, ClosedIsEmpty, Tracked

LEMMA LockStepOK ==
  ASSUME LocksOK, NEW t \in Threads, mu \in {t, None}, mu' \in {t, None}, DOMAIN th' = Threads,
         \A u \in Threads : u # t => th'[u] = th[u],
         ThreadOK(th[t], t)', listeners' \in [Names -> Handles \cup {None}], ClosedIsEmpty'
  PROVE  LocksOK'
<1>1. \A u \in Threads : ThreadOK(th[u], u)'
  BY OtherThreads, Zenon
<1>2. QED BY <1>1, Zenon DEF LocksOK

-----------------------------------------------------------------------------
(* Lemmas about servers *)

\* What most steps do to handles and to servers: a handle keeps its server or drops it,
\* no Close begins or ends and the gauge stays.
HandlesQuiet ==
  /\ DOMAIN hd' = Handles
  /\ \A r \in Handles : DOMAIN hd'[r] = HdFields /\ hd'[r].srv \in {hd[r].srv, None}

ServersQuiet ==
  /\ DOMAIN sv' = Servers
  /\ \A s \in Servers : DOMAIN sv'[s] = SvFields /\ sv'[s].close = sv[s].close /\ sv'[s].reap = sv[s].reap
  /\ gauge' = gauge

\* After the step thread u neither owns nor waits for a server that it did not before.
Quieter(u) ==
  /\ th'[u].pc \in Own => th[u].pc \in Own /\ th'[u].s = th[u].s
  /\ th'[u].pc = "stopClose" => th[u].pc = "stopClose" /\ th'[u].s = th[u].s

LEMMA QuietStep ==
  ASSUME ServersOK, GaugeExact, HandlesQuiet, ServersQuiet, \A u \in Threads : Quieter(u)
  PROVE  ServersOK' /\ GaugeExact'
<1> USE DEF HandlesQuiet, ServersQuiet, Quieter
<1>1. GaugeExact'
  BY Zenon DEF GaugeExact
<1>2. \A r \in Handles : hd'[r].srv \in Servers \cup {None} /\ (hd'[r].srv # None => hd'[r].srv = hd[r].srv)
  BY Zenon DEF ServersOK, ServersTyped, NoUseAfterClose, HandlesApart, BuildersOwn, UnaskedAwake, WaitersApart
<1>3. \A r \in Handles : hd'[r].srv # None => sv'[hd'[r].srv].close = "no"
  BY <1>2 DEF ServersOK, ServersTyped, NoUseAfterClose, HandlesApart, BuildersOwn, UnaskedAwake, WaitersApart
<1>4. \A r, q \in Handles : r # q /\ hd'[r].srv # None => hd'[r].srv # hd'[q].srv
  BY <1>2 DEF ServersOK, ServersTyped, NoUseAfterClose, HandlesApart, BuildersOwn, UnaskedAwake, WaitersApart
<1>5. \A t \in Threads : th'[t].pc \in Own =>
        /\ th'[t].s \in Servers /\ sv'[th'[t].s].close = "no"
        /\ \A r \in Handles : hd'[r].srv # th'[t].s
        /\ \A u \in Threads : u # t /\ th'[u].pc \in Own => th'[u].s # th'[t].s
  BY <1>2, NoneAssumption DEF ServersOK, ServersTyped, BuildersOwn, NoUseAfterClose
<1>6. \A t \in Threads : th'[t].pc = "stopClose" =>
        /\ th'[t].s \in Servers /\ sv'[th'[t].s].close # "no" /\ ~sv'[th'[t].s].reap
        /\ \A u \in Threads : u # t /\ th'[u].pc = "stopClose" => th'[u].s # th'[t].s
  BY DEF ServersOK, ServersTyped, WaitersApart
<1>7. \A s \in Servers : sv'[s].reap \in BOOLEAN /\ (sv'[s].close = "no" => ~sv'[s].reap)
  BY Zenon DEF ServersOK, ServersTyped, UnaskedAwake
<1>8. QED BY <1>1, <1>2, <1>3, <1>4, <1>5, <1>6, <1>7, Zenon DEF ServersOK,
    ServersTyped, NoUseAfterClose, HandlesApart, BuildersOwn, UnaskedAwake, WaitersApart

LEMMA HandlesSame == ASSUME ServersOK, hd' = hd PROVE HandlesQuiet
BY Zenon DEF HandlesQuiet, ServersOK,
    ServersTyped, NoUseAfterClose, HandlesApart, BuildersOwn, UnaskedAwake, WaitersApart

LEMMA ServersSame == ASSUME ServersOK, sv' = sv, gauge' = gauge PROVE ServersQuiet
BY Zenon DEF ServersQuiet, ServersOK,
    ServersTyped, NoUseAfterClose, HandlesApart, BuildersOwn, UnaskedAwake, WaitersApart

\* The two kinds of step of one thread that leave the servers alone.
LEMMA QuietLocal ==
  ASSUME IInv, NEW t \in Threads, UNCHANGED <<mu, closed, listeners>>, DOMAIN th' = Threads,
         \A u \in Threads : u # t => th'[u] = th[u],
         ThreadOK(th'[t], t), Quieter(t), HandlesQuiet, ServersQuiet
  PROVE  IInv'
<1>1. \A u \in Threads : Quieter(u)
  BY Zenon DEF Quieter
<1>2. LocksOK'
  BY LocalStep, Zenon DEF IInv
<1>3. QED BY <1>1, <1>2, QuietStep, Zenon DEF IInv

LEMMA QuietLock ==
  ASSUME IInv, NEW t \in Threads, mu \in {t, None}, mu' \in {t, None}, DOMAIN th' = Threads,
         \A u \in Threads : u # t => th'[u] = th[u],
         ThreadOK(th[t], t)', listeners' \in [Names -> Handles \cup {None}], ClosedIsEmpty',
         th'[t].pc \notin Own \cup {"stopClose"}, UNCHANGED <<hd, sv, gauge>>
  PROVE  IInv'
<1>1. \A u \in Threads : Quieter(u)
  BY Zenon DEF Quieter
<1>2. LocksOK'
  BY LockStepOK, Zenon DEF IInv
<1>3. QED BY <1>1, <1>2, QuietStep, HandlesSame, ServersSame, Zenon DEF IInv

\* A call goes on: the same call, in the same section of Manager.mu or outside it.
LEMMA CallGoesOn ==
  ASSUME LocksOK, NEW t \in Threads, th[t].pc \in CallPcs,
         DOMAIN th'[t] = ThFields, th'[t].pc \in CallPcs, th'[t].ret = th[t].ret,
         th'[t].r = th[t].r, th'[t].n = th[t].n, th'[t].todo = th[t].todo
  PROVE  ThreadOK(th'[t], t)
<1>1. ThreadOK(th[t], t)
  BY Zenon DEF LocksOK
<1>2. HoldsMu(th'[t]) = HoldsMu(th[t]) /\ Deleting(th'[t]) = Deleting(th[t]) /\ Closing(th'[t]) = Closing(th[t])
  BY Zenon DEF HoldsMu, Deleting, Closing, CallPcs, MuPcs, MuRets, Rets, Own
<1>3. Pending(th'[t]) = Pending(th[t])
  BY <1>2, Zenon DEF Pending
<1>4. th'[t].r \in Handles /\ th'[t].pc \notin Top \cup {"idle", "applyLock"}
  BY <1>1, Zenon DEF ThreadOK, HandlePcs, CallPcs, Own, Top, Rets
<1>5. QED BY <1>1, <1>2, <1>3, <1>4, Zenon DEF ThreadOK

\* A call returns: its caller goes on in the same section.
LEMMA CallReturns ==
  ASSUME LocksOK, NEW t \in Threads, th[t].pc \in CallPcs, th'[t] = Returned(t)
  PROVE  ThreadOK(th'[t], t) /\ Quieter(t)
<1>1. ThreadOK(th[t], t)
  BY Zenon DEF LocksOK
<1>2. /\ DOMAIN th'[t] = ThFields /\ th'[t].pc = th[t].ret /\ th'[t].ret = "idle"
      /\ th[t].ret # "idle" => th'[t].todo = th[t].todo
      /\ th[t].ret = "idle" => th'[t].todo = {}
      /\ th[t].ret \notin {"idle", "applyScan"} => th'[t].n = th[t].n /\ th'[t].r = th[t].r
  BY ReturnedFacts, Zenon
<1>3. th[t].ret \in Rets /\ th[t].r \in Handles
  BY <1>1, Zenon DEF ThreadOK, HandlePcs
<1>4. HoldsMu(th'[t]) = HoldsMu(th[t]) /\ Deleting(th'[t]) = Deleting(th[t]) /\ Closing(th'[t]) = Closing(th[t])
  BY <1>2, <1>3, Zenon DEF HoldsMu, Deleting, Closing, CallPcs, MuPcs, MuRets, Rets, Own
<1>5. HoldsMu(th[t]) => th'[t].todo = th[t].todo
  BY <1>2, Zenon DEF HoldsMu, CallPcs, MuPcs, MuRets, Rets, Own
<1>6. Deleting(th[t]) => th'[t].n = th[t].n
  BY <1>2, Zenon DEF Deleting, CallPcs, Own
<1>7. HoldsMu(th[t]) => Pending(th'[t]) = Pending(th[t])
  BY <1>4, <1>5, <1>6, Zenon DEF Pending
<1>8. Quieter(t)
  BY <1>2, <1>3, Zenon DEF Quieter, Rets, Own
<1>9. th'[t].pc \in HandlePcs => th'[t].r \in Handles
  BY <1>2, <1>3, Zenon DEF HandlePcs, CallPcs, Own, Rets
<1>10. th'[t].pc \in {"idle", "applyLock"} => th'[t].todo = {}
  BY <1>2, <1>3, Zenon DEF Rets
<1>11. th'[t].pc \in Top
  BY <1>2, <1>3, Zenon DEF Top
<1>12. "idle" \in Rets
  BY Zenon DEF Rets
<1>13. QED BY <1>1, <1>2, <1>4, <1>5, <1>6, <1>7, <1>8, <1>9, <1>10, <1>11, <1>12, Zenon DEF ThreadOK

-----------------------------------------------------------------------------
(* The steps of a call *)

\* What every step of a thread starts from.
LEMMA AtFacts ==
  ASSUME IInv, NEW t \in Threads
  PROVE  /\ ThreadOK(th[t], t) /\ DOMAIN th = Threads /\ DOMAIN th[t] = ThFields
         /\ DOMAIN hd = Handles /\ \A r \in Handles : DOMAIN hd[r] = HdFields
         /\ DOMAIN sv = Servers /\ \A s \in Servers : DOMAIN sv[s] = SvFields
BY Zenon DEF IInv, LocksOK, ServersOK, ServersTyped, ThreadOK

\* The end of a teardown: into start under the same buildMu, or back to the caller.
LEMMA StopReturnsOK ==
  ASSUME IInv, NEW t \in Threads, th[t].pc \in CallPcs, StopReturns(t),
         UNCHANGED <<mu, closed, listeners, sv, gauge>>
  PROVE  IInv'
<1>0. /\ ThreadOK(th[t], t) /\ DOMAIN th = Threads /\ DOMAIN th[t] = ThFields
      /\ DOMAIN hd = Handles /\ \A r \in Handles : DOMAIN hd[r] = HdFields
  BY AtFacts, Zenon
<1>s. ServersQuiet
  BY ServersSame, Zenon DEF IInv
<1>1. CASE th[t].rb
  <2>1. th' = [th EXCEPT ![t] = [th[t] EXCEPT !.pc = "start", !.s = None, !.nat = FALSE]] /\ hd' = hd
    BY <1>1, Zenon DEF StopReturns
  <2>2. /\ DOMAIN th'[t] = ThFields /\ th'[t].pc = "start" /\ th'[t].ret = th[t].ret
        /\ th'[t].r = th[t].r /\ th'[t].n = th[t].n /\ th'[t].todo = th[t].todo
    BY <1>0, <2>1, Zenon DEF ThFields
  <2>3. ThreadOK(th'[t], t) /\ Quieter(t)
    BY <2>2, CallGoesOn, Zenon DEF IInv, CallPcs, Quieter, Own
  <2>4. DOMAIN th' = Threads /\ \A u \in Threads : u # t => th'[u] = th[u]
    BY <1>0, <2>1, Zenon
  <2>5. QED BY <1>s, <2>1, <2>3, <2>4, HandlesSame, QuietLocal, Zenon DEF IInv
<1>2. CASE ~th[t].rb
  <2>1. th' = [th EXCEPT ![t] = Returned(t)] /\ hd' = [hd EXCEPT ![th[t].r].buildMu = None]
    BY <1>2, Zenon DEF StopReturns
  <2>2. th'[t] = Returned(t) /\ DOMAIN th' = Threads /\ \A u \in Threads : u # t => th'[u] = th[u]
    BY <1>0, <2>1, Zenon
  <2>3. ThreadOK(th'[t], t) /\ Quieter(t)
    BY <2>2, CallReturns, Zenon DEF IInv
  <2>4. HandlesQuiet
    BY <1>0, <2>1, Zenon DEF HandlesQuiet, HdFields
  <2>5. QED BY <1>s, <2>2, <2>3, <2>4, QuietLocal, Zenon
<1>3. QED BY <1>1, <1>2, Zenon

\* The end of start, with a handle that names no server.
LEMMA StartReturnsOK ==
  ASSUME IInv, NEW t \in Threads, th[t].pc \in CallPcs,
         \/ StartReturns(t, SetState(t, "error", TRUE))
         \/ StartReturns(t, SetState(t, "disabled", FALSE)),
         UNCHANGED <<mu, closed, listeners, sv, gauge>>
  PROVE  IInv'
<1>0. /\ ThreadOK(th[t], t) /\ DOMAIN th = Threads /\ DOMAIN th[t] = ThFields
      /\ DOMAIN hd = Handles /\ \A r \in Handles : DOMAIN hd[r] = HdFields
  BY AtFacts, Zenon
<1>p. PICK state \in {"error", "disabled"}, err \in BOOLEAN : StartReturns(t, SetState(t, state, err))
  BY Zenon
<1> DEFINE r == th[t].r
           fields == SetState(t, state, err)
<1>1. r \in Handles
  BY <1>0, Zenon DEF ThreadOK, HandlePcs
<1>2. DOMAIN fields = HdFields /\ fields.srv = None
  BY <1>0, <1>1, Zenon DEF SetState, HdFields
<1>3. /\ hd' = [hd EXCEPT ![r] = [fields EXCEPT !.buildMu = IF th[t].rb THEN None ELSE @]]
      /\ th' = [th EXCEPT ![t] = Returned(t)]
  BY <1>p, Zenon DEF StartReturns
<1> HIDE DEF fields
<1>4. HandlesQuiet
  <2>1. DOMAIN hd' = Handles /\ \A q \in Handles : q # r => hd'[q] = hd[q]
    BY <1>0, <1>3, Zenon
  <2>2. DOMAIN hd'[r] = HdFields /\ hd'[r].srv = None
    BY <1>0, <1>1, <1>2, <1>3, Zenon DEF HdFields
  <2>3. QED BY <1>0, <2>1, <2>2, Zenon DEF HandlesQuiet
<1>5. th'[t] = Returned(t) /\ DOMAIN th' = Threads /\ \A u \in Threads : u # t => th'[u] = th[u]
  BY <1>0, <1>3, Zenon
<1>6. ThreadOK(th'[t], t) /\ Quieter(t)
  BY <1>5, CallReturns, Zenon DEF IInv
<1>7. QED BY <1>4, <1>5, <1>6, QuietLocal, ServersSame, Zenon DEF IInv

\* A step of a call that changes its pc, and of the shared state at most what is quiet.
LEMMA PcStepOK ==
  ASSUME IInv, NEW t \in Threads, th[t].pc \in CallPcs, NEW next \in CallPcs \ {"stopClose"},
         th' = [th EXCEPT ![t].pc = next], next \in Own => th[t].pc \in Own,
         UNCHANGED <<mu, closed, listeners>>, HandlesQuiet, ServersQuiet
  PROVE  IInv'
<1>0. ThreadOK(th[t], t) /\ DOMAIN th = Threads /\ DOMAIN th[t] = ThFields
  BY AtFacts, Zenon
<1>1. /\ DOMAIN th'[t] = ThFields /\ th'[t].pc = next /\ th'[t].ret = th[t].ret /\ th'[t].s = th[t].s
      /\ th'[t].r = th[t].r /\ th'[t].n = th[t].n /\ th'[t].todo = th[t].todo
  BY <1>0, Zenon DEF ThFields
<1>2. ThreadOK(th'[t], t) /\ Quieter(t)
  BY <1>1, CallGoesOn, Zenon DEF IInv, Quieter
<1>3. DOMAIN th' = Threads /\ \A u \in Threads : u # t => th'[u] = th[u]
  BY <1>0, Zenon
<1>4. QED BY <1>2, <1>3, QuietLocal, Zenon

LEMMA QuietCallSteps ==
  ASSUME IInv, NEW t \in Threads,
         \/ StopClosed(t) \/ StopHost(t) \/ StopForget(t) \/ StartDisabled(t) \/ StartBuilding(t)
         \/ ConstructFails(t) \/ HostApply(t) \/ CloseFailed(t) \/ Persist(t) \/ RebuildLock(t)
  PROVE  IInv'
<1>0. /\ ThreadOK(th[t], t) /\ DOMAIN th = Threads /\ DOMAIN th[t] = ThFields
      /\ DOMAIN hd = Handles /\ \A r \in Handles : DOMAIN hd[r] = HdFields
      /\ DOMAIN sv = Servers /\ \A s \in Servers : DOMAIN sv[s] = SvFields
  BY AtFacts, Zenon
<1> USE DEF At
<1>1. CASE StopClosed(t)
  BY <1>1, PcStepOK, HandlesSame, ServersSame, Zenon DEF StopClosed, CallPcs, Own, IInv
<1>2. CASE StopHost(t)
  <2>1. CASE th[t].nat
    BY <1>2, <2>1, PcStepOK, HandlesSame, ServersSame, Zenon DEF StopHost, CallPcs, Own, IInv
  <2>2. CASE ~th[t].nat
    BY <1>2, <2>2, StopReturnsOK, Zenon DEF StopHost, CallPcs
  <2>3. QED BY <2>1, <2>2, Zenon
<1>3. CASE StopForget(t)
  BY <1>3, StopReturnsOK, Zenon DEF StopForget, CallPcs
<1>4. CASE StartDisabled(t)
  BY <1>4, StartReturnsOK, Zenon DEF StartDisabled, CallPcs
<1>5. CASE StartBuilding(t)
  <2>1. HandlesQuiet
    BY <1>0, <1>5, Zenon DEF StartBuilding, HandlesQuiet, HdFields
  <2>2. QED BY <1>5, <2>1, PcStepOK, ServersSame, Zenon DEF StartBuilding, CallPcs, Own, IInv
<1>6. CASE ConstructFails(t)
  BY <1>6, StartReturnsOK, Zenon DEF ConstructFails, CallPcs
<1>7. CASE HostApply(t)
  <2>1. PICK wan \in BOOLEAN : sv' = [sv EXCEPT ![th[t].s].nat = wan]
    BY <1>7, Zenon DEF HostApply
  <2>2. ServersQuiet
    BY <1>0, <1>7, <2>1, ZenonT(40) DEF HostApply, ServersQuiet, SvFields
  <2>3. QED BY <1>7, <2>2, PcStepOK, HandlesSame, Zenon DEF HostApply, CallPcs, Own, IInv
<1>8. CASE CloseFailed(t)
  BY <1>8, StartReturnsOK, Zenon DEF CloseFailed, CallPcs
<1>9. CASE Persist(t)
  BY <1>9, PcStepOK, HandlesSame, ServersSame, Zenon DEF Persist, CallPcs, Own, IInv
<1>10. CASE RebuildLock(t)
  <2>1. HandlesQuiet
    BY <1>0, <1>10, Zenon DEF RebuildLock, HandlesQuiet, HdFields
  <2>2. /\ DOMAIN th'[t] = ThFields /\ th'[t].pc = "rebuildStop" /\ th'[t].ret = th[t].ret
        /\ th'[t].r = th[t].r /\ th'[t].n = th[t].n /\ th'[t].todo = th[t].todo
    BY <1>0, <1>10, Zenon DEF RebuildLock, ThFields
  <2>3. ThreadOK(th'[t], t) /\ Quieter(t)
    BY <1>10, <2>2, CallGoesOn, Zenon DEF RebuildLock, CallPcs, Own, IInv, Quieter
  <2>4. DOMAIN th' = Threads /\ \A u \in Threads : u # t => th'[u] = th[u]
    BY <1>0, <1>10, Zenon DEF RebuildLock
  <2>5. QED BY <1>10, <2>1, <2>3, <2>4, QuietLocal, ServersSame, Zenon DEF RebuildLock, IInv
<1>11. QED BY <1>1, <1>2, <1>3, <1>4, <1>5, <1>6, <1>7, <1>8, <1>9, <1>10, Zenon

-----------------------------------------------------------------------------
(* The steps of the methods themselves *)

\* A step of t that changes only its own locals, whatever they become.
LEMMA OwnStep ==
  ASSUME IInv, NEW t \in Threads, DOMAIN th' = Threads, \A u \in Threads : u # t => th'[u] = th[u],
         ThreadOK(th'[t], t), th'[t].pc \notin Own \cup {"stopClose"}, HandlesQuiet,
         UNCHANGED <<mu, closed, listeners, sv, gauge>>
  PROVE  IInv'
<1>1. Quieter(t)
  BY Zenon DEF Quieter
<1>2. ServersQuiet
  BY ServersSame, Zenon DEF IInv
<1>3. QED BY <1>1, <1>2, QuietLocal, Zenon

LEMMA CallSteps ==
  ASSUME IInv, NEW t \in Threads,
         \/ ApplyLoad(t) \/ RebuildCheck(t) \/ ApplyDisabled(t) \/ \E n \in Names : Rebuild(t, n)
  PROVE  IInv'
<1>0. /\ ThreadOK(th[t], t) /\ DOMAIN th = Threads /\ DOMAIN th[t] = ThFields
      /\ DOMAIN hd = Handles /\ \A r \in Handles : DOMAIN hd[r] = HdFields
      /\ listeners \in [Names -> Handles \cup {None}]
  BY AtFacts, Zenon DEF IInv, LocksOK
<1>h. hd' = hd => HandlesQuiet
  BY HandlesSame, Zenon DEF IInv
<1>n. t # None
  BY NoneAssumption, Zenon
<1> USE DEF At
<1>1. CASE ApplyLoad(t)
  <2>1. /\ DOMAIN th'[t] = ThFields /\ th'[t].pc = "applyLock" /\ th'[t].ret = th[t].ret
        /\ th'[t].todo = th[t].todo
    BY <1>0, <1>1, Zenon DEF ApplyLoad, ThFields
  <2>2. th[t].ret = "idle" /\ th[t].todo = {} /\ mu # t
    BY <1>0, <1>1, Zenon DEF ApplyLoad, ThreadOK, Top, HoldsMu, MuPcs, MuRets, Rets
  <2>3. ThreadOK(th'[t], t)
    BY <2>1, <2>2, Zenon DEF ThreadOK, Top, HoldsMu, MuPcs, MuRets, Rets, HandlePcs, CallPcs, Own
  <2>4. DOMAIN th' = Threads /\ \A u \in Threads : u # t => th'[u] = th[u]
    BY <1>0, <1>1, Zenon DEF ApplyLoad
  <2>5. QED BY <1>1, <1>h, <2>1, <2>3, <2>4, OwnStep, Zenon DEF ApplyLoad, Own
<1>2. CASE RebuildCheck(t)
  <2>1. th[t].pc = "rebuildCheck" /\ th[t].ret = "idle" /\ th[t].r \in Handles /\ mu = None
    BY <1>0, <1>2, Zenon DEF RebuildCheck, ThreadOK, Top, HandlePcs, Rets
  <2>2. DOMAIN th' = Threads /\ \A u \in Threads : u # t => th'[u] = th[u]
    BY <1>0, <1>2, Zenon DEF RebuildCheck
  <2>3. CASE th'[t] = Idle
    <3>1. ThreadOK(th'[t], t) /\ th'[t].pc \notin Own \cup {"stopClose"}
      BY <1>n, <2>1, <2>3, IdleFacts, Zenon
         DEF ThreadOK, HoldsMu, MuPcs, MuRets, Rets, Top, HandlePcs, CallPcs, Own
    <3>2. QED BY <1>2, <1>h, <2>2, <3>1, OwnStep, Zenon DEF RebuildCheck
  <2>4. CASE th'[t] = [th[t] EXCEPT !.pc = "stopLock"]
    <3>1. /\ DOMAIN th'[t] = ThFields /\ th'[t].pc = "stopLock" /\ th'[t].ret = th[t].ret
          /\ th'[t].r = th[t].r
      BY <1>0, <2>4, Zenon DEF ThFields
    <3>2. ThreadOK(th'[t], t)
      BY <1>n, <2>1, <3>1, Zenon DEF ThreadOK, HoldsMu, MuPcs, MuRets, Rets, Top, HandlePcs, CallPcs, Own
    <3>3. QED BY <1>2, <1>h, <2>2, <3>1, <3>2, OwnStep, Zenon DEF RebuildCheck, Own
  <2>5. QED BY <1>0, <1>2, <2>3, <2>4, Zenon DEF RebuildCheck
<1>3. CASE ApplyDisabled(t)
  <2>1. /\ DOMAIN th'[t] = ThFields /\ th'[t].pc = "applyScan" /\ th'[t].ret = th[t].ret
        /\ th'[t].todo = th[t].todo
    BY <1>0, <1>3, Zenon DEF ApplyDisabled, ThFields
  <2>2. th[t].pc = "applyDisabled" /\ th[t].ret = "idle" /\ HoldsMu(th[t]) /\ ~Closing(th[t])
    BY <1>0, <1>3, Zenon DEF ApplyDisabled, ThreadOK, Top, HoldsMu, Closing, MuPcs, MuRets, Rets
  <2>3. mu = t /\ th[t].todo \subseteq Tracked /\ ~closed
    BY <1>0, <2>2, Zenon DEF ThreadOK
  <2>4. ThreadOK(th'[t], t)
    BY <2>1, <2>2, <2>3, Zenon
       DEF ThreadOK, HoldsMu, Deleting, MuPcs, MuRets, Rets, Top, HandlePcs, CallPcs, Own
  <2>5. HandlesQuiet
    BY <1>0, <1>3, Zenon DEF ApplyDisabled, HandlesQuiet, HdFields
  <2>6. DOMAIN th' = Threads /\ \A u \in Threads : u # t => th'[u] = th[u]
    BY <1>0, <1>3, Zenon DEF ApplyDisabled
  <2>7. QED BY <1>3, <2>1, <2>4, <2>5, <2>6, OwnStep, Zenon DEF ApplyDisabled, Own
<1>4. CASE \E n \in Names : Rebuild(t, n)
  <2>0. PICK n \in Names : Rebuild(t, n)
    BY <1>4, Zenon
  <2>1. /\ DOMAIN th'[t] = ThFields /\ th'[t].pc = "rebuildLock" /\ th'[t].ret = "rebuildCheck"
        /\ th'[t].r = listeners[n]
    BY <1>0, <2>0, Zenon DEF Rebuild, ThFields
  <2>2. listeners[n] \in Handles /\ mu = None
    BY <1>0, <2>0, Zenon DEF Rebuild, Tracked
  <2>3. ThreadOK(th'[t], t)
    BY <1>n, <2>1, <2>2, Zenon DEF ThreadOK, HoldsMu, MuPcs, MuRets, Rets, Top, HandlePcs, CallPcs, Own
  <2>4. DOMAIN th' = Threads /\ \A u \in Threads : u # t => th'[u] = th[u]
    BY <1>0, <2>0, Zenon DEF Rebuild
  <2>5. QED BY <1>h, <2>0, <2>1, <2>3, <2>4, OwnStep, Zenon DEF Rebuild, Own
<1>5. QED BY <1>1, <1>2, <1>3, <1>4, Zenon

\* What holds inside Manager.mu: in Apply the latch is not set; in Close what is tracked
\* is what is left to stop.
LEMMA ScanFacts ==
  ASSUME IInv, NEW t \in Threads
  PROVE  /\ th[t].pc \in {"applyScan", "applyRemoved", "applyBuilt", "stopDelete", "closeScan", "closeDelete"} =>
               mu = t /\ th[t].ret = "idle" /\ th[t].todo \subseteq Tracked
         /\ th[t].pc \in {"applyScan", "applyRemoved", "applyBuilt", "stopDelete"} => ~closed
         /\ th[t].pc \in {"applyRemoved", "stopDelete", "closeDelete"} => th[t].n \notin th[t].todo
         /\ th[t].pc = "closeScan" /\ closed => Tracked \subseteq th[t].todo
         /\ th[t].pc = "closeDelete" /\ closed => Tracked \subseteq th[t].todo \cup {th[t].n}
<1>0. ThreadOK(th[t], t)
  BY AtFacts, Zenon
<1>1. th[t].pc \in {"applyScan", "applyRemoved", "applyBuilt", "stopDelete", "closeScan", "closeDelete"} =>
        HoldsMu(th[t]) /\ th[t].ret = "idle"
  BY <1>0, Zenon DEF ThreadOK, HoldsMu, MuPcs, MuRets, Rets, Top
<1>2. th[t].pc \in {"applyScan", "applyRemoved", "applyBuilt", "stopDelete"} => ~Closing(th[t])
  BY <1>1, Zenon DEF Closing
<1>3. th[t].pc \in {"applyRemoved", "stopDelete", "closeDelete"} => Deleting(th[t])
  BY Zenon DEF Deleting
<1>4. th[t].pc = "closeScan" => Pending(th[t]) = th[t].todo
  BY <1>1, Zenon DEF Pending, Deleting
<1>5. Pending(th[t]) \subseteq th[t].todo \cup {th[t].n}
  BY Zenon DEF Pending
<1>6. QED BY <1>0, <1>1, <1>2, <1>3, <1>4, <1>5, Zenon DEF ThreadOK

LEMMA ScanSteps ==
  ASSUME IInv, NEW t \in Threads, NEW n \in Names,
         \/ ApplyStop(t, n) \/ ApplyRebuild(t, n) \/ ApplyKeep(t, n) \/ CloseStop(t, n)
         \/ \E r \in Handles : ApplyBuild(t, n, r)
  PROVE  IInv'
<1>0. /\ DOMAIN th = Threads /\ DOMAIN th[t] = ThFields
      /\ DOMAIN hd = Handles /\ \A r \in Handles : DOMAIN hd[r] = HdFields
      /\ listeners \in [Names -> Handles \cup {None}]
  BY AtFacts, Zenon DEF IInv, LocksOK
<1>1. /\ mu = t /\ th[t].ret = "idle" /\ th[t].todo \subseteq Tracked
      /\ th[t].pc = "applyScan" => ~closed
      /\ th[t].pc = "closeScan" /\ closed => Tracked \subseteq th[t].todo
      /\ th[t].pc \in {"applyScan", "closeScan"}
  BY ScanFacts, Zenon DEF ApplyStop, ApplyRebuild, ApplyKeep, ApplyBuild, CloseStop, At
<1>2. n \in th[t].todo => listeners[n] \in Handles
  BY <1>0, <1>1, Zenon DEF Tracked
<1>3. DOMAIN th' = Threads /\ \A u \in Threads : u # t => th'[u] = th[u]
  BY <1>0, Zenon DEF ApplyStop, ApplyRebuild, ApplyKeep, ApplyBuild, CloseStop
<1>4. UNCHANGED <<mu, closed, listeners, sv, gauge>>
  BY Zenon DEF ApplyStop, ApplyRebuild, ApplyKeep, ApplyBuild, CloseStop
<1>h. hd' = hd => HandlesQuiet
  BY HandlesSame, Zenon DEF IInv
<1> USE DEF At
<1>5. CASE ApplyStop(t, n)
  <2>1. /\ DOMAIN th'[t] = ThFields /\ th'[t].pc = "stopLock" /\ th'[t].n = n /\ th'[t].r = listeners[n]
        /\ th'[t].todo = th[t].todo \ {n} /\ th'[t].ret \in {"applyRemoved", "applyDisabled"}
    BY <1>0, <1>5, Zenon DEF ApplyStop, ThFields
  <2>2. n \in th[t].todo /\ ~closed
    BY <1>1, <1>5, Zenon DEF ApplyStop
  <2>3. ThreadOK(th'[t], t)
    BY <1>1, <1>2, <2>1, <2>2, Zenon
       DEF ThreadOK, HoldsMu, Deleting, MuPcs, MuRets, Rets, Top, HandlePcs, CallPcs, Own
  <2>4. QED BY <1>3, <1>4, <1>5, <1>h, <2>1, <2>3, OwnStep, Zenon DEF ApplyStop, Own
<1>6. CASE ApplyRebuild(t, n)
  <2>1. /\ DOMAIN th'[t] = ThFields /\ th'[t].pc = "rebuildLock" /\ th'[t].n = n /\ th'[t].r = listeners[n]
        /\ th'[t].todo = th[t].todo \ {n} /\ th'[t].ret = "applyScan"
    BY <1>0, <1>6, Zenon DEF ApplyRebuild, ThFields
  <2>2. n \in th[t].todo /\ ~closed
    BY <1>1, <1>6, Zenon DEF ApplyRebuild
  <2>3. ThreadOK(th'[t], t)
    BY <1>1, <1>2, <2>1, <2>2, Zenon
       DEF ThreadOK, HoldsMu, Deleting, MuPcs, MuRets, Rets, Top, HandlePcs, CallPcs, Own
  <2>4. QED BY <1>3, <1>4, <1>6, <1>h, <2>1, <2>3, OwnStep, Zenon DEF ApplyRebuild, Own
<1>7. CASE ApplyKeep(t, n)
  <2>1. /\ DOMAIN th'[t] = ThFields /\ th'[t].pc = "applyScan" /\ th'[t].ret = "idle"
        /\ th'[t].todo = th[t].todo \ {n}
    BY <1>0, <1>1, <1>7, Zenon DEF ApplyKeep, ThFields
  <2>2. ~closed
    BY <1>1, <1>7, Zenon DEF ApplyKeep
  <2>3. ThreadOK(th'[t], t)
    BY <1>1, <2>1, <2>2, Zenon
       DEF ThreadOK, HoldsMu, Deleting, MuPcs, MuRets, Rets, Top, HandlePcs, CallPcs, Own
  <2>4. QED BY <1>3, <1>4, <1>7, <1>h, <2>1, <2>3, OwnStep, Zenon DEF ApplyKeep, Own
<1>8. CASE CloseStop(t, n)
  <2>1. /\ DOMAIN th'[t] = ThFields /\ th'[t].pc = "stopLock" /\ th'[t].n = n /\ th'[t].r = listeners[n]
        /\ th'[t].todo = th[t].todo \ {n} /\ th'[t].ret = "closeDelete"
    BY <1>0, <1>8, Zenon DEF CloseStop, ThFields
  <2>2. n \in th[t].todo /\ (closed => Tracked \subseteq th[t].todo)
    BY <1>1, <1>8, Zenon DEF CloseStop
  <2>3. Deleting(th'[t]) /\ Closing(th'[t])
    BY <2>1, Zenon DEF Deleting, Closing
  <2>4. Pending(th'[t]) = th[t].todo
    BY <1>1, <2>1, <2>2, <2>3, Zenon DEF Pending, Tracked
  <2>5. ThreadOK(th'[t], t)
    BY <1>1, <1>2, <2>1, <2>2, <2>3, <2>4, Zenon
       DEF ThreadOK, HoldsMu, MuPcs, MuRets, Rets, Top, HandlePcs, CallPcs, Own
  <2>6. QED BY <1>3, <1>4, <1>8, <1>h, <2>1, <2>5, OwnStep, Zenon DEF CloseStop, Own
<1>9. CASE \E r \in Handles : ApplyBuild(t, n, r)
  <2>0. PICK r \in Handles : ApplyBuild(t, n, r)
    BY <1>9, Zenon
  <2>1. /\ DOMAIN th'[t] = ThFields /\ th'[t].pc = "start" /\ th'[t].r = r
        /\ th'[t].todo = th[t].todo /\ th'[t].ret = "applyBuilt"
    BY <1>0, <2>0, Zenon DEF ApplyBuild, ThFields
  <2>2. ~closed
    BY <1>1, <2>0, Zenon DEF ApplyBuild
  <2>3. ThreadOK(th'[t], t)
    BY <1>1, <2>1, <2>2, Zenon
       DEF ThreadOK, HoldsMu, Deleting, MuPcs, MuRets, Rets, Top, HandlePcs, CallPcs, Own
  <2>4. HandlesQuiet
    BY <1>0, <2>0, Zenon DEF ApplyBuild, HandlesQuiet, HdFields, NewHandle
  <2>5. QED BY <1>3, <1>4, <2>1, <2>3, <2>4, OwnStep, Zenon DEF Own
<1>10. QED BY <1>5, <1>6, <1>7, <1>8, <1>9, Zenon

\* A call that is over holds nothing.
LEMMA IdleOK ==
  ASSUME NEW t \in Threads, th'[t] = Idle, mu' = None
  PROVE  ThreadOK(th[t], t)' /\ th'[t].pc \notin Own \cup {"stopClose"}
<1>1. t # None
  BY NoneAssumption, Zenon
<1>2. QED BY <1>1, IdleFacts, Zenon DEF ThreadOK, HoldsMu, MuPcs, MuRets, Rets, Top, HandlePcs, CallPcs, Own

\* The steps that take or release Manager.mu or change the map under it.
LEMMA LockSteps ==
  ASSUME IInv, NEW t \in Threads,
         \/ ApplyLock(t) \/ ApplyRemoved(t) \/ ApplyBuilt(t) \/ ApplyDone(t) \/ StopDelete(t)
         \/ Close(t) \/ CloseDelete(t) \/ CloseDone(t) \/ \E n \in Names : Stop(t, n)
  PROVE  IInv'
<1>0. /\ ThreadOK(th[t], t) /\ DOMAIN th = Threads /\ DOMAIN th[t] = ThFields
      /\ listeners \in [Names -> Handles \cup {None}] /\ ClosedIsEmpty
  BY AtFacts, Zenon DEF IInv, LocksOK
<1>1. UNCHANGED <<hd, sv, gauge>>
  BY Zenon DEF ApplyLock, ApplyRemoved, ApplyBuilt, ApplyDone, StopDelete, Close, CloseDelete, CloseDone, Stop
<1>2. DOMAIN th' = Threads /\ \A u \in Threads : u # t => th'[u] = th[u]
  BY <1>0, Zenon DEF ApplyLock, ApplyRemoved, ApplyBuilt, ApplyDone, StopDelete, Close, CloseDelete, CloseDone, Stop
<1>n. t # None
  BY NoneAssumption, Zenon
<1>i. th[t].pc = "idle" => th[t].ret = "idle" /\ th[t].todo = {}
  BY <1>0, Zenon DEF ThreadOK, Top, Rets
<1> USE DEF At
<1>3. CASE ApplyLock(t)
  <2>1. CASE closed
    <3>1. mu = None /\ mu' = None /\ th'[t] = Idle /\ UNCHANGED <<closed, listeners>>
      BY <1>0, <1>3, <2>1, Zenon DEF ApplyLock
    <3>2. ClosedIsEmpty'
      BY <1>0, <3>1, Zenon DEF ClosedIsEmpty, Tracked
    <3>3. QED BY <1>0, <1>1, <1>2, <3>1, <3>2, IdleOK, QuietLock, Zenon
  <2>2. CASE ~closed
    <3>1. /\ mu = None /\ mu' = t /\ UNCHANGED <<closed, listeners>>
          /\ th' = [th EXCEPT ![t] = [th[t] EXCEPT !.pc = "applyScan", !.todo = Tracked]]
      BY <1>3, <2>2, Zenon DEF ApplyLock
    <3>2. DOMAIN th'[t] = ThFields /\ th'[t].pc = "applyScan" /\ th'[t].todo = Tracked /\ th'[t].ret = th[t].ret
      BY <1>0, <3>1, Zenon DEF ThFields
    <3>3. th[t].ret = "idle"
      BY <1>0, <1>3, Zenon DEF ApplyLock, ThreadOK, Top
    <3>4. Tracked' = Tracked
      BY <3>1, Zenon DEF Tracked
    <3>5. ThreadOK(th[t], t)'
      BY <2>2, <3>1, <3>2, <3>3, <3>4, Zenon
         DEF ThreadOK, HoldsMu, Deleting, MuPcs, MuRets, Rets, Top, HandlePcs, CallPcs, Own
    <3>6. ClosedIsEmpty'
      BY <1>n, <3>1, Zenon DEF ClosedIsEmpty
    <3>7. QED BY <1>0, <1>1, <1>2, <3>1, <3>2, <3>5, <3>6, QuietLock, Zenon DEF Own
  <2>3. QED BY <2>1, <2>2, Zenon
<1>4. CASE ApplyRemoved(t) \/ ApplyBuilt(t)
  <2>1. /\ mu = t /\ th[t].ret = "idle" /\ th[t].todo \subseteq Tracked /\ ~closed
        /\ th[t].pc = "applyRemoved" => th[t].n \notin th[t].todo
        /\ th[t].pc \in {"applyRemoved", "applyBuilt"}
    BY <1>4, ScanFacts, Zenon DEF ApplyRemoved, ApplyBuilt
  <2>2. /\ DOMAIN th'[t] = ThFields /\ th'[t].pc = "applyScan" /\ th'[t].ret = "idle" /\ th'[t].todo = th[t].todo
        /\ mu' = t /\ ~closed'
    <3>1. /\ th' = [th EXCEPT ![t] = [th[t] EXCEPT !.pc = "applyScan", !.n = None, !.r = None]]
          /\ mu' = mu /\ closed' = closed
      BY <1>4, Zenon DEF ApplyRemoved, ApplyBuilt
    <3>2. QED BY <1>0, <2>1, <3>1, Zenon DEF ThFields
  <2>3. listeners' \in [Names -> Handles \cup {None}]
    BY <1>0, <1>4, Zenon DEF ApplyRemoved, ApplyBuilt, ThreadOK, HandlePcs
  <2>4. th[t].todo \subseteq Tracked'
    <3>1. CASE ApplyRemoved(t)
      BY <1>0, <2>1, <3>1, Zenon DEF ApplyRemoved, Tracked
    <3>2. CASE ApplyBuilt(t)
      <4>1. th[t].r \in Handles /\ th[t].r # None
        BY <1>0, <3>2, NoneAssumption, Zenon DEF ApplyBuilt, ThreadOK, HandlePcs
      <4>2. QED BY <1>0, <2>1, <3>2, <4>1, Zenon DEF ApplyBuilt, Tracked
    <3>3. QED BY <1>4, <3>1, <3>2, Zenon
  <2>5. ThreadOK(th[t], t)'
    BY <2>2, <2>4, Zenon DEF ThreadOK, HoldsMu, Deleting, MuPcs, MuRets, Rets, Top, HandlePcs, CallPcs, Own
  <2>6. ClosedIsEmpty'
    BY <2>2, Zenon DEF ClosedIsEmpty
  <2>7. QED BY <1>1, <1>2, <2>1, <2>2, <2>3, <2>5, <2>6, QuietLock, Zenon DEF Own
<1>5. CASE ApplyDone(t)
  <2>1. mu = t /\ ~closed /\ mu' = None /\ th'[t] = Idle /\ UNCHANGED <<closed, listeners>>
    BY <1>0, <1>5, ScanFacts, Zenon DEF ApplyDone
  <2>2. ClosedIsEmpty'
    BY <2>1, Zenon DEF ClosedIsEmpty
  <2>3. QED BY <1>0, <1>1, <1>2, <2>1, <2>2, IdleOK, QuietLock, Zenon
<1>6. CASE \E n \in Names : Stop(t, n)
  <2>0. PICK n \in Names : Stop(t, n)
    BY <1>6, Zenon
  <2>1. /\ DOMAIN th'[t] = ThFields /\ th'[t].pc = "stopLock" /\ th'[t].ret = "stopDelete"
        /\ th'[t].r = listeners[n] /\ th'[t].todo = {}
    BY <1>0, <1>i, <2>0, Zenon DEF Stop, ThFields
  <2>2. mu = None /\ mu' = t /\ UNCHANGED <<closed, listeners>> /\ n \in Tracked
    BY <2>0, Zenon DEF Stop
  <2>3. ~closed /\ listeners[n] \in Handles
    BY <1>0, <2>2, Zenon DEF ClosedIsEmpty, Tracked
  <2>4. ThreadOK(th[t], t)'
    BY <2>1, <2>2, <2>3, Zenon DEF ThreadOK, HoldsMu, MuPcs, MuRets, Rets, Top, HandlePcs, CallPcs, Own
  <2>5. ClosedIsEmpty'
    BY <2>2, <2>3, Zenon DEF ClosedIsEmpty
  <2>6. QED BY <1>0, <1>1, <1>2, <2>1, <2>2, <2>4, <2>5, QuietLock, Zenon DEF Own
<1>7. CASE StopDelete(t)
  <2>1. mu = t /\ ~closed /\ mu' = None /\ th'[t] = Idle /\ UNCHANGED closed
    BY <1>0, <1>7, ScanFacts, Zenon DEF StopDelete
  <2>2. ClosedIsEmpty'
    BY <2>1, Zenon DEF ClosedIsEmpty
  <2>3. listeners' \in [Names -> Handles \cup {None}]
    BY <1>0, <1>7, Zenon DEF StopDelete
  <2>4. QED BY <1>1, <1>2, <2>1, <2>2, <2>3, IdleOK, QuietLock, Zenon
<1>8. CASE Close(t)
  <2>1. DOMAIN th'[t] = ThFields /\ th'[t].pc = "closeScan" /\ th'[t].ret = "idle" /\ th'[t].todo = Tracked
    BY <1>0, <1>i, <1>8, Zenon DEF Close, ThFields
  <2>2. mu = None /\ mu' = t /\ UNCHANGED listeners
    BY <1>8, Zenon DEF Close
  <2>3. Tracked' = Tracked
    BY <2>2, Zenon DEF Tracked
  <2>4. Closing(th'[t]) /\ ~Deleting(th'[t]) /\ Tracked \subseteq Pending(th'[t])
    BY <2>1, Zenon DEF Closing, Deleting, Pending
  <2>5. ThreadOK(th[t], t)'
    BY <2>1, <2>2, <2>3, <2>4, Zenon DEF ThreadOK, HoldsMu, MuPcs, MuRets, Rets, Top, HandlePcs, CallPcs, Own
  <2>6. ClosedIsEmpty'
    BY <1>n, <2>2, Zenon DEF ClosedIsEmpty
  <2>7. QED BY <1>0, <1>1, <1>2, <2>1, <2>2, <2>5, <2>6, QuietLock, Zenon DEF Own
<1>9. CASE CloseDelete(t)
  <2>1. /\ mu = t /\ th[t].ret = "idle" /\ th[t].todo \subseteq Tracked /\ th[t].n \notin th[t].todo
        /\ closed => Tracked \subseteq th[t].todo \cup {th[t].n}
    BY <1>9, ScanFacts, Zenon DEF CloseDelete
  <2>2. /\ DOMAIN th'[t] = ThFields /\ th'[t].pc = "closeScan" /\ th'[t].ret = "idle" /\ th'[t].todo = th[t].todo
        /\ mu' = t /\ closed' = closed
    BY <1>0, <1>9, <2>1, Zenon DEF CloseDelete, ThFields
  <2>3. listeners' \in [Names -> Handles \cup {None}]
    BY <1>0, <1>9, Zenon DEF CloseDelete
  <2>4. Tracked' = Tracked \ {th[t].n}
    BY <1>0, <1>9, Zenon DEF CloseDelete, Tracked
  <2>5. Closing(th'[t]) /\ ~Deleting(th'[t]) /\ Pending(th'[t]) = th[t].todo
    BY <2>2, Zenon DEF Closing, Deleting, Pending
  <2>6. ThreadOK(th[t], t)'
    BY <2>1, <2>2, <2>4, <2>5, Zenon DEF ThreadOK, HoldsMu, MuPcs, MuRets, Rets, Top, HandlePcs, CallPcs, Own
  <2>7. ClosedIsEmpty'
    BY <1>n, <2>2, Zenon DEF ClosedIsEmpty
  <2>8. QED BY <1>1, <1>2, <2>1, <2>2, <2>3, <2>6, <2>7, QuietLock, Zenon DEF Own
<1>10. CASE CloseDone(t)
  <2>1. /\ mu = t /\ mu' = None /\ th'[t] = Idle /\ UNCHANGED <<closed, listeners>>
        /\ closed => Tracked = {}
    BY <1>0, <1>10, ScanFacts, Zenon DEF CloseDone
  <2>2. ClosedIsEmpty'
    BY <2>1, Zenon DEF ClosedIsEmpty, Tracked
  <2>3. QED BY <1>0, <1>1, <1>2, <2>1, <2>2, IdleOK, QuietLock, Zenon
<1>11. QED BY <1>3, <1>4, <1>5, <1>6, <1>7, <1>8, <1>9, <1>10, Zenon

-----------------------------------------------------------------------------
(* The steps that make, hand over or close a server *)

\* The gauge when one more server, or one less, is waited for by reap, and when Close
\* calls begin or end but reap waits for the same ones.
LEMMA GaugeUp ==
  ASSUME Counted, ServersOK, GaugeExact, NEW s \in Servers, ~sv[s].reap,
         sv' = [sv EXCEPT ![s].reap = TRUE], gauge' = gauge + 1
  PROVE  GaugeExact'
<1> DEFINE R == {x \in Servers : sv[x].reap}
<1>1. {x \in Servers : sv'[x].reap} = R \cup {s}
  BY Zenon DEF ServersOK,
      ServersTyped, NoUseAfterClose, HandlesApart, BuildersOwn, UnaskedAwake, WaitersApart, SvFields
<1>2. R \in SUBSET Servers /\ s \in Servers \ R
  BY Zenon
<1>3. Cardinality(R \cup {s}) = Cardinality(R) + 1
  BY <1>2, Zenon DEF Counted
<1>4. QED BY <1>1, <1>3, Zenon DEF GaugeExact

LEMMA GaugeDown ==
  ASSUME Counted, ServersOK, GaugeExact, NEW s \in Servers, sv[s].reap,
         sv' = [sv EXCEPT ![s].reap = FALSE], gauge' = gauge - 1
  PROVE  GaugeExact'
<1> DEFINE R == {x \in Servers : sv[x].reap}
<1>1. {x \in Servers : sv'[x].reap} = R \ {s}
  BY Zenon DEF ServersOK,
      ServersTyped, NoUseAfterClose, HandlesApart, BuildersOwn, UnaskedAwake, WaitersApart, SvFields
<1>2. R \in SUBSET Servers /\ s \in R
  BY Zenon
<1>3. Cardinality(R \ {s}) = Cardinality(R) - 1
  BY <1>2, Zenon DEF Counted
<1>4. QED BY <1>1, <1>3, Zenon DEF GaugeExact

LEMMA GaugeSame ==
  ASSUME GaugeExact, gauge' = gauge, \A s \in Servers : sv'[s].reap = sv[s].reap
  PROVE  GaugeExact'
BY Zenon DEF GaugeExact

\* A step of a call that leaves Manager.mu alone keeps LocksOK.
LEMMA CallLocal ==
  ASSUME IInv, NEW t \in Threads, th[t].pc \in CallPcs, DOMAIN th' = Threads,
         \A u \in Threads : u # t => th'[u] = th[u], ThreadOK(th'[t], t),
         UNCHANGED <<mu, closed, listeners>>
  PROVE  LocksOK'
BY LocalStep, Zenon DEF IInv

\* The teardown takes the server out of its handle and hands it to Close.
LEMMA CaptureOK ==
  ASSUME IInv, NEW t \in Threads, th[t].pc \in CallPcs \ (Own \cup {"stopClose"}), Capture(t)
  PROVE  IInv'
<1>0. /\ ThreadOK(th[t], t) /\ DOMAIN th = Threads /\ DOMAIN th[t] = ThFields
      /\ DOMAIN hd = Handles /\ \A r \in Handles : DOMAIN hd[r] = HdFields
      /\ DOMAIN sv = Servers /\ \A s \in Servers : DOMAIN sv[s] = SvFields
  BY AtFacts, Zenon
<1> DEFINE r == th[t].r
           s == hd[r].srv
<1>1. r \in Handles
  BY <1>0, Zenon DEF ThreadOK, HandlePcs
<1>2. s \in Servers \cup {None} /\ (s # None => sv[s].close = "no")
  BY <1>1, Zenon DEF IInv, ServersOK,
      ServersTyped, NoUseAfterClose, HandlesApart, BuildersOwn, UnaskedAwake, WaitersApart
<1>3. /\ DOMAIN hd' = Handles /\ \A q \in Handles : q # r => hd'[q] = hd[q]
      /\ DOMAIN hd'[r] = HdFields /\ hd'[r].srv = None
  BY <1>0, <1>1, Zenon DEF Capture, HdFields
<1>4. th' = [th EXCEPT ![t] = [th[t] EXCEPT !.s = s, !.nat = hd[r].cfg.nat,
                                            !.pc = IF s = None THEN "stopHost" ELSE "stopClose"]]
  BY Zenon DEF Capture
<1>5. /\ DOMAIN th'[t] = ThFields /\ th'[t].ret = th[t].ret /\ th'[t].r = th[t].r
      /\ th'[t].n = th[t].n /\ th'[t].todo = th[t].todo /\ th'[t].s = s
      /\ th'[t].pc = IF s = None THEN "stopHost" ELSE "stopClose"
  BY <1>0, <1>4, Zenon DEF ThFields
<1>6. DOMAIN th' = Threads /\ \A u \in Threads : u # t => th'[u] = th[u]
  BY <1>0, <1>4, Zenon
<1>7. UNCHANGED <<mu, closed, listeners, gauge>>
  BY Zenon DEF Capture
<1>8. ThreadOK(th'[t], t)
  BY <1>5, CallGoesOn, Zenon DEF IInv, CallPcs, Own
<1>9. LocksOK'
  BY <1>6, <1>7, <1>8, CallLocal, Zenon
<1>10. sv' = IF s = None THEN sv ELSE [sv EXCEPT ![s].close = "running"]
  BY Zenon DEF Capture
<1>11. CASE s = None
  <2>1. HandlesQuiet
    BY <1>0, <1>3, Zenon DEF HandlesQuiet
  <2>2. ServersQuiet
    BY <1>7, <1>10, <1>11, ServersSame, Zenon DEF IInv
  <2>3. Quieter(t)
    BY <1>5, <1>11, Zenon DEF Quieter, Own
  <2>4. QED BY <1>6, <1>7, <1>8, <2>1, <2>2, <2>3, QuietLocal, Zenon
<1>12. CASE s # None
  <2> HIDE DEF s, r
  <2>1. /\ s \in Servers /\ DOMAIN sv' = Servers /\ \A q \in Servers : q # s => sv'[q] = sv[q]
        /\ DOMAIN sv'[s] = SvFields /\ sv'[s].close = "running" /\ sv'[s].reap = sv[s].reap
    BY <1>0, <1>2, <1>10, <1>12, Zenon DEF SvFields
  <2>2. \A q \in Handles : q # r => hd[q].srv # s
    BY <1>1, <1>12, Zenon DEF IInv, ServersOK,
        ServersTyped, NoUseAfterClose, HandlesApart, BuildersOwn, UnaskedAwake, WaitersApart, s
  <2>3. ~sv[s].reap
    BY <1>2, <2>1, <1>12, Zenon DEF IInv, ServersOK,
        ServersTyped, NoUseAfterClose, HandlesApart, BuildersOwn, UnaskedAwake, WaitersApart
  <2>4. \A u \in Threads : th[u].pc \in Own => th[u].s # s
    BY <1>1, Zenon DEF IInv, ServersOK, ServersTyped, BuildersOwn, NoUseAfterClose, s
  <2>5. \A u \in Threads : th[u].pc = "stopClose" => th[u].s # s
    BY <1>2, <1>12, Zenon DEF IInv, ServersOK, ServersTyped, WaitersApart
  <2>6. th'[t].pc = "stopClose" /\ "stopClose" \notin Own
    BY <1>5, <1>12, Zenon DEF Own
  <2>7. GaugeExact'
    BY <1>7, <2>1, Zenon DEF IInv, GaugeExact
  <2>8. ServersOK'
    <3>1. /\ DOMAIN hd' = Handles /\ \A q \in Handles : DOMAIN hd'[q] = HdFields /\ hd'[q].srv \in Servers \cup {None}
          /\ DOMAIN sv' = Servers /\ \A q \in Servers : DOMAIN sv'[q] = SvFields /\ sv'[q].reap \in BOOLEAN
      BY <1>1, <1>3, <2>1, Zenon DEF IInv, ServersOK, ServersTyped
    <3>2. \A q \in Handles : hd'[q].srv # None => sv'[hd'[q].srv].close = "no"
      BY <1>1, <1>3, <2>1, <2>2, SMTT(30) DEF IInv, ServersOK, ServersTyped, NoUseAfterClose
    <3>3. \A p, q \in Handles : p # q /\ hd'[p].srv # None => hd'[p].srv # hd'[q].srv
      BY <1>1, <1>3, ZenonT(40) DEF IInv, ServersOK, ServersTyped, HandlesApart
    <3>4. \A u \in Threads : th'[u].pc \in Own =>
            /\ th'[u].s \in Servers /\ sv'[th'[u].s].close = "no"
            /\ \A q \in Handles : hd'[q].srv # th'[u].s
            /\ \A v \in Threads : v # u /\ th'[v].pc \in Own => th'[v].s # th'[u].s
      <4>1. SUFFICES ASSUME NEW u \in Threads, th'[u].pc \in Own
            PROVE  /\ th'[u].s \in Servers /\ sv'[th'[u].s].close = "no"
                   /\ \A q \in Handles : hd'[q].srv # th'[u].s
                   /\ \A v \in Threads : v # u /\ th'[v].pc \in Own => th'[v].s # th'[u].s
        BY Zenon
      <4>2. u # t /\ th'[u] = th[u] /\ th[u].s # s
        BY <1>6, <2>4, <2>6, <4>1, Zenon
      <4>3. th'[u].s \in Servers /\ sv'[th'[u].s].close = "no" /\ th'[u].s # None
        BY <2>1, <4>1, <4>2, NoneAssumption, SMTT(30) DEF IInv, ServersOK,
            ServersTyped, NoUseAfterClose, HandlesApart, BuildersOwn, UnaskedAwake, WaitersApart
      <4>4. \A q \in Handles : hd'[q].srv # th'[u].s
        BY <1>1, <1>3, <4>1, <4>2, <4>3, SMTT(30) DEF IInv, ServersOK,
            ServersTyped, NoUseAfterClose, HandlesApart, BuildersOwn, UnaskedAwake, WaitersApart
      <4>5. \A v \in Threads : v # u /\ th'[v].pc \in Own => th'[v].s # th'[u].s
        BY <1>6, <2>6, <4>1, <4>2 DEF IInv, ServersOK, ServersTyped, BuildersOwn, NoUseAfterClose
      <4>6. QED BY <4>3, <4>4, <4>5, Zenon
    <3>5. \A q \in Servers : sv'[q].close = "no" => ~sv'[q].reap
      BY <2>1, Zenon DEF IInv, ServersOK, ServersTyped, UnaskedAwake
    <3>6. \A u \in Threads : th'[u].pc = "stopClose" =>
            /\ th'[u].s \in Servers /\ sv'[th'[u].s].close # "no" /\ ~sv'[th'[u].s].reap
            /\ \A v \in Threads : v # u /\ th'[v].pc = "stopClose" => th'[v].s # th'[u].s
      BY <1>5, <1>6, <2>1, <2>3, <2>5 DEF IInv, ServersOK, ServersTyped, WaitersApart
    <3>7. QED BY <3>1, <3>2, <3>3, <3>4, <3>5, <3>6, Zenon DEF ServersOK,
        ServersTyped, NoUseAfterClose, HandlesApart, BuildersOwn, UnaskedAwake, WaitersApart
  <2>9. QED BY <1>9, <2>7, <2>8, Zenon DEF IInv
<1>13. QED BY <1>11, <1>12, Zenon

\* A new server belongs to the call that made it: nothing else names it.
LEMMA ConstructOK ==
  ASSUME IInv, NEW t \in Threads, Construct(t)
  PROVE  IInv'
<1>0. /\ ThreadOK(th[t], t) /\ DOMAIN th = Threads /\ DOMAIN th[t] = ThFields
      /\ DOMAIN sv = Servers /\ \A s \in Servers : DOMAIN sv[s] = SvFields
  BY AtFacts, Zenon
<1>1. PICK s \in Servers : /\ ServerFree(s)
                           /\ sv' = [sv EXCEPT ![s].close = "no"]
                           /\ th' = [th EXCEPT ![t] = [th[t] EXCEPT !.s = s,
                                      !.pc = IF th[t].cfg.nat THEN "hostApply" ELSE "publish"]]
  BY Zenon DEF Construct
<1>2. /\ DOMAIN th'[t] = ThFields /\ th'[t].ret = th[t].ret /\ th'[t].r = th[t].r /\ th'[t].n = th[t].n
      /\ th'[t].todo = th[t].todo /\ th'[t].s = s /\ th'[t].pc \in {"hostApply", "publish"}
  BY <1>0, <1>1, Zenon DEF ThFields
<1>3. DOMAIN th' = Threads /\ \A u \in Threads : u # t => th'[u] = th[u]
  BY <1>0, <1>1, Zenon
<1>4. UNCHANGED <<mu, closed, listeners, hd, gauge>> /\ th[t].pc = "construct"
  BY Zenon DEF Construct, At
<1>5. ThreadOK(th'[t], t)
  BY <1>2, <1>4, CallGoesOn, Zenon DEF IInv, CallPcs, Own
<1>6. LocksOK'
  BY <1>3, <1>4, <1>5, CallLocal, Zenon DEF CallPcs
<1>7. /\ DOMAIN sv' = Servers /\ \A q \in Servers : q # s => sv'[q] = sv[q]
      /\ DOMAIN sv'[s] = SvFields /\ sv'[s].close = "no" /\ sv'[s].reap = sv[s].reap
  BY <1>0, <1>1, Zenon DEF SvFields
<1>8. /\ ~sv[s].reap /\ \A r \in Handles : hd[r].srv # s
      /\ \A u \in Threads : th[u].s # s
  BY <1>1 DEF ServerFree, Retired
<1>9. th'[t].pc \in Own /\ th'[t].pc # "stopClose"
  BY <1>2, Zenon DEF Own
<1>10. GaugeExact'
  BY <1>4, <1>7, GaugeSame, Zenon DEF IInv
<1>11. ServersOK'
  <2>1. /\ DOMAIN hd' = Handles /\ \A q \in Handles : DOMAIN hd'[q] = HdFields /\ hd'[q].srv \in Servers \cup {None}
        /\ DOMAIN sv' = Servers /\ \A q \in Servers : DOMAIN sv'[q] = SvFields /\ sv'[q].reap \in BOOLEAN
    BY <1>4, <1>7, Zenon DEF IInv, ServersOK, ServersTyped
  <2>2. \A q \in Handles : hd'[q].srv # None => sv'[hd'[q].srv].close = "no"
    BY <1>4, <1>7, Zenon DEF IInv, ServersOK, ServersTyped, NoUseAfterClose
  <2>3. \A p, q \in Handles : p # q /\ hd'[p].srv # None => hd'[p].srv # hd'[q].srv
    BY <1>4, Zenon DEF IInv, ServersOK, ServersTyped, HandlesApart
  <2>4. \A u \in Threads : th'[u].pc \in Own =>
          /\ th'[u].s \in Servers /\ sv'[th'[u].s].close = "no"
          /\ \A q \in Handles : hd'[q].srv # th'[u].s
          /\ \A v \in Threads : v # u /\ th'[v].pc \in Own => th'[v].s # th'[u].s
    BY <1>2, <1>3, <1>4, <1>7, <1>8 DEF IInv, ServersOK, ServersTyped, BuildersOwn, NoUseAfterClose
  <2>5. \A q \in Servers : sv'[q].close = "no" => ~sv'[q].reap
    BY <1>7, <1>8, Zenon DEF IInv, ServersOK, ServersTyped, UnaskedAwake
  <2>6. \A u \in Threads : th'[u].pc = "stopClose" =>
          /\ th'[u].s \in Servers /\ sv'[th'[u].s].close # "no" /\ ~sv'[th'[u].s].reap
          /\ \A v \in Threads : v # u /\ th'[v].pc = "stopClose" => th'[v].s # th'[u].s
    BY <1>3, <1>7, <1>8, <1>9 DEF IInv, ServersOK, ServersTyped, WaitersApart
  <2>7. QED BY <2>1, <2>2, <2>3, <2>4, <2>5, <2>6, Zenon DEF ServersOK,
      ServersTyped, NoUseAfterClose, HandlesApart, BuildersOwn, UnaskedAwake, WaitersApart
<1>12. QED BY <1>6, <1>10, <1>11, Zenon DEF IInv

\* A server whose host networking failed is closed by the call that made it.
LEMMA HostApplyFailsOK ==
  ASSUME IInv, NEW t \in Threads, HostApplyFails(t)
  PROVE  IInv'
<1>0. /\ ThreadOK(th[t], t) /\ DOMAIN th = Threads /\ DOMAIN th[t] = ThFields
      /\ DOMAIN sv = Servers /\ \A s \in Servers : DOMAIN sv[s] = SvFields
  BY AtFacts, Zenon
<1> DEFINE s == th[t].s
<1>1. /\ th' = [th EXCEPT ![t].pc = "closeFailed"] /\ sv' = [sv EXCEPT ![s].close = "running"]
      /\ UNCHANGED <<mu, closed, listeners, hd, gauge>> /\ th[t].pc = "hostApply"
  BY Zenon DEF HostApplyFails, At
<1>2. /\ DOMAIN th'[t] = ThFields /\ th'[t].ret = th[t].ret /\ th'[t].r = th[t].r /\ th'[t].n = th[t].n
      /\ th'[t].todo = th[t].todo /\ th'[t].pc = "closeFailed"
      /\ DOMAIN th' = Threads /\ \A u \in Threads : u # t => th'[u] = th[u]
  BY <1>0, <1>1, Zenon DEF ThFields
<1>3. LocksOK'
  BY <1>1, <1>2, CallGoesOn, CallLocal, Zenon DEF IInv, CallPcs, Own
<1>4. /\ s \in Servers /\ sv[s].close = "no" /\ \A r \in Handles : hd[r].srv # s
      /\ \A u \in Threads : u # t /\ th[u].pc \in Own => th[u].s # s
  BY <1>1, Zenon DEF IInv, ServersOK, ServersTyped, BuildersOwn, NoUseAfterClose, Own
<1> HIDE DEF s
<1>5. /\ DOMAIN sv' = Servers /\ \A q \in Servers : q # s => sv'[q] = sv[q]
      /\ DOMAIN sv'[s] = SvFields /\ sv'[s].close = "running" /\ sv'[s].reap = sv[s].reap
  BY <1>0, <1>1, <1>4, Zenon DEF SvFields
<1>6. GaugeExact'
  BY <1>1, <1>5, GaugeSame, Zenon DEF IInv
<1>7. th'[t].pc \notin Own \cup {"stopClose"}
  BY <1>2, Zenon DEF Own
<1>8. ServersOK'
  <2>1. /\ DOMAIN hd' = Handles /\ \A q \in Handles : DOMAIN hd'[q] = HdFields /\ hd'[q].srv \in Servers \cup {None}
        /\ DOMAIN sv' = Servers /\ \A q \in Servers : DOMAIN sv'[q] = SvFields /\ sv'[q].reap \in BOOLEAN
    BY <1>1, <1>4, <1>5, Zenon DEF IInv, ServersOK, ServersTyped
  <2>2. \A q \in Handles : hd'[q].srv # None => sv'[hd'[q].srv].close = "no"
    BY <1>1, <1>4, <1>5, Zenon DEF IInv, ServersOK, ServersTyped, NoUseAfterClose
  <2>3. \A p, q \in Handles : p # q /\ hd'[p].srv # None => hd'[p].srv # hd'[q].srv
    BY <1>1, Zenon DEF IInv, ServersOK, ServersTyped, HandlesApart
  <2>4. \A u \in Threads : th'[u].pc \in Own =>
          /\ th'[u].s \in Servers /\ sv'[th'[u].s].close = "no"
          /\ \A q \in Handles : hd'[q].srv # th'[u].s
          /\ \A v \in Threads : v # u /\ th'[v].pc \in Own => th'[v].s # th'[u].s
    BY <1>1, <1>2, <1>4, <1>5, <1>7, SMTT(30) DEF IInv, ServersOK, ServersTyped, BuildersOwn, NoUseAfterClose
  <2>5. \A q \in Servers : sv'[q].close = "no" => ~sv'[q].reap
    BY <1>5, Zenon DEF IInv, ServersOK, ServersTyped, UnaskedAwake
  <2>6. \A u \in Threads : th'[u].pc = "stopClose" =>
          /\ th'[u].s \in Servers /\ sv'[th'[u].s].close # "no" /\ ~sv'[th'[u].s].reap
          /\ \A v \in Threads : v # u /\ th'[v].pc = "stopClose" => th'[v].s # th'[u].s
    BY <1>2, <1>5, <1>7 DEF IInv, ServersOK, ServersTyped, WaitersApart
  <2>7. QED BY <2>1, <2>2, <2>3, <2>4, <2>5, <2>6, Zenon DEF ServersOK,
      ServersTyped, NoUseAfterClose, HandlesApart, BuildersOwn, UnaskedAwake, WaitersApart
<1>9. QED BY <1>3, <1>6, <1>8, Zenon DEF IInv

\* The call hands its server to the handle.
LEMMA PublishOK ==
  ASSUME IInv, NEW t \in Threads, Publish(t)
  PROVE  IInv'
<1>0. /\ ThreadOK(th[t], t) /\ DOMAIN th = Threads /\ DOMAIN th[t] = ThFields
      /\ DOMAIN hd = Handles /\ \A r \in Handles : DOMAIN hd[r] = HdFields
      /\ DOMAIN sv = Servers /\ \A s \in Servers : DOMAIN sv[s] = SvFields
  BY AtFacts, Zenon
<1> DEFINE r == th[t].r
           s == th[t].s
           fields == [hd[r] EXCEPT !.cfg = th[t].cfg, !.srv = s, !.done = s, !.state = "running", !.err = FALSE]
<1>1. /\ hd' = [hd EXCEPT ![r] = [fields EXCEPT !.buildMu = IF th[t].rb THEN None ELSE @]]
      /\ th' = [th EXCEPT ![t] = Returned(t)]
      /\ sv' = [sv EXCEPT ![s] = [@ EXCEPT !.serve = TRUE, !.owner = r]]
      /\ UNCHANGED <<mu, closed, listeners, gauge>> /\ th[t].pc = "publish"
  BY Zenon DEF Publish, StartReturns, At
<1>2. r \in Handles
  BY <1>0, <1>1, Zenon DEF ThreadOK, HandlePcs, CallPcs, Own
<1>3. /\ s \in Servers /\ sv[s].close = "no" /\ \A q \in Handles : hd[q].srv # s
      /\ \A u \in Threads : u # t /\ th[u].pc \in Own => th[u].s # s
  BY <1>1, Zenon DEF IInv, ServersOK, ServersTyped, BuildersOwn, NoUseAfterClose, Own
<1>4. DOMAIN fields = HdFields /\ fields.srv = s
  BY <1>0, <1>2, Zenon DEF HdFields
<1>5. th'[t] = Returned(t) /\ DOMAIN th' = Threads /\ \A u \in Threads : u # t => th'[u] = th[u]
  BY <1>0, <1>1, Zenon
<1>6. ThreadOK(th'[t], t) /\ th'[t].pc \in Rets
  BY <1>0, <1>1, <1>5, CallReturns, ReturnedFacts, Zenon DEF IInv, CallPcs, Own, ThreadOK
<1>7. LocksOK'
  BY <1>1, <1>5, <1>6, CallLocal, Zenon DEF CallPcs, Own
<1> HIDE DEF fields, r, s
<1>8. /\ DOMAIN hd' = Handles /\ \A q \in Handles : q # r => hd'[q] = hd[q]
      /\ DOMAIN hd'[r] = HdFields /\ hd'[r].srv = s
  BY <1>0, <1>1, <1>2, <1>4, Zenon DEF HdFields
<1>9. /\ DOMAIN sv' = Servers /\ \A q \in Servers : q # s => sv'[q] = sv[q]
      /\ DOMAIN sv'[s] = SvFields /\ sv'[s].close = sv[s].close /\ sv'[s].reap = sv[s].reap
  BY <1>0, <1>1, <1>3, Zenon DEF SvFields
<1>10. GaugeExact'
  BY <1>1, <1>9, GaugeSame, Zenon DEF IInv
<1>11. th'[t].pc \notin Own \cup {"stopClose"}
  BY <1>6, Zenon DEF Own, Rets
<1>12. ServersOK'
  <2>1. /\ DOMAIN hd' = Handles /\ \A q \in Handles : DOMAIN hd'[q] = HdFields /\ hd'[q].srv \in Servers \cup {None}
        /\ DOMAIN sv' = Servers /\ \A q \in Servers : DOMAIN sv'[q] = SvFields /\ sv'[q].reap \in BOOLEAN
    BY <1>3, <1>8, <1>9, Zenon DEF IInv, ServersOK, ServersTyped
  <2>2. \A q \in Handles : hd'[q].srv # None => sv'[hd'[q].srv].close = "no"
    BY <1>3, <1>8, <1>9, SMTT(60) DEF IInv, ServersOK, ServersTyped, NoUseAfterClose
  <2>3. \A p, q \in Handles : p # q /\ hd'[p].srv # None => hd'[p].srv # hd'[q].srv
    BY <1>2, <1>3, <1>8, ZenonT(40) DEF IInv, ServersOK, ServersTyped, HandlesApart
  <2>4. \A u \in Threads : th'[u].pc \in Own =>
          /\ th'[u].s \in Servers /\ sv'[th'[u].s].close = "no"
          /\ \A q \in Handles : hd'[q].srv # th'[u].s
          /\ \A v \in Threads : v # u /\ th'[v].pc \in Own => th'[v].s # th'[u].s
    BY <1>3, <1>5, <1>8, <1>9, <1>11, SMTT(60) DEF IInv, ServersOK, ServersTyped, BuildersOwn, NoUseAfterClose
  <2>5. \A q \in Servers : sv'[q].close = "no" => ~sv'[q].reap
    BY <1>9, Zenon DEF IInv, ServersOK, ServersTyped, UnaskedAwake
  <2>6. \A u \in Threads : th'[u].pc = "stopClose" =>
          /\ th'[u].s \in Servers /\ sv'[th'[u].s].close # "no" /\ ~sv'[th'[u].s].reap
          /\ \A v \in Threads : v # u /\ th'[v].pc = "stopClose" => th'[v].s # th'[u].s
    BY <1>5, <1>9, <1>11, SMTT(60) DEF IInv, ServersOK, ServersTyped, WaitersApart
  <2>7. QED BY <2>1, <2>2, <2>3, <2>4, <2>5, <2>6, Zenon DEF ServersOK,
      ServersTyped, NoUseAfterClose, HandlesApart, BuildersOwn, UnaskedAwake, WaitersApart
<1>13. QED BY <1>7, <1>10, <1>12, Zenon DEF IInv

\* A Close that overran its deadline is left to reap.
LEMMA StopAbandonOK ==
  ASSUME Counted, IInv, NEW t \in Threads, StopAbandon(t)
  PROVE  IInv'
<1>0. /\ ThreadOK(th[t], t) /\ DOMAIN th = Threads /\ DOMAIN th[t] = ThFields
      /\ DOMAIN sv = Servers /\ \A s \in Servers : DOMAIN sv[s] = SvFields
  BY AtFacts, Zenon
<1> DEFINE s == th[t].s
<1>1. /\ th' = [th EXCEPT ![t].pc = "stopHost"] /\ sv' = [sv EXCEPT ![s].reap = TRUE]
      /\ UNCHANGED <<mu, closed, listeners, hd>> /\ gauge' = gauge + 1 /\ th[t].pc = "stopClose"
  BY Zenon DEF StopAbandon, At
<1>2. /\ DOMAIN th'[t] = ThFields /\ th'[t].ret = th[t].ret /\ th'[t].r = th[t].r /\ th'[t].n = th[t].n
      /\ th'[t].todo = th[t].todo /\ th'[t].pc = "stopHost"
      /\ DOMAIN th' = Threads /\ \A u \in Threads : u # t => th'[u] = th[u]
  BY <1>0, <1>1, Zenon DEF ThFields
<1>3. LocksOK'
  BY <1>1, <1>2, CallGoesOn, CallLocal, Zenon DEF IInv, CallPcs
<1>4. /\ s \in Servers /\ sv[s].close # "no" /\ ~sv[s].reap
      /\ \A u \in Threads : u # t /\ th[u].pc = "stopClose" => th[u].s # s
  BY <1>1, Zenon DEF IInv, ServersOK, ServersTyped, WaitersApart
<1> HIDE DEF s
<1>5. /\ DOMAIN sv' = Servers /\ \A q \in Servers : q # s => sv'[q] = sv[q]
      /\ DOMAIN sv'[s] = SvFields /\ sv'[s].close = sv[s].close /\ sv'[s].reap = TRUE
  BY <1>0, <1>1, <1>4, Zenon DEF SvFields
<1>6. GaugeExact'
  BY <1>1, <1>4, GaugeUp, Zenon DEF IInv
<1>7. th'[t].pc \notin Own \cup {"stopClose"}
  BY <1>2, Zenon DEF Own
<1>8. ServersOK'
  <2>1. /\ DOMAIN hd' = Handles /\ \A q \in Handles : DOMAIN hd'[q] = HdFields /\ hd'[q].srv \in Servers \cup {None}
       /\ DOMAIN sv' = Servers /\ \A q \in Servers : DOMAIN sv'[q] = SvFields /\ sv'[q].reap \in BOOLEAN
    BY <1>1, <1>4, <1>5, Zenon DEF IInv, ServersOK, ServersTyped
  <2>2. \A q \in Handles : hd'[q].srv # None => sv'[hd'[q].srv].close = "no"
    BY <1>1, <1>4, <1>5, SMTT(60) DEF IInv, ServersOK, ServersTyped, NoUseAfterClose
  <2>3. \A p, q \in Handles : p # q /\ hd'[p].srv # None => hd'[p].srv # hd'[q].srv
    BY <1>1, <1>4, <1>5, Zenon DEF IInv, ServersOK, ServersTyped, HandlesApart
  <2>4. \A u \in Threads : th'[u].pc \in Own =>
          /\ th'[u].s \in Servers /\ sv'[th'[u].s].close = "no"
          /\ \A q \in Handles : hd'[q].srv # th'[u].s
          /\ \A v \in Threads : v # u /\ th'[v].pc \in Own => th'[v].s # th'[u].s
    BY <1>1, <1>2, <1>5, <1>7, SMTT(60) DEF IInv, ServersOK, ServersTyped, BuildersOwn, NoUseAfterClose
  <2>5. \A q \in Servers : sv'[q].close = "no" => ~sv'[q].reap
    BY <1>1, <1>4, <1>5, Zenon DEF IInv, ServersOK, ServersTyped, UnaskedAwake
  <2>6. \A u \in Threads : th'[u].pc = "stopClose" =>
          /\ th'[u].s \in Servers /\ sv'[th'[u].s].close # "no" /\ ~sv'[th'[u].s].reap
          /\ \A v \in Threads : v # u /\ th'[v].pc = "stopClose" => th'[v].s # th'[u].s
    BY <1>2, <1>4, <1>5, <1>7, SMTT(60) DEF IInv, ServersOK, ServersTyped, WaitersApart
  <2>7. QED BY <2>1, <2>2, <2>3, <2>4, <2>5, <2>6, Zenon DEF ServersOK,
      ServersTyped, NoUseAfterClose, HandlesApart, BuildersOwn, UnaskedAwake, WaitersApart
<1>9. QED BY <1>3, <1>6, <1>8, Zenon DEF IInv

\* The goroutines beside the calls.
LEMMA ServerSteps ==
  ASSUME Counted, IInv, NEW s \in Servers, ServeReturns(s) \/ CloseReturns(s) \/ Reap(s)
  PROVE  IInv'
<1>0. /\ DOMAIN hd = Handles /\ \A r \in Handles : DOMAIN hd[r] = HdFields
      /\ DOMAIN sv = Servers /\ \A q \in Servers : DOMAIN sv[q] = SvFields
  BY Zenon DEF IInv, ServersOK, ServersTyped
<1>1. UNCHANGED <<mu, closed, listeners, th>>
  BY Zenon DEF ServeReturns, CloseReturns, Reap
<1>2. LocksOK'
  BY <1>1 DEF IInv, LocksOK, ThreadOK, ClosedIsEmpty, Tracked, HoldsMu, Deleting, Closing, Pending
<1>3. CASE ServeReturns(s)
  <2>1. PICK failed \in BOOLEAN :
          hd' = IF hd[sv[s].owner].done = s
                THEN [hd EXCEPT ![sv[s].owner] =
                        [hd[sv[s].owner] EXCEPT !.err = failed, !.state = IF failed THEN "error" ELSE "stopped"]]
                ELSE hd
    BY <1>3, Zenon DEF ServeReturns
  <2>2. HandlesQuiet
    BY <1>0, <2>1, Zenon DEF HandlesQuiet, HdFields
  <2>3. ServersQuiet
    BY <1>0, <1>3, Zenon DEF ServeReturns, ServersQuiet, SvFields
  <2>4. \A u \in Threads : Quieter(u)
    BY <1>1, Zenon DEF Quieter
  <2>5. QED BY <1>2, <2>2, <2>3, <2>4, QuietStep, Zenon DEF IInv
<1>4. CASE CloseReturns(s)
  <2>1. /\ DOMAIN sv' = Servers /\ \A q \in Servers : q # s => sv'[q] = sv[q]
        /\ DOMAIN sv'[s] = SvFields /\ sv'[s].close = "returned" /\ sv'[s].reap = sv[s].reap
        /\ sv[s].close = "running" /\ hd' = hd /\ gauge' = gauge
    BY <1>0, <1>4, Zenon DEF CloseReturns, SvFields
  <2>2. GaugeExact'
    BY <2>1, GaugeSame, Zenon DEF IInv
  <2>3. ServersOK'
    <3>1. ServersTyped'
      BY <2>1, Zenon DEF IInv, ServersOK, ServersTyped
    <3>2. NoUseAfterClose' /\ HandlesApart'
      BY <2>1, Zenon DEF IInv, ServersOK, ServersTyped, NoUseAfterClose, HandlesApart
    <3>3. BuildersOwn'
      BY <1>1, <2>1, Zenon DEF IInv, ServersOK, BuildersOwn
    <3>4. UnaskedAwake'
      BY <2>1, Zenon DEF IInv, ServersOK, UnaskedAwake
    <3>5. WaitersApart'
      BY <1>1, <2>1, Zenon DEF IInv, ServersOK, WaitersApart
    <3>6. QED BY <3>1, <3>2, <3>3, <3>4, <3>5, Zenon DEF ServersOK
  <2>4. QED BY <1>2, <2>2, <2>3, Zenon DEF IInv
<1>5. CASE Reap(s)
  <2>1. /\ DOMAIN sv' = Servers /\ \A q \in Servers : q # s => sv'[q] = sv[q]
        /\ DOMAIN sv'[s] = SvFields /\ sv'[s].close = sv[s].close /\ sv'[s].reap = FALSE /\ hd' = hd
    BY <1>0, <1>5, Zenon DEF Reap, SvFields
  <2>r. sv[s].reap
    BY <1>5, Zenon DEF Reap
  <2>2. GaugeExact'
    BY <1>5, GaugeDown, Zenon DEF IInv, Reap
  <2>3. ServersOK'
    <3>1. /\ DOMAIN hd' = Handles /\ \A q \in Handles : DOMAIN hd'[q] = HdFields /\ hd'[q].srv \in Servers \cup {None}
         /\ DOMAIN sv' = Servers /\ \A q \in Servers : DOMAIN sv'[q] = SvFields /\ sv'[q].reap \in BOOLEAN
      BY <2>1, Zenon DEF IInv, ServersOK, ServersTyped
    <3>2. \A q \in Handles : hd'[q].srv # None => sv'[hd'[q].srv].close = "no"
      BY <2>1, Zenon DEF IInv, ServersOK, ServersTyped, NoUseAfterClose
    <3>3. \A p, q \in Handles : p # q /\ hd'[p].srv # None => hd'[p].srv # hd'[q].srv
      BY <2>1, Zenon DEF IInv, ServersOK, ServersTyped, HandlesApart
    <3>4. \A u \in Threads : th'[u].pc \in Own =>
            /\ th'[u].s \in Servers /\ sv'[th'[u].s].close = "no"
            /\ \A q \in Handles : hd'[q].srv # th'[u].s
            /\ \A v \in Threads : v # u /\ th'[v].pc \in Own => th'[v].s # th'[u].s
      BY <1>1, <2>1, Zenon DEF IInv, ServersOK, ServersTyped, BuildersOwn, NoUseAfterClose
    <3>5. \A q \in Servers : sv'[q].close = "no" => ~sv'[q].reap
      BY <2>1, Zenon DEF IInv, ServersOK, ServersTyped, UnaskedAwake
    <3>6. \A u \in Threads : th'[u].pc = "stopClose" =>
            /\ th'[u].s \in Servers /\ sv'[th'[u].s].close # "no" /\ ~sv'[th'[u].s].reap
            /\ \A v \in Threads : v # u /\ th'[v].pc = "stopClose" => th'[v].s # th'[u].s
      BY <1>1, <2>1, <2>r, Zenon DEF IInv, ServersOK, ServersTyped, WaitersApart
    <3>7. QED BY <3>1, <3>2, <3>3, <3>4, <3>5, <3>6, Zenon DEF ServersOK,
        ServersTyped, NoUseAfterClose, HandlesApart, BuildersOwn, UnaskedAwake, WaitersApart
  <2>4. QED BY <1>2, <2>2, <2>3, Zenon DEF IInv
<1>6. QED BY <1>3, <1>4, <1>5, Zenon

-----------------------------------------------------------------------------
(* The invariant *)

LEMMA InitOK ==
  ASSUME Counted, Init
  PROVE  IInv
<1> USE DEF Init
<1>1. Tracked = {}
  BY Zenon DEF Tracked
<1>2. LocksOK
  <2>1. \A t \in Threads : th[t] = Idle /\ t # None
    BY NoneAssumption, Zenon
  <2>2. \A t \in Threads : ThreadOK(th[t], t)
    BY <2>1, IdleFacts, Zenon DEF ThreadOK, HoldsMu, MuPcs, MuRets, Rets, Top, HandlePcs, CallPcs, Own
  <2>3. QED BY <1>1, <2>2, Zenon DEF LocksOK, ClosedIsEmpty
<1>3. \A r \in Handles : DOMAIN hd[r] = HdFields /\ hd[r].srv = None
  BY Zenon DEF NewHandle, HdFields
<1>4. \A s \in Servers : DOMAIN sv[s] = SvFields /\ sv[s].close = "returned" /\ sv[s].reap = FALSE
  BY Zenon DEF Retired, SvFields
<1>5. \A t \in Threads : th[t].pc \notin Own \cup {"stopClose"}
  BY IdleFacts, Zenon DEF Own
<1>6. ServersOK
  BY <1>3, <1>4, <1>5, Zenon DEF ServersOK,
      ServersTyped, NoUseAfterClose, HandlesApart, BuildersOwn, UnaskedAwake, WaitersApart
<1>7. {s \in Servers : sv[s].reap} = {}
  BY <1>4, Zenon
<1>8. GaugeExact
  BY <1>7, Zenon DEF GaugeExact, Counted
<1>9. QED BY <1>2, <1>6, <1>8, Zenon DEF IInv

LEMMA Unchanged == IInv /\ UNCHANGED vars => IInv'
<1> SUFFICES ASSUME IInv, UNCHANGED vars PROVE IInv'
  BY Zenon
<1> USE DEF vars, IInv
<1>1. LocksOK'
  BY DEF LocksOK, ThreadOK, ClosedIsEmpty, Tracked, HoldsMu, Deleting, Closing, Pending
<1>2. ServersOK' /\ GaugeExact'
  BY Zenon DEF ServersOK,
      ServersTyped, NoUseAfterClose, HandlesApart, BuildersOwn, UnaskedAwake, WaitersApart, GaugeExact
<1>3. QED BY <1>1, <1>2, Zenon

LEMMA EditOK ==
  ASSUME IInv, NEW n \in Names, NEW c \in Configs \cup {None}, Edit(n, c)
  PROVE  IInv'
<1> USE DEF Edit, IInv
<1>1. LocksOK'
  BY DEF LocksOK, ThreadOK, ClosedIsEmpty, Tracked, HoldsMu, Deleting, Closing, Pending
<1>2. ServersOK' /\ GaugeExact'
  BY Zenon DEF ServersOK,
      ServersTyped, NoUseAfterClose, HandlesApart, BuildersOwn, UnaskedAwake, WaitersApart, GaugeExact
<1>3. QED BY <1>1, <1>2, Zenon

LEMMA StepOK ==
  ASSUME Counted
  PROVE  IInv /\ [Next]_vars => IInv'
<1> SUFFICES ASSUME IInv, [Next]_vars PROVE IInv'
  BY Zenon
<1>1. ASSUME NEW t \in Threads, Call(t) PROVE IInv'
  BY <1>1, CallSteps, LockSteps, Zenon DEF Call
<1>2. ASSUME NEW t \in Threads, LockStep(t) PROVE IInv'
  <2>1. CASE StopLock(t)
    BY <2>1, CaptureOK, Zenon DEF StopLock, At, CallPcs, Own
  <2>2. QED BY <1>2, <2>1, QuietCallSteps, CallSteps, LockSteps, Zenon DEF LockStep
<1>3. ASSUME NEW t \in Threads, WorkStep(t) PROVE IInv'
  <2>1. CASE RebuildStop(t)
    BY <2>1, CaptureOK, Zenon DEF RebuildStop, At, CallPcs, Own
  <2>2. CASE \/ StopClosed(t) \/ StopHost(t) \/ StopForget(t) \/ StartDisabled(t) \/ StartBuilding(t)
             \/ ConstructFails(t) \/ HostApply(t) \/ CloseFailed(t) \/ Persist(t)
    BY <2>2, QuietCallSteps, Zenon
  <2>3. CASE StopAbandon(t) \/ Construct(t) \/ HostApplyFails(t) \/ Publish(t)
    BY <2>3, StopAbandonOK, ConstructOK, HostApplyFailsOK, PublishOK, Zenon
  <2>4. CASE \/ \E n \in Names : ApplyStop(t, n) \/ ApplyRebuild(t, n) \/ ApplyKeep(t, n)
             \/ \E n \in Names, r \in Handles : ApplyBuild(t, n, r)
             \/ \E n \in Names : CloseStop(t, n)
    BY <2>4, ScanSteps, Zenon
  <2>5. CASE \/ ApplyRemoved(t) \/ ApplyBuilt(t) \/ ApplyDone(t)
             \/ StopDelete(t) \/ CloseDelete(t) \/ CloseDone(t)
    BY <2>5, LockSteps, Zenon
  <2>6. CASE ApplyDisabled(t)
    BY <2>6, CallSteps, Zenon
  <2>7. QED BY <1>3, <2>1, <2>2, <2>3, <2>4, <2>5, <2>6, Zenon DEF WorkStep
<1>4. ASSUME NEW s \in Servers, ServeReturns(s) \/ CloseReturns(s) \/ Reap(s) PROVE IInv'
  BY <1>4, ServerSteps, Zenon
<1>5. ASSUME NEW n \in Names, NEW c \in Configs \cup {None}, Edit(n, c) PROVE IInv'
  BY <1>5, EditOK, Zenon
<1>6. QED BY <1>1, <1>2, <1>3, <1>4, <1>5, Unchanged, Zenon DEF Next

-----------------------------------------------------------------------------
(* Types *)

\* A call that is to show its listener as disabled has a config for it.
Snapped(x) == "applyDisabled" \in {x.pc, x.ret} => x.n \in Names /\ x.snap[x.n] \in Configs
ThreadsTyped == th \in [Threads -> ThreadState] /\ \A t \in Threads : Snapped(th[t])
Typed == TypeOK /\ ThreadsTyped

LEMMA ConfigFields == \A c \in AnyConfig : c.enabled \in BOOLEAN /\ c.nat \in BOOLEAN
<1>1. ZeroConfig.enabled = FALSE /\ ZeroConfig.nat = FALSE
  BY Zenon DEF ZeroConfig
<1>2. QED BY <1>1, ConfigsAssumption, Zenon DEF AnyConfig

LEMMA IdleTyped == Idle \in ThreadState /\ Snapped(Idle)
<1>1. /\ Idle.pc = "idle" /\ Idle.ret = "idle" /\ ZeroConfig \in AnyConfig
      /\ [n \in Names |-> None] \in [Names -> Configs \cup {None}]
  BY Zenon DEF Idle, AnyConfig
<1>2. QED BY <1>1, Zenon DEF Idle, ThreadState, Snapped

LEMMA ThreadMoves ==
  ASSUME Typed, NEW t \in Threads, NEW x \in ThreadState, Snapped(x), th' = [th EXCEPT ![t] = x]
  PROVE  ThreadsTyped'
<1>1. th \in [Threads -> ThreadState]
  BY Zenon DEF Typed, TypeOK
<1>2. th'[t] = x /\ \A u \in Threads : u # t => th'[u] = th[u]
  BY <1>1, Zenon
<1>3. QED BY <1>1, <1>2, Zenon DEF Typed, ThreadsTyped

\* A step of a call to the place p.
LEMMA PcTyped ==
  ASSUME Typed, NEW t \in Threads, NEW p \in {"stopHost", "stopForget", "construct", "closeFailed", "persist", "publish", "stopLock"},
         th' = [th EXCEPT ![t].pc = p] 
  PROVE  ThreadsTyped'
<1> DEFINE x == [th[t] EXCEPT !.pc = p]
<1>1. th[t] \in ThreadState /\ Snapped(th[t]) /\ th \in [Threads -> ThreadState]
  BY Zenon DEF Typed, TypeOK, ThreadsTyped
<1>2. x \in ThreadState
  BY <1>1, Zenon DEF ThreadState
<1>3. x.pc = p /\ x.ret = th[t].ret /\ x.n = th[t].n /\ x.snap = th[t].snap
  BY <1>1, Zenon DEF ThreadState
<1>4. Snapped(x)
  BY <1>1, <1>3, Zenon DEF Snapped
<1>5. th' = [th EXCEPT ![t] = x]
  BY <1>1, Zenon
<1>6. QED BY <1>2, <1>4, <1>5, ThreadMoves, Zenon

LEMMA ReturnedTyped ==
  ASSUME Typed, NEW t \in Threads, th' = [th EXCEPT ![t] = Returned(t)]
  PROVE  ThreadsTyped'
<1> DEFINE back == [th[t] EXCEPT !.pc = th[t].ret, !.ret = "idle", !.rb = FALSE,
                                 !.cfg = ZeroConfig, !.s = None, !.nat = FALSE]
<1>1. th[t] \in ThreadState /\ Snapped(th[t]) /\ ZeroConfig \in AnyConfig
  BY Zenon DEF Typed, TypeOK, ThreadsTyped, AnyConfig
<1>2. /\ back \in ThreadState /\ back.pc = th[t].ret /\ back.ret = "idle"
      /\ back.n = th[t].n /\ back.snap = th[t].snap
  <2>1. back.pc = th[t].ret /\ back.ret = "idle" /\ back.n = th[t].n /\ back.snap = th[t].snap
    BY <1>1, Zenon DEF ThreadState
  <2>2. [th[t] EXCEPT !.pc = th[t].ret] \in ThreadState
    BY <1>1, Zenon DEF ThreadState
  <2>3. \A x \in ThreadState : [x EXCEPT !.ret = "idle", !.rb = FALSE] \in ThreadState
    BY Zenon DEF ThreadState
  <2>4. \A x \in ThreadState : [x EXCEPT !.cfg = ZeroConfig, !.s = None, !.nat = FALSE] \in ThreadState
    BY <1>1, ZenonT(40) DEF ThreadState
  <2>5. back = [[[th[t] EXCEPT !.pc = th[t].ret] EXCEPT !.ret = "idle", !.rb = FALSE]
                   EXCEPT !.cfg = ZeroConfig, !.s = None, !.nat = FALSE]
    BY Zenon
  <2> HIDE DEF back
  <2>6. QED BY <2>1, <2>2, <2>3, <2>4, <2>5, Zenon
<1>3. Snapped(back)
  BY <1>1, <1>2, Zenon DEF Snapped
<1> HIDE DEF back
<1>4. [back EXCEPT !.n = None, !.r = None] \in ThreadState
  BY <1>2, Zenon DEF ThreadState
<1>5. th[t].ret = "applyScan" => Snapped([back EXCEPT !.n = None, !.r = None])
  BY <1>2, Zenon DEF Snapped, ThreadState
<1>6. Returned(t) \in ThreadState /\ Snapped(Returned(t))
  BY <1>2, <1>3, <1>4, <1>5, IdleTyped, Zenon DEF Returned, back
<1>7. QED BY <1>6, ThreadMoves, Zenon

LEMMA HandleMoves ==
  ASSUME TypeOK, NEW r \in Handles, NEW h \in HandleState, hd' = [hd EXCEPT ![r] = h]
  PROVE  hd' \in [Handles -> HandleState]
BY Zenon DEF TypeOK

LEMMA ServerMoves ==
  ASSUME TypeOK, NEW s \in Servers, NEW w \in ServerState, sv' = [sv EXCEPT ![s] = w]
  PROVE  sv' \in [Servers -> ServerState]
BY Zenon DEF TypeOK

\* The two ends of a call.
LEMMA StopReturnsTyped ==
  ASSUME Typed, NEW t \in Threads, th[t].r \in Handles, StopReturns(t)
  PROVE  /\ ThreadsTyped'
         /\ hd' \in [Handles -> HandleState]
<1>1. th[t] \in ThreadState /\ Snapped(th[t]) /\ hd \in [Handles -> HandleState]
  BY Zenon DEF Typed, TypeOK, ThreadsTyped
<1>2. CASE th[t].rb
  <2> DEFINE x == [th[t] EXCEPT !.pc = "start", !.s = None, !.nat = FALSE]
  <2>1. th' = [th EXCEPT ![t] = x] /\ hd' = hd
    BY <1>2, Zenon DEF StopReturns
  <2>2. x \in ThreadState /\ x.pc = "start" /\ x.ret = th[t].ret /\ x.n = th[t].n /\ x.snap = th[t].snap
    BY <1>1, Zenon DEF ThreadState
  <2> HIDE DEF x
  <2>3. Snapped(x)
    BY <1>1, <2>2, Zenon DEF Snapped
  <2>4. QED BY <1>1, <2>1, <2>2, <2>3, ThreadMoves, Zenon
<1>3. CASE ~th[t].rb
  <2>1. th' = [th EXCEPT ![t] = Returned(t)] /\ hd' = [hd EXCEPT ![th[t].r].buildMu = None]
    BY <1>3, Zenon DEF StopReturns
  <2>2. hd' \in [Handles -> HandleState]
    BY <1>1, <2>1, ZenonT(40) DEF HandleState
  <2>3. QED BY <2>1, <2>2, ReturnedTyped, Zenon
<1>4. QED BY <1>2, <1>3, Zenon

LEMMA StartReturnsTyped ==
  ASSUME Typed, NEW t \in Threads, th[t].r \in Handles, NEW h \in HandleState, StartReturns(t, h)
  PROVE  /\ ThreadsTyped'
         /\ hd' \in [Handles -> HandleState]
<1>1. [h EXCEPT !.buildMu = IF th[t].rb THEN None ELSE @] \in HandleState
  BY Zenon DEF HandleState
<1>2. QED BY <1>1, HandleMoves, ReturnedTyped, Zenon DEF StartReturns, Typed

LEMMA SetStateTyped ==
  ASSUME Typed, NEW t \in Threads, th[t].r \in Handles, NEW state \in {"error", "disabled"}, NEW err \in BOOLEAN
  PROVE  SetState(t, state, err) \in HandleState
<1>1. hd[th[t].r] \in HandleState /\ th[t].cfg \in AnyConfig
  BY Zenon DEF Typed, TypeOK, ThreadState
<1>2. QED BY <1>1, Zenon DEF SetState, HandleState

\* A call moves on: what every field of its locals may become.
LEMMA MovesTyped ==
  ASSUME Typed, NEW t \in Threads, NEW x, th' = [th EXCEPT ![t] = x], x \in ThreadState,
         x.pc # "applyDisabled", x.ret # "applyDisabled"
  PROVE  ThreadsTyped'
BY ThreadMoves, Zenon DEF Snapped

\* A call begins.
LEMMA CallTyped ==
  ASSUME Typed, IInv, NEW t \in Threads, Call(t)
  PROVE  ThreadsTyped'
<1>1. /\ th[t] \in ThreadState /\ disk \in [Names -> Configs \cup {None}]
      /\ listeners \in [Names -> Handles \cup {None}]
  BY Zenon DEF Typed, TypeOK
<1>2. CASE ApplyLoad(t)
  <2> DEFINE x == [th[t] EXCEPT !.pc = "applyLock", !.snap = disk]
  <2>1. th' = [th EXCEPT ![t] = x] /\ th[t].pc = "idle"
    BY <1>2, Zenon DEF ApplyLoad, At
  <2>2. th[t].ret = "idle"
    BY <2>1, Zenon DEF IInv, LocksOK, ThreadOK, Top, Rets
  <2>3. x \in ThreadState /\ x.pc = "applyLock" /\ x.ret = th[t].ret
    BY <1>1, Zenon DEF ThreadState
  <2> HIDE DEF x
  <2>4. QED BY <2>1, <2>2, <2>3, MovesTyped, Zenon
<1>3. CASE Close(t)
  <2> DEFINE x == [th[t] EXCEPT !.pc = "closeScan", !.todo = Tracked]
  <2>1. th' = [th EXCEPT ![t] = x] /\ th[t].pc = "idle"
    BY <1>3, Zenon DEF Close, At
  <2>2. th[t].ret = "idle"
    BY <2>1, Zenon DEF IInv, LocksOK, ThreadOK, Top, Rets
  <2>3. x \in ThreadState /\ x.pc = "closeScan" /\ x.ret = th[t].ret
    BY <1>1, Zenon DEF ThreadState, Tracked
  <2> HIDE DEF x
  <2>4. QED BY <2>1, <2>2, <2>3, MovesTyped, Zenon
<1>4. ASSUME NEW n \in Names, Rebuild(t, n)
      PROVE  ThreadsTyped'
  <2> DEFINE v1 == [th[t] EXCEPT !.pc = "rebuildLock"]
             v2 == [v1 EXCEPT !.ret = "rebuildCheck"]
             x == [v2 EXCEPT !.n = n, !.r = listeners[n], !.cfg = disk[n]]
  <2>1. th' = [th EXCEPT ![t] = x] /\ disk[n] \in AnyConfig /\ listeners[n] \in Handles \cup {None}
    BY <1>1, <1>4, Zenon DEF Rebuild, AnyConfig
  <2>2. v1 \in ThreadState /\ v1.pc = "rebuildLock" /\ v1.ret = th[t].ret
    BY <1>1, <2>1, Zenon DEF ThreadState
  <2> HIDE DEF v1
  <2>3. v2 \in ThreadState /\ v2.pc = "rebuildLock" /\ v2.ret = "rebuildCheck"
    BY <1>1, <2>1, <2>2, Zenon DEF ThreadState
  <2> HIDE DEF v2
  <2>4. x \in ThreadState /\ x.pc = "rebuildLock" /\ x.ret = "rebuildCheck"
    BY <1>1, <2>1, <2>3, Zenon DEF ThreadState
  <2> HIDE DEF x
  <2>5. QED BY <2>1, <2>4, MovesTyped, Zenon
<1>5. ASSUME NEW n \in Names, Stop(t, n)
      PROVE  ThreadsTyped'
  <2> DEFINE v1 == [th[t] EXCEPT !.pc = "stopLock"]
             v2 == [v1 EXCEPT !.ret = "stopDelete"]
             x == [v2 EXCEPT !.n = n, !.r = listeners[n]]
  <2>1. th' = [th EXCEPT ![t] = x] /\ listeners[n] \in Handles \cup {None}
    BY <1>1, <1>5, Zenon DEF Stop
  <2>2. v1 \in ThreadState /\ v1.pc = "stopLock" /\ v1.ret = th[t].ret
    BY <1>1, <2>1, Zenon DEF ThreadState
  <2> HIDE DEF v1
  <2>3. v2 \in ThreadState /\ v2.pc = "stopLock" /\ v2.ret = "stopDelete"
    BY <1>1, <2>1, <2>2, ZenonT(40) DEF ThreadState
  <2> HIDE DEF v2
  <2>4. x \in ThreadState /\ x.pc = "stopLock" /\ x.ret = "stopDelete"
    BY <1>1, <2>1, <2>3, Zenon DEF ThreadState
  <2> HIDE DEF x
  <2>5. QED BY <2>1, <2>4, MovesTyped, Zenon
<1>6. QED BY <1>2, <1>3, <1>4, <1>5, Zenon DEF Call

\* A call's place changes, and with it neither the config to show nor the listener.
LEMMA PlaceTyped ==
  ASSUME Typed, NEW t \in Threads, NEW x \in ThreadState, th' = [th EXCEPT ![t] = x],
         x.pc # "applyDisabled", x.ret = th[t].ret, x.n = th[t].n, x.snap = th[t].snap
  PROVE  ThreadsTyped'
<1>1. Snapped(th[t])
  BY Zenon DEF Typed, ThreadsTyped
<1>2. Snapped(x)
  BY <1>1, Zenon DEF Snapped
<1>3. QED BY <1>2, ThreadMoves, Zenon

\* The teardown's first section.
LEMMA CaptureTyped ==
  ASSUME Typed, NEW t \in Threads, th[t].r \in Handles, Capture(t)
  PROVE  Typed'
<1> DEFINE r == th[t].r
           s == hd[r].srv
           v == [th[t] EXCEPT !.s = s, !.nat = hd[r].cfg.nat]
           p == IF s = None THEN "stopHost" ELSE "stopClose"
           x == [v EXCEPT !.pc = p]
           g == [hd[r] EXCEPT !.srv = None, !.done = None, !.buildMu = t]
           h == [g EXCEPT !.state = IF @ = "building" THEN @ ELSE "stopped"]
<1>1. th[t] \in ThreadState /\ hd[r] \in HandleState /\ hd[r].cfg \in AnyConfig /\ s \in Servers \cup {None}
  BY Zenon DEF Typed, TypeOK, HandleState
<1>2. hd[r].cfg.nat \in BOOLEAN
  BY <1>1, ConfigFields, Zenon
<1>3. th' = [th EXCEPT ![t] = x] /\ hd' = [hd EXCEPT ![r] = h]
  BY Zenon DEF Capture
<1>4. v \in ThreadState /\ v.ret = th[t].ret /\ v.n = th[t].n /\ v.snap = th[t].snap
  BY <1>1, <1>2, Zenon DEF ThreadState
<1>5. p \in {"stopHost", "stopClose"}
  BY Zenon
<1>6. g \in HandleState
  BY <1>1, Zenon DEF HandleState
<1> HIDE DEF v, p, g
<1>7. x \in ThreadState /\ x.pc = p /\ x.ret = th[t].ret /\ x.n = th[t].n /\ x.snap = th[t].snap
  BY <1>4, <1>5, Zenon DEF ThreadState
<1>8. h \in HandleState
  BY <1>6, Zenon DEF HandleState
<1> HIDE DEF x, h
<1>9. ThreadsTyped'
  BY <1>3, <1>5, <1>7, PlaceTyped, Zenon
<1>10. hd' \in [Handles -> HandleState]
  BY <1>3, <1>8, HandleMoves, Zenon DEF Typed
<1>11. sv' \in [Servers -> ServerState]
  <2>1. CASE s = None
    BY <2>1, Zenon DEF Capture, Typed, TypeOK
  <2>2. CASE s # None
    <3>1. sv' = [sv EXCEPT ![s].close = "running"]
      BY <2>2, Zenon DEF Capture
    <3>2. QED BY <3>1, ZenonT(40) DEF Typed, TypeOK, ServerState
  <2>3. QED BY <2>1, <2>2, Zenon
<1>12. QED BY <1>9, <1>10, <1>11, Zenon DEF Typed, TypeOK, ThreadsTyped, Capture, host

LEMMA StopTyped ==
  ASSUME Typed, IInv, NEW t \in Threads,
         StopLock(t) \/ RebuildStop(t) \/ StopClosed(t) \/ StopAbandon(t) \/ StopHost(t) \/ StopForget(t)
  PROVE  Typed'
<1>1. th[t].pc \in {"stopLock", "rebuildStop", "stopHost", "stopForget"} => th[t].r \in Handles
  BY Zenon DEF IInv, LocksOK, ThreadOK, HandlePcs, CallPcs
<1>2. CASE StopLock(t) \/ RebuildStop(t)
  BY <1>1, <1>2, CaptureTyped, Zenon DEF StopLock, RebuildStop, At
<1>3. CASE StopClosed(t)
  <2>1. ThreadsTyped'
    BY <1>3, PcTyped, Zenon DEF StopClosed
  <2>2. QED BY <1>3, <2>1, Zenon DEF StopClosed, Typed, TypeOK, ThreadsTyped, host
<1>4. CASE StopAbandon(t)
  <2>1. ThreadsTyped'
    BY <1>4, PcTyped, Zenon DEF StopAbandon
  <2>2. sv' \in [Servers -> ServerState]
    BY <1>4, ZenonT(40) DEF StopAbandon, Typed, TypeOK, ServerState
  <2>3. gauge' \in Int
    BY <1>4 DEF StopAbandon, Typed, TypeOK
  <2>4. QED BY <1>4, <2>1, <2>2, <2>3, Zenon DEF StopAbandon, Typed, TypeOK, ThreadsTyped, host
<1>5. CASE StopHost(t)
  <2>1. th[t] \in ThreadState /\ th[t].r \in Handles /\ th[t].nat \in BOOLEAN /\ rules \in [Names -> SUBSET Servers]
    BY <1>1, <1>5, Zenon DEF StopHost, At, Typed, TypeOK, ThreadState
  <2>2. CASE th[t].nat
    <3>1. ThreadsTyped' /\ hd' = hd
      BY <1>5, <2>2, PcTyped, Zenon DEF StopHost
    <3>2. rules' \in [Names -> SUBSET Servers]
      BY <1>5, <2>1, <2>2, Zenon DEF StopHost
    <3>3. QED BY <1>5, <3>1, <3>2, Zenon DEF StopHost, Typed, TypeOK, ThreadsTyped
  <2>3. CASE ~th[t].nat
    <3>1. ThreadsTyped' /\ hd' \in [Handles -> HandleState] /\ rules' = rules
      BY <1>5, <2>1, <2>3, StopReturnsTyped, Zenon DEF StopHost
    <3>2. QED BY <1>5, <3>1, Zenon DEF StopHost, Typed, TypeOK, ThreadsTyped
  <2>4. QED BY <2>2, <2>3, Zenon
<1>6. CASE StopForget(t)
  <2>1. ThreadsTyped' /\ hd' \in [Handles -> HandleState]
    BY <1>1, <1>6, StopReturnsTyped, Zenon DEF StopForget, At
  <2>2. record' \in [Names -> Servers \cup {None}]
    BY <1>6, Zenon DEF StopForget, Typed, TypeOK
  <2>3. QED BY <1>6, <2>1, <2>2, Zenon DEF StopForget, Typed, TypeOK, ThreadsTyped
<1>7. QED BY <1>2, <1>3, <1>4, <1>5, <1>6, Zenon

LEMMA StartTyped ==
  ASSUME Typed, IInv, NEW t \in Threads,
         StartDisabled(t) \/ StartBuilding(t) \/ ConstructFails(t) \/ CloseFailed(t) \/ Publish(t)
  PROVE  Typed'
<1>1. th[t].r \in Handles
  BY Zenon DEF IInv, LocksOK, ThreadOK, HandlePcs, CallPcs, Own, StartDisabled, StartBuilding, ConstructFails, CloseFailed,
         Publish, At
<1>2. CASE StartDisabled(t)
  <2>1. SetState(t, "disabled", FALSE) \in HandleState
    BY <1>1, SetStateTyped, Zenon
  <2>2. ThreadsTyped' /\ hd' \in [Handles -> HandleState]
    BY <1>1, <1>2, <2>1, StartReturnsTyped, Zenon DEF StartDisabled
  <2>3. QED BY <1>2, <2>2, Zenon DEF StartDisabled, Typed, TypeOK, ThreadsTyped, host
<1>3. CASE ConstructFails(t) \/ CloseFailed(t)
  <2>1. SetState(t, "error", TRUE) \in HandleState
    BY <1>1, SetStateTyped, Zenon
  <2>2. ThreadsTyped' /\ hd' \in [Handles -> HandleState]
    BY <1>1, <1>3, <2>1, StartReturnsTyped, Zenon DEF ConstructFails, CloseFailed
  <2>3. QED BY <1>3, <2>2, Zenon DEF ConstructFails, CloseFailed, Typed, TypeOK, ThreadsTyped, host
<1>4. CASE StartBuilding(t)
  <2>1. ThreadsTyped'
    BY <1>4, PcTyped, Zenon DEF StartBuilding
  <2>2. hd' \in [Handles -> HandleState]
    <3>1. hd[th[t].r] \in HandleState
      BY <1>1, Zenon DEF Typed, TypeOK
    <3>2. [hd[th[t].r] EXCEPT !.state = "building"] \in HandleState
      BY <3>1, Zenon DEF HandleState
    <3>3. hd' = [hd EXCEPT ![th[t].r] = [hd[th[t].r] EXCEPT !.state = "building"]]
      BY <1>4, Zenon DEF StartBuilding, Typed, TypeOK
    <3>4. QED BY <1>1, <3>2, <3>3, HandleMoves, Zenon DEF Typed
  <2>3. QED BY <1>4, <2>1, <2>2, Zenon DEF StartBuilding, Typed, TypeOK, ThreadsTyped, host
<1>5. CASE Publish(t)
  <2> DEFINE g == [hd[th[t].r] EXCEPT !.cfg = th[t].cfg, !.srv = th[t].s, !.done = th[t].s]
             h == [g EXCEPT !.state = "running", !.err = FALSE]
  <2>1. /\ hd[th[t].r] \in HandleState /\ th[t].cfg \in AnyConfig /\ th[t].s \in Servers \cup {None}
        /\ th[t].r \in Handles \cup {None}
    BY <1>1, Zenon DEF Typed, TypeOK, ThreadState
  <2>2. StartReturns(t, h)
    BY <1>5, Zenon DEF Publish
  <2>3. g \in HandleState
    BY <2>1, Zenon DEF HandleState
  <2> HIDE DEF g
  <2>4. h \in HandleState
    BY <2>3, Zenon DEF HandleState
  <2> HIDE DEF h
  <2>5. ThreadsTyped' /\ hd' \in [Handles -> HandleState]
    BY <1>1, <2>2, <2>4, StartReturnsTyped, Zenon
  <2>6. sv' \in [Servers -> ServerState]
    BY <1>5, <2>1, ZenonT(40) DEF Publish, Typed, TypeOK, ServerState
  <2>7. QED BY <1>5, <2>5, <2>6, Zenon DEF Publish, Typed, TypeOK, ThreadsTyped, host
<1>6. QED BY <1>2, <1>3, <1>4, <1>5, Zenon

LEMMA BuildTyped ==
  ASSUME Typed, IInv, NEW t \in Threads,
         Construct(t) \/ HostApply(t) \/ HostApplyFails(t) \/ Persist(t)
  PROVE  Typed'
<1>1. /\ th[t] \in ThreadState /\ sv \in [Servers -> ServerState] /\ rules \in [Names -> SUBSET Servers]
      /\ record \in [Names -> Servers \cup {None}] /\ th[t].s \in Servers \cup {None}
  BY Zenon DEF Typed, TypeOK, ThreadState
<1>2. CASE Construct(t)
  <2>1. PICK s \in Servers :
          /\ sv' = [sv EXCEPT ![s].close = "no"]
          /\ th' = [th EXCEPT ![t] = [th[t] EXCEPT !.s = s, !.pc = IF th[t].cfg.nat THEN "hostApply" ELSE "publish"]]
    BY <1>2, Zenon DEF Construct
  <2> DEFINE p == IF th[t].cfg.nat THEN "hostApply" ELSE "publish"
             v == [th[t] EXCEPT !.s = s]
             x == [v EXCEPT !.pc = p]
  <2>2. th' = [th EXCEPT ![t] = x]
    BY <2>1, Zenon
  <2>3. p \in {"hostApply", "publish"}
    BY Zenon
  <2>4. v \in ThreadState /\ v.ret = th[t].ret /\ v.n = th[t].n /\ v.snap = th[t].snap
    BY <1>1, Zenon DEF ThreadState
  <2> HIDE DEF v, p
  <2>5. x \in ThreadState /\ x.pc = p /\ x.ret = th[t].ret /\ x.n = th[t].n /\ x.snap = th[t].snap
    BY <2>3, <2>4, Zenon DEF ThreadState
  <2> HIDE DEF x
  <2>6. ThreadsTyped'
    BY <2>2, <2>3, <2>5, PlaceTyped, Zenon
  <2>7. sv' \in [Servers -> ServerState]
    BY <1>1, <2>1, ZenonT(40) DEF ServerState
  <2>8. QED BY <1>2, <2>6, <2>7, Zenon DEF Construct, Typed, TypeOK, ThreadsTyped, host
<1>3. CASE HostApply(t)
  <2>1. PICK wan \in BOOLEAN :
          /\ rules' = IF wan THEN [rules EXCEPT ![th[t].n] = @ \cup {th[t].s}] ELSE rules
          /\ sv' = [sv EXCEPT ![th[t].s].nat = wan]
    BY <1>3, Zenon DEF HostApply
  <2>2. th[t].s \in Servers
    BY <1>3, Zenon DEF HostApply, At, IInv, ServersOK, BuildersOwn, Own
  <2>3. rules' \in [Names -> SUBSET Servers]
    BY <1>1, <2>1, <2>2, Zenon
  <2>4. sv' \in [Servers -> ServerState]
    BY <1>1, <2>1, ZenonT(40) DEF ServerState
  <2>5. ThreadsTyped'
    BY <1>3, PcTyped, Zenon DEF HostApply
  <2>6. QED BY <1>3, <2>3, <2>4, <2>5, Zenon DEF HostApply, Typed, TypeOK, ThreadsTyped
<1>4. CASE HostApplyFails(t)
  <2>1. ThreadsTyped'
    BY <1>4, PcTyped, Zenon DEF HostApplyFails
  <2>2. sv' \in [Servers -> ServerState]
    BY <1>1, <1>4, ZenonT(40) DEF HostApplyFails, ServerState
  <2>3. QED BY <1>4, <2>1, <2>2, Zenon DEF HostApplyFails, Typed, TypeOK, ThreadsTyped, host
<1>5. CASE Persist(t)
  <2>1. ThreadsTyped'
    BY <1>5, PcTyped, Zenon DEF Persist
  <2>2. record' \in [Names -> Servers \cup {None}]
    BY <1>1, <1>5, Zenon DEF Persist
  <2>3. QED BY <1>5, <2>1, <2>2, Zenon DEF Persist, Typed, TypeOK, ThreadsTyped
<1>6. QED BY <1>2, <1>3, <1>4, <1>5, Zenon

\* The goroutines the Manager launches, and the directory.
LEMMA GoroutinesTyped ==
  ASSUME Typed,
         \/ \E s \in Servers : ServeReturns(s) \/ CloseReturns(s) \/ Reap(s)
         \/ \E n \in Names, c \in Configs \cup {None} : Edit(n, c)
  PROVE  Typed'
<1>1. sv \in [Servers -> ServerState] /\ hd \in [Handles -> HandleState] /\ disk \in [Names -> Configs \cup {None}]
  BY Zenon DEF Typed, TypeOK
<1>2. ASSUME NEW s \in Servers, ServeReturns(s)
      PROVE  Typed'
  <2> DEFINE r == sv[s].owner
  <2>1. PICK failed \in BOOLEAN :
          hd' = IF hd[r].done = s
                THEN [hd EXCEPT ![r] = [hd[r] EXCEPT !.err = failed, !.state = IF failed THEN "error" ELSE "stopped"]]
                ELSE hd
    BY <1>2, Zenon DEF ServeReturns
  <2>2. r \in Handles => [hd[r] EXCEPT !.err = failed, !.state = IF failed THEN "error" ELSE "stopped"] \in HandleState
    <3> DEFINE g == [hd[r] EXCEPT !.err = failed]
               p == IF failed THEN "error" ELSE "stopped"
    <3>1. SUFFICES ASSUME r \in Handles
                   PROVE  [g EXCEPT !.state = p] \in HandleState
      BY Zenon
    <3>2. g \in HandleState
      <4>1. hd[r] \in HandleState
        BY <1>1, <3>1, Zenon
      <4>2. [hd[r] EXCEPT !.err = TRUE] \in HandleState /\ [hd[r] EXCEPT !.err = FALSE] \in HandleState
        BY <4>1, Zenon DEF HandleState
      <4>3. QED BY <4>2, Zenon
    <3>3. p \in {"error", "stopped"}
      BY Zenon
    <3> HIDE DEF g, p
    <3>4. QED BY <3>2, <3>3, Zenon DEF HandleState
  <2>3. hd' \in [Handles -> HandleState]
    BY <1>1, <2>1, <2>2, Zenon
  <2>4. sv' \in [Servers -> ServerState]
    BY <1>1, <1>2, ZenonT(40) DEF ServeReturns, ServerState
  <2>5. QED BY <1>2, <2>3, <2>4, Zenon DEF ServeReturns, Typed, TypeOK, ThreadsTyped, host
<1>3. ASSUME NEW s \in Servers, CloseReturns(s)
      PROVE  Typed'
  <2>1. sv' \in [Servers -> ServerState]
    BY <1>1, <1>3, Zenon DEF CloseReturns, ServerState
  <2>2. QED BY <1>3, <2>1, Zenon DEF CloseReturns, Typed, TypeOK, ThreadsTyped, host
<1>4. ASSUME NEW s \in Servers, Reap(s)
      PROVE  Typed'
  <2>1. sv' \in [Servers -> ServerState]
    BY <1>1, <1>4, ZenonT(40) DEF Reap, ServerState
  <2>2. gauge' \in Int
    BY <1>4 DEF Reap, Typed, TypeOK
  <2>3. QED BY <1>4, <2>1, <2>2, Zenon DEF Reap, Typed, TypeOK, ThreadsTyped, host
<1>5. ASSUME NEW n \in Names, NEW c \in Configs \cup {None}, Edit(n, c)
      PROVE  Typed'
  <2>1. disk' \in [Names -> Configs \cup {None}]
    BY <1>1, <1>5, Zenon DEF Edit
  <2>2. QED BY <1>5, <2>1, Zenon DEF Edit, Typed, TypeOK, ThreadsTyped, host
<1>6. QED BY <1>2, <1>3, <1>4, <1>5, Zenon

LEMMA CallsTyped ==
  ASSUME Typed, IInv, NEW t \in Threads, Call(t)
  PROVE  Typed'
<1>1. ThreadsTyped'
  BY CallTyped, Zenon
<1>2. CASE ApplyLoad(t) \/ \E n \in Names : Rebuild(t, n)
  BY <1>1, <1>2, Zenon DEF ApplyLoad, Rebuild, Typed, TypeOK, ThreadsTyped, host
<1>3. CASE Close(t) \/ \E n \in Names : Stop(t, n)
  BY <1>1, <1>3, Zenon DEF Close, Stop, Typed, TypeOK, ThreadsTyped, host
<1>4. QED BY <1>2, <1>3, Zenon DEF Call

\* Back to Idle: a call has returned.
LEMMA IdleAgain ==
  ASSUME Typed, NEW t \in Threads, th' = [th EXCEPT ![t] = Idle]
  PROVE  ThreadsTyped'
BY IdleTyped, ThreadMoves, Zenon

LEMMA LookTyped ==
  ASSUME Typed, IInv, NEW t \in Threads, RebuildLock(t) \/ RebuildCheck(t) \/ ApplyLock(t)
  PROVE  Typed'
<1>1. th[t] \in ThreadState /\ hd \in [Handles -> HandleState]
  BY Zenon DEF Typed, TypeOK
<1>2. CASE RebuildLock(t)
  <2> DEFINE v1 == [th[t] EXCEPT !.pc = "rebuildStop"]
             x == [v1 EXCEPT !.rb = TRUE]
  <2>1. /\ th' = [th EXCEPT ![t] = x] /\ th[t].r \in Handles
        /\ hd' = [hd EXCEPT ![th[t].r] = [hd[th[t].r] EXCEPT !.buildMu = t, !.state = "building"]]
    BY <1>2, Zenon DEF RebuildLock, At, IInv, LocksOK, ThreadOK, HandlePcs, CallPcs
  <2>2. v1 \in ThreadState /\ v1.pc = "rebuildStop" /\ v1.ret = th[t].ret /\ v1.n = th[t].n /\ v1.snap = th[t].snap
    BY <1>1, <2>1, Zenon DEF ThreadState
  <2> HIDE DEF v1
  <2>3. x \in ThreadState /\ x.pc = "rebuildStop" /\ x.ret = th[t].ret /\ x.n = th[t].n /\ x.snap = th[t].snap
    BY <1>1, <2>1, <2>2, Zenon DEF ThreadState
  <2> HIDE DEF x
  <2>4. ThreadsTyped'
    BY <2>1, <2>3, PlaceTyped, Zenon
  <2>5. [hd[th[t].r] EXCEPT !.buildMu = t, !.state = "building"] \in HandleState
    BY <1>1, <2>1, ZenonT(40) DEF HandleState
  <2>6. hd' \in [Handles -> HandleState]
    BY <2>1, <2>5, HandleMoves, Zenon DEF Typed
  <2>7. QED BY <1>2, <2>4, <2>6, Zenon DEF RebuildLock, Typed, TypeOK, ThreadsTyped, host
<1>3. CASE RebuildCheck(t)
  <2>1. CASE listeners[th[t].n] = th[t].r
    <3>1. ThreadsTyped'
      BY <1>3, <2>1, IdleAgain, Zenon DEF RebuildCheck
    <3>2. QED BY <1>3, <3>1, Zenon DEF RebuildCheck, Typed, TypeOK, ThreadsTyped, host
  <2>2. CASE listeners[th[t].n] # th[t].r
    <3>1. th' = [th EXCEPT ![t].pc = "stopLock"]
      BY <1>3, <2>2, Zenon DEF RebuildCheck
    <3>2. ThreadsTyped'
      BY <3>1, PcTyped, Zenon
    <3>3. QED BY <1>3, <3>2, Zenon DEF RebuildCheck, Typed, TypeOK, ThreadsTyped, host
  <2>3. QED BY <2>1, <2>2, Zenon
<1>4. CASE ApplyLock(t)
  <2>1. CASE closed
    <3>1. ThreadsTyped' /\ mu' = mu
      BY <1>4, <2>1, IdleAgain, Zenon DEF ApplyLock
    <3>2. QED BY <1>4, <3>1, Zenon DEF ApplyLock, Typed, TypeOK, ThreadsTyped, host
  <2>2. CASE ~closed
    <3> DEFINE v1 == [th[t] EXCEPT !.pc = "applyScan"]
               x == [v1 EXCEPT !.todo = Tracked]
    <3>1. th' = [th EXCEPT ![t] = x] /\ mu' = t /\ Tracked \in SUBSET Names
      BY <1>4, <2>2, Zenon DEF ApplyLock, Tracked
    <3>2. v1 \in ThreadState /\ v1.pc = "applyScan" /\ v1.ret = th[t].ret /\ v1.n = th[t].n /\ v1.snap = th[t].snap
      BY <1>1, <3>1, Zenon DEF ThreadState
    <3> HIDE DEF v1
    <3>3. x \in ThreadState /\ x.pc = "applyScan" /\ x.ret = th[t].ret /\ x.n = th[t].n /\ x.snap = th[t].snap
      BY <1>1, <3>1, <3>2, Zenon DEF ThreadState
    <3> HIDE DEF x
    <3>4. ThreadsTyped'
      BY <3>1, <3>3, PlaceTyped, Zenon
    <3>5. QED BY <1>4, <3>1, <3>4, Zenon DEF ApplyLock, Typed, TypeOK, ThreadsTyped, host
  <2>3. QED BY <2>1, <2>2, Zenon
<1>5. QED BY <1>2, <1>3, <1>4, Zenon

\* The locals of a call that is done with a listener and goes on with the next.
LEMMA NextListener ==
  ASSUME Typed, NEW t \in Threads, NEW p \in {"applyScan", "closeScan"}, th[t].ret = "idle",
         th' = [th EXCEPT ![t] = [th[t] EXCEPT !.pc = p, !.n = None, !.r = None]]
  PROVE  ThreadsTyped'
<1> DEFINE v1 == [th[t] EXCEPT !.pc = p]
           x == [v1 EXCEPT !.n = None, !.r = None]
<1>1. th' = [th EXCEPT ![t] = x] /\ th[t] \in ThreadState
  BY Zenon DEF Typed, TypeOK
<1>2. v1 \in ThreadState /\ v1.pc = p /\ v1.ret = th[t].ret
  BY <1>1, Zenon DEF ThreadState
<1> HIDE DEF v1
<1>3. x \in ThreadState /\ x.pc = p /\ x.ret = th[t].ret
  BY <1>1, <1>2, Zenon DEF ThreadState
<1> HIDE DEF x
<1>4. QED BY <1>1, <1>3, MovesTyped, Zenon

LEMMA ScanTyped ==
  ASSUME Typed, IInv, NEW t \in Threads, NEW n \in Names,
         ApplyStop(t, n) \/ ApplyRebuild(t, n) \/ ApplyKeep(t, n) \/ CloseStop(t, n)
  PROVE  Typed'
<1>1. /\ th[t] \in ThreadState /\ listeners[n] \in Handles \cup {None} /\ th[t].todo \in SUBSET Names
      /\ th[t].snap[n] \in Configs \cup {None}
  BY DEF Typed, TypeOK, ThreadState
<1>2. th[t].ret = "idle"
  BY Zenon DEF ApplyStop, ApplyRebuild, ApplyKeep, CloseStop, At, IInv, LocksOK, ThreadOK, Top, Rets
<1>3. CASE ApplyStop(t, n)
  <2> DEFINE q == IF th[t].snap[n] = None THEN "applyRemoved" ELSE "applyDisabled"
  <2> DEFINE v1 == [th[t] EXCEPT !.pc = "stopLock"]
             v2 == [v1 EXCEPT !.ret = q]
             v3 == [v2 EXCEPT !.n = n, !.r = listeners[n]]
             x == [v3 EXCEPT !.todo = th[t].todo \ {n}]
  <2>1. th' = [th EXCEPT ![t] = x]
    BY <1>1, <1>3, Zenon DEF ApplyStop, ThreadState
  <2>2. v1 \in ThreadState /\ v1.pc = "stopLock" /\ v1.ret = th[t].ret /\ v1.n = th[t].n /\ v1.snap = th[t].snap
    BY <1>1, <2>1, Zenon DEF ThreadState
  <2> HIDE DEF v1
  <2>0. q \in {"applyRemoved", "applyDisabled"}
    BY Zenon
  <2>3. v2 \in ThreadState /\ v2.pc = "stopLock" /\ v2.ret = q /\ v2.n = th[t].n /\ v2.snap = th[t].snap
    BY <1>1, <2>1, <2>2, <2>0 DEF ThreadState
  <2> HIDE DEF v2
  <2>4. v3 \in ThreadState /\ v3.pc = "stopLock" /\ v3.ret = q /\ v3.n = n /\ v3.snap = th[t].snap
    BY <1>1, <2>1, <2>3, Zenon DEF ThreadState
  <2> HIDE DEF v3
  <2>5. x \in ThreadState /\ x.pc = "stopLock" /\ x.ret = q /\ x.n = n /\ x.snap = th[t].snap
    BY <1>1, <2>1, <2>4, Zenon DEF ThreadState
  <2> HIDE DEF x
  <2>6. Snapped(x)
    BY <1>1, <2>5, Zenon DEF Snapped
  <2>7. ThreadsTyped'
    BY <2>1, <2>5, <2>6, ThreadMoves, Zenon
  <2>8. QED BY <1>3, <2>7, Zenon DEF ApplyStop, Typed, TypeOK, ThreadsTyped, host
<1>4. CASE ApplyRebuild(t, n)
  <2> DEFINE v1 == [th[t] EXCEPT !.pc = "rebuildLock"]
             v2 == [v1 EXCEPT !.ret = "applyScan"]
             v3 == [v2 EXCEPT !.n = n, !.r = listeners[n], !.cfg = th[t].snap[n]]
             x == [v3 EXCEPT !.todo = th[t].todo \ {n}]
  <2>1. th' = [th EXCEPT ![t] = x] /\ th[t].snap[n] \in AnyConfig
    BY <1>1, <1>4, Zenon DEF ApplyRebuild, ThreadState, Wanted, AnyConfig
  <2>2. v1 \in ThreadState /\ v1.pc = "rebuildLock" /\ v1.ret = th[t].ret
    BY <1>1, <2>1, Zenon DEF ThreadState
  <2> HIDE DEF v1
  <2>3. v2 \in ThreadState /\ v2.pc = "rebuildLock" /\ v2.ret = "applyScan"
    BY <1>1, <2>1, <2>2, ZenonT(40) DEF ThreadState
  <2> HIDE DEF v2
  <2>4. v3 \in ThreadState /\ v3.pc = "rebuildLock" /\ v3.ret = "applyScan"
    BY <1>1, <2>1, <2>3, Zenon DEF ThreadState
  <2> HIDE DEF v3
  <2>5. x \in ThreadState /\ x.pc = "rebuildLock" /\ x.ret = "applyScan"
    BY <1>1, <2>1, <2>4, Zenon DEF ThreadState
  <2> HIDE DEF x
  <2>6. ThreadsTyped'
    BY <2>1, <2>5, MovesTyped, Zenon
  <2>7. QED BY <1>4, <2>6, Zenon DEF ApplyRebuild, Typed, TypeOK, ThreadsTyped, host
<1>5. CASE ApplyKeep(t, n)
  <2> DEFINE x == [th[t] EXCEPT !.todo = th[t].todo \ {n}]
  <2>1. th' = [th EXCEPT ![t] = x] /\ th[t].pc = "applyScan"
    BY <1>1, <1>5, Zenon DEF ApplyKeep, At, Typed, TypeOK
  <2>2. x \in ThreadState /\ x.pc = th[t].pc /\ x.ret = th[t].ret
    BY <1>1, <2>1, Zenon DEF ThreadState
  <2> HIDE DEF x
  <2>3. ThreadsTyped'
    BY <1>2, <2>1, <2>2, MovesTyped, Zenon
  <2>4. QED BY <1>5, <2>3, Zenon DEF ApplyKeep, Typed, TypeOK, ThreadsTyped, host
<1>6. CASE CloseStop(t, n)
  <2> DEFINE v1 == [th[t] EXCEPT !.pc = "stopLock"]
             v2 == [v1 EXCEPT !.ret = "closeDelete"]
             v3 == [v2 EXCEPT !.n = n, !.r = listeners[n]]
             x == [v3 EXCEPT !.todo = th[t].todo \ {n}]
  <2>1. th' = [th EXCEPT ![t] = x]
    BY <1>1, <1>6, Zenon DEF CloseStop, ThreadState
  <2>2. v1 \in ThreadState /\ v1.pc = "stopLock" /\ v1.ret = th[t].ret
    BY <1>1, <2>1, Zenon DEF ThreadState
  <2> HIDE DEF v1
  <2>3. v2 \in ThreadState /\ v2.pc = "stopLock" /\ v2.ret = "closeDelete"
    BY <1>1, <2>1, <2>2, Zenon DEF ThreadState
  <2> HIDE DEF v2
  <2>4. v3 \in ThreadState /\ v3.pc = "stopLock" /\ v3.ret = "closeDelete"
    BY <1>1, <2>1, <2>3, Zenon DEF ThreadState
  <2> HIDE DEF v3
  <2>5. x \in ThreadState /\ x.pc = "stopLock" /\ x.ret = "closeDelete"
    BY <1>1, <2>1, <2>4, Zenon DEF ThreadState
  <2> HIDE DEF x
  <2>6. ThreadsTyped'
    BY <2>1, <2>5, MovesTyped, Zenon
  <2>7. QED BY <1>6, <2>6, Zenon DEF CloseStop, Typed, TypeOK, ThreadsTyped, host
<1>7. QED BY <1>3, <1>4, <1>5, <1>6, Zenon
LEMMA DoneTyped ==
  ASSUME Typed, IInv, NEW t \in Threads,
         \/ ApplyRemoved(t) \/ ApplyDisabled(t) \/ ApplyBuilt(t) \/ ApplyDone(t)
         \/ StopDelete(t) \/ CloseDelete(t) \/ CloseDone(t)
  PROVE  Typed'
<1>1. th[t] \in ThreadState /\ listeners \in [Names -> Handles \cup {None}] /\ th[t].r \in Handles \cup {None}
  BY Zenon DEF Typed, TypeOK, ThreadState
<1>2. th[t].ret = "idle"
  BY Zenon DEF ApplyRemoved, ApplyDisabled, ApplyBuilt, ApplyDone, StopDelete, CloseDelete, CloseDone, At,
         IInv, LocksOK, ThreadOK, Top, Rets
<1>3. CASE ApplyRemoved(t)
  <2>1. ThreadsTyped'
    BY <1>2, <1>3, NextListener, Zenon DEF ApplyRemoved
  <2>2. listeners' \in [Names -> Handles \cup {None}]
    BY <1>1, <1>3, Zenon DEF ApplyRemoved
  <2>3. QED BY <1>3, <2>1, <2>2, Zenon DEF ApplyRemoved, Typed, TypeOK, ThreadsTyped, host
<1>4. CASE ApplyDisabled(t)
  <2> DEFINE r == th[t].r
             g == [hd[r] EXCEPT !.cfg = th[t].snap[th[t].n]]
             h == [g EXCEPT !.state = "disabled"]
  <2>1. ThreadsTyped'
    BY <1>2, <1>4, NextListener, Zenon DEF ApplyDisabled
  <2>2. r \in Handles /\ hd' = [hd EXCEPT ![r] = h]
    BY <1>4, Zenon DEF ApplyDisabled, At, IInv, LocksOK, ThreadOK, HandlePcs
  <2>3. Snapped(th[t]) /\ hd[r] \in HandleState
    BY <2>2, Zenon DEF Typed, TypeOK, ThreadsTyped
  <2>4. th[t].snap[th[t].n] \in AnyConfig
    BY <1>4, <2>3, Zenon DEF ApplyDisabled, At, Snapped, AnyConfig
  <2>5. g \in HandleState
    BY <2>3, <2>4, Zenon DEF HandleState
  <2> HIDE DEF g
  <2>6. h \in HandleState
    BY <2>5, Zenon DEF HandleState
  <2> HIDE DEF h
  <2>7. hd' \in [Handles -> HandleState]
    BY <2>2, <2>6, HandleMoves, Zenon DEF Typed
  <2>8. QED BY <1>4, <2>1, <2>7, Zenon DEF ApplyDisabled, Typed, TypeOK, ThreadsTyped, host
<1>5. CASE ApplyBuilt(t)
  <2>1. ThreadsTyped'
    BY <1>2, <1>5, NextListener, Zenon DEF ApplyBuilt
  <2>2. listeners' \in [Names -> Handles \cup {None}]
    BY <1>1, <1>5, Zenon DEF ApplyBuilt
  <2>3. QED BY <1>5, <2>1, <2>2, Zenon DEF ApplyBuilt, Typed, TypeOK, ThreadsTyped, host
<1>6. CASE CloseDelete(t)
  <2>1. ThreadsTyped'
    BY <1>2, <1>6, NextListener, Zenon DEF CloseDelete
  <2>2. listeners' \in [Names -> Handles \cup {None}]
    BY <1>1, <1>6, Zenon DEF CloseDelete
  <2>3. QED BY <1>6, <2>1, <2>2, Zenon DEF CloseDelete, Typed, TypeOK, ThreadsTyped, host
<1>7. CASE ApplyDone(t) \/ CloseDone(t)
  <2>1. ThreadsTyped'
    BY <1>7, IdleAgain, Zenon DEF ApplyDone, CloseDone
  <2>2. QED BY <1>7, <2>1, Zenon DEF ApplyDone, CloseDone, Typed, TypeOK, ThreadsTyped, host
<1>8. CASE StopDelete(t)
  <2>1. ThreadsTyped'
    BY <1>8, IdleAgain, Zenon DEF StopDelete
  <2>2. listeners' \in [Names -> Handles \cup {None}]
    BY <1>1, <1>8, Zenon DEF StopDelete
  <2>3. QED BY <1>8, <2>1, <2>2, Zenon DEF StopDelete, Typed, TypeOK, ThreadsTyped, host
<1>9. QED BY <1>3, <1>4, <1>5, <1>6, <1>7, <1>8, Zenon

LEMMA AllocateTyped ==
  ASSUME Typed, NEW t \in Threads, NEW n \in Names, NEW r \in Handles, ApplyBuild(t, n, r)
  PROVE  Typed'
<1>1. th[t] \in ThreadState /\ th[t].snap[n] \in Configs \cup {None}
  BY DEF Typed, TypeOK, ThreadState
<1> DEFINE v1 == [th[t] EXCEPT !.pc = "start"]
           v2 == [v1 EXCEPT !.ret = "applyBuilt"]
           x == [v2 EXCEPT !.n = n, !.r = r, !.cfg = th[t].snap[n]]
<1>2. th' = [th EXCEPT ![t] = x] /\ th[t].snap[n] \in AnyConfig /\ hd' = [hd EXCEPT ![r] = NewHandle]
  BY <1>1, Zenon DEF ApplyBuild, AnyConfig
<1>3. v1 \in ThreadState /\ v1.pc = "start" /\ v1.ret = th[t].ret
  BY <1>1, <1>2, Zenon DEF ThreadState
<1> HIDE DEF v1
<1>4. v2 \in ThreadState /\ v2.pc = "start" /\ v2.ret = "applyBuilt"
  BY <1>1, <1>2, <1>3, Zenon DEF ThreadState
<1> HIDE DEF v2
<1>5. x \in ThreadState /\ x.pc = "start" /\ x.ret = "applyBuilt"
  BY <1>1, <1>2, <1>4, Zenon DEF ThreadState
<1> HIDE DEF x
<1>6. ThreadsTyped'
  BY <1>2, <1>5, MovesTyped, Zenon
<1>7. NewHandle \in HandleState
  BY Zenon DEF NewHandle, HandleState, AnyConfig
<1>8. hd' \in [Handles -> HandleState]
  BY <1>2, <1>7, HandleMoves, Zenon DEF Typed
<1>9. QED BY <1>6, <1>8, Zenon DEF ApplyBuild, Typed, TypeOK, ThreadsTyped, host

LEMMA InitTyped == Init => Typed
<1>1. Retired \in ServerState /\ NewHandle \in HandleState
  BY Zenon DEF Retired, ServerState, NewHandle, HandleState, AnyConfig
<1> SUFFICES ASSUME Init
             PROVE  Typed
  BY Zenon
<1>2. hd \in [Handles -> HandleState] /\ sv \in [Servers -> ServerState] /\ gauge \in Int
  BY <1>1 DEF Init
<1>3. ThreadsTyped
  BY IdleTyped, Zenon DEF Init, ThreadsTyped
<1>4. listeners \in [Names -> Handles \cup {None}] /\ record \in [Names -> Servers \cup {None}]
  BY Zenon DEF Init
<1>5. rules \in [Names -> SUBSET Servers] /\ mu \in Threads \cup {None} /\ closed \in BOOLEAN
  BY Zenon DEF Init
<1>6. QED BY <1>2, <1>3, <1>4, <1>5, Zenon DEF Init, Typed, TypeOK, ThreadsTyped

LEMMA StepTyped == Typed /\ IInv /\ [Next]_vars => Typed'
<1> SUFFICES ASSUME Typed, IInv, [Next]_vars
             PROVE  Typed'
  BY Zenon
<1>1. CASE UNCHANGED vars
  BY <1>1, Zenon DEF vars, Typed, TypeOK, ThreadsTyped
<1>2. ASSUME NEW t \in Threads, Call(t) \/ LockStep(t) \/ WorkStep(t)
      PROVE  Typed'
  BY <1>2, CallsTyped, LookTyped, StopTyped, StartTyped, BuildTyped, ScanTyped, DoneTyped, AllocateTyped, ZenonT(40)
     DEF LockStep, WorkStep
<1>3. CASE \/ \E s \in Servers : ServeReturns(s) \/ CloseReturns(s) \/ Reap(s)
           \/ \E n \in Names, c \in Configs \cup {None} : Edit(n, c)
  BY <1>3, GoroutinesTyped, Zenon
<1>4. QED BY <1>1, <1>2, <1>3, Zenon DEF Next
=============================================================================
