------------------------------ MODULE Supervisor ------------------------------
(***************************************************************************)
(* internal/supervisor/manager.go: the Manager that keeps a fleet of VPN   *)
(* listeners reconciled to a directory of config files.                    *)
(*                                                                         *)
(* Callers (the management API's HTTP goroutines, the SIGHUP reconcile and *)
(* the shutdown path) are Threads; each runs one of Apply, Rebuild, Stop   *)
(* and Close at a time.  Beside them run the goroutines the Manager        *)
(* launches: serve (one per server), the goroutine a teardown hands        *)
(* srv.Close to, and reap.                                                 *)
(*                                                                         *)
(* Locks: mu is Manager.mu, hd[r].buildMu the handle's buildMu.  A section *)
(* under r.mu never blocks, so each is one atomic step.  A handle that     *)
(* nothing refers to any more may be allocated again (the Go collector),   *)
(* and so may a server: the pools are finite, the behaviours are not.      *)
(***************************************************************************)
EXTENDS Integers, FiniteSets

CONSTANTS
    Names,      \* listener names: config file stems
    Threads,    \* goroutines that call the Manager
    Handles,    \* *running values
    Servers,    \* client.Server values; the constructor fails when none is free
    Configs,    \* ListenerConfig values a file may hold
    Ops,        \* thread -> the Manager methods it calls
    CanRemove,  \* whether config files may disappear from the directory
    None        \* nil

ASSUME ConfigsAssumption ==
    \A c \in Configs : /\ DOMAIN c = {"enabled", "nat", "opt"}
                       /\ c.enabled \in BOOLEAN /\ c.nat \in BOOLEAN
ASSUME OpsAssumption == Ops \in [Threads -> SUBSET {"apply", "rebuild", "stop", "close"}]
ASSUME NoneAssumption ==
    None \notin Names \cup Threads \cup Handles \cup Servers \cup Configs

VARIABLES
    disk,       \* name -> config in the directory, None when there is no file
    mu,         \* the thread that holds Manager.mu
    closed,     \* Manager.closed
    listeners,  \* Manager.listeners: name -> handle or None
    hd,         \* handle -> the fields of running
    sv,         \* server -> what its goroutines are doing
    th,         \* thread -> program counter and locals
    rules,      \* name -> servers whose tagged rules are on the host
    record,     \* name -> server named by the persisted hostnet state file
    gauge       \* Manager.abandoned

vars == <<disk, mu, closed, listeners, hd, sv, th, rules, record, gauge>>
host == <<rules, record>>

ZeroConfig == [enabled |-> FALSE, nat |-> FALSE, opt |-> None]
AnyConfig == Configs \cup {ZeroConfig}

(* &running{}: what build allocates. err: serveErr holds a failure, other  *)
(* than the net.ErrClosed a Close provokes.                                *)
NewHandle == [cfg |-> ZeroConfig, srv |-> None, done |-> None,
              state |-> "", err |-> FALSE, buildMu |-> None]

(* serve: the goroutine in ListenAndServe has not returned (its done       *)
(* channel is open); close: srv.Close not called, running, or returned;    *)
(* reap: a reap goroutine waits for that Close; nat: hostnet.Apply put     *)
(* rules on the host for it.                                               *)
Retired == [serve |-> FALSE, close |-> "returned", owner |-> None,
            reap |-> FALSE, nat |-> FALSE]

(* rb: the stop under way is the first half of a rebuild. ret: where the   *)
(* call under way returns to.                                              *)
Idle == [pc |-> "idle", ret |-> "idle", rb |-> FALSE, n |-> None, r |-> None,
         cfg |-> ZeroConfig, s |-> None, nat |-> FALSE,
         snap |-> [n \in Names |-> None], todo |-> {}]

Init ==
    /\ disk \in [Names -> Configs \cup {None}]
    /\ mu = None
    /\ closed = FALSE
    /\ listeners = [n \in Names |-> None]
    /\ hd = [r \in Handles |-> NewHandle]
    /\ sv = [s \in Servers |-> Retired]
    /\ th = [t \in Threads |-> Idle]
    /\ rules = [n \in Names |-> {}]
    /\ record = [n \in Names |-> None]
    /\ gauge = 0

-----------------------------------------------------------------------------
(* What is still referred to, and so may not be allocated again. *)
HandleFree(r) ==
    /\ \A n \in Names : listeners[n] # r
    /\ \A t \in Threads : th[t].r # r
    /\ \A s \in Servers : sv[s].owner # r

ServerFree(s) ==
    /\ sv[s] = Retired
    /\ \A r \in Handles : hd[r].srv # s /\ hd[r].done # s
    /\ \A t \in Threads : th[t].s # s
    /\ \A n \in Names : s \notin rules[n] /\ record[n] # s

Tracked == {n \in Names : listeners[n] # None}

At(t, label) == th[t].pc = label

(* The call under way returns: to its caller's next step, or to nobody. *)
Returned(t) ==
    LET back == [th[t] EXCEPT !.pc = th[t].ret, !.ret = "idle", !.rb = FALSE,
                              !.cfg = ZeroConfig, !.s = None, !.nat = FALSE]
    IN CASE th[t].ret = "idle" -> Idle
         [] th[t].ret = "applyScan" -> [back EXCEPT !.n = None, !.r = None]
         [] OTHER -> back

(* The listener's config as its handle's reader sees it.  Apply reads      *)
(* r.cfg without r.mu; while another goroutine is about to overwrite it    *)
(* the read may also return what is being written.                         *)
ConfigRead(r) ==
    {hd[r].cfg} \cup {th[t].cfg : t \in {u \in Threads :
        th[u].r = r /\ th[u].pc \in {"start", "construct", "closeFailed", "publish"}}}

-----------------------------------------------------------------------------
(* stopListener and stopListenerLocked. *)

(* Mutant of Capture: r.srv is not cleared before Close is called. *)
CaptureKeepsServer(t) ==
    LET r == th[t].r
        s == hd[r].srv
    IN /\ hd' = [hd EXCEPT ![r] =
            [hd[r] EXCEPT !.done = None, !.buildMu = t,
                          !.state = IF @ = "building" THEN @ ELSE "stopped"]]
       /\ sv' = IF s = None THEN sv ELSE [sv EXCEPT ![s].close = "running"]
       /\ th' = [th EXCEPT ![t] =
                 [th[t] EXCEPT !.s = s, !.nat = hd[r].cfg.nat,
                               !.pc = IF s = None THEN "stopHost" ELSE "stopClose"]]
       /\ UNCHANGED <<disk, mu, closed, listeners, host, gauge>>

(* The first section under r.mu retires this generation, and srv.Close is  *)
(* handed to a goroutine of its own.                                       *)
Capture(t) ==
    LET r == th[t].r
        s == hd[r].srv
    IN /\ hd' = [hd EXCEPT ![r] =
            [hd[r] EXCEPT !.srv = None, !.done = None, !.buildMu = t,
                          !.state = IF @ = "building" THEN @ ELSE "stopped"]]
       /\ sv' = IF s = None THEN sv ELSE [sv EXCEPT ![s].close = "running"]
       /\ th' = [th EXCEPT ![t] =
                 [th[t] EXCEPT !.s = s, !.nat = hd[r].cfg.nat,
                               !.pc = IF s = None THEN "stopHost" ELSE "stopClose"]]
       /\ UNCHANGED <<disk, mu, closed, listeners, host, gauge>>

(* stopListener: takes buildMu and goes straight into the teardown. *)
StopLock(t) ==
    /\ At(t, "stopLock")
    /\ hd[th[t].r].buildMu = None
    /\ Capture(t)

(* rebuildLocked's call of the teardown, with buildMu already held. *)
RebuildStop(t) ==
    /\ At(t, "rebuildStop")
    /\ Capture(t)

(* Close returned within stopGrace. The wait for the serve goroutine that  *)
(* follows ends when its done channel is closed or the same deadline runs  *)
(* out, and the teardown carries on either way.                            *)
StopClosed(t) ==
    /\ At(t, "stopClose")
    /\ sv[th[t].s].close = "returned"
    /\ th' = [th EXCEPT ![t].pc = "stopHost"]
    /\ UNCHANGED <<disk, mu, closed, listeners, hd, sv, host, gauge>>

(* Mutant of StopAbandon: the deadline is waited for, then Close as well. *)
StopAbandonWaits(t) ==
    /\ At(t, "stopClose")
    /\ sv[th[t].s].close = "returned"
    /\ gauge' = gauge + 1
    /\ sv' = [sv EXCEPT ![th[t].s].reap = TRUE]
    /\ th' = [th EXCEPT ![t].pc = "stopHost"]
    /\ UNCHANGED <<disk, mu, closed, listeners, hd, host>>

(* stopGrace ran out: the listener is abandoned and reap takes over. The   *)
(* deadline may also be the case Go's select picks when both are ready.    *)
StopAbandon(t) ==
    /\ At(t, "stopClose")
    /\ gauge' = gauge + 1
    /\ sv' = [sv EXCEPT ![th[t].s].reap = TRUE]
    /\ th' = [th EXCEPT ![t].pc = "stopHost"]
    /\ UNCHANGED <<disk, mu, closed, listeners, hd, host>>

(* The end of stopListenerLocked: a rebuild goes on to start under the     *)
(* same buildMu, every other caller's deferred Unlock runs.                *)
StopReturns(t) ==
    IF th[t].rb
    THEN /\ th' = [th EXCEPT ![t] =
              [th[t] EXCEPT !.pc = "start", !.s = None, !.nat = FALSE]]
         /\ UNCHANGED hd
    ELSE /\ th' = [th EXCEPT ![t] = Returned(t)]
         /\ hd' = [hd EXCEPT ![th[t].r].buildMu = None]

(* Mutant of StopHost: without a state file nothing is removed. *)
StopHostNoFallback(t) ==
    /\ At(t, "stopHost")
    /\ IF th[t].nat
       THEN /\ rules' = [rules EXCEPT ![th[t].n] = @ \ {record[th[t].n]}]
            /\ th' = [th EXCEPT ![t].pc = "stopForget"]
            /\ UNCHANGED hd
       ELSE StopReturns(t) /\ UNCHANGED rules
    /\ UNCHANGED <<disk, mu, closed, listeners, sv, record, gauge>>

(* Host teardown from the persisted state, or by tag when there is none. *)
StopHost(t) ==
    /\ At(t, "stopHost")
    /\ LET n == th[t].n
       IN IF th[t].nat
          THEN /\ rules' = [rules EXCEPT ![n] =
                     IF record[n] # None THEN @ \ {record[n]} ELSE {}]
               /\ th' = [th EXCEPT ![t].pc = "stopForget"]
               /\ UNCHANGED hd
          ELSE StopReturns(t) /\ UNCHANGED rules
    /\ UNCHANGED <<disk, mu, closed, listeners, sv, record, gauge>>

(* removeHostnetState. *)
StopForget(t) ==
    /\ At(t, "stopForget")
    /\ record' = [record EXCEPT ![th[t].n] = None]
    /\ StopReturns(t)
    /\ UNCHANGED <<disk, mu, closed, listeners, sv, rules, gauge>>

-----------------------------------------------------------------------------
(* start. *)

(* Mutant of StartReturns: buildMu is not released on this path. *)
StartReturnsLocked(t, fields) ==
    /\ hd' = [hd EXCEPT ![th[t].r] = fields]
    /\ th' = [th EXCEPT ![t] = Returned(t)]

(* start returns: rebuildLocked's deferred Unlock runs; build holds no     *)
(* buildMu.                                                                *)
StartReturns(t, fields) ==
    /\ hd' = [hd EXCEPT ![th[t].r] =
                 [fields EXCEPT !.buildMu = IF th[t].rb THEN None ELSE @]]
    /\ th' = [th EXCEPT ![t] = Returned(t)]

SetState(t, state, err) ==
    [hd[th[t].r] EXCEPT !.cfg = th[t].cfg, !.srv = None, !.state = state, !.err = err]

StartDisabled(t) ==
    /\ At(t, "start")
    /\ ~th[t].cfg.enabled
    /\ StartReturns(t, SetState(t, "disabled", FALSE))
    /\ UNCHANGED <<disk, mu, closed, listeners, sv, host, gauge>>

StartBuilding(t) ==
    /\ At(t, "start")
    /\ th[t].cfg.enabled
    /\ hd' = [hd EXCEPT ![th[t].r].state = "building"]
    /\ th' = [th EXCEPT ![t].pc = "construct"]
    /\ UNCHANGED <<disk, mu, closed, listeners, sv, host, gauge>>

(* m.ctor: the server's TUN is open, nothing serves it yet. *)
Construct(t) ==
    /\ At(t, "construct")
    /\ \E s \in Servers :
          /\ ServerFree(s)
          /\ sv' = [sv EXCEPT ![s].close = "no"]
          /\ th' = [th EXCEPT ![t] =
                    [th[t] EXCEPT !.s = s,
                                  !.pc = IF th[t].cfg.nat THEN "hostApply" ELSE "publish"]]
    /\ UNCHANGED <<disk, mu, closed, listeners, hd, host, gauge>>

ConstructFails(t) ==
    /\ At(t, "construct")
    /\ StartReturns(t, SetState(t, "error", TRUE))
    /\ UNCHANGED <<disk, mu, closed, listeners, sv, host, gauge>>

(* hostnet.Apply installed the rules (ErrNoIPv6 included: the v4 half is   *)
(* in), or addressed the interface only (ErrNoWAN).                        *)
HostApply(t) ==
    /\ At(t, "hostApply")
    /\ \E wan \in BOOLEAN :
          /\ rules' = IF wan THEN [rules EXCEPT ![th[t].n] = @ \cup {th[t].s}] ELSE rules
          /\ sv' = [sv EXCEPT ![th[t].s].nat = wan]
    /\ th' = [th EXCEPT ![t].pc = "persist"]
    /\ UNCHANGED <<disk, mu, closed, listeners, hd, record, gauge>>

(* Host networking failed: what landed is taken out again and srv.Close is *)
(* called in line, with no deadline.                                       *)
HostApplyFails(t) ==
    /\ At(t, "hostApply")
    /\ sv' = [sv EXCEPT ![th[t].s].close = "running"]
    /\ th' = [th EXCEPT ![t].pc = "closeFailed"]
    /\ UNCHANGED <<disk, mu, closed, listeners, hd, host, gauge>>

CloseFailed(t) ==
    /\ At(t, "closeFailed")
    /\ sv[th[t].s].close = "returned"
    /\ StartReturns(t, SetState(t, "error", TRUE))
    /\ UNCHANGED <<disk, mu, closed, listeners, sv, host, gauge>>

(* persistHostnetState; a failure to write is logged and nothing else. *)
Persist(t) ==
    /\ At(t, "persist")
    /\ record' \in {record, [record EXCEPT ![th[t].n] = th[t].s]}
    /\ th' = [th EXCEPT ![t].pc = "publish"]
    /\ UNCHANGED <<disk, mu, closed, listeners, hd, sv, rules, gauge>>

(* The listener is published as running and its serve goroutine launched. *)
Publish(t) ==
    /\ At(t, "publish")
    /\ LET s == th[t].s
       IN /\ StartReturns(t, [hd[th[t].r] EXCEPT !.cfg = th[t].cfg, !.srv = s, !.done = s,
                                                 !.state = "running", !.err = FALSE])
          /\ sv' = [sv EXCEPT ![s] = [@ EXCEPT !.serve = TRUE, !.owner = th[t].r]]
    /\ UNCHANGED <<disk, mu, closed, listeners, host, gauge>>

-----------------------------------------------------------------------------
(* rebuildLocked: the lock, and "building" before the stop. *)
RebuildLock(t) ==
    /\ At(t, "rebuildLock")
    /\ hd[th[t].r].buildMu = None
    /\ hd' = [hd EXCEPT ![th[t].r] =
              [hd[th[t].r] EXCEPT !.buildMu = t, !.state = "building"]]
    /\ th' = [th EXCEPT ![t] = [th[t] EXCEPT !.pc = "rebuildStop", !.rb = TRUE]]
    /\ UNCHANGED <<disk, mu, closed, listeners, sv, host, gauge>>

(* Rebuild: everything up to the release of Manager.mu. The config is read *)
(* here, before buildMu is taken.                                          *)
Rebuild(t, n) ==
    /\ "rebuild" \in Ops[t]
    /\ At(t, "idle")
    /\ mu = None
    /\ ~closed
    /\ n \in Tracked
    /\ disk[n] # None
    /\ th' = [th EXCEPT ![t] =
              [th[t] EXCEPT !.pc = "rebuildLock", !.ret = "rebuildCheck", !.n = n,
                            !.r = listeners[n], !.cfg = disk[n]]]
    /\ UNCHANGED <<disk, mu, closed, listeners, hd, sv, host, gauge>>

(* Mutant of RebuildCheck: presence is tested by name. *)
RebuildCheckByName(t) ==
    /\ At(t, "rebuildCheck")
    /\ mu = None
    /\ th' = [th EXCEPT ![t] = IF th[t].n \in Tracked THEN Idle
                               ELSE [@ EXCEPT !.pc = "stopLock"]]
    /\ UNCHANGED <<disk, mu, closed, listeners, hd, sv, host, gauge>>

(* The look back under Manager.mu: a handle no longer tracked, by          *)
(* identity, is torn down.                                                 *)
RebuildCheck(t) ==
    /\ At(t, "rebuildCheck")
    /\ mu = None
    /\ th' = [th EXCEPT ![t] = IF listeners[th[t].n] = th[t].r THEN Idle
                               ELSE [@ EXCEPT !.pc = "stopLock"]]
    /\ UNCHANGED <<disk, mu, closed, listeners, hd, sv, host, gauge>>

-----------------------------------------------------------------------------
(* Apply.  LoadDir runs before Manager.mu is taken. *)
ApplyLoad(t) ==
    /\ "apply" \in Ops[t]
    /\ At(t, "idle")
    /\ th' = [th EXCEPT ![t] = [th[t] EXCEPT !.pc = "applyLock", !.snap = disk]]
    /\ UNCHANGED <<disk, mu, closed, listeners, hd, sv, host, gauge>>

ApplyLock(t) ==
    /\ At(t, "applyLock")
    /\ mu = None
    /\ IF closed
       THEN th' = [th EXCEPT ![t] = Idle] /\ UNCHANGED mu
       ELSE /\ mu' = t
            /\ th' = [th EXCEPT ![t] = [th[t] EXCEPT !.pc = "applyScan", !.todo = Tracked]]
    /\ UNCHANGED <<disk, closed, listeners, hd, sv, host, gauge>>

Wanted(c) == c # None /\ c.enabled

(* Mutant of ApplyStop: a listener without a file is taken for a disabled  *)
(* one.                                                                    *)
ApplyStopAsDisabled(t, n) ==
    /\ At(t, "applyScan")
    /\ n \in th[t].todo
    /\ ~Wanted(th[t].snap[n])
    /\ th' = [th EXCEPT ![t] = [th[t] EXCEPT !.pc = "stopLock", !.n = n, !.r = listeners[n],
                                             !.todo = @ \ {n}, !.ret = "applyDisabled"]]
    /\ UNCHANGED <<disk, mu, closed, listeners, hd, sv, host, gauge>>

(* One listener of the first loop that is to be stopped: its file is gone, *)
(* or says disabled.                                                       *)
ApplyStop(t, n) ==
    /\ At(t, "applyScan")
    /\ n \in th[t].todo
    /\ LET c == th[t].snap[n]
       IN /\ ~Wanted(c)
          /\ th' = [th EXCEPT ![t] =
                    [th[t] EXCEPT !.pc = "stopLock", !.n = n, !.r = listeners[n],
                                  !.todo = @ \ {n},
                                  !.ret = IF c = None THEN "applyRemoved" ELSE "applyDisabled"]]
    /\ UNCHANGED <<disk, mu, closed, listeners, hd, sv, host, gauge>>

ApplyRemoved(t) ==
    /\ At(t, "applyRemoved")
    /\ listeners' = [listeners EXCEPT ![th[t].n] = None]
    /\ th' = [th EXCEPT ![t] = [th[t] EXCEPT !.pc = "applyScan", !.n = None, !.r = None]]
    /\ UNCHANGED <<disk, mu, closed, hd, sv, host, gauge>>

ApplyDisabled(t) ==
    /\ At(t, "applyDisabled")
    /\ hd' = [hd EXCEPT ![th[t].r] =
              [hd[th[t].r] EXCEPT !.cfg = th[t].snap[th[t].n], !.state = "disabled"]]
    /\ th' = [th EXCEPT ![t] = [th[t] EXCEPT !.pc = "applyScan", !.n = None, !.r = None]]
    /\ UNCHANGED <<disk, mu, closed, listeners, sv, host, gauge>>

(* configChanged: the listener is rebuilt. *)
ApplyRebuild(t, n) ==
    /\ At(t, "applyScan")
    /\ n \in th[t].todo
    /\ LET c == th[t].snap[n]
       IN /\ Wanted(c)
          /\ \E old \in ConfigRead(listeners[n]) : old # c
          /\ th' = [th EXCEPT ![t] =
                    [th[t] EXCEPT !.pc = "rebuildLock", !.ret = "applyScan", !.n = n,
                                  !.r = listeners[n], !.cfg = c, !.todo = @ \ {n}]]
    /\ UNCHANGED <<disk, mu, closed, listeners, hd, sv, host, gauge>>

(* An enabled, unchanged listener is left alone, whatever its state. *)
ApplyKeep(t, n) ==
    /\ At(t, "applyScan")
    /\ n \in th[t].todo
    /\ LET c == th[t].snap[n]
       IN /\ Wanted(c)
          /\ c \in ConfigRead(listeners[n])
    /\ th' = [th EXCEPT ![t].todo = @ \ {n}]
    /\ UNCHANGED <<disk, mu, closed, listeners, hd, sv, host, gauge>>

(* The second loop: build a handle for a config that has none. *)
ApplyBuild(t, n, r) ==
    /\ At(t, "applyScan")
    /\ th[t].todo = {}
    /\ n \notin Tracked
    /\ th[t].snap[n] # None
    /\ HandleFree(r)
    /\ hd' = [hd EXCEPT ![r] = NewHandle]
    /\ th' = [th EXCEPT ![t] = [th[t] EXCEPT !.pc = "start", !.ret = "applyBuilt", !.n = n,
                                             !.r = r, !.cfg = th[t].snap[n]]]
    /\ UNCHANGED <<disk, mu, closed, listeners, sv, host, gauge>>

ApplyBuilt(t) ==
    /\ At(t, "applyBuilt")
    /\ listeners' = [listeners EXCEPT ![th[t].n] = th[t].r]
    /\ th' = [th EXCEPT ![t] = [th[t] EXCEPT !.pc = "applyScan", !.n = None, !.r = None]]
    /\ UNCHANGED <<disk, mu, closed, hd, sv, host, gauge>>

ApplyDone(t) ==
    /\ At(t, "applyScan")
    /\ th[t].todo = {}
    /\ \A n \in Names : th[t].snap[n] # None => n \in Tracked
    /\ mu' = None
    /\ th' = [th EXCEPT ![t] = Idle]
    /\ UNCHANGED <<disk, closed, listeners, hd, sv, host, gauge>>

-----------------------------------------------------------------------------
(* Stop. *)
Stop(t, n) ==
    /\ "stop" \in Ops[t]
    /\ At(t, "idle")
    /\ mu = None
    /\ n \in Tracked
    /\ mu' = t
    /\ th' = [th EXCEPT ![t] =
              [th[t] EXCEPT !.pc = "stopLock", !.ret = "stopDelete", !.n = n,
                            !.r = listeners[n]]]
    /\ UNCHANGED <<disk, closed, listeners, hd, sv, host, gauge>>

StopDelete(t) ==
    /\ At(t, "stopDelete")
    /\ listeners' = [listeners EXCEPT ![th[t].n] = None]
    /\ mu' = None
    /\ th' = [th EXCEPT ![t] = Idle]
    /\ UNCHANGED <<disk, closed, hd, sv, host, gauge>>

(* Close: the latch, then every listener. *)
Close(t) ==
    /\ "close" \in Ops[t]
    /\ At(t, "idle")
    /\ mu = None
    /\ mu' = t
    /\ closed' = TRUE
    /\ th' = [th EXCEPT ![t] = [th[t] EXCEPT !.pc = "closeScan", !.todo = Tracked]]
    /\ UNCHANGED <<disk, listeners, hd, sv, host, gauge>>

CloseStop(t, n) ==
    /\ At(t, "closeScan")
    /\ n \in th[t].todo
    /\ th' = [th EXCEPT ![t] =
              [th[t] EXCEPT !.pc = "stopLock", !.ret = "closeDelete", !.n = n,
                            !.r = listeners[n], !.todo = @ \ {n}]]
    /\ UNCHANGED <<disk, mu, closed, listeners, hd, sv, host, gauge>>

CloseDelete(t) ==
    /\ At(t, "closeDelete")
    /\ listeners' = [listeners EXCEPT ![th[t].n] = None]
    /\ th' = [th EXCEPT ![t] = [th[t] EXCEPT !.pc = "closeScan", !.n = None, !.r = None]]
    /\ UNCHANGED <<disk, mu, closed, hd, sv, host, gauge>>

CloseDone(t) ==
    /\ At(t, "closeScan")
    /\ th[t].todo = {}
    /\ mu' = None
    /\ th' = [th EXCEPT ![t] = Idle]
    /\ UNCHANGED <<disk, closed, listeners, hd, sv, host, gauge>>

-----------------------------------------------------------------------------
(* The goroutines the Manager launches. *)

(* Mutant of ServeReturns: the generation is not compared. *)
ServeReturnsStale(s) ==
    /\ sv[s].serve
    /\ LET r == sv[s].owner
       IN \E failed \in BOOLEAN :
             hd' = [hd EXCEPT ![r] =
                     [hd[r] EXCEPT !.err = failed,
                                   !.state = IF failed THEN "error" ELSE "stopped"]]
    /\ sv' = [sv EXCEPT ![s] = [@ EXCEPT !.serve = FALSE, !.owner = None]]
    /\ UNCHANGED <<disk, mu, closed, listeners, th, host, gauge>>

(* serve: ListenAndServe returned, by itself or because of Close. The      *)
(* outcome is published only while the handle still names this generation, *)
(* then the done channel is closed.                                        *)
ServeReturns(s) ==
    /\ sv[s].serve
    /\ LET r == sv[s].owner
       IN \E failed \in BOOLEAN :
             hd' = IF hd[r].done = s
                   THEN [hd EXCEPT ![r] =
                           [hd[r] EXCEPT !.err = failed,
                                         !.state = IF failed THEN "error" ELSE "stopped"]]
                   ELSE hd
    /\ sv' = [sv EXCEPT ![s] = [@ EXCEPT !.serve = FALSE, !.owner = None]]
    /\ UNCHANGED <<disk, mu, closed, listeners, th, host, gauge>>

(* srv.Close, on the goroutine it was handed to, returns. *)
CloseReturns(s) ==
    /\ sv[s].close = "running"
    /\ sv' = [sv EXCEPT ![s].close = "returned"]
    /\ UNCHANGED <<disk, mu, closed, listeners, hd, th, host, gauge>>

Reap(s) ==
    /\ sv[s].reap
    /\ sv[s].close = "returned"
    /\ sv' = [sv EXCEPT ![s].reap = FALSE]
    /\ gauge' = gauge - 1
    /\ UNCHANGED <<disk, mu, closed, listeners, hd, th, host>>

(* The operator or the API writes or deletes a config file. *)
Edit(n, c) ==
    /\ c # None \/ CanRemove
    /\ disk' = [disk EXCEPT ![n] = c]
    /\ UNCHANGED <<mu, closed, listeners, hd, sv, th, host, gauge>>

-----------------------------------------------------------------------------
LockStep(t) == StopLock(t) \/ RebuildLock(t) \/ RebuildCheck(t) \/ ApplyLock(t)

(* What a call that has begun does next, other than taking a lock. *)
WorkStep(t) ==
    \/ RebuildStop(t) \/ StopClosed(t) \/ StopAbandon(t)
    \/ StopHost(t) \/ StopForget(t)
    \/ StartDisabled(t) \/ StartBuilding(t) \/ Construct(t) \/ ConstructFails(t)
    \/ HostApply(t) \/ HostApplyFails(t) \/ CloseFailed(t) \/ Persist(t) \/ Publish(t)
    \/ \E n \in Names : ApplyStop(t, n) \/ ApplyRebuild(t, n) \/ ApplyKeep(t, n)
    \/ \E n \in Names, r \in Handles : ApplyBuild(t, n, r)
    \/ ApplyRemoved(t) \/ ApplyDisabled(t) \/ ApplyBuilt(t) \/ ApplyDone(t)
    \/ StopDelete(t) \/ CloseDelete(t) \/ CloseDone(t)
    \/ \E n \in Names : CloseStop(t, n)

Call(t) == ApplyLoad(t) \/ Close(t) \/ \E n \in Names : Rebuild(t, n) \/ Stop(t, n)

Next ==
    \/ \E t \in Threads : Call(t) \/ LockStep(t) \/ WorkStep(t)
    \/ \E s \in Servers : ServeReturns(s) \/ CloseReturns(s) \/ Reap(s)
    \/ \E n \in Names, c \in Configs \cup {None} : Edit(n, c)

Spec == Init /\ [][Next]_vars

(* Goroutines that can run do run, and Go's mutexes do not starve a        *)
(* waiter.  Nothing is assumed of a server: neither ListenAndServe nor a   *)
(* Close handed to its own goroutine need ever return.                     *)
Fairness == \A t \in Threads : WF_vars(WorkStep(t)) /\ SF_vars(LockStep(t))

(* The Close start calls in line, on a server that never served, returns. *)
InlineCloseReturns ==
    \A t \in Threads : WF_vars(\E s \in Servers : /\ At(t, "closeFailed")
                                                   /\ th[t].s = s
                                                   /\ CloseReturns(s))

BoundedSpec == Spec /\ Fairness
LiveSpec == BoundedSpec /\ InlineCloseReturns

-----------------------------------------------------------------------------
(* Properties. *)

ThreadState ==
    [pc : {"idle", "stopLock", "rebuildStop", "stopClose", "stopHost",
           "stopForget", "start", "construct", "hostApply", "closeFailed", "persist",
           "publish", "rebuildLock", "rebuildCheck", "applyLock", "applyScan",
           "applyRemoved", "applyDisabled", "applyBuilt",
           "stopDelete", "closeScan", "closeDelete"},
     ret : {"idle", "rebuildCheck", "applyRemoved", "applyDisabled", "applyScan",
            "applyBuilt", "stopDelete", "closeDelete"},
     rb : BOOLEAN, n : Names \cup {None}, r : Handles \cup {None}, cfg : AnyConfig,
     s : Servers \cup {None}, nat : BOOLEAN, snap : [Names -> Configs \cup {None}],
     todo : SUBSET Names]

HandleState ==
    [cfg : AnyConfig, srv : Servers \cup {None}, done : Servers \cup {None},
     state : {"", "building", "running", "stopped", "error", "disabled"},
     err : BOOLEAN, buildMu : Threads \cup {None}]

ServerState ==
    [serve : BOOLEAN, close : {"no", "running", "returned"},
     owner : Handles \cup {None}, reap : BOOLEAN, nat : BOOLEAN]

(* Type invariant of the Manager's state: a handle always carries a config *)
(* Apply can compare, and the map names handles only.                      *)
TypeOK ==
    /\ disk \in [Names -> Configs \cup {None}]
    /\ mu \in Threads \cup {None}
    /\ closed \in BOOLEAN
    /\ listeners \in [Names -> Handles \cup {None}]
    /\ hd \in [Handles -> HandleState]
    /\ sv \in [Servers -> ServerState]
    /\ th \in [Threads -> ThreadState]
    /\ rules \in [Names -> SUBSET Servers]
    /\ record \in [Names -> Servers \cup {None}]
    /\ gauge \in Int

Quiet == \A t \in DOMAIN th : th[t].pc = "idle"

(* A server a handle still names has not been asked to close, so the       *)
(* callbacks Peers and statusOf make on r.srv under r.mu never reach a     *)
(* server whose teardown has begun.                                        *)
NoUseAfterClose ==
    \A r \in Handles : hd[r].srv # None => sv[hd[r].srv].close = "no"

(* A listener shown as running is in ListenAndServe, and one whose current *)
(* generation is in ListenAndServe is never shown as stopped or failed: a  *)
(* serve goroutine that returns late does not overwrite its successor.     *)
StatusTruthful ==
    \A r \in Handles :
        LET s == hd[r].done
        IN /\ hd[r].state = "running" => s # None /\ hd[r].srv = s /\ sv[s].serve
           /\ (s # None /\ sv[s].serve) => hd[r].state \notin {"stopped", "error"}

(* A tracked listener nobody is working on is not left in "building": both *)
(* the failed and the successful ends of a rebuild publish an outcome.     *)
NeverStuckBuilding ==
    \A n \in Tracked :
        LET r == listeners[n]
        IN hd[r].buildMu = None => hd[r].state # "building"

(* When no call is under way, every server that was not asked to close is  *)
(* the server of a tracked listener: Rebuild racing Stop, Close or Apply   *)
(* leaves nothing running untracked.                                       *)
NoOrphans ==
    Quiet => \A s \in Servers :
        sv[s].close = "no" => \E n \in Tracked : hd[listeners[n]].srv = s

(* Once Close has released Manager.mu nothing is tracked again: the latch  *)
(* turns away the Apply that was already on its way in.                    *)
ClosedIsEmpty == closed /\ mu = None => Tracked = {}

(* Manager.abandoned counts exactly the Close calls that overran stopGrace *)
(* and have not been reaped.                                               *)
GaugeExact == gauge = Cardinality({s \in Servers : sv[s].reap})

(* Status and All: a listener shown as running is in ListenAndServe, one   *)
(* that is in ListenAndServe is never shown as stopped or failed, and none *)
(* nobody is working on is left in "building"; the abandoned gauge counts  *)
(* exactly the servers whose Close is still out.                           *)
StatusHonest == StatusTruthful /\ NeverStuckBuilding /\ GaugeExact

(* Rebuild racing Stop, Close or Apply leaves no server running untracked  *)
(* once every call has returned, and after Close has set its latch nothing *)
(* is tracked again by an Apply that was already on its way in.            *)
FleetOwned == NoOrphans /\ ClosedIsEmpty

(* With one caller at a time, the rules on the host are those of the       *)
(* tracked servers and no others: a listener that is rebuilt, stopped or   *)
(* disabled takes its rules with it, whether or not its state file could   *)
(* be written.                                                             *)
RulesFollowServers ==
    Quiet => \A n \in Names :
        rules[n] = {s \in Servers : /\ n \in Tracked
                                    /\ hd[listeners[n]].srv = s
                                    /\ sv[s].nat}

(* Manager.mu is always released again, whatever servers do when they are  *)
(* asked to close: one listener cannot freeze every Status and All read.   *)
FleetResponsive == []<>(mu = None)

(* Every call of the Manager returns. *)
CallsReturn == \A t \in Threads : th[t].pc # "idle" ~> th[t].pc = "idle"

-----------------------------------------------------------------------------
(* What the comments say and the code does not do. *)

(* The rules of a tracked listener's server stay on the host: a teardown   *)
(* removes its own listener's rules only.                                  *)
RulesKept ==
    \A n \in Tracked :
        LET s == hd[listeners[n]].srv
        IN s # None /\ sv[s].nat => s \in rules[n]

=============================================================================
