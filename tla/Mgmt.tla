---- MODULE Mgmt ----
\* The management API: the handlers that change the configuration directory, the key
\* material beside it and the running listeners, each a sequence of steps on disk and
\* manager that may fail, be cut off by a crash or be overtaken by a SIGHUP. Stored
\* options are reduced to one secret, one generated pair and the WireGuard peers.
EXTENDS Integers, Sequences, FiniteSets, FiniteSetsExt
CONSTANTS Listeners, Profiles,   \* the names requests are about
          Threads,               \* concurrent requests
          Scenarios,             \* the requests to draw from, how many SIGHUPs, failing calls and
                                 \* crashes there are
          LastHost,              \* the last usable address of the listener's subnet
          MaxRequests,
          Nil
VARIABLES disk,   \* file: the stored configurations; keys: the names with a key directory
          live,   \* listener -> the configuration it was built from and whether it runs
          thr,    \* thread -> its request and where it is
          srv,    \* lock: mutate's holder; audit: the events recorded; hup: what a SIGHUP has loaded
          held,   \* what clients hold, and the accidents the properties make allowance for
          env     \* the requests to draw from, and budgets
vars == <<disk, live, thr, srv, held, env>>

Names == Listeners \union Profiles
Keys == {"secret", "cert", "key"}
\* The options a protocol declares, and those one generator makes together: a WireGuard
\* listener has an inline private key, a TLS one a certificate and its key on disk.
Declared(proto) == IF proto = "wg" THEN {"secret"} ELSE {"cert", "key"}
Generated(proto) == Declared(proto)
Redacted == "<redacted>"
Unset == ""
NoOpts == [k \in Keys |-> Unset]
Single == [key |-> 0, addr |-> 2]   \* a peer set through the single-peer options
Own == 1                            \* the listener's own address
Idle == [pc |-> "idle"]
Working(t, n) == thr[t].pc \notin {"idle", "lock"} /\ thr[t].req.name = n
Quiet(n) == \A t \in Threads : ~Working(t, n)

Init ==
  /\ disk = [file |-> [n \in Names |-> Nil], keys |-> {}]
  /\ live = [n \in Listeners |-> Nil]
  /\ thr = [t \in Threads |-> Idle]
  /\ srv = [lock |-> Nil, audit |-> <<>>, hup |-> Nil]
  /\ held = [clients |-> {}, lost |-> {}, cut |-> {}, raced |-> {}]
  /\ \E s \in Scenarios : env = [ask |-> s.ask, signals |-> s.signals, faults |-> s.faults, crashes |-> s.crashes,
                               requests |-> 0, serial |-> 0]

Store(n, cfg) == disk' = [disk EXCEPT !.file[n] = cfg]
To(t, pc) == thr' = [thr EXCEPT ![t].pc = pc]
Leave(t, res) == thr' = [thr EXCEPT ![t].pc = "leave", ![t].res = res]   \* return: the deferred calls run
Faulty == env.faults > 0 /\ env' = [env EXCEPT !.faults = @ - 1]
File(t) == disk.file[thr[t].req.name]
Peers(cfg) == cfg.peers \union (IF cfg.single THEN {Single} ELSE {})

\* --- the manager, as the handlers use it ---

\* Whether a server can be built from the configuration: the options are there and the
\* generated files exist.
Buildable(n, cfg) ==
  /\ \A k \in Declared(cfg.proto) : cfg.opts[k] # Unset
  /\ \A k \in {"cert", "key"} : cfg.opts[k] = "generated" => n \in disk.keys
\* Apply reads the directory before it takes Manager.mu, and reconciles with what it read:
\* unchanged listeners are left alone, and some builds fail.
LoadDir == [n \in Listeners |-> disk.file[n]]
Changed(conf) == {n \in Listeners : conf[n] # Nil /\ (live[n] = Nil \/ live[n].cfg # conf[n])}
Applied(conf, failing) ==
  [n \in Listeners |-> IF conf[n] = Nil THEN Nil
                       ELSE IF n \in Changed(conf) THEN [cfg |-> conf[n], up |-> Buildable(n, conf[n]) /\ n \notin failing]
                       ELSE live[n]]
ApplyOK(conf, failing) == \A n \in Changed(conf) : Buildable(n, conf[n]) /\ n \notin failing
\* The listeners a reconcile with an old reading of the directory starts although their
\* deletion has stopped them meanwhile.
Raced(conf) == {n \in Listeners : conf[n] # Nil /\ (disk.file[n] = Nil \/ \E t \in Threads : thr[t].pc \in {"keys", "file"} /\ thr[t].req.name = n)}
\* Rebuild: a listener it does not track, or that has no file, is refused.
RebuildOK(n, failing) == live[n] # Nil /\ disk.file[n] # Nil /\ Buildable(n, disk.file[n]) /\ ~failing
Rebuilt(n, failing) ==
  IF live[n] = Nil \/ disk.file[n] = Nil THEN live
  ELSE [live EXCEPT ![n] = [cfg |-> disk.file[n], up |-> RebuildOK(n, failing)]]

\* --- every handler ---

\* The body is decoded before the lock is asked for; one that does not decode is only
\* recorded, a creation without its name, which was in the body.
Receive(t, r) ==
  /\ thr[t].pc = "idle" /\ env.requests < MaxRequests
  /\ env' = [env EXCEPT !.requests = @ + 1]
  /\ thr' = [thr EXCEPT ![t] = [pc |-> "lock", req |-> r, old |-> Nil, new |-> Nil, peer |-> Nil, res |-> "ok",
                                read |-> Nil, keyErr |-> FALSE]]
  /\ UNCHANGED <<disk, live, srv, held>>
DecodeFails(t, r) ==
  /\ thr[t].pc = "idle" /\ env.requests < MaxRequests /\ r.op \in {"create", "patch", "client"}
  /\ env' = [env EXCEPT !.requests = @ + 1]
  /\ srv' = [srv EXCEPT !.audit = Append(@, [op |-> r.op, name |-> IF r.op = "create" THEN "" ELSE r.name,
                                         res |-> "failed"])]
  /\ UNCHANGED <<disk, live, thr, held>>

\* Mutant of MutexFree.
NoMutex == TRUE
MutexFree == srv.lock = Nil
Lock(t) ==
  /\ thr[t].pc = "lock" /\ MutexFree
  /\ srv' = [srv EXCEPT !.lock = t]
  /\ To(t, thr[t].req.op)
  /\ UNCHANGED <<disk, live, held, env>>

\* Mutant of Deferred.
DeferredSwapped == [leave |-> "unlock", left |-> "record"]
\* The deferred calls run last in, first out: the event is recorded under the lock.
Deferred == [leave |-> "record", left |-> "unlock"]
RunDeferred(t) ==
  /\ thr[t].pc \in {"leave", "left"}
  /\ srv' = IF Deferred[thr[t].pc] = "record"
            THEN [srv EXCEPT !.audit = Append(@, [op |-> thr[t].req.op, name |-> thr[t].req.name, res |-> thr[t].res])]
            ELSE [srv EXCEPT !.lock = Nil]
  /\ thr' = IF thr[t].pc = "leave" THEN [thr EXCEPT ![t].pc = "left"] ELSE [thr EXCEPT ![t] = Idle]
  /\ UNCHANGED <<disk, live, held, env>>

\* --- handleCreateListener, handleCreateProfile ---

\* firstRedactedLiteral; only the listener handler asks.
HasSentinel(opts) == \E k \in Keys : opts[k] = Redacted
\* Mutant of SentinelRefused.
NoSentinelCheck(opts) == FALSE
SentinelRefused(opts) == HasSentinel(opts)
Missing(r) == {k \in Generated(r.proto) : r.opts[k] = Unset}
\* generateListenerKeys refuses half of a generator's options.
CreateRefused(r) ==
  \/ disk.file[r.name] # Nil
  \/ r.name \in Listeners /\ (SentinelRefused(r.opts) \/ Missing(r) \notin {{}, Generated(r.proto)})
  \/ r.name \in Profiles /\ Missing(r) # {}   \* ValidateOptions: what the protocol requires
Create(t) ==
  LET r == thr[t].req
      cfg == [proto |-> r.proto, opts |-> r.opts, peers |-> {}, single |-> r.single] IN
  /\ thr[t].pc = "create"
  /\ IF CreateRefused(r) THEN Leave(t, "failed")
     ELSE thr' = [thr EXCEPT ![t].new = cfg,
                             ![t].pc = IF r.name \in Listeners /\ Missing(r) # {} THEN "keygen" ELSE "write"]
  /\ UNCHANGED <<disk, live, srv, held, env>>
\* keygen.Generate; a generator that fails half way leaves its directory.
KeyGen(t) ==
  LET r == thr[t].req
      onDisk == IF Missing(r) \subseteq {"secret"} THEN {} ELSE {r.name} IN
  /\ thr[t].pc = "keygen"
  /\ \/ /\ thr' = [thr EXCEPT ![t].pc = "write",
                              ![t].new.opts = [k \in Keys |-> IF k \in Missing(r) THEN "generated" ELSE @[k]]]
        /\ disk' = [disk EXCEPT !.keys = @ \union onDisk]
        /\ UNCHANGED env
     \/ Faulty /\ Leave(t, "failed") /\ disk' = [disk EXCEPT !.keys = @ \union onDisk]
  /\ UNCHANGED <<live, srv, held>>
\* WriteListenerFile: a temporary file renamed into place. A create that fails here takes
\* its keys out again.
Write(t) ==
  LET n == thr[t].req.name  op == thr[t].req.op IN
  /\ thr[t].pc = "write"
  /\ \/ /\ Store(n, thr[t].new)
        /\ IF n \in Profiles THEN Leave(t, "ok") ELSE To(t, IF op = "create" THEN "apply" ELSE "rebuild")
        /\ UNCHANGED env
     \/ /\ Faulty /\ Leave(t, "failed")
        /\ disk' = IF op = "create" /\ n \in Listeners THEN [disk EXCEPT !.keys = @ \ {n}] ELSE disk
  /\ UNCHANGED <<live, srv, held>>
CreateLoad(t) ==
  /\ thr[t].pc = "apply" /\ thr' = [thr EXCEPT ![t].pc = "reconcile", ![t].read = LoadDir]
  /\ UNCHANGED <<disk, live, srv, held, env>>
\* Mutant of CreateApply.
ApplyTakesKeys(t) ==
  LET conf == thr[t].read IN
  /\ thr[t].pc = "reconcile"
  /\ \/ UNCHANGED <<env, disk>> /\ live' = Applied(conf, {}) /\ Leave(t, IF ApplyOK(conf, {}) THEN "ok" ELSE "failed")
     \/ Faulty /\ live' = Applied(conf, Changed(conf)) /\ Leave(t, "failed")
        /\ disk' = [disk EXCEPT !.keys = @ \ {thr[t].req.name}]
  /\ held' = [held EXCEPT !.raced = Raced(conf)]
  /\ UNCHANGED srv
\* A listener that does not come up is kept, with its keys, and reported.
CreateApply(t) ==
  LET conf == thr[t].read IN
  /\ thr[t].pc = "reconcile"
  /\ \/ UNCHANGED env /\ live' = Applied(conf, {}) /\ Leave(t, IF ApplyOK(conf, {}) THEN "ok" ELSE "failed")
     \/ Faulty /\ live' = Applied(conf, Changed(conf)) /\ Leave(t, "failed")
  /\ held' = [held EXCEPT !.raced = Raced(conf)]
  /\ UNCHANGED <<disk, srv>>

\* --- handlePatchListener, handlePatchProfile, handleRestartListener ---

\* Mutant of mergeOptions.
MergeStoresAll(opts, patch) == [k \in Keys |-> IF patch[k] = Nil THEN opts[k] ELSE patch[k]]
\* mergeOptions: absent and redacted options keep what is stored, an empty one clears it.
mergeOptions(opts, patch) == [k \in Keys |-> IF patch[k] \in {Nil, Redacted} THEN opts[k] ELSE patch[k]]
\* applyTo: a change of protocol drops what the new one does not declare.
applyTo(cfg, r) ==
  LET opts == mergeOptions(cfg.opts, r.opts) IN
  IF r.proto \in {Nil, cfg.proto} THEN [cfg EXCEPT !.opts = opts]
  ELSE [proto |-> r.proto, opts |-> [k \in Keys |-> IF k \in Declared(r.proto) THEN opts[k] ELSE Unset],
        peers |-> IF r.proto = "wg" THEN cfg.peers ELSE {}, single |-> r.proto = "wg" /\ cfg.single]
PatchRefused(r) ==
  \/ disk.file[r.name] = Nil
  \/ r.name \in Profiles /\ LET new == applyTo(disk.file[r.name], r)
                            IN \E k \in Generated(new.proto) : new.opts[k] = Unset
Patch(t) ==
  LET r == thr[t].req IN
  /\ thr[t].pc = "patch"
  /\ IF PatchRefused(r) THEN Leave(t, "failed")
     ELSE thr' = [thr EXCEPT ![t].old = File(t), ![t].new = applyTo(File(t), r), ![t].pc = "write"]
  /\ UNCHANGED <<disk, live, srv, held, env>>
Restart(t) == thr[t].pc = "restart" /\ To(t, "rebuild") /\ UNCHANGED <<disk, live, srv, held, env>>
\* A failed patch stays saved; a failed change of the peers is rolled back. A new client
\* is answered once the listener runs with its peer, unless an override blanked one of
\* the options the answer must have.
Rebuild(t) ==
  LET r == thr[t].req  n == r.name
      done(ok) == IF ok THEN Leave(t, IF r.op = "client" /\ r.blank THEN "stranded" ELSE "ok")
                  ELSE IF r.op \in {"client", "unpeer"} THEN To(t, "rollback") ELSE Leave(t, "failed")
      client == [name |-> n, peer |-> thr[t].peer]
      gone == IF r.op = "unpeer" THEN {c \in held.clients : c.name = n /\ c.peer.key = r.peer}
              ELSE IF r.op = "patch" /\ thr[t].new.proto # "wg" THEN {c \in held.clients : c.name = n} ELSE {} IN
  /\ thr[t].pc = "rebuild"
  /\ \E failing \in BOOLEAN :
       LET ok == RebuildOK(n, failing) IN
       /\ IF failing THEN Faulty ELSE UNCHANGED env
       /\ live' = Rebuilt(n, failing) /\ done(ok)
       /\ held' = [held EXCEPT
            !.clients = (IF ok \/ r.op = "patch" THEN @ \ gone ELSE @)
                          \union IF ok /\ r.op = "client" /\ ~r.blank THEN {client} ELSE {},
            !.lost = IF ok /\ r.op = "client" /\ r.blank THEN @ \union {client} ELSE @]
  /\ UNCHANGED <<disk, srv>>

\* --- handleClientConfig for WireGuard, handlePeerDelete ---

\* Mutant of usedWGAddresses.
UsedJSONOnly(cfg) == {Own} \union {p.addr : p \in cfg.peers}
\* usedWGAddresses and allocateWGAddress: the lowest address nobody has.
usedWGAddresses(cfg) == {Own} \union {p.addr : p \in Peers(cfg)}
Free(cfg) == (1..LastHost) \ usedWGAddresses(cfg)
Client(t) ==
  LET cfg == File(t)
      known == cfg # Nil /\ cfg.proto = "wg" /\ cfg.opts["secret"] # Unset /\ Free(cfg) # {}
      peer == [key |-> env.serial + 1, addr |-> Min(Free(cfg))] IN
  /\ thr[t].pc = "client"
  /\ \/ ~known /\ Leave(t, "failed") /\ UNCHANGED env
     \/ /\ known
        /\ thr' = [thr EXCEPT ![t].old = cfg, ![t].new = [cfg EXCEPT !.peers = @ \union {peer}],
                              ![t].peer = peer, ![t].pc = "write"]
        /\ env' = [env EXCEPT !.serial = @ + 1]
  /\ UNCHANGED <<disk, live, srv, held>>
PeerDelete(t) ==
  LET cfg == File(t)
      known == cfg # Nil /\ cfg.proto = "wg" /\ \E p \in Peers(cfg) : p.key = thr[t].req.peer IN
  /\ thr[t].pc = "unpeer"
  /\ \/ ~known /\ Leave(t, "failed")
     \/ /\ known
        /\ thr' = [thr EXCEPT ![t].old = cfg, ![t].pc = "write",
                     ![t].new = [cfg EXCEPT !.peers = {p \in @ : p.key # thr[t].req.peer},
                                            !.single = @ /\ thr[t].req.peer # Single.key]]
  /\ UNCHANGED <<disk, live, srv, held, env>>
\* Mutant of Restored.
RestoredPeers(t) == [thr[t].new EXCEPT !.peers = thr[t].old.peers]
\* What was stored goes back; only the peers changed, or the options of the single peer.
\* A write that fails again is logged.
Restored(t) == thr[t].old
Rollback(t) ==
  LET n == thr[t].req.name IN
  /\ thr[t].pc = "rollback"
  /\ \/ Store(n, Restored(t)) /\ Leave(t, "failed") /\ UNCHANGED <<env, held>>
     \/ /\ Faulty /\ Leave(t, "torn") /\ UNCHANGED disk
        /\ held' = [held EXCEPT !.clients = {c \in @ : c.name # n \/ c.peer \in Peers(disk.file[n])},
                                !.lost = @ \union {[name |-> n, peer |-> p] : p \in Peers(disk.file[n]) \ Peers(Restored(t))}]
  /\ UNCHANGED <<live, srv>>

\* --- handleDeleteListener, handleDeleteProfile ---

\* Mutant of DeleteStop.
DeleteKeepsRunning(t) ==
  /\ thr[t].pc = "delete"
  /\ To(t, IF thr[t].req.name \in Listeners THEN "keys" ELSE "file")
  /\ UNCHANGED <<disk, live, srv, held, env>>
DeleteStop(t) ==
  LET n == thr[t].req.name IN
  /\ thr[t].pc = "delete"
  /\ live' = IF n \in Listeners THEN [live EXCEPT ![n] = Nil] ELSE live
  /\ To(t, IF n \in Listeners THEN "keys" ELSE "file")
  /\ UNCHANGED <<disk, srv, held, env>>
DeleteKeys(t) ==
  LET n == thr[t].req.name IN
  /\ thr[t].pc = "keys"
  /\ \/ /\ disk' = [disk EXCEPT !.keys = @ \ {n}] /\ To(t, "file") /\ UNCHANGED env
        /\ held' = [held EXCEPT !.cut = IF disk.file[n] # Nil THEN @ \union {n} ELSE @]
     \/ Faulty /\ thr' = [thr EXCEPT ![t].pc = "file", ![t].keyErr = TRUE] /\ UNCHANGED <<disk, held>>
  /\ UNCHANGED <<live, srv>>
DeleteFile(t) ==
  LET n == thr[t].req.name IN
  /\ thr[t].pc = "file"
  /\ \/ /\ Store(n, Nil) /\ UNCHANGED env
        /\ Leave(t, IF thr[t].keyErr \/ File(t) = Nil THEN "failed" ELSE "ok")
        /\ held' = [held EXCEPT !.clients = {c \in @ : c.name # n}, !.lost = {c \in @ : c.name # n}, !.cut = @ \ {n}]
     \/ Faulty /\ File(t) # Nil /\ Leave(t, "failed") /\ UNCHANGED <<disk, held>>
  /\ UNCHANGED <<live, srv>>

\* --- the daemon around the handlers ---

\* SIGHUP: a reconcile that does not ask for mutate. Any number of handlers may run
\* between its reading of the directory and its taking of Manager.mu.
SignalLoad ==
  /\ srv.hup = Nil /\ env.signals > 0 /\ env' = [env EXCEPT !.signals = @ - 1]
  /\ srv' = [srv EXCEPT !.hup = LoadDir] /\ UNCHANGED <<disk, live, thr, held>>
Signal ==
  /\ srv.hup # Nil /\ srv' = [srv EXCEPT !.hup = Nil]
  /\ live' = Applied(srv.hup, {}) /\ held' = [held EXCEPT !.raced = Raced(srv.hup)]
  /\ UNCHANGED <<disk, thr, env>>
\* The process dies at any step and starts again with what is on disk.
Crash ==
  LET cut == {t \in Threads : thr[t].pc \in {"rebuild", "rollback"} /\ thr[t].req.op \in {"client", "unpeer"}} IN
  /\ env.crashes > 0 /\ env' = [env EXCEPT !.crashes = @ - 1]
  /\ thr' = [t \in Threads |-> Idle] /\ srv' = [lock |-> Nil, audit |-> <<>>, hup |-> Nil]
  /\ live' = [n \in Listeners |-> IF disk.file[n] = Nil THEN Nil ELSE [cfg |-> disk.file[n], up |-> Buildable(n, disk.file[n])]]
  /\ held' = [held EXCEPT !.raced = {},
                !.clients = {c \in @ : disk.file[c.name] # Nil /\ c.peer \in Peers(disk.file[c.name])},
                !.lost = @ \union {[name |-> thr[t].req.name, peer |-> thr[t].peer] : t \in {u \in cut : thr[u].peer # Nil}}]
  /\ UNCHANGED disk

Handler(t) ==
  \/ Lock(t) \/ Create(t) \/ KeyGen(t) \/ Write(t) \/ CreateLoad(t) \/ CreateApply(t)
  \/ Patch(t) \/ Restart(t) \/ Rebuild(t) \/ Client(t) \/ PeerDelete(t) \/ Rollback(t)
  \/ DeleteStop(t) \/ DeleteKeys(t) \/ DeleteFile(t) \/ RunDeferred(t)
Next ==
  \/ \E t \in Threads : Handler(t) \/ \E r \in env.ask : Receive(t, r) \/ DecodeFails(t, r)
  \/ SignalLoad \/ Signal \/ Crash
Spec == Init /\ [][Next]_vars

\* A client that was given a configuration has its peer on the listener, with the address
\* it was told, until that peer, the listener or its protocol is changed: requests in
\* flight at the same time do not overwrite each other's peers (mutate in
\* handleClientConfig, handlePatchListener and handlePeerDelete).
ClientsKnown ==
  \A c \in held.clients : Quiet(c.name) => disk.file[c.name] # Nil /\ c.peer \in disk.file[c.name].peers

\* No two peers of a listener have one address, and none has the listener's
\* (usedWGAddresses, allocateWGAddress).
AddressesDistinct ==
  \A n \in Listeners : disk.file[n] # Nil =>
    \A p, q \in Peers(disk.file[n]) : p.addr # Own /\ (p # q => p.addr # q.addr)

\* A peer on a listener belongs to a client that was answered: a provision that failed
\* left nothing, except where the rollback's write failed too, the process died, or the
\* answer was refused after the peer was stored (the rollback in buildWGClientConfig).
NoneStranded ==
  \A n \in Listeners : Quiet(n) /\ disk.file[n] # Nil =>
    \A p \in disk.file[n].peers : [name |-> n, peer |-> p] \in held.clients \union held.lost

\* A handler that gives up a change of the peers leaves the file as it found it
\* unless writing it back fails too (prevOptions in handlePeerDelete, prevPeers in
\* buildWGClientConfig).
RollbackExact ==
  \A t \in Threads : thr[t].pc = "leave" /\ thr[t].res = "failed" /\ thr[t].req.op \in {"client", "unpeer"} /\ thr[t].old # Nil
    => File(t) = thr[t].old

\* The placeholder shown instead of a secret is never stored for a listener
\* (firstRedactedLiteral on create, mergeOptions on patch).
NoSentinel == \A n \in Listeners : disk.file[n] # Nil => ~HasSentinel(disk.file[n].opts)

\* A stored configuration that names generated files has them, unless its deletion was
\* cut short after the keys went (handleCreateListener keeps them when Apply fails).
KeysThere ==
  \A n \in Listeners \ held.cut :
    disk.file[n] # Nil /\ (\E k \in {"cert", "key"} : disk.file[n].opts[k] = "generated") => n \in disk.keys

\* The audit tells what happened in the order it happened: once all is quiet, a name whose
\* last creation or deletion recorded as done is a deletion has no file, unless a later
\* creation was saved with an error, and one whose last is a creation has its file unless
\* a later deletion failed half way (the deferred record runs before the deferred unlock).
AuditTrue ==
  \A n \in Names :
    LET of == SelectSeq(srv.audit, LAMBDA e : e.name = n /\ e.op \in {"create", "delete"}) IN
    Quiet(n) /\ of # <<>> /\ of[Len(of)].res = "ok" => (disk.file[n] # Nil) = (of[Len(of)].op = "create")

\* A listener without a file does not run, unless the last reconcile had read the
\* directory before the deletion was through and took Manager.mu after it had stopped the
\* listener: Apply reads before it locks, and a SIGHUP does not wait for the handlers
\* (handleDeleteListener, Manager.Apply). The next reconcile stops it.
DeletedGone == \A n \in Listeners \ held.raced : Quiet(n) /\ disk.file[n] = Nil => live[n] = Nil
====
