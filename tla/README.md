# A verification project for veepin

veepin is one Go program that speaks many VPN protocols, as client and as server: IKEv2,
IKEv1 (Cisco, L2TP/IPsec), WireGuard and AmneziaWG, nebula, OpenVPN, SSTP, AnyConnect,
Fortinet, GlobalProtect, Pulse, L2TPv3, SoftEther, MASQUE, SSH and a toy protocol. A shared
data plane moves packets between their tunnels and a TUN device, `connect` ties a client
session to the host's routes and resolvers, and a supervisor runs a directory of listeners
that a management API edits.

This directory holds TLA+ models of those parts, TLC configurations that check them on
small instances, and TLAPS proofs of the properties that matter most for every instance.
`PROJECT.json` is the index: which definition stands for which lines (`map`), what each run
checks, which hazards of the code each property is there for, and which theorems are proved.

- [How it is put together](#how-it-is-put-together)
- [The parts and their modules](#the-parts-and-their-modules)
- [The runs](#the-runs)
- [Bounds](#bounds)
- [Fairness](#fairness)
- [What is proved](#what-is-proved)
- [What is only model-checked](#what-is-only-model-checked)
- [Where code and documentation disagree](#where-code-and-documentation-disagree)
- [Abstractions, module by module](#abstractions-module-by-module)
- [Not modelled](#not-modelled)

To check a run: `tlc -config supervisor.cfg MCSupervisor`; to check a proof:
`tlapm OvpnControl.tla`.

## How it is put together

One module per component. Its state is VARIABLES, every handler, goroutine step or timer is
an action that models the whole of it, and its bounds and its environment are CONSTANTS. A
lock-protected section is one action; where the code lets go of a lock, waits or talks to
the network, the model has a step boundary. Networks are sets or sequences of messages, and
each module says whether they lose, repeat or reorder, as the code's transport does.

A module that TLC runs directly, or an `MC*` module that puts several together, gives the
constants values. The `MC*` modules of a protocol family have a variable `part`: the parts
share no state with each other, so a behaviour is a behaviour of one part, and a property of
the run is the conjunction of what it says about each part. `MCIke` and `MCTunnels` let all
parts use the same few variables; in `MCNoise` and `MCLiveness` the variables of a part that
does not run are `None`. Three of them EXTEND the modules they run instead of instantiating
them: `MCOpenvpn` extends `OvpnControl`, `OvpnServer` and `OvpnClient`, `MCNoise` extends
`WgSession` and `RingReplay`, `MCSupervisor` extends `Supervisor`. The invariants these runs check are
therefore, word for word, the ones the theorems are about.

An operator whose comment begins "Mutant of" or "A bug:" is no part of the model: it is the
definition below it with a mistake a programmer might make (a dropped guard, a missing
reset, a swapped order). Each property of a passing run is violated by TLC when one of them
takes the place of the definition it distorts; `PROJECT.json` pairs them under `mutants`.

`map` names the definitions and their lines. In some modules a helper whose lines lie within
those of another definition of the map, or that stands for something outside the
repository, is not listed separately.

## The parts and their modules

| part of veepin | code | modules |
|---|---|---|
| supervisor of listeners | `internal/supervisor` | `Supervisor`, proofs in `SupervisorProofs`, `SupervisorFleet` |
| management API, config store, keys | `internal/mgmt`, `confstore`, `keygen` | `Mgmt` |
| host rules of a listener | `internal/hostnet` | `HostNat` |
| connect: routes, kill switch, DNS | `cmd/veepin/connect.go`, `dataplane/client_*` | `Connect` |
| every client's Dial and Close | protocol packages | `Dialing` |
| every server's life cycle | protocol packages | `Serving` |
| liveness monitor and probes | `client/liveness.go` | `DeadPeer` |
| data plane | `dataplane/pump.go`, `routes.go`, `counters.go` | `Pump` |
| receive coalescing, shaping, admission | `dataplane/gro_linux.go`, `shape.go`, `admission.go` | `Gro`, `Shaper`, `Gate` |
| anti-replay window | `internal/replay` | `AntiReplay` (what it promises), `RingReplay` (the ring) |
| OpenVPN | `internal/openvpn` | `OrderedStream` (what TLS needs), `OvpnControl`, `OvpnServer`, `OvpnClient` |
| WireGuard, AmneziaWG | `internal/wireguard`, `amneziawg` | `WgSession`, `WgWire`, `NoiseHandshake` |
| nebula | `internal/nebula` | `NebulaTunnels`, `NebulaRelay`, `NebulaDirectory`, `NoiseHandshake` |
| IKEv2 | `internal/ikev2`, `ikev2` | `IkeHandshake`, `IkeControl`, `IkeFragments`, `IkeSuites`, `IkeRoam`, `Aggfrag` |
| IKEv1, Cisco gateway | `internal/ikev1`, `internal/cisco` | `Ikev1` |
| PPP, L2TP | `internal/ppp`, `internal/l2tp` | `Ppp`, `L2tp` |
| DTLS | `internal/dtls` | `Dtls` |
| AnyConnect, Fortinet, GlobalProtect, Pulse, toy | `internal/anyconnect`, ... | `AnyConnect`, `Fortinet`, `GpGateway`, `Pulse`, `Toy` |

How they meet. The supervisor builds and closes the servers whose life cycle is `Serving`
and asks `HostNat` for their rules; `Mgmt` edits the directory it reconciles to. A client is
dialled (`Dialing`), watched (`DeadPeer`) and tied to the host (`Connect`). Every tunnel of
every protocol registers its keys, routes and counters with `Pump`; servers ask `Gate`
before they spend anything on a stranger. PPP runs inside SSTP, L2TP and Fortinet; DTLS under
AnyConnect and Fortinet; IKEv1 and ESP under L2TP; the ring of `RingReplay` in toy and nebula.

A few correspondences that recur:

- `Supervisor`: `th[t].pc` is where a goroutine that called the Manager stands, `mu` and
  `hd[r].buildMu` are the two mutexes, `hd` the `running` values, `sv` what a server's own
  goroutines do, `rules` and `record` the host's rules and the persisted state file.
- `OvpnControl`: `ch[c]` is one side's `control.Channel` with its `reliable.Sender` (`next`,
  `flight`) and `Receiver` (`rnext`, `buffered`, `pending`); `wrote` and `read` are histories.
- `WgSession`: `cl.tun` and `sv.tun` are the two `Tunnel`s with current and previous keypair,
  `cl.keys` and `sv.keys` the pumps' demux tables, `ns` numbers the server's answers, and
  `env.epoch` the answers of server processes that no longer run.
- `IkeControl`: a Child SA is the pair of what the two ends drew for it, so that the same pair
  at both ends means the same SPIs and keys; `sv.used` are the address pools, `sv.dp` and
  `sv.route` what the pump has registered.
- `Connect` and `HostNat`: the host is a set of routes, resolver files or iptables rules, and
  each external command is a step that may fail or be the last before a SIGKILL.

## The runs

Passing runs, with what their properties say. TLC explores every behaviour of the instance.

| run | module | question |
|---|---|---|
| `supervisor` | `MCSupervisor` | do racing Apply, Rebuild, Stop and Close leave status, ownership of servers and host rules right? |
| `supervisor_live` | `MCSupervisor` | does every call return though a server's Close may hang? |
| `openvpn` | `MCOpenvpn` | is the control channel an ordered stream, are sessions and addresses consistent, does Dial clean up? |
| `noise` | `MCNoise` | do both ends of WireGuard and nebula agree on keys and tunnels, is nothing delivered twice or astray, and does the replay ring answer as the set of accepted counters would? |
| `ike` | `MCIke` | do IKE's ends agree, are leases held once, does the data path follow the control channel, do messages come out whole? |
| `tunnels` | `MCTunnels` | the remaining protocols, data plane, dialling, serving, host state and management API |
| `liveness` | `MCLiveness` | what must eventually happen in OpenVPN, WireGuard and nebula |

- **supervisor.** `StatusHonest` (running means in ListenAndServe, no stale generation
  publishes its outcome, nobody stays in "building", the abandoned gauge is exact),
  `NoUseAfterClose` (nothing a reader may still use has been asked to close), `FleetOwned` (no
  server serves untracked once calls have returned, a closed Manager is empty), `TypeOK`, and
  `HostRulesFollow` (with one caller, the rules on the host are those of the tracked servers).
- **supervisor_live.** `CallsReturn`, `FleetResponsive`: every call returns and `Manager.mu` is
  always free again, because a teardown that takes longer than `stopGrace` is abandoned.
- **openvpn.** `OneSession` (TLS reads one session's messages in order; what a sender has let
  go of its peer holds), `ControlIsStream` (a refinement of `OrderedStream`),
  `SessionsConsistent` (addresses, client map, gate, closing), `DialAndClose`.
- **noise.** `KeysInStep`, `DeliveredOnce`, `Advances` (WireGuard: demux tables and keypairs, at
  most once, only newer sessions replace), `RoundTrip` (AmneziaWG's framing undone exactly,
  for every configuration that does not panic and every packet that cannot be mistaken by its
  length and its first word), `HandshakesMatch` (both Noise patterns: who completes has the
  responder's keys, and the first answer completes the handshake when it is intact),
  `TunnelsAgree` (nebula's collisions), `WhereItBelongs` (a relay hands a host only what was
  sent to it by the host it takes for the sender, and only if one of the two asked and the
  other agreed; the lighthouse displaces no live address). `SlotsExact`: a slot of the ring
  stands for exactly one counter of the current window. `ImplementsAntiReplay`: `AntiReplay`,
  a set of accepted counters with a floor, is implemented: nothing is accepted twice, nothing
  fresh within the window is refused.
- **ike.** `LeaseHeldOnce`, `PumpFollows`, `NoGap` (no moment of a rekey has one end send what the
  other cannot open, save the server's between its answer and the client's receipt of it),
  `EndsAgree`, `PolicyHolds` (what a policy requires was negotiated, the additional
  post-quantum exchange included), `Reassembles`.
- **tunnels.** `LeasesOwned`, `EndsAgree`, `Delivers`, `CountsExact`, `PeerWatched`,
  `NothingLeft`, `FailsClosed`, `StoreKept`, `UpOnce`; the comment at each in `MCTunnels` says
  which component's property it takes up for which part.
- **liveness.** `TurnsComplete`, `DepartedReleased` (a client that left an established session
  gives back what it held, unless the server closed or the session's counter is spent, when
  nothing watches it any more), `GoroutinesEnd`, `WgRecovers`, `MeshConnects`.

Five runs end in a violation, each of one property that states what a comment or a test of
the repository says; see [below](#where-code-and-documentation-disagree).

Deadlock checking is off in the runs whose system comes to rest by design: a fleet nobody
calls any more, a session that was closed, a bounded environment that has spent its bounds.

## Bounds

Every bound is a CONSTANT named `Max...` or a small set, given in the configuration or the
`MC*` module. They are chosen so that each guard of the code is met from both sides.

- **Ring.** Three slots and counters 0 to 9: every slot is reused three times, and a counter may
  jump by less than, exactly and more than the window.
- **Supervisor.** One listener name, an API goroutine and the main goroutine, two handles, two
  servers. The races of this code are between two calls about one name and between two
  generations of its server; a second handle and a second server are what a replacement needs.
  Names do not interact: every shared structure is keyed by name, except `Manager.mu`. The
  liveness run has three handles and one server, so that construction fails too.
- **OpenVPN.** Seven handshake turns with a window of two and an inbound queue of one make the
  sender stall, the receiver buffer and drop; two earlier-session packets in part "stale". In the
  liveness run two messages of one flight fill the inbound queue and block the pump while a
  packet is lost. The server has two session slots, two client addresses, two inner addresses,
  one half-open slot and three peer ids in a space of four, so pool, gate and identifier space
  all run out.
- **WireGuard, nebula.** Two to four initiations, one rekey, one server restart, two cookie
  secrets, two addresses; two nebula hosts with two initiations each, one lighthouse. Collisions
  need one initiation from each side, a late answer one more. A relay serves two hosts that
  ask for each other, with a tunnel or a hop lost, and three of which two ask for the third, so
  that an entry can be taken for another's; every host draws its indices from the same small
  numbers.
- **IKE.** Six SPIs and five exchanges allow a Child rekey, an IKE rekey, a roam and a probe in
  one behaviour; two leases per family. Fragments of up to three per message with three
  messages; AGGFRAG packets of two and five cells in payloads of three, so a packet spans
  three payloads and a payload ends one packet and begins the next.
- **Tunnels.** Scenarios rather than a product of all faults: each is a record of who
  authenticates, which path loses, who leaves and whether the server closes, and each fault has
  a budget of one or two. Two clients compete for one inner address. Every Dial and every
  server of every protocol is enumerated, each step failing once.
- **Numbers.** Sequence spaces wrap within reach where the code's arithmetic wraps (`Gro`:
  16 for 2^32 and 2^16, starting at 13; OpenVPN peer ids: 4 for 2^24). Where a limit is only a
  size it is scaled down (`replayWindowSize` 3 for 64 in `Dtls`, `MaxDeletes` 2 for 64 in
  `HostNat`).

## Fairness

Safety runs assume none. The liveness runs assume what the Go runtime and timers give:

- `Supervisor!Fairness`: a goroutine that can take its next step does (weak fairness of
  `WorkStep`), and a mutex does not starve a waiter (strong fairness of `LockStep`; Go's
  `sync.Mutex` switches to starvation mode). Nothing is assumed of servers: neither
  ListenAndServe nor a Close handed to its own goroutine need ever return. `InlineCloseReturns`
  assumes only that the Close which `start` calls itself, on a server that never served,
  returns: the code calls it under `Manager.mu` without a bound.
- `ControlFairness`: the pump and the TLS goroutine run, the retransmission timer fires for a
  message that stays unacknowledged, and a packet that is not lost arrives. Losses are bounded
  by `MaxLosses`; retransmission is unlimited in the code until the handshake deadline.
- `ServerFairness`: `serveClient`'s ticker and the reaper run. Nothing is assumed of a client that
  is still there, nor that a handshake ends: its deadline is one for reads
  (`control.Channel.SetDeadline`), and a write may wait for room in the window for ever.
- `ClientFairness`: Dial has a deadline; goroutines whose wait is over are scheduled.
- `WgFairness`, `MeshFairness`, `RelayFairness`: retry timers and monitors run, a datagram that
  is not lost arrives, a nebula host has traffic for the other.

No fairness is put on failures, losses, restarts or users.

## What is proved

TLAPS checks the following for every value of the constants; the runs check the same formulas
on the instances above. Assumptions on constants are ASSUMEs of the module, or a definition
(`ConstantsOK`, `ServerConstants`, `DialConstants`) that the theorem assumes and that an
ASSUME of the MC module has TLC evaluate.

**The replay ring** (`RingReplay`; a window of at least one slot, natural counters). `IInv` adds
to the type that each slot tells the truth about the one counter of the window it stands for
and that nothing ahead of `highest` was accepted; the latter is why clearing exactly the slots
passed over is enough. `RingSlotsExact` reads off the slots, `RingRefines` shows each call of
Accept to be a step of `AntiReplay`. The lemmas on the way are about arithmetic modulo the
window: two counters less than a window apart never share a slot.

**The supervisor** (`SupervisorProofs`, `SupervisorFleet`; any numbers of names, callers,
handles, a finite set of servers, callers with any subset of the four methods).
`FleetInvariant` proves `IInv`:

- `LocksOK`: exactly the thread inside a section of `Manager.mu` holds it; what it has still to
  visit is tracked; after the latch only Close can be inside, and it still has everything
  tracked before it;
- `ServersOK`: two handles never name one server; a call that builds a server is the only one
  to know it; a call that waits for a Close waits for one nobody else waits for;
- `GaugeExact`: the abandoned gauge is the number of reaps that wait. The finiteness of the
  servers is used for this only, as `Counted` (adding a server to a set adds one to its size).

`SupervisorProofs` proves the steps; the theorems stand together at the end of
`SupervisorFleet`, where the library on finite sets is brought in for `ServersCount`.

From it follow `NeverUsedAfterClose` and, with `Snapped` (a call about to show its listener as
disabled has a config for that name), `AlwaysTyped`. `SupervisorFleet` strengthens it by `Fleet`:
what a call relies on while others run (`CallOK`: under `Manager.mu` the map still names its
handle; inside `buildMu` the handle has no server but its own; a handle the map does not name
yet is known to nobody else), what a handle shows (`HandleOK`) and that a server nobody asked to
close belongs to a call or a handle (`Owned`). `StatusAlwaysHonest` and `FleetAlwaysOwned` are the
consequences. The second rests on an asymmetry of the code: a Rebuild looks the handle up again
after it published, so a handle that was dropped meanwhile with a server in it always has a
Rebuilder that will tear it down.

`RulesAlwaysFollow` is about the host: when one goroutine makes every call (`OneCaller`), the
rules on the host are those of the tracked servers whenever it is between two calls, for any
fleet, whatever fails on the way and whether or not a state file could be written. Its
invariant, `HostOK`, is relative to that caller `w`. `Current(w, n)` is the server whose rules
may be there under the name `n`: the one the call holds while it sets up or tears down, else
the handle's. `NameOK` says that the rules are exactly that server's, that the state file names
no other, and that neither exists unless the config the teardown will consult asks for NAT
(`Asks`); the last is what makes the teardown by tag, without a state file, complete.
`WorkerOK` says that a Rebuild's handle is still the tracked one, which is what fails with
two callers.

**OpenVPN's control channel** (`OvpnControl`; any window, inbound queue, ACK limit, sequence of
turns, any set of packets of earlier sessions). `OneSessionAlways`, `ControlRefinesStream` and,
without earlier sessions' packets, `ControlImplementsStream`: the two channels are the ordered
stream TLS needs. `IInv` says of each channel (`Good`) that what TLS has read, the inbound queue
and what the pump still holds are one run of payloads that ends where the receiver stands; that
the reassembly buffer holds later messages of the session it is bound to; that every
acknowledgement owed names a message held; and of the two together (`Joined`) that a message no
longer in flight at the sender is held by the peer, that nothing unsent is expected. `PacketOK` says the same of every packet on the path with
respect to its sender's present state, and the frame lemma `UpdateKeeps` that this survives
because a channel only moves on (`Later`): it never unbinds and lets go of nothing. The loop at the end of
`Receiver.Receive` is modelled as the least missing message (`Caught`); `CaughtIs` proves that
there is one by well-foundedness of the naturals.

**OpenVPN's server** (`OvpnServer`; finitely many session slots, a pool whose non-empty subsets
have least elements). `SessionsStayConsistent`: no two tunnels share an address, the pool misses
exactly what sessions hold, the client map names each live session, the gate counts exactly the
handshakes under way. `ServerInv` needs that a session stays in the client map, and so alone at
its address, until the last step of its reaper.

**OpenVPN's client** (`OvpnClient`; any closers, ciphers, replies). `DialCleansUp`: a failed Dial
holds nothing, the tunnel uses the cipher the server named, and no Close returns before the
teardown is complete.

**WireGuard** (`WgSession`; no assumption on the constants at all). `SessionInvariant`,
`KeysStayInStep`, `NothingTwice`, `SessionsAdvance`. The heart of `IInv` is `Standing`: an exchange the
running server process answered either still is its current keypair or has been superseded by
a newer timestamp. It holds of every response on the wire and in the client's channel, however
late, and of the client's current keypair. `KeysOrdered` and `Registered` describe the moment between the
installation of a keypair and the registration of its index with the pump; `Remembered` says a
delivered packet stays in its keypair's window while the keypair lives, and the ordering that
no later keypair is that one again. A restart of the server moves `env.epoch` past everything
it answered, which is why `Advances` excepts it.

**The admission gate** (`Gate`; `sourceIdleTimeout * PerSourceRate >= PerSourceBurst`, as the
constants of the code satisfy). `EvictionInvisible`: a gate that forgets idle sources decides
exactly as one that never forgets, because a source idle that long has a full bucket; and the
half-open count is that of the reservations held. It is the gate's share of `CountsExact`.

Each step lemma treats one action, and under it one conjunct of the invariant at a time; the
temporal step combines them. Some leaves name a backend. SMT has trouble with updates of
several fields of a record with string-valued fields, so such updates are broken into chains
of single ones; purely logical leaves are given to Zenon.

## What is only model-checked

- All liveness (`supervisor_live`, `liveness`): fairness and ENABLED are outside TLAPS.
- `HostRulesFollow` as the run states it, a property of the instance `MCSupervisor` builds in
  part "host"; its content is `RulesAlwaysFollow`. With two callers there is nothing to prove:
  `foreign_teardown` shows it false.
- `Aggfrag`, whose packing and reassembly are RECURSIVE operators over sequences: what a
  recursive definition computes cannot be proved without induction over data.
- `IkeSuites`, `WgWire`, `NoiseHandshake`: finite comparisons of a definition with a reference
  one over enumerated inputs; the enumeration is the argument.
- The properties of `ike` and `tunnels` that join several protocols. Their components have the
  same shape as those proved (leases, demux tables, reservations); the ones proved were
  chosen because their races are the subtlest.
- Nebula's `TunnelsAgree` and `WhereItBelongs`: not attempted; the collision rule needs an
  invariant over every pair of handshakes under way.

## Where code and documentation disagree

Five disagreements have a run each; TLC ends them with a counterexample.

- `foreign_teardown` (`RulesKept`). A Rebuild whose handle was replaced under the same name
  tears down host state by name, and takes the replacement's rules with it
  (`internal/supervisor/manager.go`: the teardown with which `rebuildLocked` begins, line 777,
  and the one after publication, line 543; line 899: "Host-state teardown for the listener's own
  rules").
- `relay_stale` (`Renegotiated`). A nebula relay that still has an entry for a host that lost its
  tunnel and asks again keeps the entry and answers with its old index, which the host drops
  (`internal/nebula/relay_host.go:147`, against `relay.go:174`: "Replacing rather than rejecting
  is deliberate").
- `rekey_lease` (`LeaseHeldOnce` with a dual-stack client). After an IKE SA rekey the deletion of
  the old SA returns both live addresses to the pools (`internal/ikev2/ike/child_info.go:98`).
  The passing run asks for IPv4 only.
- `aggfrag_splice` (`NoSplice`). After one lost payload the reassembler joins the head of one inner
  packet to the tail of another (`internal/ikev2/aggfrag/codec.go:230`).
- `gro_stale` (`StackSees`). A data segment after a bare acknowledgement of its flow is appended
  to a flushed group and written without headers (`dataplane/gro_linux.go:258`).

The following were met while modelling. Those with a definition in brackets are stated in the
module named there and are false of it; no run checks them, and the passing properties name
the exception (`torn`, `late`, `Forgotten`, `Unchecked` and the like). The others were read in the
source and are not modelled.

Supervisor and management API:

- A listener that failed is not retried until its config changes; a server may be built after
  Close's latch and is then torn down; a disabled listener may serve after a racing Rebuild,
  until the next Apply; Apply loads the directory before the lock, so a slower call reconciles
  to the older one; Rebuild may run the older of two configs until the next reconcile; `start`
  calls `srv.Close` in line under `Manager.mu`; nothing reads the host record at start-up.
- `handleCreateProfile` does not refuse the "<redacted>" literal, though `api.go:52` says sending it
  on a POST is refused. Delete removes keys before the file, so a failing delete leaves a config
  naming missing keys. A failed provision rolls the file back but leaves the listener down until
  the next Apply. Key generation failing midway leaves a partial directory. A SIGHUP between Stop
  and the removal of the file restarts the listener, which then runs without a file, and so does one
  that read the directory before the deletion and reconciles after it (`held.raced`). A client
  configuration whose override blanks a required option fails after the peer was provisioned,
  against `clientconfig.go:522`.

Host state:

- `Connect` [`OriginalKept`]: after a SIGKILL the saved resolver file is overwritten by the next
  run's, against `client_dns_linux.go`'s promise of something to restore by hand. Apply failing
  between the two unreachable halves leaves one behind; an IPv6 route added without a metric gets
  1024, not the 0 that `client_killswitch_linux.go:57` speaks of, so beside the kill switch (metric
  100) the session's IPv6 halves lie under the blackholes, and `ip -6 route del` without a metric
  takes the switch's route and leaves the session's; after SIGKILL of an IPv4-only full
  tunnel the unreachable halves stay and later Applies fail; `revert` removes the backup even
  when restoring failed; Disengage removes the carve-out even when a blackhole deletion failed.
- `HostNat`: a failing `-C` is taken for "no rule left", or adds a duplicate; a killed listener whose
  config changed leaves its old rules; a stale record is used when the new one cannot be
  written; State() records an IPv6 network also when IPv6 was degraded.

Data plane:

- `Pump` [`TotalNeverFalls`]: the sum of counters may fall while a tunnel is replaced, though the
  code says "a counter that goes down is one nobody -- and no time-series database -- can reason
  about". `StopPacing` blocks without a preceding `StartPacing`, though `pump.go:131` calls it safe;
  counts against a retired snapshot are lost; GRO's flush errors are not counted.
- `DeadPeer`: the passive probers of toy, GlobalProtect-ESP and Pulse-ESP drop a tunnel that is
  merely idle.

Dialling and serving:

- `Serving` [`CloseAlwaysReleases`]: Close racing ListenAndServe leaves a socket in wireguard, openvpn,
  sstp, l2tpv3, softether, ssh and pulse. NewServer binds sockets in ikev2, l2tp and anyconnect
  ("binds nothing and changes no host state"). Connections in the middle of a handshake survive
  Close in sstp, ssh, anyconnect and pulse.
- `Dialing` [`NothingForgotten`]: masque's client never closes its QUIC endpoint, GlobalProtect's ESP
  Close leaves the TUN, sstp leaks it on an error path, a GlobalProtect Dial failing after login
  does not log out.
- Option handling: amneziawg drops bad obfuscation integers; ikev2's server requires a PSK even
  with certificates; openvpn refuses its own default key direction; wireguard does not apply
  the default of allowed-ips; softether, l2tp, ssh and anyconnect do not check port ranges.
- Admission: a reservation is never given back in cisco, l2tp and pulse, only at the end of the
  connection in anyconnect and sstp, never for an abandoned fortinet login; ssh has no gate.

IKE:

- `IkeControl` [`OwnAnswer`]: a late answer in the inbox is taken for the next exchange's
  (`ike/liveness.go:32`). A lost response wedges the control channel until dead-peer detection.
  RekeyIKE failing between its two exchanges leaves the client on a retired SA; RekeyChild
  offers only IPv4 selectors; AGGFRAG is lost on a Child rekey.
- `IkeRoam` [`RoamKeepsSession`, `ClosedHoldsNothing`]: the read loop may meet the closed socket before
  the new one is published, against "Cleared only after the new socket is published, so the
  read loop resumes on it"; Close during a Roam leaves the old socket.
- `Ikev1` [`RepeatsAnswered`]: QM3 and AM3 are never sent again, so a repeated QM2 or AM2 gets no
  answer (`transaction.go:410`). A repeated plaintext phase-1 message fails the session;
  established peers are never removed; a stray message after a removal creates a responder
  that nothing removes.
- The responder has no reaper and the client's Close sends no Delete; a lost IKE_AUTH response
  leaves SA and lease; the client cannot answer COOKIE; USE_AGGFRAG is neither sent with
  certificates nor honoured under EAP; the sender may cut a message into 64 fragments (about
  77 KB) where the receiver takes 64 KB; SelectIKESuite skips a proposal whose first supported
  cipher cannot be satisfied although a later one could; the comment on requiring
  post-quantum exchange (`server.go:60`) promises more than is checked.

TLS-based protocols:

- `AnyConnect` [`ChannelOwned`], `Fortinet` [`CarrierOwned`]: a DTLS connection that is accepted late
  attaches to a session that has ended or has moved on. AnyConnect's App-ID is called single-use
  but its pending entry stays on accept; the expectation leaks when writing the CONNECT answer
  fails; the sessions map is never emptied. Fortinet checks and deletes a cookie in two steps
  (`internal/fortinet/server.go:339-362`, `dtls.go:131-158`), so that two requests, or a request and
  a DTLS session, make two links of one lease, which is given back twice with its place at the
  gate; the model does this, and `LeaseHasOneHolder` and `GateBalanced` except the lease and the
  count concerned (`srv.twice`). A pending login never expires, a link registered after Close is not closed, and PPP closing
  does not end the link.
- `GpGateway` [`AlwaysRoutedOwned`, `NoneEvicted`]: getconfig may route a released session; an ESP
  client that vanished never expires; logout deletes a link without asking whose it is; an
  exhausted pool is never swept.
- `Pulse` [`FallbackCarries`]: a client that fell back to TLS while the server took its ESP probe is
  sent ESP ("A client that does not simply stays on the IF-T/TLS data path"). A silent client
  leaves `awaitESPResponse` reading.
- `Dtls` [`AnyLossRecovered`]: the client's last flight and the server's Finished are never sent again,
  though conn.go says readFlight "retransmits the last flight on each timeout, which is how DTLS
  recovers from loss"; a Finished overtaken by a whole window of data is refused.

Noise-based protocols:

- `NebulaDirectory` [`ObservedFirst`]: claimed addresses are tried before the observed one
  (`lighthouse.go:480`; the comment above says the observed one is worth more). The package doc
  says relays are not implemented.
- `NoiseHandshake`: a damaged answer ends a handshake. Nebula's ReadMessage2 has changed its state
  when it fails, so the intact answer no longer opens; WireGuard's callers of Consume give up on
  ErrDecrypt (`client.go:282`, `client.go:611`).
- `WgWire` (`Malformed` and `Mistakable` are what `RoundTrip` excepts): parseObfuscation (`amneziawg.go:77-107`) checks neither that
  the type words differ from each other and from WireGuard's own, nor that paddings are not
  negative. With a negative one a send panics; with equal words and paddings a transport packet
  as long as an initiation reads as one.
- WireGuard's server may evict a keypair the client still uses.

PPP, L2TP and others:

- CHAP messages are not covered by the Restart timer; `handleCHAP` after a failed send of Success
  reopens a closed session and reports Closed twice; L2TP's Tunnel.Close says it notifies the peer
  and sends nothing; the receive window is not enforced.
- L2TPv3 (`internal/l2tpv3/keepalive.go`): after the peer's StopCCN, Close returns before stopping
  Run, which ticks on; a HELLO in flight then is sent again and `onDead` fires twice ("called once");
  after an orderly Close the listener answers no HELLO of a reconnecting client; after a
  restart of one end the other's HELLO is ahead of the window and it is declared dead;
  `Probe` does not implement `client.Prober`.
- Toy: sealing goes on after ErrCounterExhausted; a lost WELCOME is never sent again; the server
  never sends KEEPALIVE; AUTH may race expiry.
- OpenVPN: a session that spent its counter is not reaped; the peer id is 24 bits; a restarted
  client is locked out until pingRestart. `internal/replay`: the clearing loop does not end at counter
  2^64 - 1.

## Abstractions, module by module

Everywhere: cryptography is symbolic (a key is what went into it, a MAC or seal verifies or
does not), messages carry what handlers decide on, logging, metrics, error texts and wording
are left out, and time is an order of events unless the module has a clock.

- `Supervisor`: the `total` counter, timestamps and Abandon() are left out; removing iptables rules
  succeeds (`HostNat` has the failing commands). Servers come from a finite pool: one that is
  garbage in Go is free again here, but one that had rules is not handed out a second time.
- `Mgmt`: options are a secret, a generated certificate and key, and WireGuard peers; reads and the
  token are left out; reading the directory and reconciling to it are two steps on SIGHUP, other
  calls of the Manager are atomic here and in detail in `Supervisor`. Exceptions
  of its properties: `lost`, `cut`, `raced`, `torn`.
- `HostNat`: a listing of a chain and its deletions are one step; `hurt` and `stale` are the exceptions
  named above. `Connect`: routes without metric have metric 0, or 1024 for IPv6; a removal may fail
  (`stuck`); backoff is an order; `torn` is the exception.
- `Dialing`, `Serving`: tables of each protocol's steps in source order with what each opens and each
  error path closes; results, HTTP internals and a second ListenAndServe are left out;
  `http.Server`'s close is that of its listener.
- `DeadPeer`: time in units of five seconds; an answer is prompt, lost, or there when the probe's
  time runs out. `Gate`: tokens are integers. `Shaper`: a flow key is a
  value. `Pump`: the trie is a function from prefixes; drop counters are left out. `Gro`: TUN write
  errors and duplicates are left out, and passing scenarios do not reorder around packets that
  pass through.
- `OvpnControl`: a timer may fire at any moment; the datagram queue is part of the network.
  `OvpnServer`: TLS and key derivation succeed or fail. `OvpnClient`: the liveness judgement is in `DeadPeer`.
- `WgSession`: one peer; the host's routes are left out. A transport session's replay window is the
  set of all counters it has accepted: what falls behind `transport.go:168-205`'s window is refused
  there and may be taken here, so the model says nothing about the window's edges. `WgWire`: kinds,
  sizes and paddings, not layouts. `NebulaRelay`: one relay, and the direct path is blocked; a hop's
  tunnel is replaced at both its ends in one step. `NebulaDirectory`: relay lists and whoami are left
  out.
- `IkeHandshake`: the responder may have no address left, when it grants the SA without one; a
  Child proposal the responder cannot select, which veepin's client never sends, is left out.
  `IkeHandshake`, `IkeControl`, `Ikev1`: NAT detection is a flag and ports are left out; in `Ikev1` the
  race of a closed client is left out. `IkeFragments`: sealing is a fragment's identity.
- `Ppp`: MRU and magic numbers are abstracted. `L2tp`: address following and data frames are left out,
  and sequence numbers do not wrap. A peer that challenges again after PPP is up is left out of `Ppp`:
  veepin's own server does not. `AnyConnect`: one UDP flow per session. `Fortinet`: packets are not
  forwarded; PPP is module `Ppp`. `Toy`: the replay window is `RingReplay`, counters do not wrap,
  `overtaken` is excepted. `GpGateway`: `late` is excepted. `Pulse`: EAP and encodings are left out.
- `Dtls`: the fragments of a flight share a datagram, so messages are whole; timers of the two ends
  run alike and fire only when nothing is in flight; `MaxTries` is 2.

## Not modelled

SoftEther's session protocol, MASQUE's capsules and QPACK, SSTP's call-connect exchange, L2TPv3's
control connection and the SSH transport appear only through `Dialing` and `Serving`: what is left of
them is a codec, a library or a straight line in one goroutine. ESP and OpenVPN's data channel
are cryptography around a replay window of their own, which is not modelled; `RingReplay` is the one
of nebula and toy. Wire codecs, GSO and batched system calls, ICMP and
MTU handling, the web panel and metrics, the user database, the NetworkManager plugin, post-quantum
TLS configuration, command-line parsing, profiles, packet capture, the darwin back ends and the
IKEv2 probe are left out: they transform bytes or issue system calls and keep no state that another
part races with. `PROJECT.json` lists each with its reason.
