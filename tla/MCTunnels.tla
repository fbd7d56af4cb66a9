---- MODULE MCTunnels ----
\* The remaining protocols, the data plane they share and what connects a session to the
\* host, on small instances. One part runs in a behaviour; it owns v1 to v6.
EXTENDS Integers, Sequences, SequencesExt, FiniteSets, TLC
CONSTANTS Parts,    \* the parts to run
          Nil
VARIABLES part, v1, v2, v3, v4, v5, v6
vars == <<part, v1, v2, v3, v4, v5, v6>>

\* PPP on a reliable and on a lossy carrier, with a right and a wrong password, without
\* authentication, and with a peer that answers what no veepin server would.
PppSession(c, n, p, d, f, l, t, x) ==
  [carrier |-> c, noAuth |-> n, password |-> p, dns |-> d, foreign |-> f, losses |-> l,
   fires |-> t, fails |-> x, probes |-> 1]
Link == INSTANCE Ppp WITH cl <- v1, sv <- v2, up <- v3, down <- v4, env <- v5,
          MaxConfigure <- 2, MaxAuthNaks <- 1,
          Scenarios <- {PppSession("stream", FALSE, "good", 1, FALSE, 0, 1, TRUE),
                        PppSession("stream", FALSE, "bad", 1, FALSE, 0, 1, TRUE),
                        PppSession("stream", TRUE, "good", 2, FALSE, 0, 1, TRUE),
                        PppSession("datagram", FALSE, "good", 1, FALSE, 1, 1, FALSE),
                        PppSession("datagram", TRUE, "good", 0, FALSE, 1, 2, FALSE),
                        PppSession("stream", FALSE, "good", 1, TRUE, 3, 1, FALSE)}

Lns == INSTANCE L2tp WITH lac <- v1, lns <- v2, srv <- v3, wire <- v4, env <- v5,
         Peers <- {1}, Inner <- {10}, MaxRetransmits <- 1, MaxLost <- 2, MaxFires <- 2, MaxHellos <- 2

\* Two clients and one address: a DTLS channel that breaks, a client that fails to
\* authenticate or leaves, a path that goes dark, a server that closes.
CstpCase == [good |-> {1, 2}, dtls |-> {}, udp |-> TRUE, foreign |-> {}, probing |-> {}, leaving |-> {},
         fragile |-> {}, black |-> {}, breaks |-> 0, lost |-> 0, data |-> 0, closing |-> FALSE]
Cstp == INSTANCE AnyConnect WITH cl <- v1, sv <- v2, srv <- v3, net <- v4, env <- v5,
         Conns <- {1, 2}, Inner <- {10}, MaxAuthRounds <- 3, MaxFailures <- 2, Nonces <- {1, 2, 3},
         Scenarios <- {[CstpCase EXCEPT !.dtls = {1}, !.probing = {1}, !.fragile = {1}, !.good = {1},
                                    !.lost = 1, !.foreign = {2}],
                       [CstpCase EXCEPT !.good = {1}, !.leaving = {1}, !.data = 1],
                       [CstpCase EXCEPT !.dtls = {1}, !.leaving = {1}, !.breaks = 1, !.data = 2, !.lost = 1],
                       [CstpCase EXCEPT !.dtls = {1}, !.closing = TRUE, !.leaving = {1}]}

\* Two logins and one address: one code tried by both; a DTLS carrier that attaches, one
\* that is the tunnel, one that races the tunnel request, and two tunnel requests with one
\* cookie; a client that quits, a server that closes.
FortiCase == [good |-> {1, 2}, factor |-> {}, user |-> <<"u", "u">>, now |-> 1, until |-> 1, expiries |-> 0,
          dtls |-> {}, eager |-> {}, straight |-> {}, twice |-> {}, leaving |-> {1, 2}, breaks |-> 0, quits |-> 0, losses |-> 0,
          closing |-> FALSE]
Forti == INSTANCE Fortinet WITH cl <- v1, sv <- v2, lk <- v3, srv <- v4, env <- v5,
           Logins <- {1, 2}, Inner <- {10}, MaxOpen <- 2, Skew <- 1,
           Scenarios <- {[FortiCase EXCEPT !.factor = {1, 2}, !.until = 3, !.expiries = 1],
                         [FortiCase EXCEPT !.dtls = {1}, !.good = {1}, !.breaks = 1, !.losses = 1, !.quits = 1],
                         [FortiCase EXCEPT !.dtls = {1, 2}, !.breaks = 1, !.losses = 1, !.quits = 1],
                         [FortiCase EXCEPT !.dtls = {1, 2}, !.straight = {1}, !.breaks = 1, !.quits = 1],
                         [FortiCase EXCEPT !.dtls = {1}, !.eager = {1}, !.breaks = 1, !.quits = 1],
                         [FortiCase EXCEPT !.twice = {1}, !.breaks = 1, !.closing = TRUE],
                         [FortiCase EXCEPT !.dtls = {1}, !.closing = TRUE]}

Plain == INSTANCE Toy WITH cl <- v1, sv <- v2, net <- v3, ages <- v4,
           Clients <- {1, 2}, Users <- {1, 2}, Ids <- {1, 2}, Inner <- {10, 11}, MaxHalfOpen <- 2,
           MaxDials <- 1, MaxSealed <- 1, MaxAges <- 1

\* Two logins and one address: connections that drop, logouts, retries, a blocked UDP
\* path, a second getconfig, expiry, a gateway that closes.
GpCase == [good |-> {1, 2}, flaky |-> {}, leaving |-> {}, udpless |-> {}, again |-> {}, configs |-> 1,
           esp |-> TRUE, ages |-> 0, closing |-> FALSE]
Gp == INSTANCE GpGateway WITH cl <- v1, ses <- v2, tun <- v3, gw <- v4, env <- v5,
        Logins <- {1, 2}, Inner <- {10}, MaxHalfOpen <- 2,
        Scenarios <- {[GpCase EXCEPT !.flaky = {1}, !.leaving = {1, 2}, !.udpless = {1}, !.again = {1}, !.ages = 1],
                      [GpCase EXCEPT !.flaky = {1, 2}, !.leaving = {1}, !.ages = 1, !.configs = 2, !.closing = TRUE],
                      [GpCase EXCEPT !.esp = FALSE, !.good = {1}, !.leaving = {1, 2}, !.again = {1, 2},
                                     !.flaky = {2}, !.closing = TRUE]}

PulseCase == [good |-> {1, 2}, flaky |-> {}, leaving |-> {}, udpless |-> {}, wantESP |-> {1, 2}, esp |-> TRUE,
              closing |-> FALSE]
Ift == INSTANCE Pulse WITH cl <- v1, sv <- v2, up <- v3, down <- v4, gw <- v5, env <- v6,
         Conns <- {1, 2}, Inner <- {10}, MaxHalfOpen <- 2,
         Scenarios <- {[PulseCase EXCEPT !.flaky = {1}, !.leaving = {1, 2}, !.udpless = {1}],
                       [PulseCase EXCEPT !.flaky = {1}, !.leaving = {1}, !.closing = TRUE, !.wantESP = {2}],
                       [PulseCase EXCEPT !.esp = FALSE, !.good = {1}, !.leaving = {1, 2}, !.flaky = {2},
                                         !.closing = TRUE]}

Roaming == INSTANCE IkeRoam WITH rd <- v1, rm <- v2, cz <- v3, ss <- v4, MaxRoams <- 2

\* The probers that ask; the passive ones drop an idle tunnel.
Watch == INSTANCE DeadPeer WITH mon <- v1, MaxLosses <- 3,
           Protocols <- {"fortinet", "anyconnect", "ikev2", "cisco", "l2tp", "gpssl", "wireguard", "openvpn"}

Dialers == INSTANCE Dialing WITH dl <- v1,
             Protocols <- {"toy", "gptls", "gpesp", "pulse", "ikev2", "wireguard", "openvpn", "sstp", "masque",
                           "nebula", "l2tpv3", "softether", "l2tp", "ssh", "cisco", "anyconnect", "fortinet"}
Servers == INSTANCE Serving WITH sv <- v1,
             Protocols <- {"toy", "masque", "nebula", "fortinet", "cisco", "gp", "pulse", "wireguard", "openvpn",
                           "sstp", "l2tpv3", "softether", "ssh", "l2tp", "anyconnect", "ikev2"}

\* The connect command: full and split tunnels of one and both families, with the kill
\* switch, exclusions and each way of installing resolvers.
Flags == [fam |-> {4}, srv6 |-> FALSE, gateway |-> TRUE, full |-> TRUE, explicitFull |-> FALSE, kill |-> FALSE,
          noRoute |-> FALSE, route |-> FALSE, exclude |-> FALSE, dns |-> "file", v6host |-> TRUE,
          allowUnrouted |-> FALSE, retry |-> TRUE, retryMax |-> 2]
Command == INSTANCE Connect WITH pr <- v1, hs <- v2, MaxFailures <- 1, MaxKills <- 1,
             Scenarios <- {[Flags EXCEPT !.kill = TRUE],
                           [Flags EXCEPT !.kill = TRUE, !.fam = {4, 6}, !.exclude = TRUE, !.dns = "resolved", !.srv6 = TRUE],
                           [Flags EXCEPT !.fam = {6}, !.dns = "managed", !.retryMax = 1],
                           [Flags EXCEPT !.route = TRUE, !.kill = TRUE],
                           [Flags EXCEPT !.gateway = FALSE, !.kill = TRUE, !.dns = "none"],
                           [Flags EXCEPT !.noRoute = TRUE, !.retry = FALSE],
                           [Flags EXCEPT !.kill = TRUE, !.noRoute = TRUE]}

\* Two listeners, the tag of one the beginning of the other's; the first has both
\* families, or is a layer-2 listener.
HostConf(t, w, n, m) == [tun |-> t, wan |-> w, network |-> n, network6 |-> m]
Rules == INSTANCE HostNat WITH lis <- v1, hn <- v2,
         Names <- {<<"a">>, <<"a", "b">>}, MaxFaults <- 1, MaxKills <- 1, MaxStarts <- 2, MaxDeletes <- 2,
         Configs <- (<<"a">> :> {HostConf("t0", "w0", "n0", "m0"), HostConf("t0", Nil, Nil, Nil)}
                       @@ <<"a", "b">> :> {HostConf("t1", "w0", "n1", Nil)})

\* A tunnel with a pacer and several packets per datagram, and its successor, which
\* claims the same prefix and a longer one.
PumpTunnel(ks, rs, p) == [keys |-> ks, routes |-> rs, paced |-> p, multi |-> p, checked |-> TRUE]
Plane == INSTANCE Pump WITH pm <- v1, io <- v2, ct <- v3, st <- v4,
           Tunnels <- [old |-> PumpTunnel({1}, {<<0>>}, TRUE), new |-> PumpTunnel({2, 3}, {<<0>>, <<0, 1>>}, FALSE)],
           Threads <- {1, 2}, Addrs <- {<<0, 0>>, <<0, 1>>}, Depth <- 1, MaxBatch <- 1, MaxPackets <- 1,
           MaxAdds <- 2, MaxReports <- 2

\* Sequence numbers and identifiers start just below the end of their space.
Seg(n, p, a) == [kind |-> "data", len |-> n, push |-> p, ack |-> a, opts |-> FALSE]
Optioned == [kind |-> "data", len |-> 2, push |-> FALSE, ack |-> 0, opts |-> TRUE]
Bare == [kind |-> "bare", len |-> 0, push |-> FALSE, ack |-> 0, opts |-> FALSE]
Path(fs, r, d) == [flows |-> fs, gso |-> 2, first |-> 13, reorder |-> r, damage |-> d, lossy |-> d > 0]
Coalesced == INSTANCE Gro WITH gt <- v1, tun <- v2, net <- v3, SeqSpace <- 16, IdSpace <- 16, groMaxLen <- 5,
               Scenarios <- {Path(<< <<Seg(3, TRUE, 0), Bare, Seg(4, FALSE, 0), Seg(2, FALSE, 1)>>,
                                     <<Seg(2, FALSE, 0)>> >>, FALSE, 1),
                             Path(<< <<Seg(7, FALSE, 0), Optioned, Seg(2, FALSE, 0)>> >>, FALSE, 1),
                             Path(<< <<Seg(3, FALSE, 0), Seg(3, TRUE, 0)>>, <<Seg(2, FALSE, 0)>> >>, TRUE, 0)}
\* A bare acknowledgement overtakes a data segment.
Overtaken == INSTANCE Gro WITH gt <- v1, tun <- v2, net <- v3, SeqSpace <- 16, IdSpace <- 16, groMaxLen <- 5,
               Scenarios <- {Path(<< <<Seg(2, FALSE, 0), Seg(2, FALSE, 0), Bare>> >>, TRUE, 0)}

Shaping == INSTANCE Shaper WITH sh <- v1, tr <- v2, Flows <- {1, 2, 3}, Sizes <- {1, 4, 5}, Mtu <- 4, Bytes <- 6,
             Idle <- 2, MaxFlows <- 2, sweepEvery <- 3, EthHeader <- 1, MaxPackets <- 4, MaxTime <- 3
Admission == INSTANCE Gate WITH gate <- v1, env <- v2, Sources <- {1, 2}, MaxHalfOpen <- 2, PerSourceRate <- 1,
               PerSourceBurst <- 2, sourceIdleTimeout <- 2, MaxAdmits <- 6, MaxTime <- 6
\* What EvictionInvisible assumes of its constants holds of this instance.
ASSUME Admission!ConstantsOK

\* The management API: peers coming and going on one listener, a listener that changes
\* its protocol, keys and their listener, profiles.
Ask(o, n) == [op |-> o, name |-> n, proto |-> Nil, opts |-> [k \in {"secret", "cert", "key"} |-> Nil],
              single |-> FALSE, peer |-> 0, blank |-> FALSE]
Post(n, p, s, c) == [Ask("create", n) EXCEPT !.proto = p, !.opts = [secret |-> s, cert |-> c, key |-> ""]]
Set(n, v) == [Ask("patch", n) EXCEPT !.opts["secret"] = v]
Api == INSTANCE Mgmt WITH disk <- v1, live <- v2, thr <- v3, srv <- v4, held <- v5, env <- v6,
         Listeners <- {"a"}, Profiles <- {"p"}, Threads <- {1, 2}, LastHost <- 4,
         MaxRequests <- 4,
         Scenarios <- {[ask |-> {[Post("a", "wg", "", "") EXCEPT !.single = TRUE], Ask("client", "a"), Ask("unpeer", "a"),
                                 [Ask("unpeer", "a") EXCEPT !.peer = 1], Set("a", "<redacted>")},
                        signals |-> 0, faults |-> 2, crashes |-> 1],
                       [ask |-> {Post("a", "wg", "mine", ""), Ask("client", "a"), [Ask("client", "a") EXCEPT !.blank = TRUE],
                                 [Ask("patch", "a") EXCEPT !.proto = "tls"]}, signals |-> 1, faults |-> 1, crashes |-> 0],
                       [ask |-> {Post("a", "tls", "", ""), Post("a", "tls", "", "mine"), Ask("delete", "a"), Ask("restart", "a")},
                        signals |-> 1, faults |-> 1, crashes |-> 0],
                       [ask |-> {Post("a", "tls", "", ""), Post("a", "wg", "<redacted>", ""), Ask("delete", "a")},
                        signals |-> 0, faults |-> 2, crashes |-> 1],
                       [ask |-> {Post("p", "wg", "mine", ""), Set("p", ""), Set("p", "other"), Ask("delete", "p"),
                                 Ask("delete", "a")}, signals |-> 0, faults |-> 2, crashes |-> 1]}

\* DTLS with a pre-shared key and with a certificate: flights lost and repeated, a peer
\* that sends its records one by one or all at once, keys and suites that do not match.
DtlsCase == [cpsk |-> "k", spsk |-> "k", cert |-> FALSE, force |-> Nil, trusted |-> TRUE, split |-> FALSE,
             coalesce |-> FALSE, losses |-> 1, dups |-> 1, closing |-> FALSE, data |-> [cl |-> 0, sv |-> 1]]
Channel == INSTANCE Dtls WITH cl <- v1, sv <- v2, net <- v3, env <- v4, MaxTries <- 2, replayWindowSize <- 3,
             Scenarios <- {[DtlsCase EXCEPT !.losses = 2],
                           [DtlsCase EXCEPT !.cpsk = Nil, !.cert = TRUE, !.split = TRUE, !.losses = 0],
                           [DtlsCase EXCEPT !.coalesce = TRUE, !.data = [cl |-> 1, sv |-> 3], !.losses = 0, !.dups = 2],
                           [DtlsCase EXCEPT !.coalesce = TRUE, !.data = [cl |-> 1, sv |-> 1], !.closing = TRUE],
                           [DtlsCase EXCEPT !.spsk = "other"],
                           [DtlsCase EXCEPT !.force = "ecdhe", !.cert = TRUE],
                           [DtlsCase EXCEPT !.cpsk = Nil, !.cert = TRUE, !.trusted = FALSE],
                           [DtlsCase EXCEPT !.cert = TRUE]}

Init ==
  /\ part \in Parts
  /\ \/ part = "ppp" /\ Link!Init /\ v6 = Nil
     \/ part = "l2tp" /\ Lns!Init /\ v6 = Nil
     \/ part = "anyconnect" /\ Cstp!Init /\ v6 = Nil
     \/ part = "fortinet" /\ Forti!Init /\ v6 = Nil
     \/ part = "toy" /\ Plain!Init /\ v5 = Nil /\ v6 = Nil
     \/ part = "gp" /\ Gp!Init /\ v6 = Nil
     \/ part = "pulse" /\ Ift!Init
     \/ part = "roam" /\ Roaming!Init /\ v5 = Nil /\ v6 = Nil
     \/ part = "deadpeer" /\ Watch!Init /\ v2 = Nil /\ v3 = Nil /\ v4 = Nil /\ v5 = Nil /\ v6 = Nil
     \/ part = "dial" /\ Dialers!Init /\ v2 = Nil /\ v3 = Nil /\ v4 = Nil /\ v5 = Nil /\ v6 = Nil
     \/ part = "serve" /\ Servers!Init /\ v2 = Nil /\ v3 = Nil /\ v4 = Nil /\ v5 = Nil /\ v6 = Nil
     \/ part = "connect" /\ Command!Init /\ v3 = Nil /\ v4 = Nil /\ v5 = Nil /\ v6 = Nil
     \/ part = "nat" /\ Rules!Init /\ v3 = Nil /\ v4 = Nil /\ v5 = Nil /\ v6 = Nil
     \/ part = "pump" /\ Plane!Init /\ v5 = Nil /\ v6 = Nil
     \/ part = "gro" /\ Coalesced!Init /\ v4 = Nil /\ v5 = Nil /\ v6 = Nil
     \/ part = "overtaken" /\ Overtaken!Init /\ v4 = Nil /\ v5 = Nil /\ v6 = Nil
     \/ part = "shaper" /\ Shaping!Init /\ v3 = Nil /\ v4 = Nil /\ v5 = Nil /\ v6 = Nil
     \/ part = "gate" /\ Admission!Init /\ v3 = Nil /\ v4 = Nil /\ v5 = Nil /\ v6 = Nil
     \/ part = "mgmt" /\ Api!Init
     \/ part = "dtls" /\ Channel!Init /\ v5 = Nil /\ v6 = Nil
Next ==
  /\ UNCHANGED part
  /\ \/ part = "ppp" /\ Link!Next /\ UNCHANGED v6
     \/ part = "l2tp" /\ Lns!Next /\ UNCHANGED v6
     \/ part = "anyconnect" /\ Cstp!Next /\ UNCHANGED v6
     \/ part = "fortinet" /\ Forti!Next /\ UNCHANGED v6
     \/ part = "toy" /\ Plain!Next /\ UNCHANGED <<v5, v6>>
     \/ part = "gp" /\ Gp!Next /\ UNCHANGED v6
     \/ part = "pulse" /\ Ift!Next
     \/ part = "roam" /\ Roaming!Next /\ UNCHANGED <<v5, v6>>
     \/ part = "deadpeer" /\ Watch!Next /\ UNCHANGED <<v2, v3, v4, v5, v6>>
     \/ part = "dial" /\ Dialers!Next /\ UNCHANGED <<v2, v3, v4, v5, v6>>
     \/ part = "serve" /\ Servers!Next /\ UNCHANGED <<v2, v3, v4, v5, v6>>
     \/ part = "connect" /\ Command!Next /\ UNCHANGED <<v3, v4, v5, v6>>
     \/ part = "nat" /\ Rules!Next /\ UNCHANGED <<v3, v4, v5, v6>>
     \/ part = "pump" /\ Plane!Next /\ UNCHANGED <<v5, v6>>
     \/ part = "gro" /\ Coalesced!Next /\ UNCHANGED <<v4, v5, v6>>
     \/ part = "overtaken" /\ Overtaken!Next /\ UNCHANGED <<v4, v5, v6>>
     \/ part = "shaper" /\ Shaping!Next /\ UNCHANGED <<v3, v4, v5, v6>>
     \/ part = "gate" /\ Admission!Next /\ UNCHANGED <<v3, v4, v5, v6>>
     \/ part = "mgmt" /\ Api!Next
     \/ part = "dtls" /\ Channel!Next /\ UNCHANGED <<v5, v6>>
Spec == Init /\ [][Next]_vars

\* Every address of a pool is free or held by one session, which gives it back exactly
\* once however it ends, and packets for an address are sent to its holder (registration
\* and release in the L2TP, AnyConnect, Fortinet, toy, GlobalProtect and Pulse servers;
\* allocateWGAddress of the management API). Not so for the address of a Fortinet cookie
\* that was redeemed twice and of a toy session that was overtaken.
LeasesOwned ==
  /\ part = "l2tp" => Lns!LeasesOwned
  /\ part = "anyconnect" => Cstp!LeasesOwned
  /\ part = "fortinet" => Forti!LeaseHasOneHolder
  /\ part = "toy" => Plain!LeasesOwned
  /\ part = "gp" => Gp!LeasesOwned
  /\ part = "pulse" => Ift!LeasesOwned
  /\ part = "mgmt" => Api!AddressesDistinct

\* A tunnel that is up was granted to the right credentials, and its two ends agree on
\* the address and the keys (PPP's authentication and IPCP; CSTP's CONNECT; the one-time
\* codes; the toy WELCOME; the IF-T configuration; the peer behind a client configuration
\* the management API gave out; the DTLS Finished messages).
EndsAgree ==
  /\ part = "ppp" => Link!AddressAgreed /\ Link!ProvedBoth
  /\ part = "anyconnect" => Cstp!Agreed
  /\ part = "fortinet" => Forti!CodeOnce
  /\ part = "toy" => Plain!Agreed
  /\ part = "pulse" => Ift!Agreed
  /\ part = "mgmt" => Api!ClientsKnown
  /\ part = "dtls" => Channel!HandshakeAgreed

\* Packets go where they belong and come out as they went in: a rekey's successor keeps
\* its routes, a released GlobalProtect session is not routed unless it registered after
\* its release, one on SSL takes no ESP unless it asked for its configuration twice, a
\* control stream arrives in order, a failed roam goes on where it was, coalescing changes
\* nothing the stack sees, and a DTLS record is read once (Pump.RemoveTunnel;
\* GlobalProtect's release; Tunnel.dispatch; Client.Roam; groTable.add;
\* replayWindow.check).
Delivers ==
  /\ part = "pump" => Plane!SuccessorCarries
  /\ part = "gp" => Gp!RoutedOwned /\ Gp!OnePath
  /\ part = "l2tp" => Lns!InOrder
  /\ part = "roam" => Roaming!SocketsAgree
  /\ part = "gro" => Coalesced!StackSees
  /\ part = "dtls" => Channel!ReadOnce

\* Counts are exact: reservations of the admission gates (Fortinet's never too many, and
\* too few only once a cookie was redeemed twice), the per-source buckets with eviction,
\* the bytes shaping may cost, totals that do not fall from one report to the next unless
\* a tunnel is removed in the middle of one (Gate.Admit and Done, Gate.gc, Shaper.Target,
\* Pump.Stats).
CountsExact ==
  /\ part = "toy" => Plain!GateBalanced
  /\ part = "fortinet" => Forti!GateBalanced
  /\ part = "gate" => Admission!LimiterExact
  /\ part = "shaper" => Shaping!ShapingBounded /\ Shaping!PaddingInert
  /\ part = "pump" => Plane!TotalGrows

\* A dead peer is noticed in time and a live one kept, a probe that reports the peer alive
\* has been answered by it, and a DTLS handshake is not given up while its flights can
\* still be sent again (monitored.run and the probers it calls; AnyConnect Client.Probe;
\* Tunnel.SendHello; readFlight).
PeerWatched ==
  /\ part = "deadpeer" => Watch!LivePeerKept /\ Watch!DeadPeerNoticed
  /\ part = "anyconnect" => Cstp!ProbeHonest
  /\ part = "l2tp" => Lns!HelloSeen
  /\ part = "dtls" => Channel!GivenUpOnLoss

\* What was taken is given back on the way out: sockets and devices of a Dial that failed
\* or a server that closed, routes and resolvers of a command that ended, rules of a
\* listener that came down, the sender of a removed tunnel, the peer of a client that could
\* not be provisioned (Dial, Close, Revert, Teardown, StopPacing, buildWGClientConfig,
\* handlePeerDelete, handleDeleteListener). The exceptions, each named where the conjunct is
\* defined: seven servers whose Close overtakes their bind (Serving!Unchecked), masque's
\* endpoint and GlobalProtect's TUN (Dialing!Forgotten), an IPv6 route beside the kill
\* switch's and what a failed removal left (Connect!HostRestored), a listener restarted
\* from a directory read before its deletion (Mgmt!DeletedGone).
NothingLeft ==
  /\ part = "dial" => Dialers!NothingLeft
  /\ part = "serve" => Servers!CloseReleases
  /\ part = "connect" => Command!HostRestored
  /\ part = "nat" => Rules!HostExact /\ Rules!NoDuplicates
  /\ part = "pump" => Plane!PacerQuiet
  /\ part = "mgmt" => Api!NoneStranded /\ Api!RollbackExact /\ Api!DeletedGone

\* With the kill switch armed nothing leaves in plaintext through any death, retry, kill or
\* failed command, and the server stays reachable unless a blackhole could not be removed
\* (KillSwitch.Engage and Disengage, ClientRouter.Revert).
FailsClosed == part = "connect" => Command!FailsClosed /\ Command!NeverBricked

\* What the management API stores stays whole under concurrent requests, failing steps,
\* SIGHUP and crashes: no placeholder in place of a secret, the key files a configuration
\* names, an audit in the order things happened (handleCreateListener, mergeOptions).
StoreKept == part = "mgmt" => Api!NoSentinel /\ Api!KeysThere /\ Api!AuditTrue

\* PPP reports the network up at most once on each end, and never after it reported the
\* link closed (maybeIPCPUp and failLocked of Session and ServerSession).
UpOnce == [][part = "ppp" => Link!UpStep]_vars

\* The violated one: the stack sees what arrived, also when an acknowledgement overtakes
\* a data segment.
StackSees == part = "overtaken" => Overtaken!StackSees
====
