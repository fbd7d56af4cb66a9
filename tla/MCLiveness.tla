---- MODULE MCLiveness ----
(***************************************************************************)
(* What must eventually happen, part by part, on instances small enough    *)
(* for TLC's liveness check: the OpenVPN control channel over a path that  *)
(* loses ("lossy"), the OpenVPN server's sessions and the client's         *)
(* goroutines, a WireGuard session whose server restarts ("wg"), two       *)
(* nebula hosts ("mesh"), and a relay between two that cannot reach each   *)
(* other ("relay").  The parts share no state; a behaviour is one of one   *)
(* part.                                                                   *)
(***************************************************************************)
EXTENDS Integers, Sequences

CONSTANTS None, Sessions, Addrs, Closers

VARIABLES part,
          ch, net, lost, wrote, read,                                     \* OvpnControl
          sess, clients, used, halfOpen, nextPeerID, tunnels, closed, \* OvpnServer
          pc, open, running, pump, reply, cipher, once, waiting,    \* OvpnClient
          cl, sv, wire, n, ns, env,                                 \* WgSession
          host, at,                                                 \* NebulaTunnels, with net and n
          tab, hop, tun, pend, agreed                               \* NebulaRelay, with net and n

control == <<ch, lost, wrote, read>>
server == <<sess, clients, used, halfOpen, nextPeerID, tunnels, closed>>
client == <<pc, open, running, pump, reply, cipher, once, waiting>>
wg == <<cl, sv, wire, ns, env>>
mesh == <<host, at>>
relaying == <<tab, hop, tun, pend, agreed>>
vars == <<part, control, server, client, wg, mesh, relaying, net, n>>

Lossy == INSTANCE OvpnControl WITH
  Turns <- <<"client", "client">>,
  Window <- 2, InboundQueue <- 1, MaxACK <- 4, Duplicates <- FALSE, Stale <- {}, MaxLosses <- 1, MayFail <- FALSE
Server == INSTANCE OvpnServer WITH
  Pool <- {2, 3}, MaxHalfOpen <- 2, WireSpace <- 4, MaxPeers <- 2, CanExhaust <- TRUE, CanClose <- TRUE
Client == INSTANCE OvpnClient WITH
  Configured <- "gcm", Ciphers <- {"gcm"}, NoCipher <- "unnamed",
  Replies <- {[kind |-> k, cipher |-> "gcm"] : k \in {"push", "auth_failed"}}
Wg == INSTANCE WgSession WITH
  MaxAttempts <- 2, MaxInits <- 4, MaxRekeys <- 1, MaxRestarts <- 1, MaxData <- 0, MaxReplies <- 0,
  MaxSecrets <- 0, Addrs <- {1, 2}, Load <- "never", Duplicates <- FALSE, MaxLosses <- 1, Quiet <- FALSE
Mesh == INSTANCE NebulaTunnels WITH
  MaxInits <- 2, MaxSends <- 2, MaxReplies <- 3, MaxMoves <- 0, MaxLosses <- 1, MaxData <- 0,
  Slow <- FALSE, Idle <- FALSE, CloseComes <- FALSE
Relay == INSTANCE NebulaRelay WITH
  Ends <- {1, 2}, Asks <- {<<1, 2>>}, MaxIndex <- 4, MaxInits <- 4, MaxData <- 0, MaxDrops <- 0, MaxHopLosses <- 0, MaxLosses <- 2

NoControl == ch = None /\ lost = None /\ wrote = None /\ read = None
NoServer == sess = None /\ clients = None /\ used = None /\ halfOpen = None /\ nextPeerID = None /\ tunnels = None /\ closed = None
NoClient == pc = None /\ open = None /\ running = None /\ pump = None /\ reply = None /\ cipher = None /\ once = None /\ waiting = None
NoWg == cl = None /\ sv = None /\ wire = None /\ ns = None /\ env = None
NoMesh == host = None /\ at = None
NoRelaying == tab = None /\ hop = None /\ tun = None /\ pend = None /\ agreed = None

Init ==
  \/ /\ part = "lossy" /\ Lossy!Init
     /\ NoServer /\ NoClient /\ NoWg /\ NoMesh /\ NoRelaying /\ n = None
  \/ /\ part = "server" /\ Server!ServerInit
     /\ NoControl /\ NoClient /\ NoWg /\ NoMesh /\ NoRelaying /\ net = None /\ n = None
  \/ /\ part = "client" /\ Client!DialInit
     /\ NoControl /\ NoServer /\ NoWg /\ NoMesh /\ NoRelaying /\ net = None /\ n = None
  \/ /\ part = "wg" /\ Wg!Init
     /\ NoControl /\ NoServer /\ NoClient /\ NoMesh /\ NoRelaying /\ net = None
  \/ /\ part = "mesh" /\ Mesh!Init
     /\ NoControl /\ NoServer /\ NoClient /\ NoWg /\ NoRelaying
  \/ /\ part = "relay" /\ Relay!Init
     /\ NoControl /\ NoServer /\ NoClient /\ NoWg /\ NoMesh

Next ==
  /\ UNCHANGED part
  /\ \/ part = "lossy" /\ Lossy!Next /\ UNCHANGED <<server, client, wg, mesh, relaying, n>>
     \/ part = "server" /\ Server!ServerNext /\ UNCHANGED <<control, client, wg, mesh, relaying, net, n>>
     \/ part = "client" /\ Client!DialNext /\ UNCHANGED <<control, server, wg, mesh, relaying, net, n>>
     \/ part = "wg" /\ Wg!Next /\ UNCHANGED <<control, server, client, mesh, relaying, net>>
     \/ part = "mesh" /\ Mesh!Next /\ UNCHANGED <<control, server, client, wg, relaying>>
     \/ part = "relay" /\ Relay!Next /\ UNCHANGED <<control, server, client, wg, mesh>>

\* The pump and the TLS goroutine keep running, the timer fires for every message
\* that stays unacknowledged, and a message or an acknowledgement that is not
\* lost arrives.
ControlFairness ==
  \A c \in Lossy!Sides :
    /\ WF_<<control, net>>(part = "lossy" /\ Lossy!Push(c))
    /\ WF_<<control, net>>(part = "lossy" /\ Lossy!Write(c))
    /\ WF_<<control, net>>(part = "lossy" /\ Lossy!Read(c))
    /\ \A i \in 0 .. 2 :
         /\ WF_<<control, net>>(part = "lossy" /\ Lossy!Timer(c, i))
         /\ WF_<<control, net>>(part = "lossy" /\ \E p \in net : p.to = c /\ p.id = i /\ Lossy!Deliver(p))
         /\ WF_<<control, net>>(part = "lossy" /\ \E p \in net :
                      p.to = c /\ (\E k \in DOMAIN p.acks : p.acks[k] = i) /\ Lossy!Deliver(p))

\* serveClient's ticker finds a client that has left for good silent in the end. The
\* handshake need not end: its deadline is one for reads (Channel.SetDeadline), and a
\* write whose window stays full blocks for as long as the channel is open.
ServerFairness ==
  \A i \in Sessions :
    /\ WF_server(part = "server" /\ sess[i].gone /\ (Server!ReapSilent(i) \/ Server!PingFails(i)))
    /\ WF_server(part = "server" /\ Server!ReapClosed(i))
    /\ WF_server(part = "server" /\ Server!Forget(i))

\* Dial has a deadline; goroutines whose wait is over are scheduled.
ClientFairness ==
  /\ WF_client(part = "client" /\ Client!Dial)
  /\ \A p \in Closers :
       WF_client(part = "client" /\ Client!CloseBody(p)) /\ WF_client(part = "client" /\ Client!CloseReturns(p))
  /\ \A g \in Client!Goroutines : WF_client(part = "client" /\ Client!Ends(g))

\* WireGuard's retry timer and its liveness monitor run, and a datagram that is not
\* lost arrives, if only where nobody listens any more.
WgFairness ==
  /\ WF_<<wg, n>>(part = "wg" /\ Wg!Dial)
  /\ WF_<<wg, n>>(part = "wg" /\ Wg!DialTimeout)
  /\ WF_<<wg, n>>(part = "wg" /\ Wg!Probe)
  /\ WF_<<wg, n>>(part = "wg" /\ Wg!AwaitReply)
  /\ WF_<<wg, n>>(part = "wg" /\ Wg!AwaitTimeout)
  /\ WF_<<wg, n>>(part = "wg" /\ Wg!Register)
  /\ WF_<<wg, n>>(part = "wg" /\ \E m \in wire : Wg!DialRead(m) \/ Wg!DeliverResponse(m))
  /\ WF_<<wg, n>>(part = "wg" /\ Wg!ServerStep)
  /\ WF_<<wg, n>>(part = "wg" /\ \E m \in wire : Wg!Undelivered(m))

\* A nebula host has traffic for the other; its three goroutines run.
MeshFairness ==
  \A h \in {1, 2} :
    /\ WF_<<mesh, net, n>>(part = "mesh" /\ Mesh!BeginHandshake(h))
    /\ WF_<<mesh, net, n>>(part = "mesh" /\ Mesh!Install(h))
    /\ WF_<<mesh, net, n>>(part = "mesh" /\ Mesh!Receive(h))
    /\ WF_<<mesh, net, n>>(part = "mesh" /\ Mesh!Maintain(h))

\* The same for a host behind a relay and for the relay.
RelayFairness ==
  /\ WF_<<relaying, net, n>>(part = "relay" /\ Relay!RelayHandshake(1, 2))
  /\ \A x \in {1, 2} :
       WF_<<relaying, net, n>>(part = "relay" /\ \E p \in net : p.x = x /\ Relay!Receive(p))

Spec ==
  /\ Init /\ [][Next]_vars
  /\ ControlFairness /\ ServerFairness /\ ClientFairness
  /\ WgFairness /\ MeshFairness /\ RelayFairness

----
(* Properties *)

\* Retransmission and the ACKs together carry the OpenVPN handshake to its end,
\* whatever the path loses (control.pump, reliable.Sender.Due).
TurnsComplete == (part = "lossy") ~> (part = "lossy" /\ Lossy!TurnsDone)

\* An OpenVPN client that has left for good, its session up, gives back its address and
\* its place in the end (serveClient's silence check), unless the server itself closes
\* or the session's send counter is spent, when serveClient returns without reaping.
DepartedReleased ==
  \A i \in Sessions :
    (part = "server" /\ Server!Departed(i)) ~> (part = "server" /\ (Server!Ended(i) \/ Server!Unwatched(i)))

\* Dial's "on error nothing is left running" and session.Close: every goroutine
\* ends after a failed Dial and after Close.
GoroutinesEnd == (part = "client" /\ pc \in {"failed", "closed"}) ~> (open = {} /\ running = {})

\* WireGuard's handshake, rekeyLoop and Probe: after lost datagrams, a roaming client
\* and a restarted server both ends hold one keypair again, or Dial has given up; up
\* to the bound on initiations.
WgRecovers == []<>(part = "wg" => Wg!Shared \/ Wg!Over \/ n = 4)

\* Nebula's retries, collision rule and probes: two hosts that want to talk end up on
\* one tunnel and stay on it though a datagram is lost and both began at once, and
\* so do two that can only meet through a relay.
MeshConnects == <>[]((part = "mesh" => Mesh!Linked) /\ (part = "relay" => Relay!Linked))
====
