---- MODULE MCNoise ----
(***************************************************************************)
(* The two Noise-keyed protocols for TLC. WireGuard: a session whose       *)
(* server restarts ("rekeying"), one under load with cookies ("loaded"),   *)
(* one whose packets are repeated while the keys rotate, two of the        *)
(* client's ("moving") or one each way ("answering"), and AmneziaWG's      *)
(* framing ("wire"). Both: the handshakes ("noise"). Nebula:               *)
(* two hosts that key a tunnel at once ("mesh"), that fall silent          *)
(* ("idle"), that move and close tunnels ("roam"), a relay between two     *)
(* that ask each other ("relay") and between three of which two ask for    *)
(* the third ("relays"), the lighthouse ("directory", and "reports" where  *)
(* hosts report their addresses to it), the replay window ("ring"). The    *)
(* parts share no state: a behaviour is one of one part.                   *)
(* WgSession and RingReplay are extended, so the properties they are       *)
(* proved to have are checked here as they stand; while another part runs, *)
(* the session has not been dialled and the window is fresh.               *)
(***************************************************************************)
EXTENDS WgSession, RingReplay

CONSTANTS None,
          Parts       \* the parts a configuration checks

VARIABLES part,
          cfg, sent, got,                   \* WgWire
          host, at,                         \* NebulaTunnels, with net and count
          tab, hop, tun, pend, agreed,      \* NebulaRelay, with net and count
          underlay, noted,                  \* NebulaDirectory, with at, tun, net and count
          conf, ini, resp, damaged, intact, \* NoiseHandshake, with net
          net, count

framing == <<cfg, sent, got>>
relaying == <<tab, hop, pend, agreed>>
lighthouse == <<underlay, noted>>
noise == <<conf, ini, resp, damaged, intact>>
mcvars == <<part, vars, ring, framing, host, at, relaying, tun, lighthouse, noise, net, count>>

Rekeying == INSTANCE WgSession WITH
  MaxAttempts <- 2, MaxInits <- 4, MaxRekeys <- 1, MaxRestarts <- 1, MaxData <- 0, MaxReplies <- 0,
  MaxSecrets <- 0, Addrs <- {1}, Load <- "never", Duplicates <- TRUE, MaxLosses <- 0, Quiet <- TRUE
Moving == INSTANCE WgSession WITH
  MaxAttempts <- 1, MaxInits <- 2, MaxRekeys <- 1, MaxRestarts <- 0, MaxData <- 2, MaxReplies <- 0,
  MaxSecrets <- 0, Addrs <- {1}, Load <- "never", Duplicates <- TRUE, MaxLosses <- 0, Quiet <- TRUE
Answering == INSTANCE WgSession WITH
  MaxAttempts <- 1, MaxInits <- 2, MaxRekeys <- 1, MaxRestarts <- 0, MaxData <- 1, MaxReplies <- 1,
  MaxSecrets <- 0, Addrs <- {1}, Load <- "never", Duplicates <- TRUE, MaxLosses <- 0, Quiet <- TRUE
Amnezia == INSTANCE WgWire WITH Words <- {4, 11}, MaxPad <- 1, MaxSize <- 7
Noise == INSTANCE NoiseHandshake WITH Trusted <- {1, 2}, MaxReplies <- 2, MaxTries <- 2, MaxDamaged <- 1
Mesh == INSTANCE NebulaTunnels WITH
  n <- count, MaxInits <- 2, MaxSends <- 1, MaxReplies <- 2, MaxMoves <- 0, MaxLosses <- 0, MaxData <- 0,
  Slow <- FALSE, Idle <- FALSE, CloseComes <- FALSE
Silence == INSTANCE NebulaTunnels WITH
  n <- count, MaxInits <- 1, MaxSends <- 1, MaxReplies <- 1, MaxMoves <- 0, MaxLosses <- 0, MaxData <- 0,
  Slow <- FALSE, Idle <- TRUE, CloseComes <- FALSE
Roaming == INSTANCE NebulaTunnels WITH
  n <- count, MaxInits <- 1, MaxSends <- 2, MaxReplies <- 1, MaxMoves <- 1, MaxLosses <- 0, MaxData <- 2,
  Slow <- FALSE, Idle <- FALSE, CloseComes <- TRUE
Relay == INSTANCE NebulaRelay WITH
  n <- count, Ends <- {1, 2}, Asks <- {<<1, 2>>, <<2, 1>>}, MaxIndex <- 2, MaxInits <- 1, MaxData <- 0, MaxDrops <- 1,
  MaxHopLosses <- 1, MaxLosses <- 0
Relays == INSTANCE NebulaRelay WITH
  n <- count, Ends <- {1, 2, 3}, Asks <- {<<1, 2>>, <<3, 2>>}, MaxIndex <- 3, MaxInits <- 1, MaxData <- 1, MaxDrops <- 1,
  MaxHopLosses <- 1, MaxLosses <- 0
Directory == INSTANCE NebulaDirectory WITH
  n <- count, seen <- noted, MaxMoves <- 1, MaxReports <- 0, MaxPackets <- 2, MaxInits <- 2, MaxData <- 1, MaxDrops <- 1, Natted <- {}
Reporting == INSTANCE NebulaDirectory WITH
  n <- count, seen <- noted, MaxMoves <- 1, MaxReports <- 1, MaxPackets <- 2, MaxInits <- 1, MaxData <- 1, MaxDrops <- 1, Natted <- {}

NoFraming == cfg = None /\ sent = None /\ got = None
NoRelaying == tab = None /\ hop = None /\ pend = None /\ agreed = None
NoLighthouse == underlay = None /\ noted = None
NoNoise == conf = None /\ ini = None /\ resp = None /\ damaged = None /\ intact = None

MCInit ==
  /\ part \in Parts /\ RingInit
  /\ \/ /\ NoFraming /\ NoNoise /\ host = None /\ at = None /\ NoRelaying /\ tun = None /\ NoLighthouse /\ net = None /\ count = None
        /\ \/ part \in {"loaded", "ring"} /\ Init
           \/ part = "rekeying" /\ Rekeying!Init
           \/ part = "moving" /\ Moving!Init
           \/ part = "answering" /\ Answering!Init
     \/ /\ part = "wire" /\ Amnezia!Init
        /\ Init /\ NoNoise /\ host = None /\ at = None /\ NoRelaying /\ tun = None /\ NoLighthouse /\ net = None /\ count = None
     \/ /\ part = "noise" /\ Noise!Init
        /\ Init /\ NoFraming /\ host = None /\ at = None /\ NoRelaying /\ tun = None /\ NoLighthouse /\ count = None
     \/ /\ Init /\ NoFraming /\ NoNoise /\ NoRelaying /\ tun = None /\ NoLighthouse
        /\ \/ part = "mesh" /\ Mesh!Init
           \/ part = "idle" /\ Silence!Init
           \/ part = "roam" /\ Roaming!Init
     \/ /\ Init /\ NoFraming /\ NoNoise /\ host = None /\ at = None /\ NoLighthouse
        /\ \/ part = "relay" /\ Relay!Init
           \/ part = "relays" /\ Relays!Init
     \/ /\ Init /\ NoFraming /\ NoNoise /\ host = None /\ NoRelaying
        /\ \/ part = "directory" /\ Directory!Init
           \/ part = "reports" /\ Reporting!Init

MCNext ==
  /\ UNCHANGED part
  /\ \/ part = "ring" /\ RingNext /\ UNCHANGED <<vars, framing, noise, host, at, relaying, tun, lighthouse, net, count>>
     \/ /\ UNCHANGED ring
        /\ \/ /\ UNCHANGED <<framing, noise, host, at, relaying, tun, lighthouse, net, count>>
              /\ \/ part = "loaded" /\ Next
                 \/ part = "rekeying" /\ Rekeying!Next
                 \/ part = "moving" /\ Moving!Next
                 \/ part = "answering" /\ Answering!Next
           \/ part = "wire" /\ Amnezia!Next /\ UNCHANGED <<vars, noise, host, at, relaying, tun, lighthouse, net, count>>
           \/ part = "noise" /\ Noise!Next /\ UNCHANGED <<vars, framing, host, at, relaying, tun, lighthouse, count>>
           \/ /\ UNCHANGED <<vars, framing, noise, relaying, tun, lighthouse>>
              /\ \/ part = "mesh" /\ Mesh!Next
                 \/ part = "idle" /\ Silence!Next
                 \/ part = "roam" /\ Roaming!Next
           \/ /\ UNCHANGED <<vars, framing, noise, host, at, lighthouse>>
              /\ \/ part = "relay" /\ Relay!Next
                 \/ part = "relays" /\ Relays!Next
           \/ /\ UNCHANGED <<vars, framing, noise, host, relaying>>
              /\ \/ part = "directory" /\ Directory!Next
                 \/ part = "reports" /\ Reporting!Next

MCSpec == MCInit /\ [][MCNext]_mcvars

----
(* Properties *)

InMesh == part \in {"mesh", "idle", "roam"}

\* obfuscateSend and deobfuscateRecv undo each other for every configuration whose
\* paddings are not negative, save for a transport packet as long as a control message
\* that has its type word and its padding, and junk is never taken for a message.
RoundTrip == part = "wire" => Amnezia!RoundTrip

\* The noise packages: a handshake completes only with a responder that derived the
\* same keys and is who it is taken for, no two sessions share keys, and the first answer
\* that reaches a handshake completes it when it is intact and from the right responder.
HandshakesMatch == part = "noise" => Noise!Matched /\ Noise!KeysFresh /\ Noise!Undisturbed

\* Nebula's install and resolveCollision: two hosts that key tunnels to each other at
\* once end on the same one, and a host receives on the tunnel it sends on.
TunnelsAgree ==
  /\ InMesh => Mesh!SendsWhereItReceives /\ Mesh!Located
  /\ part = "mesh" => Mesh!Agree

\* A relay hands a host only what the far end of that relay sent it, and only once one of
\* the two has asked and the host has agreed (handleRelayMessage, handleRelayResponse); an
\* answer from the lighthouse never moves a live tunnel off the address its peer was
\* last authenticated from (learnAddresses).
WhereItBelongs ==
  /\ part = "relay" => Relay!RelayedRight
  /\ part = "relays" => Relays!RelayedRight
  /\ part \in {"directory", "reports"} => Directory!NotDisplaced

\* What relayTable.add promises a host that reconnects and negotiates its relay again: the
\* relay's entry toward it is the new one. handleRelayRequest adds none when there is one.
Renegotiated == [][part = "relay" => Relay!RequestReplaces]_mcvars
====
