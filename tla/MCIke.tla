---- MODULE MCIke ----
\* The IKE family on small instances: IKEv2's handshake, its control channel, message
\* fragmentation, AGGFRAG payloads and proposal selection, and IKEv1 with the Cisco
\* gateway. One part runs in a behaviour; it owns v1 to v5.
EXTENDS Integers, Sequences, SequencesExt, FiniteSets, TLC
CONSTANTS Parts,    \* the parts to run
          Want,     \* families an IKEv2 client asks for
          MaxLost,  \* AGGFRAG payloads lost
          Nil
VARIABLES part, v1, v2, v3, v4, v5
vars == <<part, v1, v2, v3, v4, v5>>

Control == INSTANCE IkeControl WITH cl <- v1, sv <- v2, net <- v3, n <- v4, env <- v5,
             MaxFresh <- 6, MaxExchanges <- 5, MaxFailures <- 2, MaxMoves <- 1, Inbox <- 2

\* Each way of authenticating meets each kind of responder; at most one secret or trust
\* relation is missing.
All == {"psk", "password", "client ca", "client id", "server ca", "server id", "server usage"}
Initiators ==
  {[auth |-> a[1], kind |-> a[2], pqAuth |-> a[3], pq |-> q[1], requirePQ |-> q[2], tcp |-> FALSE, agg |-> TRUE] :
     a \in {<<"psk", "rsa", FALSE>>, <<"eap", "rsa", FALSE>>, <<"cert", "rsa", FALSE>>, <<"cert", "mldsa", TRUE>>},
     q \in {<<FALSE, FALSE>>, <<TRUE, TRUE>>}}
Responders ==
  {[psk |-> a[1], eap |-> a[2], cert |-> a[3], cas |-> a[3] # Nil, requirePQAuth |-> a[4],
    free |-> a[5], classicalOnly |-> q[1], requirePQ |-> q[2], agg |-> TRUE] :
     a \in {<<TRUE, TRUE, "rsa", FALSE, TRUE>>, <<TRUE, TRUE, "rsa", FALSE, FALSE>>,
            <<FALSE, FALSE, "mldsa", FALSE, TRUE>>, <<TRUE, TRUE, "mldsa", TRUE, TRUE>>},
     q \in {<<FALSE, FALSE>>, <<TRUE, FALSE>>, <<FALSE, TRUE>>}}
Missing(c) == CASE c.auth = "psk" -> {"psk", "server id"}
                [] c.auth = "eap" -> {"psk", "password"}
                [] c.auth = "cert" -> {"client ca", "client id", "server ca", "server id", "server usage"}
Confs == UNION {{[c |-> c, s |-> s, know |-> All \ k] : k \in {{}} \cup {{x} : x \in Missing(c)}} :
                  c \in Initiators, s \in Responders}
Handshake == INSTANCE IkeHandshake WITH conf <- v1, cl <- v2, sas <- v3, net <- v4, env <- v5,
               MaxSAs <- 2, MaxDamaged <- 1, MaxTwice <- 1

Fragments == INSTANCE IkeFragments WITH snd <- v1, net <- v2, sa <- v3, out <- v4, ages <- v5,
               Sizes <- 1 .. 4, MaxFragments <- 3, MaxBytes <- 2, MaxMessages <- 3, MaxAges <- 1

Payloads == INSTANCE Aggfrag WITH tx <- v1, air <- v2, rx <- v3, lost <- v4,
              Lengths <- {2, 5}, HdrCells <- 2, Room <- 3, QueueDepth <- 2, MaxPackets <- 3, MaxTicks <- 5

\* Offers of one or two proposals: ciphers with and without integrity of their own, one
\* with a key length nobody builds, unknown transforms ahead of known ones.
E(id, len) == [t |-> "encr", id |-> id, len |-> len]
T(t, id) == [t |-> t, id |-> id, len |-> 0]
Proposals(n) == {[num |-> n, proto |-> pr, trs |-> e \o p \o i \o d] :
   pr \in {"ike", "esp"}, e \in SeqOf({E("gcm", 256), E("gcm", 64), E("cbc", 256)}, 2),
   p \in {<<>>, <<T("prf", "md5"), T("prf", "sha256"), T("prf", "sha1")>>},
   i \in {<<>>, <<T("integ", "md5"), T("integ", "hmac256")>>},
   d \in {<<T("dh", "modp"), T("addke", "mlkem768")>>, <<T("dh", "modp768")>>}}
Offers == {<<p>> : p \in Proposals(1)} \cup {<<p, q>> : p \in Proposals(1), q \in Proposals(2)}
Sel(f, a, b, p) == [fam |-> f, from |-> a, to |-> b, ports |-> p]
Suites == INSTANCE IkeSuites WITH offer <- v1, tsi <- v2, lease <- v3,
            Selectors <- SeqOf({Sel(4, 0, 2, "all"), Sel(4, 2, 2, "echo"), Sel(6, 0, 2, "all")}, 3) \ {<<>>},
            Leases <- [{4, 6} -> {1, Nil}]

\* The L2TP profile and the Cisco one: one client over a path with a fault, two clients
\* over a path without.
L2TP == [mode |-> "main", xauth |-> FALSE, cfg |-> FALSE]
Cisco == [mode |-> "aggressive", xauth |-> TRUE, cfg |-> TRUE]
Both == {"psk", "password"}
Scenario(p, k, l, t, r) == [profile |-> p, know |-> k, lost |-> l, twice |-> t, retries |-> r]
Scenarios == {Scenario(p, <<Both>>, 1, 0, 1) : p \in {L2TP, Cisco}}
             \cup {Scenario(p, <<k>>, 0, 1, 0) : p \in {L2TP, Cisco}, k \in SUBSET Both}
             \cup {Scenario(Cisco, <<Both, Both>>, 0, 0, 0)}
V1 == INSTANCE Ikev1 WITH ini <- v1, app <- v2, gw <- v3, wire <- v4, world <- v5,
        Inner <- {3, 4}, MaxPeers <- 2, MaxPings <- 1

Init ==
  /\ part \in Parts
  /\ \/ part = "control" /\ Control!Init
     \/ part = "handshake" /\ Handshake!Init
     \/ part = "fragments" /\ Fragments!Init
     \/ part = "aggfrag" /\ Payloads!Init /\ v5 = Nil
     \/ part = "suites" /\ Suites!Init /\ v4 = Nil /\ v5 = Nil
     \/ part = "ikev1" /\ V1!Init
Next ==
  /\ UNCHANGED part
  /\ \/ part = "control" /\ Control!Next
     \/ part = "handshake" /\ Handshake!Next
     \/ part = "fragments" /\ Fragments!Next
     \/ part = "aggfrag" /\ Payloads!Next /\ UNCHANGED v5
     \/ part = "suites" /\ Suites!Next /\ UNCHANGED <<v4, v5>>
     \/ part = "ikev1" /\ V1!Next
Spec == Init /\ [][Next]_vars

\* Responders of both versions hold a lease for every live session that was given one,
\* and no address is another's meanwhile (deleteSA and handleRekeyIKE; removePeer).
LeaseHeldOnce ==
  /\ part = "control" => Control!LeaseHeldOnce
  /\ part = "ikev1" => V1!LeaseHeldOnce

\* The data path carries exactly what the control channel has standing, however requests
\* are repeated, SAs replaced and sessions given up (handleCreateChildSA, handleRekeyIKE,
\* handleInformational; Established and removePeer).
PumpFollows ==
  /\ part = "control" => Control!PumpFollows
  /\ part = "ikev1" => V1!PumpFollows

\* Two ends that both think a handshake complete hold the same keys, saw the same offers
\* and agree on the lease; the suite the initiator selects from the answer is the one
\* the responder took, and its selector is the leased address (IKE_AUTH; Quick Mode;
\* SelectIKESuite, narrowTSiToAssignment).
EndsAgree ==
  /\ part = "handshake" => Handshake!Agreed
  /\ part = "ikev1" => V1!SAsAgree
  /\ part = "suites" => Suites!AnswerReselected /\ Suites!NarrowedToLease

\* Whoever is admitted holds the credential the policy asks for, and on an undisturbed
\* path whoever holds it is admitted (handleIKEAuth, handleCertAuth, authCert, authEAP);
\* a responder that requires the additional key exchange establishes no SA without it.
PolicyHolds ==
  part = "handshake" => Handshake!PolicyHolds /\ Handshake!NoClassicalSA /\ Handshake!Welcome

\* While every exchange gets its own answer, rekeying leaves no moment in which one end
\* sends what the other cannot open, but for the one its definition names: the client
\* cannot open the new Child SA before it has taken the answer that tells it of it
\* (session.rekeyChild, session.rekeyIKE).
NoGap == part = "control" => Control!NoGap

\* Messages come out once, whole and in order, however fragments are repeated, reordered
\* or mixed with those of other messages, and inner packets as they went in, however the
\* payloads cut them (fragReassembler.add; aggfrag Pack and Feed).
Reassembles ==
  /\ part = "fragments" => Fragments!Reassembles
  /\ part = "aggfrag" => Payloads!InOrderWhole

\* The violated ones.
NoSplice == part = "aggfrag" => Payloads!NoSplice
====
