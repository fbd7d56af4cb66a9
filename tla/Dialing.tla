------------------------------ MODULE Dialing ------------------------------
(***************************************************************************)
(* Bringing a client tunnel up and down again: what every protocol's Dial  *)
(* opens, what each of its error returns closes, what the running session  *)
(* closes when it stops by itself, and what Session.Close closes.          *)
(*                                                                         *)
(* A Dial is a sequence of fallible steps.  A step opens a resource (a     *)
(* socket, a TUN or TAP device, a connection), or none, and names what its *)
(* own error return closes.  Once Dial has started the engine's goroutines *)
(* they run beside the rest of it: from then on the engine may stop by     *)
(* itself, which closes what the engine has been given so far, once.       *)
(*                                                                         *)
(* The handshakes themselves are the other modules; here a handshake is a  *)
(* step that succeeds or fails (a cancelled context is a failure of the    *)
(* step that watches it).                                                  *)
(***************************************************************************)
EXTENDS Naturals, Sequences

CONSTANT Protocols     \* the protocols whose Dial is run

VARIABLE dl

-----------------------------------------------------------------------------
\* Steps: `opens' is what success adds, `undo' what failure closes, `gives'
\* what the engine's own teardown can see from here on, `else' what a failure
\* leads to: the end of Dial, the next step, or another way to the data path.
Try(undo) == [opens |-> {}, undo |-> undo, gives |-> {}, else |-> "fail"]

Open(r, undo) == [Try(undo) EXCEPT !.opens = {r}, !.gives = {r}]

\* Opened, but not yet visible to the engine that runs beside Dial.
OpenAside(r, undo) == [Try(undo) EXCEPT !.opens = {r}]

Give(r) == [Try({}) EXCEPT !.gives = {r}, !.else = "cannot fail"]

\* A channel whose absence costs nothing: its failure is logged and Dial goes on.
OrSkip(step) == [step EXCEPT !.else = "skip"]

OrElse(step, p) == [step EXCEPT !.else = p]

-----------------------------------------------------------------------------
\* client.Dial: the protocol must be registered and its options must parse.
ClientDial == <<Try({}), Try({})>>

\* Mutant of DialToy: a Dial whose TUN failure returns without closing the socket.
DialToyLeaks == <<Try({}), Try({}), Open("conn", {}), Open("tun", {}), Try({"conn", "tun"})>>

\* server, user and secret; resolve; the socket; the TUN; the handshake.
DialToy == <<Try({}), Try({}), Open("conn", {}), Open("tun", {"conn"}), Try({"conn", "tun"})>>

\* The framed tunnel over a fresh TLS connection: dial, request, answer.
GpTunnel == <<Open("conn", {"tun"}), Try({"conn", "tun"}), Try({"conn", "tun"})>>

\* server and user; the login; the TUN.
GpLogin == <<Try({}), Try({}), Open("tun", {})>>

DialGpTLS == GpLogin \o GpTunnel

\* An ESP path that cannot be opened or does not answer is left for the tunnel.
GpRunESP == <<OrElse(Open("esp", {}), "gptls"), OrElse(Try({"esp"}), "gptls")>>

DialGpESP == GpLogin \o GpRunESP

\* The TLS connection, the TUN, authentication and configuration; the ESP
\* channel is an addition.
PulseConnect == <<Try({"conn", "tun"}), Try({"conn", "tun"}), OrSkip(Open("esp", {}))>>

DialPulse == <<Try({}), Open("conn", {}), Open("tun", {"conn"})>> \o PulseConnect

\* ike.Client.Connect: dial, IKE_SA_INIT, the float to the NAT-T port (which
\* swaps the socket for another), IKE_INTERMEDIATE and IKE_AUTH.
IkeConnect == <<Open("ike", {}), Try({"ike"}), Try({"ike"}), Try({"ike"}), Try({"ike"})>>

DialIkev2 == <<Try({}), Try({}), Try({})>> \o IkeConnect
                \o <<Open("tun", {"ike"}), Try({"tun", "ike"})>>

WireguardClient == <<Open("conn", {}), Try({"conn"}), Try({"conn"}), Open("tun", {"conn"})>>

DialWireguard == <<Try({})>> \o WireguardClient

OpenvpnClient == <<Try({}), Open("conn", {}), Try({"conn"}), Try({"conn"}),
                   Try({"conn"}), Open("tun", {"conn"})>>

DialOpenvpn == <<Try({}), Try({})>> \o OpenvpnClient

\* The read loop starts before the TUN exists: it runs from step 5 on, and can
\* close the session while Dial opens the device it has not stored yet.
DialSstp == <<Try({}), Open("conn", {}), Try({"conn"}), Try({"conn"}), Try({"conn"}),
              Try({"conn"}), OpenAside("tun", {"conn"}), Give("tun")>>

DialMasque == <<Try({}), Try({}), Open("quic", {}), Try({"quic"}), Try({"quic"}),
                Open("tun", {"quic"})>>

DialNebula == <<Try({}), Try({}), Try({}), Open("conn", {}), Open("tun", {"conn"}),
                Try({"conn", "tun"})>>

DialL2tpv3 == <<Try({}), Try({}), Try({}), Open("conn", {}), Open("tun", {"conn"})>>

SoftetherConnect == <<Open("conn", {}), Try({"conn"}), Try({"conn"}), Try({"conn"}), Try({"conn"})>>

DialSoftether == <<Try({}), Try({})>> \o SoftetherConnect \o <<Open("tun", {"conn"})>>

\* Handshake runs the receive loop; every way out of it but success has closed
\* the engine, and with it the socket.
DialL2tp == <<Try({}), Try({}), Try({}), Open("conn", {}), Open("tun", {"conn"}),
              Try({"conn", "tun"})>>

DialSsh == <<Try({}), Try({}), Try({}), Open("conn", {}), Try({"conn"}), Open("tun", {"conn"})>>

DialCisco == <<Try({}), Try({}), Open("conn", {}), Open("tun", {"conn"}), Try({"conn", "tun"})>>

DialAnyconnect == <<Try({}), Open("conn", {}), Open("tun", {"conn"}), Try({"conn", "tun"}),
                    OrSkip(Open("dtls", {}))>>

\* The link's read loop runs from the TLS path on; the DTLS channel is dialled
\* beside it and attached when it is up.
FortinetTLSPath == <<Open("conn", {"tun"}), Try({"conn", "tun"}), Try({"conn", "tun"})>>

FortinetDTLS == <<OrSkip(OpenAside("dtls", {})), Give("dtls")>>

DialFortinet == <<Try({}), Try({}), Try({}), Try({}), Open("tun", {})>>
                   \o FortinetTLSPath \o FortinetDTLS

-----------------------------------------------------------------------------
\* What the engine closes, once, whether it stops by itself or is told to;
\* what the facade's Close closes every time; the step from which the engine
\* runs (0: nothing in it closes anything of its own accord).
CloseToy == [engine |-> {"conn", "tun"}, facade |-> {}, from |-> 0]
CloseGpTLS == [engine |-> {"conn", "tun"}, facade |-> {}, from |-> 6]
CloseGpESP == [engine |-> {"esp"}, facade |-> {}, from |-> 5]
ClosePulse == [engine |-> {"conn", "tun"}, facade |-> {"esp"}, from |-> 6]
CloseIkev2 == [engine |-> {"tun", "ike"}, facade |-> {}, from |-> 10]
CloseWireguard == [engine |-> {"tun", "conn"}, facade |-> {}, from |-> 5]
CloseOpenvpn == [engine |-> {"tun", "conn"}, facade |-> {}, from |-> 8]
CloseSstp == [engine |-> {"tun", "conn"}, facade |-> {}, from |-> 5]
CloseMasque == [engine |-> {"tun"}, facade |-> {}, from |-> 6]
CloseNebula == [engine |-> {"conn", "tun"}, facade |-> {}, from |-> 0]
CloseL2tpv3 == [engine |-> {"conn", "tun"}, facade |-> {}, from |-> 0]
CloseSoftether == [engine |-> {}, facade |-> {"conn", "tun"}, from |-> 0]
CloseL2tp == [engine |-> {"conn"}, facade |-> {"tun"}, from |-> 6]
CloseSsh == [engine |-> {"tun", "conn"}, facade |-> {}, from |-> 6]
CloseCisco == [engine |-> {"conn"}, facade |-> {"tun"}, from |-> 5]
CloseAnyconnect == [engine |-> {"dtls", "conn"}, facade |-> {"tun"}, from |-> 5]
CloseFortinet == [engine |-> {"dtls", "conn", "tun"}, facade |-> {}, from |-> 8]

Program(p) ==
    CASE p = "toy" -> DialToy [] p = "gptls" -> DialGpTLS [] p = "gpesp" -> DialGpESP
      [] p = "pulse" -> DialPulse [] p = "ikev2" -> DialIkev2
      [] p = "wireguard" -> DialWireguard [] p = "openvpn" -> DialOpenvpn
      [] p = "sstp" -> DialSstp [] p = "masque" -> DialMasque [] p = "nebula" -> DialNebula
      [] p = "l2tpv3" -> DialL2tpv3 [] p = "softether" -> DialSoftether
      [] p = "l2tp" -> DialL2tp [] p = "ssh" -> DialSsh [] p = "cisco" -> DialCisco
      [] p = "anyconnect" -> DialAnyconnect [] p = "fortinet" -> DialFortinet

Teardown(p) ==
    CASE p = "toy" -> CloseToy [] p = "gptls" -> CloseGpTLS [] p = "gpesp" -> CloseGpESP
      [] p = "pulse" -> ClosePulse [] p = "ikev2" -> CloseIkev2
      [] p = "wireguard" -> CloseWireguard [] p = "openvpn" -> CloseOpenvpn
      [] p = "sstp" -> CloseSstp [] p = "masque" -> CloseMasque [] p = "nebula" -> CloseNebula
      [] p = "l2tpv3" -> CloseL2tpv3 [] p = "softether" -> CloseSoftether
      [] p = "l2tp" -> CloseL2tp [] p = "ssh" -> CloseSsh [] p = "cisco" -> CloseCisco
      [] p = "anyconnect" -> CloseAnyconnect [] p = "fortinet" -> CloseFortinet

Offset == Len(ClientDial)

Steps(p) == ClientDial \o Program(p)

-----------------------------------------------------------------------------
Init == \E p \in Protocols :
    dl = [p |-> p, pc |-> 1, held |-> {}, given |-> {}, stopped |-> FALSE,
          early |-> FALSE, out |-> "dialling"]

Here == Steps(dl.p)[dl.pc]

Dialling == dl.out = "dialling" /\ dl.pc <= Len(Steps(dl.p))

Advance ==
    /\ Dialling
    /\ dl' = [dl EXCEPT !.pc = @ + 1, !.held = @ \cup Here.opens,
                        !.given = @ \cup (Here.gives \cap (dl.held \cup Here.opens))]

\* The step fails and its error return closes what it names: Dial gives up,
\* goes on without, or (gp) takes the other way to the data path.
Fail ==
    /\ Dialling /\ Here.else # "cannot fail"
    /\ LET left == [dl EXCEPT !.held = @ \ Here.undo]
       IN dl' = CASE Here.else = "fail" -> [left EXCEPT !.out = "failed"]
                  [] Here.else = "skip" -> [left EXCEPT !.pc = @ + 1]
                  [] OTHER -> [left EXCEPT !.p = Here.else, !.pc = Offset + Len(GpLogin) + 1]

Return ==
    /\ dl.out = "dialling" /\ dl.pc > Len(Steps(dl.p))
    /\ dl' = [dl EXCEPT !.out = "up"]

\* The engine stops by itself (a dead carrier, a refused rekey, the peer hanging
\* up), closing what it holds; its once is spent.
EngineStops ==
    /\ Teardown(dl.p).from > 0 /\ dl.pc > Offset + Teardown(dl.p).from
    /\ dl.out \in {"dialling", "up"} /\ ~dl.stopped
    /\ dl' = [dl EXCEPT !.held = @ \ (Teardown(dl.p).engine \cap dl.given),
                        !.stopped = TRUE, !.early = dl.out = "dialling"]

Close ==
    /\ dl.out = "up"
    /\ dl' = [dl EXCEPT !.held = @ \ (Teardown(dl.p).facade
                                       \cup IF dl.stopped THEN {} ELSE Teardown(dl.p).engine),
                        !.stopped = TRUE, !.out = "closed"]

\* Closing a closed session, and a Dial that gave up, change nothing more.
Ended == dl.out \in {"failed", "closed"} /\ UNCHANGED dl

Next == Advance \/ Fail \/ Return \/ EngineStops \/ Close \/ Ended

Spec == Init /\ [][Next]_dl

-----------------------------------------------------------------------------
\* What a closed session of the two protocols that forget something still
\* holds: masque's QUIC endpoint, which nothing closes once the tunnel is up,
\* and the TUN of a gp session on ESP, whose stop closes the socket only.  An
\* engine that stopped while Dial was still running leaves, besides, what Dial
\* gave it afterwards.
Forgotten(p) == CASE p = "masque" -> {"quic"} [] p = "gpesp" -> {"tun"} [] OTHER -> {}

GivenTooLate(p) == CASE p = "sstp" -> {"tun"} [] p = "fortinet" -> {"dtls"} [] OTHER -> {}

\* "On error nothing is left running" (client.Dialer): at every error return of
\* every protocol's Dial the sockets and devices opened so far are closed; and
\* a closed session holds nothing but what Forgotten and GivenTooLate name.
NothingLeft ==
    /\ dl.out = "failed" => dl.held = {}
    /\ dl.out = "closed" =>
          dl.held \subseteq Forgotten(dl.p) \cup IF dl.early THEN GivenTooLate(dl.p) ELSE {}

\* The same without the exceptions: what the code does not do.
NothingForgotten == dl.out \in {"failed", "closed"} => dl.held = {}
=============================================================================
