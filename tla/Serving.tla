------------------------------ MODULE Serving ------------------------------
(***************************************************************************)
(* The life of a protocol's server: NewServer, ListenAndServe on a         *)
(* goroutine of its own, Close and Abandon from others.  The supervisor    *)
(* (module Supervisor) calls Close whenever a listener is disabled or      *)
(* rebuilt, and nothing orders that call after ListenAndServe's bind.      *)
(*                                                                         *)
(* A step of ListenAndServe opens a socket (naming what its error return   *)
(* closes), makes sockets visible to Close, or blocks on a socket until it *)
(* is closed.  `locked' says that the server's mutex is still held after   *)
(* the step, so that Close waits.                                          *)
(***************************************************************************)
EXTENDS Integers, Sequences

CONSTANT Protocols     \* the protocols whose server is run

VARIABLE sv

-----------------------------------------------------------------------------
Step(kind, rs, undo) == [kind |-> kind, rs |-> rs, undo |-> undo, locked |-> FALSE]

CheckOr(undo) == Step("open", {}, undo)      \* may fail, opens nothing
Check == CheckOr({})
Open(r, undo) == Step("open", {r}, undo)     \* open r; on failure close undo
OpenIfPossible(r) == Step("optional", {r}, {})
Refuse == Step("refuse", {}, {})             \* return if closed (or started: it is called once)
Publish(rs) == Step("publish", rs, {})       \* Close can see rs from now on
\* The same under the mutex, unless Close came first: then close undo and return.
Recheck(rs, undo) == Step("recheck", rs, undo)
Run(r) == Step("run", {r}, {})               \* serve until r is closed
Locked(step) == [step EXCEPT !.locked = TRUE]

-----------------------------------------------------------------------------
\* client.NewServer: a registered protocol whose options parse.
NewServer == <<Check, Check>>

NewToy == <<Check, Check, Open("tun", {})>>
NewMasque == <<Check, Check, Check, Check, Open("tun", {})>>
NewNebula == <<Check>>
NewFortinet == <<Check, Check, Check, Check, Check, Open("tun", {}), Open("engine", {"tun"})>>
NewCisco == <<Check, Check, Open("tun", {})>>
NewGp == <<Check, Check, Check, Check, Open("tun", {}), Open("engine", {"tun"})>>
NewPulse == <<Check, Check, Check, Check, Open("tun", {}), Open("engine", {"tun"})>>
NewWireguard == <<Check, Check, Check, Open("tun", {})>>
NewOpenvpn == <<Check, Check, Check, Check, Check, Check, Open("tun", {})>>
NewSstp == <<Check, Check, Check, Check, Check, Open("tun", {})>>
NewL2tpv3 == <<Check, Open("tun", {})>>
NewSoftether == <<Check, Check, Check, Open("tun", {})>>
NewSsh == <<Check, Check, Check, Check, Open("tun", {})>>
NewL2tp == <<Check, Check, Open("ike", {}), Open("natt", {"ike"}), Open("tun", {"ike", "natt"})>>
NewAnyconnect == <<Check, Check, Check, Check, Open("ln", {}), OpenIfPossible("udp"),
                   Open("tun", {"ln", "udp"})>>
IkeNewServer == <<CheckOr({"tun"}), CheckOr({"tun"}), Open("c500", {"tun"}), Open("c4500", {"c500", "tun"}),
                  Open("tcp", {"c500", "c4500", "tun"})>>
NewIkev2 == <<Check, Check, Check, Check, Check, Open("tun", {})>> \o IkeNewServer

-----------------------------------------------------------------------------
\* Mutant of ServeToy.
ServeToyUnchecked == <<Refuse, Check, Open("conn", {}), Check, Publish({"conn"}), Run("conn")>>
\* ListenAndServe.  Three shapes: the bind done under the mutex that Close
\* takes; the bind outside it and `closed' read again afterwards; neither.
\* (An http.Server that is closed before it serves closes its listener as soon
\* as it is asked to serve, so closing it is closing the listener.)
ServeToy == <<Refuse, Check, Open("conn", {}), CheckOr({"conn"}),
              Recheck({"conn"}, {"conn", "tun"}), Run("conn")>>
ServeMasque == <<Refuse, Open("end", {}), CheckOr({"end"}),
                 Recheck({"end"}, {"end", "tun"}), Run("end")>>
\* Dial opens the socket and the TUN; the session is closed by ListenAndServe
\* itself once Close has closed `done'.
ServeNebula == <<Refuse, Check, Open("conn", {}), Open("tun", {"conn"}), CheckOr({"conn", "tun"}),
                 Recheck({"conn", "tun"}, {"conn", "tun"}), Run("conn")>>
ServeFortinet == <<Locked(Refuse), Locked(Open("ln", {})), Locked(Open("udp", {"ln"})),
                   Locked(CheckOr({"udp", "ln"})), Publish({"ln", "udp"}), Run("ln")>>
ServeCisco == <<Locked(Refuse), Locked(Check), Locked(Open("ike", {})), Locked(Open("natt", {"ike"})),
                Locked(CheckOr({"ike", "natt"})), Publish({"ike", "natt"}), Run("natt")>>
GpBind == <<Locked(Refuse), Locked(Open("ln", {})), Locked(Open("udp", {"ln"})), Publish({"udp"})>>
ServeGp == GpBind \o <<Recheck({"ln"}, {"ln"}), Run("ln")>>
PulseBind == <<Locked(Refuse), Locked(Open("ln", {})), Locked(Open("udp", {"ln"})), Publish({"udp"})>>
\* The engine that finds itself closed returns without closing the listener.
ServePulse == PulseBind \o <<Recheck({"ln"}, {}), Run("ln")>>
ServeWireguard == <<Open("conn", {}), Publish({"conn"}), Run("conn")>>
ServeOpenvpn == <<Open("conn", {}), Publish({"conn"}), Run("conn")>>
ServeSstp == <<Open("ln", {}), Publish({"ln"}), Run("ln")>>
ServeL2tpv3 == <<Check, Open("conn", {}), Publish({"conn"}), Run("conn")>>
ServeSoftether == <<Open("ln", {}), Publish({"ln"}), Run("ln")>>
ServeSsh == <<Open("ln", {}), Publish({"ln"}), Run("ln")>>
ServeL2tp == <<Run("natt")>>
ServeAnyconnect == <<Run("ln")>>
ServeIkev2 == <<Run("c4500")>>

\* What Close closes whatever ListenAndServe has published.
CloseToy == {"tun"}
CloseMasque == {"tun"}
CloseNebula == {}
CloseFortinet == {"tun", "engine"}
CloseCisco == {"tun"}
CloseGp == {"tun", "engine"}
ClosePulse == {"tun", "engine"}
CloseWireguard == {"tun"}
CloseOpenvpn == {"tun"}
CloseSstp == {"tun"}
CloseL2tpv3 == {"tun"}
CloseSoftether == {"tun"}
CloseSsh == {"tun"}
CloseL2tp == {"ike", "natt", "tun"}
CloseAnyconnect == {"ln", "udp", "tun"}
CloseIkev2 == {"c500", "c4500", "tcp", "tun"}

\* [new, serve, close] of each protocol.
Server(p) ==
    LET S(n, s, c) == [new |-> NewServer \o n, serve |-> s, close |-> c]
    IN CASE p = "toy" -> S(NewToy, ServeToy, CloseToy)
         [] p = "masque" -> S(NewMasque, ServeMasque, CloseMasque)
         [] p = "nebula" -> S(NewNebula, ServeNebula, CloseNebula)
         [] p = "fortinet" -> S(NewFortinet, ServeFortinet, CloseFortinet)
         [] p = "cisco" -> S(NewCisco, ServeCisco, CloseCisco)
         [] p = "gp" -> S(NewGp, ServeGp, CloseGp)
         [] p = "pulse" -> S(NewPulse, ServePulse, ClosePulse)
         [] p = "wireguard" -> S(NewWireguard, ServeWireguard, CloseWireguard)
         [] p = "openvpn" -> S(NewOpenvpn, ServeOpenvpn, CloseOpenvpn)
         [] p = "sstp" -> S(NewSstp, ServeSstp, CloseSstp)
         [] p = "l2tpv3" -> S(NewL2tpv3, ServeL2tpv3, CloseL2tpv3)
         [] p = "softether" -> S(NewSoftether, ServeSoftether, CloseSoftether)
         [] p = "ssh" -> S(NewSsh, ServeSsh, CloseSsh)
         [] p = "l2tp" -> S(NewL2tp, ServeL2tp, CloseL2tp)
         [] p = "anyconnect" -> S(NewAnyconnect, ServeAnyconnect, CloseAnyconnect)
         [] p = "ikev2" -> S(NewIkev2, ServeIkev2, CloseIkev2)

-----------------------------------------------------------------------------
Init == \E p \in Protocols :
    sv = [p |-> p, npc |-> 1, spc |-> 0, held |-> {}, pub |-> {},
          closed |-> FALSE, overtook |-> FALSE]

Built == sv.npc > Len(Server(sv.p).new)
Making == Server(sv.p).new[sv.npc]
Serving == sv.spc \in 1..Len(Server(sv.p).serve)
Here == Server(sv.p).serve[sv.spc]
Returned == -1

\* NewServer: the next step succeeds; an optional one may be left out.
Construct ==
    /\ sv.npc > 0 /\ ~Built
    /\ \/ sv' = [sv EXCEPT !.npc = @ + 1, !.held = @ \cup Making.rs]
       \/ Making.kind = "optional" /\ sv' = [sv EXCEPT !.npc = @ + 1]

ConstructFails ==
    /\ sv.npc > 0 /\ ~Built /\ Making.kind = "open"
    /\ sv' = [sv EXCEPT !.npc = 0, !.held = @ \ Making.undo]

ListenAndServe == Built /\ sv.spc = 0 /\ sv' = [sv EXCEPT !.spc = 1]

Return(rest) == sv' = [sv EXCEPT !.spc = Returned, !.held = rest]

\* ListenAndServe goes one step further.
ServeStep ==
    /\ Serving
    /\ CASE Here.kind = "refuse" ->
              IF sv.closed THEN Return(sv.held) ELSE sv' = [sv EXCEPT !.spc = @ + 1]
         [] Here.kind = "open" ->
              sv' = [sv EXCEPT !.spc = @ + 1, !.held = @ \cup Here.rs]
         [] Here.kind = "publish" ->
              sv' = [sv EXCEPT !.spc = @ + 1, !.pub = @ \cup Here.rs]
         [] Here.kind = "recheck" ->
              IF sv.closed THEN Return(sv.held \ Here.undo)
              ELSE sv' = [sv EXCEPT !.spc = @ + 1, !.pub = @ \cup Here.rs]
         [] Here.kind = "run" ->
              Here.rs \cap sv.held = {} /\ Return(sv.held)

\* A bind fails: ListenAndServe closes what its error return names.  The TUN
\* stays, and is Close's to close.
ServeFails ==
    /\ Serving /\ Here.kind = "open"
    /\ Return(sv.held \ Here.undo)

MutexFree == ~(sv.spc > 1 /\ Serving /\ Server(sv.p).serve[sv.spc - 1].locked)

Close ==
    /\ Built /\ ~sv.closed /\ MutexFree
    /\ sv' = [sv EXCEPT !.closed = TRUE, !.held = @ \ (Server(sv.p).close \cup sv.pub),
                        !.overtook = sv.spc = 0 \/ (Serving /\ Here.kind # "run")]

\* Abandon closes the TUN (nebula: only once the session is stored) and waits
\* for nothing.
Abandon ==
    /\ Built /\ (sv.p = "nebula" => sv.pub # {})
    /\ "tun" \in sv.held
    /\ sv' = [sv EXCEPT !.held = @ \ {"tun"}]

Ended ==
    /\ sv.npc = 0 \/ (sv.closed /\ (Serving => Here.kind = "run"))
    /\ UNCHANGED sv

Next ==
    \/ Construct \/ ConstructFails
    \/ ListenAndServe \/ ServeStep \/ ServeFails
    \/ Close \/ Abandon \/ Ended

Spec == Init /\ [][Next]_sv

-----------------------------------------------------------------------------
\* The protocols whose ListenAndServe never looks at `closed' after its bind
\* (pulse looks, and returns without closing the listener).
Unchecked == {"wireguard", "openvpn", "sstp", "l2tpv3", "softether", "ssh", "pulse"}

\* "Close stops the server and releases the TUN and sockets" (client.Server):
\* once a server is closed and its ListenAndServe has returned or was never
\* called, nothing is held; one still inside ListenAndServe is blocked on
\* nothing that is open, so that it will return; a NewServer that failed holds
\* nothing.  For the protocols in Unchecked only when Close did not overtake
\* the bind.
ReleasedByClose(exempt) ==
    /\ sv.npc = 0 => sv.held = {}
    /\ sv.closed /\ ~(sv.p \in exempt /\ sv.overtook) =>
          /\ sv.spc \in {0, Returned} => sv.held = {}
          /\ Serving /\ Here.kind = "run" => Here.rs \cap sv.held = {}

CloseReleases == ReleasedByClose(Unchecked)

\* The same for every protocol, whenever Close comes: what the code does not do.
CloseAlwaysReleases == ReleasedByClose({})
=============================================================================
