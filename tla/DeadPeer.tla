------------------------------ MODULE DeadPeer ------------------------------
(***************************************************************************)
(* The liveness monitor of client/liveness.go and the Prober of every      *)
(* protocol that has one.  Time advances in units of five seconds; a       *)
(* protocol is the record of what its Probe consults and how its           *)
(* LivenessConfig tunes the monitor:                                       *)
(*   quiet    silence (units) below which a probe succeeds without asking  *)
(*   ask      whether a longer silence makes the probe ask the peer        *)
(*   every    how often the idle peer speaks on its own, 0 for never       *)
(*   interval, timeout, max   the LivenessConfig, defaults filled in       *)
(***************************************************************************)
EXTENDS Naturals

CONSTANTS Protocols,    \* the probers explored, names of the table below
          MaxLosses     \* datagrams the network may lose, or delay to the last moment

VARIABLE mon            \* the monitored session, its peer and the clocks

WithDefaults(t) == [interval |-> IF t.interval = 0 THEN 3 ELSE t.interval,
                    timeout |-> IF t.timeout = 0 THEN 1 ELSE t.timeout,
                    max |-> IF t.max = 0 THEN 4 ELSE t.max]

Untuned == [interval |-> 0, timeout |-> 0, max |-> 0]

Asks(quiet, every, tune) ==
    [quiet |-> quiet, ask |-> TRUE, every |-> every, cfg |-> WithDefaults(tune)]

Listens(quiet, every, tune) == [Asks(quiet, every, tune) EXCEPT !.ask = FALSE]

LcpEcho   == Asks(0, 0, [interval |-> 2, timeout |-> 1, max |-> 3])
CstpDpd   == Asks(0, 0, [interval |-> 2, timeout |-> 1, max |-> 3])
IkeDpd    == Asks(4, 0, Untuned)
CiscoDpd  == Asks(0, 0, Untuned)
L2tpHello == Asks(0, 0, Untuned)
GpSsl     == Asks(0, 0, Untuned)
WgRekey   == Asks(4, 0, [interval |-> 6, timeout |-> 3, max |-> 2])

\* ping-restart 60 is the deadline, a quarter of it the interval; the server pings every 10 s.
OvpnPing  == Listens(12, 2, [interval |-> 3, timeout |-> 1, max |-> 1])

\* The passive probers compare with >, so the first failing reading is one unit later.
GpEsp     == Listens(7, 0, Untuned)
PulseEsp  == Listens(7, 0, Untuned)
ToyIdle   == Listens(13, 0, [interval |-> 3, timeout |-> 0, max |-> 2])

Prober == [fortinet |-> LcpEcho, anyconnect |-> CstpDpd, ikev2 |-> IkeDpd, cisco |-> CiscoDpd,
           l2tp |-> L2tpHello, gpssl |-> GpSsl, wireguard |-> WgRekey, openvpn |-> OvpnPing,
           gpesp |-> GpEsp, pulseesp |-> PulseEsp, toy |-> ToyIdle]

P == Prober[mon.proto]

\* Longer deaths than this are not told apart, nor are silences longer than P.quiet.
Longest == P.quiet + P.cfg.max * P.cfg.interval + P.cfg.timeout + 1

Least(a, b) == IF a < b THEN a ELSE b

Init == \E p \in Protocols :
    mon = [proto |-> p, phase |-> "waiting", due |-> Prober[p].cfg.interval, left |-> 0,
           failures |-> 0, idle |-> 0, stop |-> FALSE, alive |-> TRUE, dead |-> 0,
           speaks |-> Prober[p].every, fate |-> "prompt", losses |-> 0, streak |-> 0]

-----------------------------------------------------------------------------
Running == mon.phase \in {"waiting", "probing"}

\* Nothing due is overtaken by the clock: a tick, a deadline, a prompt answer, a keepalive.
\* A late answer comes in as the time of its probe runs out.
Settled ==
    /\ mon.phase = "waiting" => mon.due > 0
    /\ mon.phase = "probing" => mon.left > 0 /\ (mon.fate # "prompt" \/ ~mon.alive)
    /\ P.every > 0 /\ mon.alive => mon.speaks > 0

Advance ==
    /\ Running /\ Settled
    /\ mon' = [mon EXCEPT !.due = IF @ > 0 THEN @ - 1 ELSE 0,
                          !.left = IF @ > 0 THEN @ - 1 ELSE 0,
                          !.speaks = IF @ > 0 THEN @ - 1 ELSE 0,
                          !.idle = Least(@ + 1, P.quiet),
                          !.dead = IF mon.alive THEN 0 ELSE Least(@ + 1, Longest)]

\* The outcome of one probe, and what run does with it.
Failed(m) ==
    LET n == m.failures + 1
    IN  [m EXCEPT !.failures = n,
                  !.phase = IF n >= P.cfg.max THEN "closed" ELSE "waiting"]

\* Mutant of Succeeded: a success that forgets to clear the failures counts losses over the session's whole life.
NeverResets(m) == [m EXCEPT !.phase = "waiting"]

Succeeded(m) == [m EXCEPT !.failures = 0, !.phase = "waiting"]

\* A stop that raced with the probe: run returns without counting it.
Concluded(m, verdict) ==
    IF m.stop THEN [m EXCEPT !.phase = "halted"]
    ELSE IF verdict THEN Succeeded(m) ELSE Failed(m)

\* The ticker fires: Probe reads the idle clock and either decides or asks.
Tick ==
    /\ mon.phase = "waiting" /\ mon.due = 0 /\ ~mon.stop
    /\ LET m == [mon EXCEPT !.due = P.cfg.interval] IN
       \/ /\ mon.idle < P.quiet
          /\ mon' = Concluded(m, TRUE)
       \/ /\ mon.idle >= P.quiet /\ ~P.ask
          /\ mon' = Concluded(m, FALSE)
       \/ /\ mon.idle >= P.quiet /\ P.ask
          /\ \E fate \in {"prompt", "late", "lost"} :
                /\ fate # "prompt" => mon.losses < MaxLosses
                /\ mon' = [m EXCEPT !.phase = "probing", !.left = P.cfg.timeout, !.fate = fate,
                                    !.losses = IF fate = "prompt" THEN @ ELSE @ + 1]

\* The answer and the deadline of one probe may both be there: select takes either.
Answered ==
    /\ mon.phase = "probing" /\ mon.alive
    /\ mon.fate = "prompt" \/ (mon.fate = "late" /\ mon.left = 0)
    /\ mon' = Concluded([mon EXCEPT !.streak = 0], TRUE)

TimedOut ==
    /\ mon.phase = "probing" /\ mon.left = 0
    /\ mon' = Concluded([mon EXCEPT !.streak = @ + 1], FALSE)

\* Authenticated data, or the peer's periodic keepalive, moves the pump's inbound clock.
Data ==
    /\ Running /\ mon.alive
    /\ mon' = [mon EXCEPT !.idle = 0]

Keepalive ==
    /\ Running /\ mon.alive /\ P.every > 0 /\ mon.speaks = 0
    /\ \E lost \in BOOLEAN :
          /\ lost => mon.losses < MaxLosses
          /\ mon' = [mon EXCEPT !.speaks = P.every, !.idle = IF lost THEN @ ELSE 0,
                                !.losses = IF lost THEN @ + 1 ELSE @,
                                !.streak = IF lost THEN @ + 1 ELSE 0]

Die ==
    /\ Running /\ mon.alive
    /\ mon' = [mon EXCEPT !.alive = FALSE]

\* monitored.Close or Wait: halt, then the session's own Close.
Halt ==
    /\ Running /\ ~mon.stop
    /\ mon' = [mon EXCEPT !.stop = TRUE, !.phase = IF @ = "waiting" THEN "halted" ELSE @]

Next == Advance \/ Tick \/ Answered \/ TimedOut \/ Data \/ Keepalive \/ Die \/ Halt

Spec == Init /\ [][Next]_mon

-----------------------------------------------------------------------------
(* The monitor closes a session only when its peer is gone: as long as the *)
(* peer lives and fewer probes in a row time out than the monitor is told  *)
(* to tolerate, the tunnel stays up, however idle it is and whichever way  *)
(* the race of an answer and its deadline goes: "A single success resets   *)
(* the counter, so isolated packet loss does not tear a healthy tunnel     *)
(* down."                                                                  *)
LivePeerKept == mon.phase = "closed" => ~mon.alive \/ mon.streak >= P.cfg.max

(* A peer that dies is noticed: the monitor has closed the session at the  *)
(* latest when the silence its prober tolerates and MaxFailures probes     *)
(* have gone by.                                                           *)
DeadPeerNoticed ==
    Running /\ ~mon.stop => mon.dead <= P.quiet + P.cfg.max * P.cfg.interval + P.cfg.timeout

=============================================================================
