------------------------------- MODULE Pulse -------------------------------
(***************************************************************************)
(* The Pulse gateway and its clients (internal/pulse): the IF-T/TLS        *)
(* authentication exchange, the configuration phase that offers ESP, the   *)
(* choice of data path, and the gateway's session table.  Connection k is  *)
(* one client and the goroutine serveConn that serves it; the two talk     *)
(* over a TLS stream, up[k] towards the gateway and down[k] back.          *)
(***************************************************************************)
EXTENDS Naturals, Sequences, FiniteSets, Functions

CONSTANTS Conns,       \* connections
          Inner,       \* the pool's addresses
          Scenarios,   \* what clients, network and gateway may do
          MaxHalfOpen, \* the gate's cap
          Nil

VARIABLES cl, sv, up, down, gw, env

vars == <<cl, sv, up, down, gw, env>>

Init ==
    /\ env \in Scenarios
    /\ cl = [k \in Conns |-> [phase |-> "new", info |-> FALSE, sent |-> FALSE, cookie |-> FALSE,
                              config |-> FALSE, keys |-> FALSE, addr |-> Nil]]
    /\ sv = [k \in Conns |-> [phase |-> "none", step |-> 1, addr |-> Nil, esp |-> FALSE,
                              from |-> FALSE, budget |-> 0, stopped |-> FALSE, released |-> FALSE]]
    /\ up = [k \in Conns |-> <<>>] /\ down = [k \in Conns |-> <<>>]
    /\ gw = [pool |-> Inner, gate |-> 0, sessions |-> [a \in Inner |-> Nil], armed |-> {},
             closed |-> FALSE]

\* What the gateway expects of a client, in order, and what it answers each with.
Expected == <<"upgrade", "version", "clientinfo", "identity", "avps", "credentials", "ack">>
Answer   == <<"switching", "versionok", "challenge", "signin", "prompt", "cookie", "success">>

-----------------------------------------------------------------------------
(* The client: clientUpgrade, ClientAuth.                                  *)

Opening == [switching |-> "version", versionok |-> "clientinfo", challenge |-> "identity"]

Say(k, s) == up' = [up EXCEPT ![k] = @ \o s]

Dial(k) ==
    /\ cl[k].phase = "new" /\ ~gw.closed
    /\ cl' = [cl EXCEPT ![k].phase = "auth"] /\ Say(k, <<"upgrade">>)
    /\ UNCHANGED <<sv, down, gw, env>>

\* One message of the exchange: what the client becomes, and what it says.
Challenged(c, m) ==
    CASE m \in DOMAIN Opening -> [c |-> c, say |-> <<Opening[m]>>]
      [] m = "success" -> [c |-> [c EXCEPT !.phase = IF c.cookie THEN "config" ELSE "failed"], say |-> <<>>]
      [] m = "cookie" -> [c |-> [c EXCEPT !.cookie = TRUE], say |-> <<"ack">>]
      [] m = "signin" /\ ~c.info -> [c |-> [c EXCEPT !.info = TRUE], say |-> <<"avps">>]
      [] m = "prompt" /\ ~c.sent -> [c |-> [c EXCEPT !.sent = TRUE], say |-> <<"credentials">>]
      [] OTHER -> [c |-> [c EXCEPT !.phase = "failed"], say |-> <<>>]

ClientAuth(k) ==
    /\ cl[k].phase = "auth" /\ down[k] # <<>>
    /\ LET r == Challenged(cl[k], Head(down[k])) IN cl' = [cl EXCEPT ![k] = r.c] /\ Say(k, r.say)
    /\ down' = [down EXCEPT ![k] = Tail(@)]
    /\ UNCHANGED <<sv, gw, env>>

(* The client's configuration phase: the keys are answered as soon as they *)
(* are read, whatever the client will do with them.                        *)
ClientConfig(k) ==
    /\ cl[k].phase = "config" /\ down[k] # <<>>
    /\ LET m == Head(down[k])
           c == cl[k] IN
       \/ /\ m.t = "config" /\ cl' = [cl EXCEPT ![k].config = TRUE, ![k].addr = m.addr] /\ UNCHANGED up
       \/ /\ m.t = "keys" /\ ~c.config /\ cl' = [cl EXCEPT ![k].phase = "failed"] /\ UNCHANGED up
       \/ /\ m.t = "keys" /\ c.config
          /\ cl' = [cl EXCEPT ![k].keys = TRUE] /\ Say(k, <<"clientkeys", "ncmo">>)
       \/ /\ m.t = "done" /\ UNCHANGED up
          /\ cl' = [cl EXCEPT ![k].phase = IF ~c.config THEN "failed"
                                           ELSE IF c.keys /\ k \in env.wantESP THEN "probing" ELSE "tls"]
    /\ down' = [down EXCEPT ![k] = Tail(@)]
    /\ UNCHANGED <<sv, gw, env>>

\* probeESP: the gateway echoes the probe once it has the client's keys, if UDP gets through.
ProbeESP(k) ==
    /\ cl[k].phase = "probing"
    /\ \/ /\ k \in gw.armed /\ k \notin env.udpless /\ ~gw.closed
          /\ cl' = [cl EXCEPT ![k].phase = "esp"] /\ sv' = [sv EXCEPT ![k].from = TRUE]
       \/ /\ (k \in env.udpless \/ gw.closed)
          /\ cl' = [cl EXCEPT ![k].phase = "tls"]
          /\ \E noted \in BOOLEAN :  \* the probe may arrive and its echo not
                (noted => k \in gw.armed) /\ sv' = [sv EXCEPT ![k].from = noted]
    /\ UNCHANGED <<up, down, gw, env>>

\* Client.Close: the close message, then the carrier; or the carrier just breaks.
ClientClose(k) ==
    /\ cl[k].phase \in {"esp", "tls"} /\ k \in env.leaving
    /\ cl' = [cl EXCEPT ![k].phase = "closed"] /\ Say(k, <<"close">>)
    /\ UNCHANGED <<sv, down, gw, env>>

Hangs(k) ==
    /\ cl[k].phase \in {"auth", "config", "probing", "esp", "tls"} /\ k \in env.flaky
    /\ cl' = [cl EXCEPT ![k].phase = "failed"]
    /\ UNCHANGED <<sv, up, down, gw, env>>

-----------------------------------------------------------------------------
(* The gateway: Serve, serveConn, pushConfig, awaitESPResponse.            *)

Gone(k) == cl[k].phase \in {"failed", "closed"}

Accept(k) ==
    /\ sv[k].phase = "none" /\ cl[k].phase = "auth" /\ ~gw.closed
    /\ \/ /\ gw.gate < MaxHalfOpen /\ gw' = [gw EXCEPT !.gate = @ + 1]
          /\ sv' = [sv EXCEPT ![k].phase = "auth"] /\ UNCHANGED cl
       \/ /\ gw.gate >= MaxHalfOpen /\ UNCHANGED gw
          /\ sv' = [sv EXCEPT ![k].phase = "end"] /\ cl' = [cl EXCEPT ![k].phase = "failed"]
    /\ UNCHANGED <<up, down, env>>

ServerAuth(k) ==
    /\ sv[k].phase = "auth" /\ up[k] # <<>>
    /\ LET i == sv[k].step
           wrong == Head(up[k]) # Expected[i]
           bad == Expected[i] = "credentials" /\ k \notin env.good IN
       /\ sv' = [sv EXCEPT ![k].phase = IF wrong \/ bad THEN "end" ELSE IF i = 7 THEN "alloc" ELSE @,
                           ![k].step = @ + 1]
       /\ down' = [down EXCEPT ![k] = IF wrong THEN @ ELSE Append(@, IF bad THEN "failure" ELSE Answer[i])]
    /\ up' = [up EXCEPT ![k] = Tail(@)]
    /\ UNCHANGED <<cl, gw, env>>

Allocate == CHOOSE a \in gw.pool : \A b \in gw.pool : a <= b

\* pushConfig writes everything it has to say; a write on a dead carrier fails it.
PushConfig(k) ==
    /\ sv[k].phase = "alloc"
    /\ \/ /\ gw.pool = {} /\ sv' = [sv EXCEPT ![k].phase = "end"]
          /\ cl' = [cl EXCEPT ![k].phase = IF Gone(k) THEN @ ELSE "failed"] /\ UNCHANGED <<down, gw>>
       \/ /\ gw.pool # {} /\ Gone(k) /\ sv' = [sv EXCEPT ![k].phase = "end"] /\ UNCHANGED <<cl, down, gw>>
       \/ /\ gw.pool # {}
          /\ LET a == Allocate
                 keys == IF env.esp THEN <<[t |-> "keys"]>> ELSE <<>> IN
             /\ sv' = [sv EXCEPT ![k].addr = a, ![k].budget = 2,
                                 ![k].phase = IF env.esp THEN "await" ELSE "register"]
             /\ gw' = [gw EXCEPT !.pool = @ \ {a}]
             /\ down' = [down EXCEPT ![k] = @ \o <<[t |-> "config", addr |-> a]>> \o keys
                                              \o <<[t |-> "done"]>>]
          /\ UNCHANGED cl
    /\ UNCHANGED <<up, env>>

\* Two messages at most, and a carrier that ended: either way the session is registered.
AwaitESPResponse(k) ==
    /\ sv[k].phase = "await"
    /\ \/ /\ up[k] # <<>>
          /\ LET m == Head(up[k])
                 last == m = "ncmo" \/ sv[k].budget = 1 IN
             /\ sv' = [sv EXCEPT ![k].budget = @ - 1, ![k].esp = @ \/ m = "clientkeys",
                                 ![k].phase = IF last THEN "register" ELSE @]
             /\ gw' = [gw EXCEPT !.armed = IF m = "clientkeys" THEN @ \cup {k} ELSE @]
          /\ up' = [up EXCEPT ![k] = Tail(@)]
       \/ /\ up[k] = <<>> /\ Gone(k)
          /\ sv' = [sv EXCEPT ![k].phase = "register"] /\ UNCHANGED <<gw, up>>
    /\ UNCHANGED <<cl, down, env>>

Register(k) ==
    /\ sv[k].phase = "register"
    /\ sv' = [sv EXCEPT ![k].phase = "reading"]
    /\ gw' = [gw EXCEPT !.sessions[sv[k].addr] = k]
    /\ UNCHANGED <<cl, up, down, env>>

\* Mutant of Release: the pool alone: the session's route outlives it.
ReleaseAlone(k, g) == [g EXCEPT !.armed = @ \ {k}, !.pool = @ \cup {sv[k].addr}]

\* release, once: every index, then the pool.
Release(k, g) ==
    [g EXCEPT !.sessions[sv[k].addr] = Nil, !.armed = @ \ {k}, !.pool = @ \cup {sv[k].addr}]

\* link.stop and, through its shutdown hook, release.
Stop(k) ==
    /\ sv' = [sv EXCEPT ![k].phase = "end", ![k].stopped = TRUE, ![k].released = TRUE]
    /\ gw' = IF sv[k].released THEN gw ELSE Release(k, gw)

ReadLoop(k) ==
    /\ sv[k].phase = "reading"
    /\ \/ up[k] # <<>> /\ Head(up[k]) # "close" /\ UNCHANGED <<sv, gw>>
       \/ up[k] # <<>> /\ Head(up[k]) = "close" /\ Stop(k)
       \/ up[k] = <<>> /\ Gone(k) /\ Stop(k)
    /\ up' = [up EXCEPT ![k] = IF @ = <<>> THEN @ ELSE Tail(@)]
    /\ UNCHANGED <<cl, down, env>>

\* The reader of a connection whose carrier ended before the exchange did.
ReadFails(k) ==
    /\ sv[k].phase = "auth" /\ up[k] = <<>> /\ Gone(k)
    /\ sv' = [sv EXCEPT ![k].phase = "end"]
    /\ UNCHANGED <<cl, up, down, gw, env>>

\* A client whose carrier the gateway closed.
CarrierLost(k) ==
    /\ sv[k].phase = "end" /\ down[k] = <<>> /\ ~Gone(k) /\ cl[k].phase # "new"
    /\ cl' = [cl EXCEPT ![k].phase = "failed"]
    /\ UNCHANGED <<sv, up, down, gw, env>>

\* Close stops the links of the sessions registered when it looked.
Close ==
    /\ env.closing /\ ~gw.closed
    /\ LET seen == Range(gw.sessions) \ {Nil} IN
       /\ sv' = [k \in Conns |-> IF k \in seen
                                 THEN [sv[k] EXCEPT !.phase = "end", !.stopped = TRUE, !.released = TRUE]
                                 ELSE sv[k]]
       /\ gw' = [gw EXCEPT !.closed = TRUE, !.armed = @ \ seen,
                           !.sessions = [a \in Inner |-> Nil],
                           !.pool = @ \cup {sv[k].addr : k \in seen}]
    /\ UNCHANGED <<cl, up, down, env>>

ClientStep(k) == Dial(k) \/ ClientAuth(k) \/ ClientConfig(k) \/ ProbeESP(k) \/ ClientClose(k) \/ Hangs(k)
                 \/ CarrierLost(k)
ServerStep(k) == Accept(k) \/ ServerAuth(k) \/ PushConfig(k) \/ AwaitESPResponse(k) \/ Register(k)
                 \/ ReadLoop(k) \/ ReadFails(k)

Next == (\E k \in Conns : ClientStep(k) \/ ServerStep(k)) \/ Close

Spec == Init /\ [][Next]_vars

-----------------------------------------------------------------------------
Holders(a) == {k \in Conns : sv[k].addr = a /\ ~sv[k].released}

\* RunTUN: the data path the gateway sends a client's packets down.
Downstream(k) ==
    IF gw.sessions[cl[k].addr] # k THEN "none"
    ELSE IF ~sv[k].esp THEN "tls" ELSE IF sv[k].from THEN "esp" ELSE "nowhere"

(* Every address is free or held by one connection, its route leads to its *)
(* holder, and whoever dies half-way through gives it back in the end.     *)
LeasesOwned == \A a \in Inner :
    /\ Cardinality(Holders(a)) = IF a \in gw.pool THEN 0 ELSE 1
    /\ gw.sessions[a] # Nil => gw.sessions[a] \in Holders(a)

(* Nobody gets a tunnel without the right password: an address is told and *)
(* ESP armed only for a client whose credentials the gateway accepted, and *)
(* the client takes the address the gateway leased to its connection.      *)
Agreed == \A k \in Conns :
    /\ cl[k].phase \in {"tls", "esp"} => k \in env.good /\ cl[k].cookie
    /\ cl[k].addr # Nil /\ ~sv[k].released => cl[k].addr = sv[k].addr

(* A client that stays on the IF-T/TLS data path, because it wants to or   *)
(* because ESP does not get through, receives its packets there: "staying  *)
(* on the IF-T/TLS data path" is a working outcome.                        *)
FallbackCarries == \A k \in Conns :
    cl[k].phase \in {"tls", "esp"} /\ sv[k].phase = "reading" /\ ~gw.closed
        => Downstream(k) = cl[k].phase

=============================================================================
