----------------------------- MODULE GpGateway -----------------------------
(***************************************************************************)
(* The GlobalProtect gateway and its clients (internal/gp, gp).  A login   *)
(* reserves an address and an admission slot; the client then takes one of *)
(* two data paths, ESP or the SSL tunnel.  Client k's login is session k.  *)
(* The handlers of the HTTP server and of the diverted tunnel connections  *)
(* run concurrently; each step is what one of them does under one hold of  *)
(* Server.mu.  A tunnel is <<k, i>>, a keying block the number of its SPI. *)
(***************************************************************************)
EXTENDS Naturals, FiniteSets, Functions, TLC

CONSTANTS Logins,      \* clients, one login each
          Inner,       \* the pool's addresses
          Scenarios,   \* what clients, network and gateway may do
          MaxHalfOpen, \* the gate's cap
          Nil

VARIABLES cl, ses, tun, gw, env

vars == <<cl, ses, tun, gw, env>>

Tunnels == Logins \X {1, 2}

NewSession == [in |-> FALSE, addr |-> Nil, esp |-> Nil, old |-> FALSE, link |-> Nil,
               released |-> TRUE]

Init ==
    /\ env \in Scenarios
    /\ cl = [k \in Logins |-> [phase |-> "new", esp |-> Nil, asked |-> 0, getting |-> FALSE,
                               leaving |-> 0]]
    /\ ses = [k \in Logins |-> NewSession]
    /\ tun = [t \in Tunnels |-> "none"]
    /\ gw = [pool |-> Inner, gate |-> 0, links |-> [a \in Inner |-> Nil], bySPI |-> <<>>,
             spi |-> 1, closed |-> FALSE, late |-> FALSE, evicted |-> FALSE]

Ssl(t) == [kind |-> "ssl", of |-> t]
Esp(k, n) == [kind |-> "esp", of |-> <<k, n>>]
IsSsl(l) == l # Nil /\ l.kind = "ssl"
Without(f, x) == Restrict(f, DOMAIN f \ {x})

-----------------------------------------------------------------------------
(* Giving a session's address and slot back.                               *)

Allocate == CHOOSE a \in gw.pool : \A b \in gw.pool : a <= b

Done(g) == IF g > 0 THEN g - 1 ELSE 0

\* The tunnel l, if it is one, is closed: its connection ends, its goroutine will notice.
Closed(tn, l) == IF IsSsl(l) /\ tn[l.of] = "up" THEN [tn EXCEPT ![l.of] = "ending"] ELSE tn

\* Mutant of Release: the address goes back while the route to it stays.
ReleaseKeepsRoute(k, ss, tn, g) ==
    LET s == ss[k]
    IN  IF s.released THEN [ses |-> ss, tun |-> tn, gw |-> g]
        ELSE [ses |-> [ss EXCEPT ![k].in = FALSE, ![k].link = Nil, ![k].released = TRUE],
              tun |-> Closed(tn, s.link),
              gw |-> [g EXCEPT !.bySPI = IF s.esp # Nil THEN Without(@, s.esp) ELSE @,
                               !.pool = @ \cup {s.addr}, !.gate = Done(@)]]

\* release: once per session, whichever of its ends gets there first.
Release(k, ss, tn, g) ==
    LET s == ss[k]
        own == s.link # Nil /\ g.links[s.addr] = s.link
    IN  IF s.released THEN [ses |-> ss, tun |-> tn, gw |-> g]
        ELSE [ses |-> [ss EXCEPT ![k].in = FALSE, ![k].link = Nil, ![k].released = TRUE],
              tun |-> Closed(tn, s.link),
              gw |-> [g EXCEPT !.bySPI = IF s.esp # Nil THEN Without(@, s.esp) ELSE @,
                               !.links[s.addr] = IF own THEN Nil ELSE @,
                               !.pool = @ \cup {s.addr}, !.gate = Done(@)]]

Expired == {k \in Logins : ses[k].in /\ ses[k].old /\ gw.links[ses[k].addr] = Nil}

\* expireSessionsLocked: only from handleLogin, and only after it found a free address.
ExpireSessions(S, g) ==
    [g EXCEPT !.pool = @ \cup {ses[k].addr : k \in S},
              !.gate = IF Cardinality(S) > @ THEN 0 ELSE @ - Cardinality(S),
              !.bySPI = Restrict(@, DOMAIN @ \ {ses[k].esp : k \in S})]

-----------------------------------------------------------------------------
(* The HTTP handlers.                                                      *)

HandleLogin(k) ==
    /\ cl[k].phase = "new" /\ ~gw.closed
    /\ \/ /\ (k \notin env.good \/ gw.gate >= MaxHalfOpen \/ gw.pool = {})
          /\ cl' = [cl EXCEPT ![k].phase = "failed"] /\ UNCHANGED <<ses, gw>>
       \/ /\ k \in env.good /\ gw.gate < MaxHalfOpen /\ gw.pool # {}
          /\ LET a == Allocate
                 S == Expired
             IN /\ gw' = ExpireSessions(S, [gw EXCEPT !.pool = @ \ {a}, !.gate = @ + 1])
                /\ ses' = [j \in Logins |->
                            IF j = k THEN [NewSession EXCEPT !.in = TRUE, !.addr = a,
                                                             !.released = FALSE]
                            ELSE IF j \in S THEN [ses[j] EXCEPT !.in = FALSE, !.released = TRUE]
                            ELSE ses[j]]
          /\ \E p \in {"authed", "failed"} :  \* the answer may not reach the client
                /\ (p = "failed" => k \in env.flaky)
                /\ cl' = [cl EXCEPT ![k].phase = p]
    /\ UNCHANGED <<tun, env>>

\* handleGetConfig looks the session up and lets the lock go before offerESP takes it.
GetConfig(k) ==
    /\ cl[k].phase \in {"authed", "esp", "ssl"} /\ ~cl[k].getting /\ cl[k].asked < env.configs
    /\ ~gw.closed
    /\ cl' = [cl EXCEPT ![k].asked = @ + 1, ![k].getting = ses[k].in,
                        ![k].phase = IF ~ses[k].in /\ @ = "authed" THEN "failed" ELSE @]
    /\ ses' = [ses EXCEPT ![k].old = @ /\ ~ses[k].in]
    /\ UNCHANGED <<tun, gw, env>>

Configured(k, esp) ==
    cl' = [cl EXCEPT ![k].getting = FALSE, ![k].esp = esp,
                     ![k].phase = IF @ = "authed" THEN "configured" ELSE @]

OfferESP(k) ==
    /\ cl[k].getting
    /\ \/ ~env.esp /\ Configured(k, Nil) /\ UNCHANGED <<ses, gw>>
       \/ /\ env.esp /\ Configured(k, gw.spi)
          /\ LET s == ses[k]
                 peer == Esp(k, gw.spi)
             IN /\ ses' = [ses EXCEPT ![k].esp = gw.spi, ![k].link = IF IsSsl(@) THEN @ ELSE peer]
                /\ gw' = [gw EXCEPT !.spi = @ + 1,
                                    !.bySPI = (gw.spi :> k) @@ (IF s.esp # Nil THEN Without(@, s.esp) ELSE @),
                                    !.links[s.addr] = IF IsSsl(s.link) THEN @ ELSE peer,
                                    !.late = @ \/ s.released]
    /\ UNCHANGED <<tun, env>>

\* handleLogout: the look-up, then teardown, then release, each under its own lock.
LogoutLookup(k) ==
    /\ cl[k].phase \in {"esp", "ssl", "failed"} /\ cl[k].leaving = 0 /\ k \in env.leaving
    /\ ~gw.closed /\ ses[k].in
    /\ cl' = [cl EXCEPT ![k].leaving = 1, ![k].phase = "closed"]
    /\ tun' = [t \in Tunnels |-> IF t[1] = k /\ tun[t] = "up" THEN "ending" ELSE tun[t]]
    /\ UNCHANGED <<ses, gw, env>>

Teardown(k) ==
    /\ cl[k].leaving = 1 /\ cl' = [cl EXCEPT ![k].leaving = 2]
    /\ LET l == gw.links[ses[k].addr] IN
       /\ tun' = Closed(tun, l)
       /\ gw' = [gw EXCEPT !.links[ses[k].addr] = Nil,
                           !.bySPI = IF ses[k].esp # Nil THEN Without(@, ses[k].esp) ELSE @,
                           !.evicted = @ \/ (l # Nil /\ l.of[1] # k)]
       /\ ses' = [ses EXCEPT ![k].esp = Nil]
    /\ UNCHANGED env

LogoutRelease(k) ==
    /\ cl[k].leaving = 2 /\ cl' = [cl EXCEPT ![k].leaving = 3]
    /\ LET r == Release(k, ses, tun, gw) IN ses' = r.ses /\ tun' = r.tun /\ gw' = r.gw
    /\ UNCHANGED env

-----------------------------------------------------------------------------
(* The ESP path: activation, or the fall back to the SSL tunnel.           *)

ActivateESP(k) ==
    /\ cl[k].phase = "configured" /\ cl[k].esp # Nil
    /\ cl[k].esp \in DOMAIN gw.bySPI /\ ~gw.closed /\ k \notin env.udpless
    /\ cl' = [cl EXCEPT ![k].phase = "esp"]
    /\ UNCHANGED <<ses, tun, gw, env>>

FallBack(k) ==
    /\ cl[k].phase = "configured"
    /\ cl[k].esp # Nil => k \in env.udpless \/ cl[k].esp \notin DOMAIN gw.bySPI \/ gw.closed
    /\ cl' = [cl EXCEPT ![k].phase = "dialing"]
    /\ UNCHANGED <<ses, tun, gw, env>>

-----------------------------------------------------------------------------
(* The SSL tunnel: serveTunnel and runSSLLink, one goroutine per tunnel.   *)

ServeTunnel(t) ==
    LET k == t[1] IN
    /\ tun[t] = "none" /\ ~gw.closed
    /\ \/ cl[k].phase = "dialing" /\ t[2] = 1
       \/ cl[k].phase = "ssl" /\ t[2] = 2 /\ k \in env.again
    /\ tun' = [tun EXCEPT ![t] = IF ses[k].in THEN "start" ELSE "refused"]
    /\ cl' = [cl EXCEPT ![k].phase = IF ses[k].in THEN "ssl" ELSE "failed"]
    /\ UNCHANGED <<ses, gw, env>>

RunSSLLink(t) ==
    LET k == t[1]
        s == ses[k] IN
    /\ tun[t] = "start"
    /\ \/ ~s.in /\ tun' = [tun EXCEPT ![t] = "refused"] /\ UNCHANGED <<ses, gw>>
       \/ /\ s.in /\ tun' = Closed([tun EXCEPT ![t] = "up"], s.link)
          /\ ses' = [ses EXCEPT ![k].esp = Nil, ![k].link = Ssl(t)]
          /\ gw' = [gw EXCEPT !.links[s.addr] = Ssl(t),
                              !.bySPI = IF s.esp # Nil THEN Without(@, s.esp) ELSE @]
    /\ UNCHANGED <<cl, env>>

LinkFails(t) ==
    /\ tun[t] = "up" /\ (t[1] \in env.flaky \/ gw.closed)
    /\ tun' = [tun EXCEPT ![t] = "ending"]
    /\ cl' = [cl EXCEPT ![t[1]].phase = IF @ = "ssl" /\ ses[t[1]].link = Ssl(t) THEN "failed" ELSE @]
    /\ UNCHANGED <<ses, gw, env>>

\* Wait returned: the tunnel gives up the route and, if it still is the session's, the session.
LinkEnds(t) ==
    LET k == t[1]
        owner == ses[k].link = Ssl(t) IN
    /\ tun[t] = "ending" /\ tun' = [tun EXCEPT ![t] = IF owner THEN "releasing" ELSE "gone"]
    /\ gw' = [gw EXCEPT !.links[ses[k].addr] = IF @ = Ssl(t) THEN Nil ELSE @]
    /\ ses' = [ses EXCEPT ![k].link = IF owner THEN Nil ELSE @]
    /\ UNCHANGED <<cl, env>>

LinkReleases(t) ==
    /\ tun[t] = "releasing"
    /\ LET r == Release(t[1], ses, [tun EXCEPT ![t] = "gone"], gw)
       IN  ses' = r.ses /\ tun' = r.tun /\ gw' = r.gw
    /\ UNCHANGED <<cl, env>>

-----------------------------------------------------------------------------
(* A client that goes away without a word, the clock, and Close.           *)

Vanish(k) ==
    /\ cl[k].phase \in {"authed", "configured", "esp"} /\ k \in env.flaky
    /\ cl' = [cl EXCEPT ![k].phase = "gone"]
    /\ UNCHANGED <<ses, tun, gw, env>>

SessionTTL ==
    /\ env.ages > 0 /\ env' = [env EXCEPT !.ages = @ - 1]
    /\ ses' = [k \in Logins |-> [ses[k] EXCEPT !.old = ses[k].in]]
    /\ UNCHANGED <<cl, tun, gw>>

Close ==
    /\ env.closing /\ ~gw.closed
    /\ gw' = [gw EXCEPT !.closed = TRUE]
    /\ tun' = [t \in Tunnels |->
                IF tun[t] = "up" /\ Ssl(t) \in Range(gw.links) THEN "ending" ELSE tun[t]]
    /\ UNCHANGED <<cl, ses, env>>

LoginStep(k) == HandleLogin(k) \/ GetConfig(k) \/ OfferESP(k) \/ LogoutLookup(k) \/ Teardown(k)
                \/ LogoutRelease(k) \/ ActivateESP(k) \/ FallBack(k) \/ Vanish(k)
TunnelStep(t) == ServeTunnel(t) \/ RunSSLLink(t) \/ LinkFails(t) \/ LinkEnds(t) \/ LinkReleases(t)

Next ==
    \/ \E k \in Logins : LoginStep(k)
    \/ \E t \in Tunnels : TunnelStep(t)
    \/ SessionTTL \/ Close

Spec == Init /\ [][Next]_vars

-----------------------------------------------------------------------------
Held == {k \in Logins : ~ses[k].released}

(* Every address is free or reserved by exactly one login, and the gate    *)
(* holds one slot for each: however a login, its two data paths, a logout  *)
(* and the expiry sweep interleave, release runs exactly once per login.   *)
LeasesOwned ==
    /\ \A a \in Inner : Cardinality({k \in Held : ses[k].addr = a}) = IF a \in gw.pool THEN 0 ELSE 1
    /\ gw.gate = Cardinality(Held)

(* "Nothing may route the address once it is back in the pool": a route    *)
(* leads to a data path of the login that holds the address, unless        *)
(* offerESP ran for a session released after handleGetConfig looked it up. *)
RoutedOwned == ~gw.late =>
    \A a \in Inner : LET l == gw.links[a]
                     IN  l # Nil => ~ses[l.of[1]].released /\ ses[l.of[1]].addr = a

(* The two data paths exclude each other: a session whose packets go to an *)
(* SSL tunnel accepts no ESP, unless the client itself asked for new keys. *)
OnePath == env.configs = 1 =>
    \A k \in Logins : IsSsl(ses[k].link) => \A n \in DOMAIN gw.bySPI : gw.bySPI[n] # k

(* The same statement for every interleaving of getconfig, and that a      *)
(* logout ends no other login's data path.                                 *)
AlwaysRoutedOwned ==
    \A a \in Inner : LET l == gw.links[a]
                     IN  l # Nil => ~ses[l.of[1]].released /\ ses[l.of[1]].addr = a
NoneEvicted == ~gw.evicted

=============================================================================
