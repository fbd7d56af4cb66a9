---- MODULE Fortinet ----
\* The FortiOS SSL VPN (internal/fortinet, and fortinet's Dial): the login with its
\* second factor, the cookie that holds a lease until the tunnel takes it over, the PPP
\* link over TLS, and the DTLS carrier that attaches to it or stands in for it.
\*
\* A handler runs in its own goroutine and is cut where it gives up the server's lock.
\* A cookie and a challenge's reqid are named after the login they were minted for, a
\* one-time code is the time step it was computed for. PPP itself is module Ppp.
EXTENDS Integers, FiniteSets

CONSTANTS
    Logins,      \* logins in progress or done, each with a cookie of its own
    Inner,       \* the addresses of the pool
    Scenarios,   \* see Init
    MaxOpen,     \* the admission gate's half-open cap
    Skew,        \* otp.Config.skew
    Nil

VARIABLES
    cl,     \* the client of each login
    sv,     \* the server's goroutines of each login
    lk,     \* the links of each login, by the carrier that started them
    srv,    \* the server
    env     \* the clock and what the scenario still allows

vars == <<cl, sv, lk, srv, env>>

\* AddrPool.Allocate: the lowest address of the pool not in use.
Allocate(used) == CHOOSE a \in Inner \ used : \A b \in Inner \ used : a <= b
\* The connections a login may open with its cookie: the tunnel request, a second one (a
\* retry that overlaps the first), and the DTLS session.
Requests == {"tls", "tls2"}
Carriers == Requests \cup {"udp"}

NewClient == [phase |-> "idle", addr |-> Nil, offered |-> FALSE, alt |-> "none"]
NewHandlers == [http |-> "none", code |-> Nil, addr |-> Nil, proved |-> FALSE,
                tunnel |-> [c \in Requests |-> "none"], dtls |-> "none", target |-> Nil]
NewLink == [st |-> "none", alt |-> FALSE]

Move(l, phase) == [cl EXCEPT ![l].phase = phase]
ClosedClient(c) == [c EXCEPT !.phase = "closed", !.alt = IF @ = "none" THEN @ ELSE "closed"]
Refused(l) == cl' = [cl EXCEPT ![l] = ClosedClient(@)]
Http(l, at) == sv' = [sv EXCEPT ![l].http = at]


\* The login, on the client and on the server.

Login(l) ==
    /\ cl[l].phase = "idle" /\ cl' = Move(l, "password") /\ Http(l, "login")
    /\ UNCHANGED <<lk, srv, env>>

\* VerifyCounter: the code of the current step, or of one that Skew allows for.
VerifyCounter(code) == code \in (env.now - Skew) .. (env.now + Skew)

\* The gate counts a reservation until Done, which never goes below nothing.
Admitted == srv.open < MaxOpen
Done(s) == [s EXCEPT !.open = IF @ > 0 THEN @ - 1 ELSE 0]

\* grantSession: a place at the gate, an address, a cookie that holds both.
GrantSession(l, s) ==
    LET a == Allocate(s.leases)
    IN IF ~Admitted \/ Inner \subseteq s.leases
       THEN srv' = s /\ Refused(l) /\ Http(l, "none")
       ELSE /\ srv' = [s EXCEPT !.open = @ + 1, !.leases = @ \cup {a}, !.pending = @ \cup {l}]
            /\ sv' = [sv EXCEPT ![l].http = "none", ![l].addr = a, ![l].proved = TRUE]
            /\ cl' = Move(l, "config")

\* issueChallenge: a right password is not a session for a user with a second factor.
IssueChallenge(l) ==
    /\ srv' = [srv EXCEPT !.pending2FA = @ \cup {l}]
    /\ cl' = Move(l, "challenge") /\ Http(l, "none")
HandleLogin(l) ==
    /\ sv[l].http = "login"
    /\ IF l \notin env.good THEN Refused(l) /\ Http(l, "none") /\ UNCHANGED srv
       ELSE IF l \in env.factor THEN IssueChallenge(l)
       ELSE GrantSession(l, srv)
    /\ UNCHANGED <<lk, env>>

\* answerChallenge, once.
AnswerChallenge(l) ==
    /\ cl[l].phase = "challenge" /\ cl' = Move(l, "answered")
    /\ sv' = [sv EXCEPT ![l].http = "challenge", ![l].code = env.now]
    /\ UNCHANGED <<lk, srv, env>>
\* handleChallenge up to the first unlock: a challenge is spent whatever comes of it.
HandleChallenge(l) ==
    /\ sv[l].http = "challenge"
    /\ srv' = [srv EXCEPT !.pending2FA = @ \ {l}]
    /\ IF l \in srv.pending2FA THEN Http(l, "verify") /\ UNCHANGED cl
       ELSE Http(l, "none") /\ Refused(l)
    /\ UNCHANGED <<lk, env>>
ExpireChallenges ==
    /\ srv.pending2FA # {} /\ env.expiries > 0 /\ env' = [env EXCEPT !.expiries = @ - 1]
    /\ srv' = [srv EXCEPT !.pending2FA = {}] /\ UNCHANGED <<cl, sv, lk>>
\* Mutant of CodeFresh: a code of the very step that was accepted last is taken again.
CodeFreshOrSame(last, code) == code >= last
\* The step a code matched is compared and recorded under one lock.
CodeFresh(last, code) == code > last
VerifyCode(l) ==
    /\ sv[l].http = "verify"
    /\ IF VerifyCounter(sv[l].code) /\ CodeFresh(srv.lastTOTP[env.user[l]], sv[l].code)
       THEN GrantSession(l, [srv EXCEPT !.lastTOTP[env.user[l]] = sv[l].code,
                                        !.accepted = @ \cup {<<l, env.user[l], sv[l].code>>}])
       ELSE Refused(l) /\ Http(l, "none") /\ UNCHANGED srv
    /\ UNCHANGED <<lk, env>>
Tick ==
    /\ env.now < env.until /\ env' = [env EXCEPT !.now = @ + 1] /\ UNCHANGED <<cl, sv, lk, srv>>

\* handleConfig: only a cookie that still holds a lease has a configuration.
CookieAddr(l) == l \in srv.pending
HandleConfig(l) ==
    /\ cl[l].phase = "config"
    /\ IF CookieAddr(l)
       THEN cl' = [cl EXCEPT ![l].phase = "tunnel", ![l].addr = sv[l].addr, ![l].offered = ~srv.closed]
       ELSE Refused(l)
    /\ UNCHANGED <<sv, lk, srv, env>>


\* The tunnel.

\* dialTLSPath sends the request, RunClient starts PPP on what the server hijacked. A
\* login of env.twice sends it again before the first is answered.
At(l, c, where) == sv' = [sv EXCEPT ![l].tunnel[c] = where]
TunnelRequest(l, c) ==
    /\ sv[l].tunnel[c] = "none" /\ l \notin env.straight
    /\ cl[l].phase = IF c = "tls" THEN "tunnel" ELSE "negotiating"
    /\ c = "tls2" => l \in env.twice
    /\ cl' = Move(l, "negotiating") /\ At(l, c, "request")
    /\ UNCHANGED <<lk, srv, env>>
\* handleTunnel: the cookie is looked up, the connection hijacked, and only then, under
\* the lock again, the cookie is taken out, whether or not it is still there.
HandleTunnel(l, c) ==
    /\ sv[l].tunnel[c] = "request"
    /\ IF CookieAddr(l) THEN At(l, c, "hijacked") /\ UNCHANGED cl
       ELSE At(l, c, "done") /\ (IF c = "tls" THEN Refused(l) ELSE UNCHANGED cl)
    /\ UNCHANGED <<lk, srv, env>>
\* Mutant of TakeOver: the place at the gate is kept for as long as the link lives.
TakeOverKeepsPlace(l, c) ==
    /\ sv[l].tunnel[c] = "hijacked"
    /\ srv' = [srv EXCEPT !.pending = @ \ {l}] /\ At(l, c, "linking")
    /\ UNCHANGED <<cl, lk, env>>
TakeOver(l, c) ==
    /\ sv[l].tunnel[c] = "hijacked"
    /\ srv' = Done([srv EXCEPT !.pending = @ \ {l},
                               !.twice = IF l \in srv.pending THEN @ ELSE @ \cup {l}])
    /\ At(l, c, "linking")
    /\ UNCHANGED <<cl, lk, env>>

\* runServerLink, up to the wait and after it.
Register(s, l, c) == [s EXCEPT !.links[sv[l].addr] = <<l, c>>, !.byCookie[l] = c]
RunServerLink(l, c) ==
    /\ sv[l].tunnel[c] = "linking" /\ At(l, c, "done")
    /\ srv' = Register(srv, l, c) /\ lk' = [lk EXCEPT ![l][c].st = "live"]
    /\ UNCHANGED <<cl, env>>
\* Mutant of Unregister: a link that ends leaves its route in place.
UnregisterKeepsRoute(s, l, c) == [s EXCEPT !.byCookie[l] = IF @ = c THEN Nil ELSE @, !.leases = @ \ {sv[l].addr}]
Unregister(s, l, c) ==
    [s EXCEPT !.links[sv[l].addr] = IF @ = <<l, c>> THEN Nil ELSE @,
              !.byCookie[l] = IF @ = c THEN Nil ELSE @,
              !.leases = @ \ {sv[l].addr}]
LinkEnds(l, c) ==
    /\ lk[l][c].st = "stopped" /\ lk' = [lk EXCEPT ![l][c].st = "gone"]
    /\ srv' = Unregister(srv, l, c) /\ UNCHANGED <<cl, sv, env>>

\* stop: once; the attached carrier and the connection are closed.
Stop(k) == IF k.st = "live" THEN [st |-> "stopped", alt |-> FALSE] ELSE k
\* A read or a write of the link's own carrier fails: the client left, or the path did.
LinkFails(l, c) ==
    /\ lk[l][c].st = "live"
    /\ \/ cl[l].phase = "closed" /\ UNCHANGED <<cl, env>>
       \/ /\ env.breaks > 0 /\ env' = [env EXCEPT !.breaks = @ - 1]
          /\ IF \E d \in Carriers \ {c} : lk[l][d].st = "live" THEN UNCHANGED cl ELSE Refused(l)
    /\ lk' = [lk EXCEPT ![l][c] = Stop(@)] /\ UNCHANGED <<sv, srv>>

\* RunClient: IPCP is up on a link that lives, or the client gives up.
NetworkUp(l) ==
    /\ cl[l].phase = "negotiating" /\ \E c \in Carriers : lk[l][c].st = "live"
    /\ cl' = Move(l, "up") /\ UNCHANGED <<sv, lk, srv, env>>
\* Dial gives up at any point before: the server has only the connection to learn it from.
GiveUp(l) ==
    /\ cl[l].phase \in {"config", "tunnel", "negotiating"} /\ env.quits > 0
    /\ env' = [env EXCEPT !.quits = @ - 1]
    /\ Refused(l) /\ UNCHANGED <<sv, lk, srv>>
Close(l) ==
    /\ cl[l].phase = "up" /\ l \in env.leaving
    /\ Refused(l) /\ UNCHANGED <<sv, lk, srv, env>>


\* The DTLS carrier.

\* dialDataPath: after the TLS tunnel, if it was offered. Another client may not wait for
\* the tunnel (env.eager), or go straight to UDP and never ask for one (env.straight).
DialDTLS(l) ==
    /\ l \in env.dtls /\ cl[l].offered /\ cl[l].alt = "none"
    /\ \/ cl[l].phase = "up"
       \/ l \in env.eager /\ cl[l].phase = "negotiating"
       \/ l \in env.straight /\ cl[l].phase = "tunnel"
    /\ cl' = [cl EXCEPT ![l].alt = "dialling", ![l].phase = IF @ = "tunnel" THEN "negotiating" ELSE @]
    /\ sv' = [sv EXCEPT ![l].dtls = IF srv.closed THEN "none" ELSE "hello"]
    /\ UNCHANGED <<lk, srv, env>>
\* dtlsAuthorize under the lock: the cookie names a link, or a lease nobody took over.
DtlsAuthorize(l) ==
    /\ sv[l].dtls = "hello"
    /\ IF srv.byCookie[l] # Nil
       THEN sv' = [sv EXCEPT ![l].dtls = "attach", ![l].target = srv.byCookie[l]] /\ UNCHANGED srv
       ELSE IF l \in srv.pending
       THEN sv' = [sv EXCEPT ![l].dtls = "own"] /\ srv' = [srv EXCEPT !.pending = @ \ {l}]
       ELSE sv' = [sv EXCEPT ![l].dtls = "refused"] /\ UNCHANGED srv
    /\ UNCHANGED <<cl, lk, env>>
\* attachDTLS: the new carrier supersedes the one before it.
AttachDTLS(l, c) == lk' = [lk EXCEPT ![l][c].alt = TRUE]
DtlsServed(l) ==
    /\ sv[l].dtls \in {"attach", "own"}
    /\ \/ /\ sv[l].dtls = "attach" /\ AttachDTLS(l, sv[l].target)
          /\ sv' = [sv EXCEPT ![l].dtls = "up"] /\ UNCHANGED srv
       \/ /\ sv[l].dtls = "own" /\ srv' = Done(Register(srv, l, "udp"))
          /\ lk' = [lk EXCEPT ![l]["udp"].st = "live"] /\ sv' = [sv EXCEPT ![l].dtls = "up"]
       \* the answer cannot be written
       \/ /\ cl[l].phase = "closed" /\ sv' = [sv EXCEPT ![l].dtls = "refused"] /\ UNCHANGED lk
          /\ srv' = IF sv[l].dtls = "own" THEN Done([srv EXCEPT !.leases = @ \ {sv[l].addr}]) ELSE srv
    /\ UNCHANGED <<cl, env>>
\* gfExchange: the client has its answer, or stays on TLS where it has it.
GfExchange(l) ==
    /\ cl[l].alt = "dialling"
    /\ \/ sv[l].dtls = "up" /\ cl' = [cl EXCEPT ![l].alt = "up"]
       \/ IF l \in env.straight THEN Refused(l) ELSE cl' = [cl EXCEPT ![l].alt = "closed"]
    /\ UNCHANGED <<sv, lk, srv, env>>
\* readAlt fails on the server, or a write does: the carrier is detached, the link stays.
DetachDTLS(l, c) ==
    /\ lk[l][c].alt /\ (cl[l].alt = "closed" \/ srv.closed)
    /\ lk' = [lk EXCEPT ![l][c].alt = FALSE] /\ UNCHANGED <<cl, sv, srv, env>>
ClientDetach(l) ==
    /\ cl[l].alt = "up" /\ l \notin env.straight /\ env.losses > 0 /\ env' = [env EXCEPT !.losses = @ - 1]
    /\ cl' = [cl EXCEPT ![l].alt = "closed"] /\ UNCHANGED <<sv, lk, srv>>

\* Close: the links registered at that moment are stopped.
ServerClose ==
    /\ env.closing /\ ~srv.closed /\ srv' = [srv EXCEPT !.closed = TRUE]
    /\ lk' = [l \in Logins |-> [c \in Carriers |->
                IF \E a \in Inner : srv.links[a] = <<l, c>> THEN Stop(lk[l][c]) ELSE lk[l][c]]]
    /\ cl' = [l \in Logins |->
                IF lk'[l] # lk[l] /\ \A c \in Carriers : lk'[l][c].st # "live" THEN ClosedClient(cl[l]) ELSE cl[l]]
    /\ UNCHANGED <<sv, env>>

Init ==
    /\ env \in Scenarios
    /\ cl = [l \in Logins |-> NewClient] /\ sv = [l \in Logins |-> NewHandlers]
    /\ lk = [l \in Logins |-> [c \in Carriers |-> NewLink]]
    /\ srv = [pending |-> {}, pending2FA |-> {}, lastTOTP |-> [u \in {env.user[l] : l \in Logins} |-> -1],
              accepted |-> {}, links |-> [a \in Inner |-> Nil], byCookie |-> [l \in Logins |-> Nil],
              leases |-> {}, open |-> 0, closed |-> FALSE, twice |-> {}]

Next ==
    \/ \E l \in Logins :
          \/ Login(l) \/ HandleLogin(l) \/ AnswerChallenge(l) \/ HandleChallenge(l) \/ VerifyCode(l)
          \/ HandleConfig(l)
          \/ \E c \in Requests : TunnelRequest(l, c) \/ HandleTunnel(l, c) \/ TakeOver(l, c) \/ RunServerLink(l, c)
          \/ NetworkUp(l) \/ GiveUp(l) \/ Close(l)
          \/ DialDTLS(l) \/ DtlsAuthorize(l) \/ DtlsServed(l) \/ GfExchange(l) \/ ClientDetach(l)
          \/ \E c \in Carriers : LinkEnds(l, c) \/ LinkFails(l, c) \/ DetachDTLS(l, c)
    \/ ExpireChallenges \/ Tick \/ ServerClose

Spec == Init /\ [][Next]_vars

\* Who holds a lease: a cookie nobody redeemed, a goroutine on the way from the cookie
\* to the link, or a link that has not ended.
Running(l, c) == lk[l][c].st \in {"live", "stopped"}
Held(l, c) == Running(l, c) \/ (IF c = "udp" THEN sv[l].dtls = "own" ELSE sv[l].tunnel[c] = "linking")
Holders(a) ==
    {<<l, c>> \in Logins \X (Carriers \cup {"cookie"}) :
        sv[l].addr = a /\ IF c = "cookie" THEN l \in srv.pending ELSE Held(l, c)}

\* An address on lease has exactly one holder and an address not on lease has none, unless
\* one of its cookies was redeemed twice: handleTunnel looks the cookie up and takes it out
\* under two locks, and a second request or a DTLS session in between makes two links of
\* one lease. Even then the TUN routes an address to a link that runs.
LeaseHasOneHolder ==
    \A a \in Inner :
       /\ (\A l \in srv.twice : sv[l].addr # a)
             => Cardinality(Holders(a)) = IF a \in srv.leases THEN 1 ELSE 0
       /\ srv.links[a] # Nil => Running(srv.links[a][1], srv.links[a][2])

\* Every place at the gate is held by a login between its admission and its tunnel and
\* given back once; a cookie redeemed twice gives its place back twice, so that the gate
\* then counts too few. In no case does it count a place that nobody holds.
GateBalanced ==
    LET held == Cardinality(srv.pending) + Cardinality({l \in Logins : sv[l].dtls = "own"})
    IN srv.open <= held /\ (srv.twice = {} => srv.open = held)

\* A session was granted for the right password and, where one is required, a second
\* factor; no code is good for two logins.
CodeOnce ==
    /\ \A l \in Logins : sv[l].proved =>
          l \in env.good /\ (l \in env.factor => \E x \in srv.accepted : x[1] = l)
    /\ \A x, y \in srv.accepted : x[2] = y[2] /\ x[3] = y[3] => x = y

\* A link that has stopped has no carrier that reads for it: what the code does not do.
CarrierOwned == \A l \in Logins, c \in Carriers : lk[l][c].alt => lk[l][c].st = "live"
====
