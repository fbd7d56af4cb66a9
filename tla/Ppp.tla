---- MODULE Ppp ----
\* A PPP link (internal/ppp): the client Session and the ServerSession that opens
\* LCP, authenticates with MS-CHAPv2 unless the carrier already did, and assigns
\* the address over IPCP, with the Restart timer that covers an outstanding
\* Configure-Request. The carrier is a stream (SSTP, Fortinet) or datagrams that
\* are lost and overtake one another (L2TP).
\*
\* A frame is [proto, code, id, body]. The body of an LCP request is the set of its
\* options, that of an IPCP request a function from its options to values. Hashes
\* are symbolic.
EXTENDS Integers, Sequences, SequencesExt

CONSTANTS
    Scenarios,    \* [carrier, noAuth, password : the client's is right, dns : servers assigned,
                  \*  foreign : the peer is another implementation, fails : the
                  \*  carrier may close, losses, fires, probes : how many there are]
    MaxConfigure, \* maxConfigure
    MaxAuthNaks   \* maxAuthNaks

VARIABLES
    cl,     \* the client's Session
    sv,     \* the ServerSession
    up,     \* frames on their way to the server
    down,   \* frames on their way to the client
    env     \* the scenario, with the losses, expiries and probes still to come

vars == <<cl, sv, up, down, env>>

Frame(proto, code, id, body) == [proto |-> proto, code |-> code, id |-> id, body |-> body]
Timer == [on |-> FALSE, tries |-> 0]

\* MS-CHAPv2 (chap.go). A password is "good" or "bad"; the server holds "good".
Challenge(n) == <<"challenge", n>>
BuildResponse(challenge, password) == <<"nt", challenge, password>>
BuildSuccess(challenge, response) == <<"S", challenge, response, "good">>
VerifyResponse(challenge, response) == response = <<"nt", challenge, "good">>
VerifySuccess(s, body) == body = <<"S", s.challenge, s.response, s.password>>


\* What the two sessions do alike.

NextID(s) == [s EXCEPT !.reqID = (@ + 1) % 256]
Stop(s, t) == [s EXCEPT ![t] = Timer]
Alive(s, t) == [s EXCEPT ![t].tries = 0]
Arm(s, t) == [s EXCEPT ![t].on = TRUE]

\* A probe waiting for an echo is released with the link.
FailLocked(s) ==
    IF s.phase = "closed" THEN s
    ELSE [s EXCEPT !.phase = "closed", !.lcp = Timer, !.ipcp = Timer, !.echo = 0, !.closed = @ + 1]

\* A carrier that refuses the frame fails the session; the handler goes on.
Send(s, proto, code, id, body) ==
    IF env.carrier = "down" THEN FailLocked(s)
    ELSE [s EXCEPT !.out = Append(@, Frame(proto, code, id, body))]

ResendLCP(s) == Arm(Send(s, "LCP", "request", s.lcpReqID, s.lcpReq), "lcp")
ResendIPCP(s) == Arm(Send(s, "IPCP", "request", s.ipcpReqID, s.ipcpReq), "ipcp")
RequestLCP(s, opts) ==
    LET n == NextID(s) IN ResendLCP([n EXCEPT !.lcpReqID = n.reqID, !.lcpReq = opts])
RequestIPCP(s, opts) ==
    LET n == NextID(s) IN ResendIPCP([n EXCEPT !.ipcpReqID = n.reqID, !.ipcpReq = opts])

\* The Restart timer fires. A stop that raced it has cleared the timer.
Fired(s, t) ==
    IF s.phase = "closed" \/ ~s[t].on THEN s
    ELSE LET n == [s EXCEPT ![t].tries = @ + 1]
         IN IF n[t].tries >= MaxConfigure THEN FailLocked(Stop(n, t))
            ELSE IF t = "lcp" THEN ResendLCP(n) ELSE ResendIPCP(n)

New(server) ==
    [server |-> server, phase |-> "lcp", reqID |-> 0, lcp |-> Timer, ipcp |-> Timer,
     lcpReqID |-> 0, lcpReq |-> {}, lcpLocal |-> FALSE, lcpRemote |-> FALSE, naks |-> 0,
     useMRU |-> TRUE, useMagic |-> TRUE, auth |-> FALSE,
     challenge |-> <<>>, response |-> <<>>, password |-> "good", authenticated |-> FALSE,
     ipcpReqID |-> 0, ipcpReq |-> <<>>, ipcpLocal |-> FALSE, ipcpRemote |-> FALSE,
     want |-> <<>>, peerIP |-> "none", echo |-> 0, got |-> <<>>, closed |-> 0, out |-> <<>>]


\* The client (session.go).

SendLCPConfigReq(s) ==
    RequestLCP(s, {o \in {"mru", "magic"} : IF o = "mru" THEN s.useMRU ELSE s.useMagic})

Zero == [o \in {"ip", "dns1", "dns2"} |-> "zero"]
SendIPCPConfigReq(s) == RequestIPCP(s, s.want)
StartIPCP(s) == SendIPCPConfigReq([s EXCEPT !.want = Zero])

MaybeLCPUp(s) ==
    IF s.phase # "lcp" \/ ~s.lcpLocal \/ ~s.lcpRemote THEN s
    ELSE IF s.auth THEN [s EXCEPT !.phase = "auth"]
    ELSE StartIPCP([s EXCEPT !.phase = "ipcp"])

\* The addresses it reports leave out a DNS server nobody assigned.
Config(s) == [ip |-> s.want.ip, gateway |-> s.peerIP,
              dns |-> {o \in {"dns1", "dns2"} \cap DOMAIN s.want : s.want[o] # "zero"}]

\* Mutant of MaybeIPCPUp: up already or not.
UpAgain(s) ==
    IF ~s.ipcpLocal \/ ~s.ipcpRemote THEN s
    ELSE [s EXCEPT !.phase = "up", !.got = Append(@, Config(s))]
\* Going up once, when both directions are agreed.
MaybeIPCPUp(s) ==
    IF s.phase # "ipcp" \/ ~s.ipcpLocal \/ ~s.ipcpRemote THEN s
    ELSE [s EXCEPT !.phase = "up", !.got = Append(@, Config(s))]

ApplyLCPReject(s, opts) ==
    [s EXCEPT !.useMRU = @ /\ "mru" \notin opts, !.useMagic = @ /\ "magic" \notin opts]

HasAuthProto(opts) == "mschap" \in opts
HandleLCPConfigReq(s, f) ==
    IF "unknown" \in f.body THEN Send(s, "LCP", "reject", f.id, {"unknown"})
    ELSE IF "pap" \in f.body
         THEN LET n == [s EXCEPT !.naks = @ + 1]
              IN IF n.naks > MaxAuthNaks THEN FailLocked(n)
                 ELSE Send(n, "LCP", "nak", f.id, {"mschap"})
    ELSE MaybeLCPUp([Send([s EXCEPT !.auth = HasAuthProto(f.body)], "LCP", "ack", f.id, f.body)
                        EXCEPT !.lcpRemote = TRUE])

HandleLCP(s0, f) ==
    LET s == Alive(s0, "lcp")
        mine == f.id = s.lcpReqID
    IN CASE f.code = "request" -> HandleLCPConfigReq(s, f)
         [] f.code = "ack" /\ mine -> MaybeLCPUp([Stop(s, "lcp") EXCEPT !.lcpLocal = TRUE])
         [] f.code = "nak" /\ mine -> SendLCPConfigReq(s)
         [] f.code = "reject" /\ mine -> SendLCPConfigReq(ApplyLCPReject(s, f.body))
         [] f.code = "terminate" -> FailLocked(Send(s, "LCP", "terminated", f.id, {}))
         [] f.code = "echo" -> Send(s, "LCP", "echoed", f.id, {})
         [] f.code = "echoed" /\ s.echo = f.id -> [s EXCEPT !.echo = 0]
         [] OTHER -> s

HandleCHAP(s, f) ==
    CASE f.code = "challenge" ->
           LET n == [s EXCEPT !.challenge = f.body, !.response = BuildResponse(f.body, s.password)]
           IN Send(n, "CHAP", "response", f.id, n.response)
      [] f.code = "success" ->
           IF ~VerifySuccess(s, f.body) THEN FailLocked(s)
           ELSE StartIPCP([s EXCEPT !.authenticated = TRUE, !.phase = "ipcp"])
      [] f.code = "failure" -> FailLocked(s)
      [] OTHER -> s

AdoptIPCPValues(s, opts) ==
    [s EXCEPT !.want = [o \in DOMAIN @ \cup DOMAIN opts |-> IF o \in DOMAIN opts THEN opts[o] ELSE @[o]]]
DropRejectedIPCP(s, opts) ==
    [s EXCEPT !.want = [o \in DOMAIN @ \ (DOMAIN opts \ {"ip"}) |-> @[o]]]

HandleIPCP(s0, f) ==
    LET s == Alive(s0, "ipcp")
    IN CASE f.code = "request" ->
              MaybeIPCPUp([Send([s EXCEPT !.peerIP = f.body.ip], "IPCP", "ack", f.id, f.body)
                             EXCEPT !.ipcpRemote = TRUE])
         [] f.code = "ack" /\ f.id = s.ipcpReqID ->
              MaybeIPCPUp([Stop(s, "ipcp") EXCEPT !.ipcpLocal = TRUE])
         [] f.code = "nak" -> SendIPCPConfigReq(AdoptIPCPValues(s, f.body))
         [] f.code = "reject" -> SendIPCPConfigReq(DropRejectedIPCP(s, f.body))
         [] OTHER -> s

\* SendEcho, up to the wait. A probe already waiting is joined.
SendEcho(s) ==
    IF s.phase = "closed" \/ s.echo # 0 THEN s
    ELSE LET n == NextID(s) IN Send([n EXCEPT !.echo = n.reqID], "LCP", "echo", n.reqID, {})

Receive(s, f) ==
    CASE s.phase = "closed" -> s
      [] f.proto = "LCP" -> HandleLCP(s, f)
      [] f.proto = "CHAP" -> HandleCHAP(s, f)
      [] f.proto = "IPCP" -> HandleIPCP(s, f)


\* The server (server.go).

ServerSendLCPConfigReq(s) ==
    RequestLCP(s, {o \in {"mschap", "magic"} : IF o = "mschap" THEN ~env.noAuth ELSE s.useMagic})
ServerSendIPCPConfigReq(s) == RequestIPCP(s, [ip |-> "gateway"])

SendChallenge(s) ==
    LET n == NextID([s EXCEPT !.challenge = Challenge(s.reqID)])
    IN Send(n, "CHAP", "challenge", n.reqID, n.challenge)

ServerMaybeLCPUp(s) ==
    IF s.phase # "lcp" \/ ~s.lcpLocal \/ ~s.lcpRemote THEN s
    ELSE IF env.noAuth THEN ServerSendIPCPConfigReq([s EXCEPT !.phase = "ipcp"])
    ELSE SendChallenge([s EXCEPT !.phase = "auth"])

ServerMaybeIPCPUp(s) ==
    IF s.phase # "ipcp" \/ ~s.ipcpLocal \/ ~s.ipcpRemote THEN s
    ELSE [s EXCEPT !.phase = "up", !.got = Append(@, "up")]

ServerHandleLCPConfigReq(s, f) ==
    IF f.body \ {"mru", "magic"} # {} THEN Send(s, "LCP", "reject", f.id, f.body \ {"mru", "magic"})
    ELSE ServerMaybeLCPUp([Send(s, "LCP", "ack", f.id, f.body) EXCEPT !.lcpRemote = TRUE])

ServerHandleLCP(s0, f) ==
    LET s == Alive(s0, "lcp")
    IN CASE f.code = "request" -> ServerHandleLCPConfigReq(s, f)
         [] f.code = "ack" /\ f.id = s.lcpReqID ->
              ServerMaybeLCPUp([Stop(s, "lcp") EXCEPT !.lcpLocal = TRUE])
         [] f.code \in {"nak", "reject"} ->
              IF env.noAuth THEN ServerSendLCPConfigReq([s EXCEPT !.useMagic = FALSE]) ELSE FailLocked(s)
         [] f.code = "terminate" -> FailLocked(Send(s, "LCP", "terminated", f.id, {}))
         [] f.code = "echo" -> Send(s, "LCP", "echoed", f.id, {})
         [] OTHER -> s

\* A Success that could not be sent has closed the session; the handler then
\* reopens it for the request that fails it again.
ServerHandleCHAP(s, f) ==
    IF f.code # "response" THEN s
    ELSE IF ~VerifyResponse(s.challenge, f.body)
         THEN FailLocked(Send(s, "CHAP", "failure", f.id, <<>>))
    ELSE LET n == Send([s EXCEPT !.response = f.body], "CHAP", "success", f.id,
                       BuildSuccess(s.challenge, f.body))
         IN ServerSendIPCPConfigReq([n EXCEPT !.authenticated = TRUE, !.phase = "ipcp"])

DnsAt(i) == IF i <= env.dns THEN "assigned" ELSE "none"
Assigned == [ip |-> "assigned", dns1 |-> DnsAt(1), dns2 |-> DnsAt(2)]
Naks(opts) ==
    [o \in {x \in DOMAIN opts : Assigned[x] # "none" /\ opts[x] # Assigned[x]} |-> Assigned[o]]
ServerHandleIPCPConfigReq(s, f) ==
    IF Naks(f.body) # <<>> THEN Send(s, "IPCP", "nak", f.id, Naks(f.body))
    ELSE ServerMaybeIPCPUp([Send(s, "IPCP", "ack", f.id, f.body) EXCEPT !.ipcpRemote = TRUE])

ServerHandleIPCP(s0, f) ==
    LET s == Alive(s0, "ipcp")
    IN CASE f.code = "request" -> ServerHandleIPCPConfigReq(s, f)
         [] f.code = "ack" /\ f.id = s.ipcpReqID ->
              ServerMaybeIPCPUp([Stop(s, "ipcp") EXCEPT !.ipcpLocal = TRUE])
         [] f.code \in {"nak", "reject"} -> ServerSendIPCPConfigReq(s)
         [] OTHER -> s

ServerReceive(s, f) ==
    CASE s.phase = "closed" -> s
      [] f.proto = "LCP" -> ServerHandleLCP(s, f)
      [] f.proto = "CHAP" -> ServerHandleCHAP(s, f)
      [] f.proto = "IPCP" -> ServerHandleIPCP(s, f)


\* The link.

Flushed(s) == [s EXCEPT !.out = <<>>]
ClientStep(n) == cl' = Flushed(n) /\ up' = up \o n.out
ServerStep(n) == sv' = Flushed(n) /\ down' = down \o n.out

\* Start: SSTP starts both ends, in either order.
StartClient ==
    /\ cl.reqID = 0 /\ cl.phase = "lcp"
    /\ ClientStep(SendLCPConfigReq(cl)) /\ UNCHANGED <<sv, down, env>>
StartServer ==
    /\ sv.reqID = 0 /\ sv.phase = "lcp" /\ ~env.foreign
    /\ ServerStep(ServerSendLCPConfigReq(sv)) /\ UNCHANGED <<cl, up, env>>

\* A stream delivers in order; datagrams overtake one another.
Deliverable(q) == IF env.carrier = "datagram" THEN 1 .. Len(q) ELSE {1} \cap 1 .. Len(q)

\* Frames that arrive before Start meet no session: the tunnel is not up.
ClientReceives ==
    \E i \in Deliverable(down) :
        /\ cl.reqID # 0
        /\ LET n == Receive(cl, down[i])
           IN cl' = Flushed(n) /\ up' = up \o n.out
        /\ down' = RemoveAt(down, i) /\ UNCHANGED <<sv, env>>
ServerReceives ==
    \E i \in Deliverable(up) :
        /\ sv.reqID # 0
        /\ LET n == ServerReceive(sv, up[i])
           IN sv' = Flushed(n) /\ down' = down \o n.out
        /\ up' = RemoveAt(up, i) /\ UNCHANGED <<cl, env>>

ClientTimer(t) ==
    /\ cl[t].on /\ env.fires > 0 /\ env' = [env EXCEPT !.fires = @ - 1]
    /\ ClientStep(Fired(cl, t)) /\ UNCHANGED <<sv, down>>
ServerTimer(t) ==
    /\ sv[t].on /\ env.fires > 0 /\ env' = [env EXCEPT !.fires = @ - 1]
    /\ ServerStep(Fired(sv, t)) /\ UNCHANGED <<cl, up>>

Probe ==
    /\ cl.phase \in {"up", "closed"} /\ env.probes > 0 /\ env' = [env EXCEPT !.probes = @ - 1]
    /\ ClientStep(SendEcho(cl)) /\ UNCHANGED <<sv, down>>

Lose ==
    /\ env.carrier = "datagram" /\ env.losses > 0 /\ env' = [env EXCEPT !.losses = @ - 1]
    /\ \/ \E i \in 1 .. Len(up) : up' = RemoveAt(up, i) /\ UNCHANGED down
       \/ \E i \in 1 .. Len(down) : down' = RemoveAt(down, i) /\ UNCHANGED up
    /\ UNCHANGED <<cl, sv>>

\* The carrier closes under the link; what it had accepted may still arrive.
CarrierDown ==
    /\ env.carrier = "stream" /\ env.fails /\ env' = [env EXCEPT !.carrier = "down"]
    /\ UNCHANGED <<cl, sv, up, down>>

\* Another implementation, such as SoftEther's: it offers PAP or an unknown option
\* first, rejects the magic number, corrects the MRU, and hangs up.
ForeignAnswer(code) ==
    /\ env.foreign /\ up # <<>> /\ Head(up).code = "request" /\ Head(up).proto = "LCP"
    /\ down' = Append(down, Frame("LCP", code, Head(up).id,
                                  IF code = "ack" THEN Head(up).body ELSE IF code = "nak" THEN {"mru"} ELSE {"magic"}))
    /\ code = "reject" => "magic" \in Head(up).body
    /\ up' = Tail(up) /\ UNCHANGED <<cl, sv, env>>
    /\ code = "nak" => cl.reqID = 1
ForeignSends ==
    /\ env.foreign /\ env.losses > 0 /\ env' = [env EXCEPT !.losses = @ - 1]
    /\ \E f \in {Frame("LCP", "request", env.losses, {o, "magic"}) : o \in {"pap", "mschap", "unknown"}}
                \cup {Frame("LCP", "terminate", 1, {}), Frame("LCP", "echo", 1, {}), Frame("IPCP", "reject", 1, [dns2 |-> "zero"])} :
          /\ f.proto = "IPCP" => cl.phase = "ipcp"
          /\ down' = Append(down, f)
    /\ UNCHANGED <<cl, sv, up>>
ForeignIgnores ==
    /\ env.foreign /\ up # <<>> /\ ~(Head(up).proto = "LCP" /\ Head(up).code = "request")
    /\ up' = Tail(up) /\ UNCHANGED <<cl, sv, down, env>>

Init ==
    /\ env \in Scenarios
    /\ cl = [New(FALSE) EXCEPT !.password = env.password]
    /\ sv = New(TRUE) /\ up = <<>> /\ down = <<>>

Next ==
    \/ StartClient \/ StartServer \/ ClientReceives \/ ServerReceives \/ Probe \/ Lose \/ CarrierDown
    \/ \E t \in {"lcp", "ipcp"} : ClientTimer(t) \/ ServerTimer(t)
    \/ \E code \in {"ack", "nak", "reject"} : ForeignAnswer(code)
    \/ ForeignSends \/ ForeignIgnores

Spec == Init /\ [][Next]_vars

\* What the client reports as its network is what the server assigned it, however
\* often requests were repeated, answered late or out of order.
AddressAgreed ==
    \A i \in 1 .. Len(cl.got) :
        ~env.foreign => cl.got[i] = [ip |-> "assigned", gateway |-> "gateway",
                                     dns |-> {o \in {"dns1", "dns2"} : Assigned[o] # "none"}]

\* An end that reports the network up on a link that authenticates has itself
\* verified that the other knows the password.
ProvedBoth ==
    ~env.noAuth /\ ~env.foreign =>
        /\ cl.got # <<>> => cl.authenticated /\ sv.authenticated /\ cl.password = "good"
        /\ sv.got # <<>> => sv.authenticated /\ cl.password = "good"

\* The network comes up once on each end, and never on an end that reported the link
\* closed.
UpStep ==
    /\ Len(cl'.got) <= 1 /\ Len(sv'.got) <= 1
    /\ cl.closed > 0 => cl'.got = cl.got
    /\ sv.closed > 0 => sv'.got = sv.got
UpOnce == [][UpStep]_vars
====
