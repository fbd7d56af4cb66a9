---- MODULE Ikev1 ----
\* IKEv1 sessions (internal/ikev1) between initiators and one gateway that
\* keeps a responder per initiator cookie (internal/cisco): Main or
\* Aggressive Mode, XAuth, Mode-Config, Quick Mode, the retransmission
\* timer of each session, the CBC chain every encrypted message continues,
\* and the gateway's peers, inner addresses and tunnels.
\*
\* A state is named after the message it waits for.  A ciphertext is its
\* key and the IV it was made with; the last block of a message, the IV of
\* the next one in the chain, is named after the message.
EXTENDS Integers, FiniteSets

CONSTANTS
    Scenarios,     \* [profile : [mode, xauth, cfg], know : [clients -> SUBSET Secrets],
                   \*  lost, twice : datagrams the network may lose, or deliver twice,
                   \*  retries : ikeMaxRetransmits]
    Inner,         \* the inner addresses of the gateway's pool
    MaxPeers,      \* responders the gateway's gate admits
    MaxPings,      \* dead-peer probes of a client
    Nil

VARIABLES
    ini,    \* the initiator of each client
    app,    \* the Client around it: "idle", "waiting", "up" or "closed"
    gw,     \* the gateway: peers by cookie, leases, tunnels of the pump
    wire,   \* datagrams in flight
    world   \* the scenario, with the faults still to come

vars == <<ini, app, gw, wire, world>>

Clients == DOMAIN world.know

\* AddrPool.Allocate: the lowest address of the pool not in use.
Allocate(used) == CHOOSE a \in Inner \ used : \A b \in Inner \ used : a <= b

Exchange(kind) ==
    CASE kind \in {"MM1", "MM2", "MM3", "MM4", "MM5", "MM6"} -> "main"
      [] kind \in {"AM1", "AM2", "AM3"} -> "aggressive"
      [] kind \in {"XREQ", "XREP", "SET", "ACK", "CREQ", "CREP"} -> "transaction"
      [] kind \in {"QM1", "QM2", "QM3"} -> "quick"
      [] OTHER -> "informational"

\* randSPI: every request (XREQ, SET, CREQ) draws a message ID of its own,
\* a repeated one too, and its answer carries the same.
MessageID(s, to) == <<to, s.drawn>>

NewSession(c) ==
    [c |-> c, st |-> "Init", r |-> Nil, key |-> Nil, iv |-> "phase1", tx |-> Nil,
     qm |-> Nil, done |-> FALSE, addr |-> Nil, attempts |-> 0, out |-> Nil,
     natt |-> FALSE, last |-> Nil, drawn |-> 0, tries |-> 0, seq |-> 0, wait |-> FALSE]


\* Messages.

Message(s, to, kind, iv, body) ==
    [c |-> s.c, to |-> to, kind |-> kind, mid |-> Nil, iv |-> iv, key |-> s.key,
     body |-> body, natt |-> s.natt]

\* transmit: the message becomes the one the timer repeats, on its port.
Transmit(s, m) == [s |-> [s EXCEPT !.last = m, !.tries = 0], out |-> {m}]

Quiet(s) == [s |-> s, out |-> {}]

\* advance stops the timer; failLocked ends a session that is not over.
Advance(s) == [s EXCEPT !.last = Nil]
Fail(s) == Quiet([s EXCEPT !.st = "Failed", !.last = Nil])

\* The chain of the Transaction message in hand: a new message ID reseeds
\* it (txIVFor, quickModeIV).
TxIV(s, mid) == IF s.tx # Nil /\ s.tx.mid = mid THEN s.tx.iv ELSE <<mid, Nil>>

SendTx(s, mid, to, kind, body) ==
    Transmit([s EXCEPT !.tx = [mid |-> mid, iv |-> <<mid, kind>>]],
             [Message(s, to, kind, TxIV(s, mid), body) EXCEPT !.mid = mid])

SendRequest(s, to, kind, body) ==
    LET t == [s EXCEPT !.drawn = @ + 1] IN SendTx(t, MessageID(t, to), to, kind, body)

\* recvDecrypt: with another key or another IV what comes out is not a
\* payload chain, or its hash is wrong.
Opens(s, m, iv) == m.key = s.key /\ m.iv = iv


\* After phase 1: XAuth, Mode-Config, Quick Mode.

StartQuickMode(s) ==
    IF s.addr = Nil /\ world.profile.cfg
    THEN Fail(s)
    ELSE Transmit([s EXCEPT !.st = "QM2", !.qm = "QM1"],
                  Message(s, "r", "QM1", "q", <<"spi", s.c>>))

SendCfgRequest(s) == SendRequest([s EXCEPT !.st = "CREP"], "r", "CREQ", Nil)

AfterPhase1(s, role) ==
    CASE role = "i" /\ world.profile.xauth -> Quiet([s EXCEPT !.st = "XREQ"])
      [] role = "i" /\ ~world.profile.xauth /\ world.profile.cfg -> SendCfgRequest(s)
      [] role = "i" /\ ~world.profile.xauth /\ ~world.profile.cfg -> StartQuickMode(s)
      [] role = "r" /\ world.profile.xauth -> SendRequest([s EXCEPT !.st = "XREP"], "i", "XREQ", Nil)
      [] OTHER -> Quiet([s EXCEPT !.done = TRUE,
                                  !.st = IF world.profile.cfg THEN "CREQ" ELSE "QM1"])

\* The phase-1 key: both halves of the exchange and the pre-shared key each
\* end holds; a client that does not know it holds another.
Key(c, r, psk) == <<c, r, psk>>
PSKOf(c) == "psk" \in world.know[c]


\* dispatchInitiator: what client s does with m.

SendAfter(r, m) == [r EXCEPT !.out = @ \cup {m}]

InitiatorMain(s, m) ==
    CASE s.st = "MM2" /\ m.kind = "MM2" ->
            LET t == [Advance(s) EXCEPT !.st = "MM4", !.r = m.body]
            IN  Transmit(t, Message(t, "r", "MM3", Nil, Nil))
      [] s.st = "MM4" /\ m.kind = "MM4" ->
            LET t == [Advance(s) EXCEPT !.st = "MM6", !.natt = TRUE,
                                        !.key = Key(s.c, m.body, PSKOf(s.c)), !.iv = "MM5"]
            IN  Transmit(t, Message(t, "r", "MM5", "phase1", Nil))
      [] s.st = "MM6" /\ m.kind = "MM6" /\ Opens(s, m, s.iv) ->
            AfterPhase1([Advance(s) EXCEPT !.iv = "MM6"], "i")
      [] OTHER -> Fail(s)

InitHandleAM2(s, m) ==
    IF m.kind = "AM2" /\ m.key = Key(s.c, m.body, PSKOf(s.c))
    THEN LET t == [Advance(s) EXCEPT !.r = m.body, !.natt = TRUE, !.iv = "AM3",
                                     !.key = Key(s.c, m.body, PSKOf(s.c))]
         IN  SendAfter(AfterPhase1(t, "i"), Message(t, "r", "AM3", "phase1", Nil))
    ELSE Fail(s)

\* handleTransaction, once the message is open: t continues its chain.
InitHandleXAuthRequest(t) ==
    SendTx([t EXCEPT !.st = "SET"], t.tx.mid, "r", "XREP", "password" \in world.know[t.c])

\* The verdict is acknowledged before it is acted on.
InitHandleXAuthSet(t, ok) ==
    LET ack == SendTx(t, t.tx.mid, "r", "ACK", ok)
        u   == [ack.s EXCEPT !.done = TRUE]
        next == IF world.profile.cfg THEN SendCfgRequest(u) ELSE StartQuickMode(u)
    IN  IF ok THEN [next EXCEPT !.out = @ \cup ack.out] ELSE [Fail(ack.s) EXCEPT !.out = ack.out]

InitHandleCfgReply(t, addr) == StartQuickMode([t EXCEPT !.addr = addr])

Continued(s, m) == [s EXCEPT !.tx = [mid |-> m.mid, iv |-> <<m.mid, m.kind>>]]

InitiatorTransaction(s, m) ==
    LET t == Continued(s, m)
    IN  CASE ~Opens(s, m, TxIV(s, m.mid)) -> Fail(s)
          [] m.kind = "XREQ" -> InitHandleXAuthRequest(t)
          [] m.kind = "SET" -> InitHandleXAuthSet(t, m.body)
          [] m.kind = "CREP" -> InitHandleCfgReply(t, m.body)

\* initHandleQM2 sends QM3 and finishes: a finished session's timer is off.
InitiatorQuick(s, m) ==
    IF m.kind = "QM2" /\ Opens(s, m, s.qm)
    THEN [s   |-> [Advance(s) EXCEPT !.st = "Done", !.qm = "QM3", !.out = m.body],
          out |-> {Message(s, "r", "QM3", "QM2", Nil)}]
    ELSE Fail(s)


\* dispatchResponder: what the gateway's session s does with m.

ResponderMain(s, m) ==
    CASE s.st = "Init" /\ m.kind = "MM1" ->
            LET t == [s EXCEPT !.st = "MM3"]
            IN  Transmit(t, Message(t, "i", "MM2", Nil, s.r))
      [] s.st = "MM3" /\ m.kind = "MM3" ->
            \* MM4 goes out on the old port; the float follows it.
            LET sent == Transmit([Advance(s) EXCEPT !.st = "MM5"], Message(s, "i", "MM4", Nil, s.r))
            IN  [sent EXCEPT !.s.key = Key(s.c, s.r, TRUE), !.s.natt = TRUE]
      [] s.st = "MM5" /\ m.kind = "MM5" /\ Opens(s, m, s.iv) ->
            LET t    == [Advance(s) EXCEPT !.iv = "MM6"]
                mm6  == Message(t, "i", "MM6", "MM5", Nil)
                next == AfterPhase1(Transmit(t, mm6).s, "r")
            IN  SendAfter(next, mm6)
      [] OTHER -> Fail(s)

ResponderAggressive(s, m) ==
    CASE s.st = "Init" /\ m.kind = "AM1" ->
            LET t    == [s EXCEPT !.st = "AM3", !.key = Key(s.c, s.r, TRUE)]
                sent == Transmit(t, Message(t, "i", "AM2", Nil, s.r))
            IN  [sent EXCEPT !.s.natt = TRUE]
      [] s.st = "AM3" /\ m.kind = "AM3" /\ Opens(s, m, s.iv) ->
            AfterPhase1([Advance(s) EXCEPT !.iv = "AM3"], "r")
      [] OTHER -> Fail(s)

RespHandleXAuthReply(t, ok) ==
    LET set == SendRequest([t EXCEPT !.st = "ACK"], "i", "SET", ok)
    IN  IF ok THEN [set EXCEPT !.s.done = TRUE] ELSE [Fail(set.s) EXCEPT !.out = set.out]

RespHandleXAuthAck(t) == Quiet([t EXCEPT !.st = IF world.profile.cfg THEN "CREQ" ELSE "QM1"])

\* A session asks its handler for an address at most once (Assign); free is
\* what the pool would hand out, Nil when it is exhausted.
RespHandleCfgRequest(t, free) ==
    LET u == [t EXCEPT !.attempts = @ + 1, !.addr = IF @ = Nil THEN free ELSE @, !.st = "QM1"]
    IN  IF ~t.done \/ u.attempts > 3 \/ u.addr = Nil THEN Fail(t) ELSE SendTx(u, u.tx.mid, "i", "CREP", u.addr)

ResponderTransaction(s, m, free) ==
    LET t == Continued(s, m)
    IN  CASE ~Opens(s, m, TxIV(s, m.mid)) -> Fail(s)
          [] m.kind = "XREP" -> RespHandleXAuthReply(t, m.body)
          [] m.kind = "ACK" -> RespHandleXAuthAck(t)
          [] m.kind = "CREQ" -> RespHandleCfgRequest(t, free)

ResponderQuick(s, m) ==
    CASE s.st = "QM1" /\ m.kind = "QM1" /\ Opens(s, m, "q") ->
            Transmit([Advance(s) EXCEPT !.st = "QM3", !.qm = "QM2", !.out = m.body],
                     Message(s, "i", "QM2", "QM1", <<"spi", s.r>>))
      [] s.st = "QM3" /\ m.kind = "QM3" /\ Opens(s, m, s.qm) ->
            Quiet([Advance(s) EXCEPT !.st = "Done", !.qm = "QM3"])
      [] OTHER -> Fail(s)


\* handleDPD: an established session answers a probe, and a probe is
\* answered by the acknowledgement with the sequence number awaited.
HandleDPD(s, m) ==
    CASE ~Opens(s, m, "informational") -> Quiet(s)
      [] m.kind = "PING" -> [s |-> s, out |-> {Message(s, IF m.to = "r" THEN "i" ELSE "r",
                                                       "PONG", "informational", m.body)}]
      [] m.kind = "PONG" -> Quiet(IF m.body = s.seq THEN [s EXCEPT !.wait = FALSE] ELSE s)

\* expectedExchange with the screening of dispatch: the exchange a state
\* waits for; messages of another are ignored.
Expected(s) == IF s.st = "Init" THEN world.profile.mode ELSE Exchange(s.st)

HandleInbound(s, m, role, free) ==
    CASE s.st = "Failed" -> Quiet(s)
      [] s.st = "Done" -> IF Exchange(m.kind) = "informational" THEN HandleDPD(s, m) ELSE Quiet(s)
      [] s.st \notin {"Failed", "Done"} /\ Exchange(m.kind) # Expected(s) -> Quiet(s)
      [] OTHER ->
            CASE role = "i" /\ Exchange(m.kind) = "transaction" -> InitiatorTransaction(s, m)
              [] role = "i" /\ Exchange(m.kind) = "quick" -> InitiatorQuick(s, m)
              [] role = "r" /\ Exchange(m.kind) = "transaction" -> ResponderTransaction(s, m, free)
              [] role = "r" /\ Exchange(m.kind) = "quick" -> ResponderQuick(s, m)
              [] role = "i" /\ Exchange(m.kind) = "main" -> InitiatorMain(s, m)
              [] role = "i" /\ Exchange(m.kind) = "aggressive" -> InitHandleAM2(s, m)
              [] role = "r" /\ Exchange(m.kind) = "main" -> ResponderMain(s, m)
              [] role = "r" /\ Exchange(m.kind) = "aggressive" -> ResponderAggressive(s, m)


\* The clients.  Handshake starts the session; an established session puts
\* the data path up, a failed one closes the client, and the caller's
\* context may end the wait.

AppAfter(c, s) ==
    CASE s.st = "Failed" -> "closed"
      [] s.st = "Done" -> "up"
      [] OTHER -> app[c]

Start(c) ==
    LET main == world.profile.mode = "main"
        s    == [ini[c] EXCEPT !.st = IF main THEN "MM2" ELSE "AM2"]
        sent == Transmit(s, Message(s, "r", IF main THEN "MM1" ELSE "AM1", Nil, Nil))
    IN  /\ app[c] = "idle"
        /\ ini' = [ini EXCEPT ![c] = sent.s]
        /\ app' = [app EXCEPT ![c] = "waiting"]
        /\ wire' = wire \cup sent.out
        /\ UNCHANGED <<gw, world>>

\* A datagram is taken off the wire, or delivered with a copy left behind.
Deliver(m, out) ==
    \/ /\ wire' = (wire \ {m}) \cup out
       /\ UNCHANGED world
    \/ /\ world.twice > 0
       /\ wire' = wire \cup out
       /\ world' = [world EXCEPT !.twice = @ - 1]

ClientReceive(m) ==
    LET r == HandleInbound(ini[m.c], m, "i", Nil)
    IN  /\ m.to = "i"
        /\ app[m.c] \in {"waiting", "up"}
        /\ ini' = [ini EXCEPT ![m.c] = r.s]
        /\ app' = [app EXCEPT ![m.c] = AppAfter(m.c, r.s)]
        /\ Deliver(m, r.out)
        /\ UNCHANGED gw

\* onRetransmit, for either role: the last message again, on the port it
\* went out on, or the end of the exchange.
Expire(s) ==
    IF s.tries + 1 > world.retries THEN Fail(s)
    ELSE [s |-> [s EXCEPT !.tries = @ + 1], out |-> {s.last}]

ClientTimer(c) ==
    LET r == Expire(ini[c])
    IN  /\ app[c] = "waiting"
        /\ ini[c].last # Nil
        /\ ini' = [ini EXCEPT ![c] = r.s]
        /\ app' = [app EXCEPT ![c] = AppAfter(c, r.s)]
        /\ wire' = wire \cup r.out
        /\ UNCHANGED <<gw, world>>

\* Close, or the end of the caller's context: the socket is gone.
Close(c) ==
    /\ app[c] \in {"waiting", "up"}
    /\ app' = [app EXCEPT ![c] = "closed"]
    /\ ini' = [ini EXCEPT ![c] = Advance(@)]
    /\ UNCHANGED <<gw, wire, world>>

\* Ping: a new probe supersedes the one before it.
Ping(c) ==
    LET s == [ini[c] EXCEPT !.seq = @ + 1, !.wait = TRUE]
    IN  /\ app[c] = "up"
        /\ ini[c].seq < MaxPings
        /\ ini' = [ini EXCEPT ![c] = s]
        /\ wire' = wire \cup {Message(s, "r", "PING", "informational", s.seq)}
        /\ UNCHANGED <<app, gw, world>>


\* The gateway.  removePeer gives back the tunnel and the address of a
\* session that failed; Established gives the pump a tunnel.

RemovePeer(g, s) ==
    [g EXCEPT !.peers[s.c] = Nil, !.tunnels = @ \ {s.c},
              !.leases = @ \ {s.addr}]

PeerAfter(g, s) ==
    IF s.st = "Failed" THEN RemovePeer(g, s)
    ELSE [g EXCEPT !.peers[s.c] = s,
                   !.leases = IF s.addr = Nil THEN @ ELSE @ \cup {s.addr},
                   !.tunnels = IF s.st = "Done" THEN @ \cup {s.c} ELSE @]

\* dispatchIKE: the peer of the cookie, or a new responder the gate admits.
GatewayReceive(m) ==
    LET known == gw.peers[m.c] # Nil
        s     == IF known THEN gw.peers[m.c]
                 ELSE [NewSession(m.c) EXCEPT !.r = gw.admitted + 1]
        g     == IF known THEN gw ELSE [gw EXCEPT !.admitted = @ + 1]
        free  == IF Inner \subseteq gw.leases THEN Nil ELSE Allocate(gw.leases)
        r     == HandleInbound(s, m, "r", free)
    IN  /\ m.to = "r"
        /\ IF known \/ gw.admitted < MaxPeers
           THEN /\ gw' = PeerAfter(g, r.s)
                /\ Deliver(m, r.out)
           ELSE /\ wire' = wire \ {m}
                /\ UNCHANGED <<gw, world>>
        /\ UNCHANGED <<ini, app>>

GatewayTimer(c) ==
    LET s == gw.peers[c]
        r == Expire(s)
    IN  /\ s # Nil
        /\ s.st # "Done"
        /\ s.last # Nil
        /\ gw' = PeerAfter(gw, r.s)
        /\ wire' = wire \cup r.out
        /\ UNCHANGED <<ini, app, world>>

Lose(m) ==
    /\ world.lost > 0
    /\ wire' = wire \ {m}
    /\ world' = [world EXCEPT !.lost = @ - 1]
    /\ UNCHANGED <<ini, app, gw>>


Secrets == {"psk", "password"}

Init ==
    /\ world \in Scenarios
    /\ ini = [c \in Clients |-> NewSession(c)]
    /\ app = [c \in Clients |-> "idle"]
    /\ gw = [peers |-> [c \in Clients |-> Nil], leases |-> {}, tunnels |-> {}, admitted |-> 0]
    /\ wire = {}

Next ==
    \/ \E c \in Clients : Start(c) \/ ClientTimer(c) \/ Close(c) \/ Ping(c) \/ GatewayTimer(c)
    \/ \E m \in wire : ClientReceive(m) \/ GatewayReceive(m) \/ Lose(m)

Spec == Init /\ [][Next]_vars


Peers == {gw.peers[c] : c \in {d \in Clients : gw.peers[d] # Nil}}

\* The gateway's leases are the addresses of its live peers, no address is
\* held by two of them, and only a client that proved the group key and the
\* password holds one.
LeaseHeldOnce ==
    /\ gw.leases = {p.addr : p \in Peers} \ {Nil}
    /\ \A p, q \in Peers : p.addr # Nil /\ p.addr = q.addr => p = q
    /\ \A p \in Peers : p.addr # Nil => Secrets \subseteq world.know[p.c]

\* The pump has a tunnel for a client exactly while its session stands.
PumpFollows == gw.tunnels = {p.c : p \in {q \in Peers : q.st = "Done"}}

\* A session the gateway has finished was finished by its client, with the
\* same keys, each sending to the SPI the other chose, and with the inner
\* address the gateway leased.
SAsAgree ==
    \A p \in Peers : p.st = "Done" =>
        LET i == ini[p.c]
        IN  /\ i.st = "Done"
            /\ i.key = p.key
            /\ i.out = <<"spi", p.r>>
            /\ p.out = <<"spi", p.c>>
            /\ i.addr = p.addr
            /\ i.natt /\ p.natt

\* A client with the right credentials waiting in a Transaction exchange
\* fails only when its own retransmissions run out: a repeated request is
\* answered.
RepeatsAnswered ==
    [][\A c \in Clients :
          /\ ini[c].st \in {"XREQ", "SET", "CREP"}
          /\ Secrets \subseteq world.know[c]
          /\ ini[c].tries < world.retries
          => ini'[c].st # "Failed"]_vars
====
