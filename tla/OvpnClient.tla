---- MODULE OvpnClient ----
(***************************************************************************)
(* The OpenVPN client (internal/openvpn/client.go and session.go): Dial,   *)
(* which takes a socket, a control channel, a reader, a TUN and a pump one *)
(* after the other and must give everything back on an error, and the      *)
(* session it returns.                                                     *)
(***************************************************************************)
EXTENDS Naturals, FiniteSets, TLAPS

CONSTANTS Closers,      \* goroutines that may call Close on the session
          Configured,   \* the cipher of the profile
          Ciphers,      \* the ciphers buildDataCipher knows
          Replies,      \* what the server may answer to PUSH_REQUEST
          NoCipher      \* a PUSH_REPLY that names no cipher

VARIABLES pc,           \* Dial's place, then the session's
          open,         \* what is open: socket, control, tun, pump
          running,      \* goroutines started and not ended
          pump,         \* muxer.pump is set
          reply,        \* the answer parsePush accepted
          cipher,       \* the tunnel's data cipher
          once,         \* closeOnce: Nil, who runs it, or "done"
          waiting       \* Close calls that have not returned

dialVars == <<pc, open, running, pump, reply, cipher, once, waiting>>

Nil == "none"

DialInit ==
  /\ pc = "start" /\ open = {} /\ running = {} /\ pump = FALSE
  /\ reply = Nil /\ cipher = Nil /\ once = Nil /\ waiting = {}

Session == <<once, waiting>>

\* muxer.Close: control channel and socket.
Muxed == {"control", "socket"}

----
(* Dial *)

\* clientTLSConfig, then the socket.
Socket ==
  /\ pc = "start"
  /\ \/ pc' = "failed" /\ UNCHANGED open
     \/ pc' = "socket" /\ open' = {"socket"}
  /\ UNCHANGED <<running, pump, reply, cipher, Session>>

\* buildWrapper and control.New, whose pump starts at once; then the reader.
Control ==
  /\ pc = "socket"
  /\ \/ pc' = "failed" /\ open' = {} /\ UNCHANGED running
     \/ pc' = "negotiating" /\ open' = open \cup {"control"} /\ running' = {"control", "reader"}
  /\ UNCHANGED <<pump, reply, cipher, Session>>

\* negotiate returns an error, of the server's doing or the deadline's.
FailNegotiation ==
  /\ pc' = "failed" /\ open' = open \ Muxed
  /\ UNCHANGED <<running, pump, reply, cipher, Session>>

\* parsePush and buildDataCipher: an answer without an address or a cipher nobody
\* knows is an error; a pushed cipher wins over the profile's.
Effective(r) == IF r.cipher = NoCipher THEN Configured ELSE r.cipher

Accepted(r) ==
  /\ r.kind = "push" /\ Effective(r) \in Ciphers
  /\ cipher' = Effective(r) /\ reply' = r
  /\ pc' = "negotiated"
  /\ UNCHANGED <<open, running, pump, Session>>

Negotiate ==
  /\ pc = "negotiating" /\ "control" \in open
  /\ FailNegotiation \/ \E r \in Replies : Accepted(r)

\* OpenTUNGSO fails or succeeds; then the pump is wired to tunnel and muxer.
OpenTUN ==
  /\ pc = "negotiated"
  /\ \/ pc' = "failed" /\ open' = open \ Muxed /\ UNCHANGED <<running, pump>>
     \/ /\ pc' = "up"
        /\ open' = open \cup {"tun", "pump"}
        /\ running' = running \cup {"pump", "keepalive"}
        /\ pump' = TRUE
  /\ UNCHANGED <<reply, cipher, Session>>

\* A send error closes the control channel under whoever uses it.
ControlFails ==
  /\ "control" \in open
  /\ open' = open \ {"control"}
  /\ UNCHANGED <<pc, running, pump, reply, cipher, Session>>

\* A negotiation over a channel that has failed fails.
NegotiateBroken == pc = "negotiating" /\ "control" \notin open /\ FailNegotiation

----
(* The session *)

\* Close: the first caller runs the teardown, the others wait for it.
SessionClose(p) ==
  /\ pc \in {"up", "closed"} /\ p \notin waiting
  /\ waiting' = waiting \cup {p}
  /\ once' = IF once = Nil THEN p ELSE once
  /\ UNCHANGED <<pc, open, running, pump, reply, cipher>>

\* close(done), pump, TUN, control channel and socket.
CloseBody(p) ==
  /\ once = p
  /\ pc' = "closed" /\ open' = open \ ({"pump", "tun"} \cup Muxed) /\ once' = "done"
  /\ UNCHANGED <<running, pump, reply, cipher, waiting>>

\* A bug: a second caller finds closeOnce taken and returns.
CloseReturnsEarly(p) ==
  /\ p \in waiting /\ once # p
  /\ waiting' = waiting \ {p}
  /\ UNCHANGED <<pc, open, running, pump, reply, cipher, once>>

CloseReturns(p) ==
  /\ p \in waiting /\ once = "done"
  /\ waiting' = waiting \ {p}
  /\ UNCHANGED <<pc, open, running, pump, reply, cipher, once>>

\* A bug: keepalive does not look at done.
WaitsForTicks(g) == CASE g = "reader" -> "socket" \notin open
                      [] g = "pump" -> "tun" \notin open
                      [] g = "keepalive" -> FALSE
                      [] g = "control" -> "control" \notin open

\* What each goroutine waits for: the reader for its socket, the pump for the TUN,
\* keepalive for done, the control pump for closed.
WaitsFor(g) == CASE g = "reader" -> "socket" \notin open
                 [] g = "pump" -> "tun" \notin open
                 [] g = "keepalive" -> pc = "closed"
                 [] g = "control" -> "control" \notin open

Ends(g) ==
  /\ g \in running /\ WaitsFor(g)
  /\ running' = running \ {g}
  /\ UNCHANGED <<pc, open, pump, reply, cipher, Session>>

Goroutines == {"reader", "pump", "keepalive", "control"}

Dial == Socket \/ Control \/ Negotiate \/ NegotiateBroken \/ OpenTUN

DialNext ==
  \/ Dial \/ ControlFails
  \/ \E p \in Closers : SessionClose(p) \/ CloseBody(p) \/ CloseReturns(p)
  \/ \E g \in Goroutines : Ends(g)

DialSpec == DialInit /\ [][DialNext]_dialVars

----
(* Properties *)

\* "On error nothing is left running": a Dial that failed holds nothing open.
NothingLeftOpen == pc = "failed" => open = {}

\* A tunnel that is up seals with the cipher the server named, when it named one.
CipherAgreed ==
  pc = "up" /\ reply.cipher # NoCipher => cipher = reply.cipher

\* Every step of Dial and of the session's goroutines keeps both, and Close returns to no
\* caller before the teardown is complete, whoever runs it (closeOnce).
DialStep ==
  /\ NothingLeftOpen' /\ CipherAgreed'
  /\ \A p \in Closers : p \in waiting /\ p \notin waiting' => open = {}
DialAndClose == [][DialStep]_dialVars

\* Every goroutine Dial started ends after a failed Dial and after Close.
GoroutinesEnd == (pc \in {"failed", "closed"}) ~> (running = {})

----
(* Proof that Dial and Close keep their promises, whoever closes and       *)
(* whatever the server answers                                             *)

\* A goroutine that calls Close is neither of the two marks of closeOnce.
DialConstants == Closers \cap {Nil, "done"} = {}

\* The inductive invariant: what is open at each place of Dial, the cipher from the
\* answer on, and closeOnce: untouched before the session is up, done exactly when it is
\* closed.
DialInv ==
  /\ pc \in {"start", "socket", "negotiating", "negotiated", "up", "closed", "failed"}
  /\ pc \in {"start", "failed", "closed"} => open = {}
  /\ pc = "socket" => open = {"socket"}
  /\ pc \in {"negotiating", "negotiated"} => open \subseteq Muxed
  /\ pc = "up" => open \subseteq Muxed \cup {"tun", "pump"}
  /\ pc \in {"negotiated", "up"} => cipher = Effective(reply)
  /\ pc \notin {"up", "closed"} => once = Nil
  /\ pc = "closed" <=> once = "done"

LEMMA StepKeepsDialInv ==
  ASSUME DialConstants, DialInv, [DialNext]_dialVars
  PROVE  DialInv'
<1>1. CASE Socket
  BY <1>1, Zenon DEF DialInv, Socket, Session, Nil
<1>2. CASE Control
  BY <1>2 DEF DialInv, Control, Session, Muxed
<1>3. CASE Negotiate
  <2>1. CASE FailNegotiation
    BY <1>3, <2>1 DEF DialInv, Negotiate, FailNegotiation, Session, Muxed
  <2>2. CASE \E r \in Replies : Accepted(r)
    BY <1>3, <2>2 DEF DialInv, Negotiate, Accepted, Session, Effective
  <2>3. QED BY <1>3, <2>1, <2>2 DEF Negotiate
<1>4. CASE NegotiateBroken
  BY <1>4 DEF DialInv, NegotiateBroken, FailNegotiation, Session, Muxed
<1>5. CASE OpenTUN
  BY <1>5 DEF DialInv, OpenTUN, Session, Muxed, Effective
<1>6. CASE ControlFails
  BY <1>6 DEF DialInv, ControlFails, Session, Effective
<1>7. ASSUME NEW p \in Closers, SessionClose(p) PROVE DialInv'
  BY <1>7 DEF DialInv, SessionClose, DialConstants, Effective, Nil
<1>8. ASSUME NEW p \in Closers, CloseBody(p) PROVE DialInv'
  BY <1>8 DEF DialInv, CloseBody, DialConstants, Muxed, Nil
<1>9. ASSUME NEW p \in Closers, CloseReturns(p) PROVE DialInv'
  BY <1>9 DEF DialInv, CloseReturns, Effective
<1>10. ASSUME NEW g \in Goroutines, Ends(g) PROVE DialInv'
  BY <1>10 DEF DialInv, Ends, Session, Effective
<1>11. CASE UNCHANGED dialVars
  BY <1>11 DEF DialInv, dialVars, Effective
<1>12. QED BY <1>1, <1>2, <1>3, <1>4, <1>5, <1>6, <1>7, <1>8, <1>9, <1>10, <1>11 DEF DialNext, Dial

\* waiting shrinks only where CloseReturns finds the teardown done.
LEMMA ReturnsAfterTeardown ==
  ASSUME DialInv, DialNext, NEW p \in waiting, p \notin waiting'
  PROVE  open = {}
<1>1. \E q \in Closers : CloseReturns(q)
  BY DEF DialNext, Dial, Socket, Control, Negotiate, FailNegotiation, Accepted, NegotiateBroken, OpenTUN,
         ControlFails, SessionClose, CloseBody, Ends, Session
<1>2. QED BY <1>1 DEF CloseReturns, DialInv

\* For every set of goroutines that call Close, every set of ciphers and every answer of
\* the server: a failed Dial holds nothing open, the tunnel seals with the cipher the
\* server named, and no Close returns before the teardown is complete, whoever runs it
\* (Dial's error paths, buildDataCipher, session.Close and its closeOnce).
THEOREM DialCleansUp ==
  ASSUME DialConstants
  PROVE  DialSpec => DialAndClose
<1>1. DialInit => DialInv
  BY DEF DialInit, DialInv, Nil
<1>2. DialInv /\ [DialNext]_dialVars => DialInv'
  BY StepKeepsDialInv
<1>3. DialInv' => NothingLeftOpen' /\ CipherAgreed'
  BY DEF DialInv, NothingLeftOpen, CipherAgreed, Effective
<1>4. DialInv /\ [DialNext]_dialVars => [DialStep]_dialVars
  BY <1>2, <1>3, ReturnsAfterTeardown DEF DialStep, dialVars
<1>5. QED BY <1>1, <1>2, <1>4, PTL DEF DialSpec, DialAndClose
====
