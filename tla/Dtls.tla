---- MODULE Dtls ----
\* The DTLS 1.2 subset under the AnyConnect and Fortinet data channels: both roles of the
\* handshake over a network that loses, repeats and reorders datagrams, then application
\* records with their replay window. A premaster is the pre-shared key or the pair of key
\* shares, and a key is known by the master secret and the direction it is for.
EXTENDS Integers, Sequences, SequencesExt, FiniteSets, FiniteSetsExt
CONSTANTS Scenarios, MaxTries, replayWindowSize, Nil
VARIABLES cl, sv,   \* the two connections
          net,      \* the datagrams in flight, each a sequence of records
          env       \* the scenario, what was lost, repeated and delivered
vars == <<cl, sv, net, env>>

Other(e) == IF e = "cl" THEN "sv" ELSE "cl"
CookieOf == "cookie"
pskSuites == <<"psk384", "psk128">>
ecdheSuites == <<"ecdhe">>
offeredSuites(sc) == IF sc.cpsk = Nil THEN ecdheSuites ELSE pskSuites
serverSuites(sc) == IF sc.cert THEN ecdheSuites ELSE pskSuites
\* selectSuite: the server's order; a server of another make may choose what it likes.
selectSuite(sc, list) ==
  IF sc.force # Nil THEN sc.force
  ELSE LET both == SelectSeq(serverSuites(sc), LAMBDA s : s \in ToSet(list)) IN IF both = <<>> THEN Nil ELSE both[1]

Msg(t, n, b) == [typ |-> t, seq |-> n, body |-> b]
Plain(m, n) == [typ |-> "handshake", epoch |-> 0, seq |-> n, key |-> Nil, msg |-> m]
Sealed(t, n, k, m) == [typ |-> t, epoch |-> 1, seq |-> n, key |-> k, msg |-> m]
Conn == [pc |-> "hello1", next |-> 0, partial |-> {}, got |-> {}, flight |-> {}, tries |-> 0, sendSeq |-> 0,
         writeSeq |-> 0, out |-> Nil, in |-> Nil, deferred |-> <<>>, seen |-> {}, suite |-> Nil, master |-> Nil,
         transcript |-> <<>>, hello |-> Nil]
HelloMsg(n, cookie, sc) == Msg("ClientHello", n, [random |-> "cr", cookie |-> cookie, suites |-> offeredSuites(sc)])

\* sendFlight: the messages' records in one datagram; other stacks send one for each.
\* The messages are numbered from sendSeq, the records from writeSeq.
Datagrams(e, recs, split) ==
  IF split THEN {[to |-> Other(e), recs |-> <<r>>] : r \in ToSet(recs)} ELSE {[to |-> Other(e), recs |-> recs]}
Flight(e, c, msgs, split) == Datagrams(e, [i \in DOMAIN msgs |-> Plain(msgs[i], c.writeSeq + i - 1)], split)

Init ==
  /\ \E sc \in Scenarios : env = [sc |-> sc, lost |-> 0, last |-> FALSE, dups |-> 0, wrote |-> [cl |-> 0, sv |-> 0],
                                  read |-> [cl |-> <<>>, sv |-> <<>>]]
  /\ LET m == HelloMsg(0, "", env.sc) IN
     /\ cl = [Conn EXCEPT !.flight = Flight("cl", Conn, <<m>>, FALSE), !.writeSeq = 1, !.sendSeq = 1, !.hello = m]
     /\ net = cl.flight
  /\ sv = Conn

\* --- receiving ---

\* reassembler.accept: what was processed is absorbed, what is early is kept, and the
\* messages that are next in order come out.
accept(c, m) ==
  LET have == c.partial \union {m}
      upTo == CHOOSE n \in c.next..(c.next + Cardinality(have)) :
                /\ \A i \in c.next..(n - 1) : \E x \in have : x.seq = i
                /\ ~\E x \in have : x.seq = n
  IN IF m.seq < c.next THEN c
     ELSE [c EXCEPT !.next = upTo, !.partial = {x \in have : x.seq >= upTo}, !.got = @ \union {x \in have : x.seq < upTo}]
\* Mutant of Replayed.
NeverReplayed(c, n) == FALSE
\* replayWindow.check and what it records, the first sequence starting the window.
Replayed(c, n) == n \in c.seen \/ (c.seen # {} /\ Max(c.seen) - n >= replayWindowSize)
Seen(c, n) == [c EXCEPT !.seen = {m \in @ \union {n} : Max(@ \union {n}) - m < replayWindowSize}]
\* dispatchRecord: alerts that are not fatal, ChangeCipherSpec and data pass by.
dispatchRecord(c, r) == IF r.typ = "handshake" THEN accept(c, r.msg) ELSE c
Opened(c, r) ==
  IF Replayed(c, r.seq) THEN c
  ELSE IF r.key # c.in THEN [Seen(c, r.seq) EXCEPT !.pc = "failed"]
  ELSE dispatchRecord(Seen(c, r.seq), r)
\* Mutant of ConsumeOne.
ConsumeDropsEarly(c, r) ==
  IF r.epoch = 0 THEN dispatchRecord(c, r) ELSE IF c.in = Nil THEN c ELSE Opened(c, r)
\* consumeHandshake: a record whose keys are not there yet is held.
ConsumeOne(c, r) ==
  IF r.epoch = 0 THEN dispatchRecord(c, r)
  ELSE IF c.in = Nil THEN [c EXCEPT !.deferred = Append(@, r)] ELSE Opened(c, r)
consumeHandshake(c, recs) == FoldLeft(ConsumeOne, c, recs)
drainDeferred(c) == FoldLeft(Opened, [c EXCEPT !.deferred = <<>>], c.deferred)

Has(c, t) == \E m \in c.got : m.typ = t
findMsg(c, t) == CHOOSE m \in c.got : m.typ = t /\ \A x \in c.got : x.typ = t => m.seq <= x.seq
Read(c, pc, flight) == [c EXCEPT !.pc = pc, !.got = {}, !.tries = 0, !.flight = flight]   \* the next readFlight
Recorded(c) == SelectSeq(SetToSortSeq(c.got, LAMBDA a, b : a.seq < b.seq),
                         LAMBDA m : m.typ \in {"ServerHello", "Certificate", "ServerKeyExchange", "ServerHelloDone"})

\* What a step does: the connection after it, and the datagrams it sends.
Stays(c) == [conn |-> c, sends |-> {}]
Fails(c) == Stays([c EXCEPT !.pc = "failed"])

\* --- clientHandshake ---

\* The second ClientHello starts the transcript afresh.
SecondHello(c) ==
  LET m == HelloMsg(1, findMsg(c, "HelloVerifyRequest").body, env.sc)
      f == Flight("cl", c, <<m>>, FALSE)
  IN [conn |-> [Read(c, "hello2", f) EXCEPT !.writeSeq = @ + 1, !.sendSeq = 2, !.hello = m], sends |-> f]
\* Mutant of offered.
AnySuite(sc, s) == s # Nil
\* The suite must be one that was offered; the key exchange is the suite's. The client
\* reads on with no flight to send again.
offered(sc, s) == s \in ToSet(offeredSuites(sc))
ClientKeys(c) ==
  LET sc == env.sc
      sh == findMsg(c, "ServerHello").body
      ecdhe == sh.suite = "ecdhe"
      pre == IF ecdhe THEN <<"c", findMsg(c, "ServerKeyExchange").body>> ELSE sc.cpsk
      master == <<sh.suite, pre, "cr", sh.random>>
      cke == Msg("ClientKeyExchange", c.sendSeq, IF ecdhe THEN "c" ELSE "identity")
      before == <<c.hello>> \o Recorded(c) \o <<cke>>
      fin == Msg("Finished", c.sendSeq + 1, <<"client", master, before>>)
  IN IF ~offered(sc, sh.suite) \/ (ecdhe /\ ~sc.trusted) \/ (~ecdhe /\ sc.cpsk = Nil) THEN Fails(c)
     ELSE [conn |-> [Read(c, "fin", {}) EXCEPT !.suite = sh.suite, !.master = master, !.out = <<"cl", master>>,
                       !.in = <<"sv", master>>, !.transcript = Append(before, fin), !.writeSeq = 1, !.seen = {}],
           sends |-> IF sc.coalesce
                     THEN {[to |-> "sv", recs |-> <<Plain(cke, c.writeSeq), Sealed("handshake", 0, <<"cl", master>>, fin)>>]}
                     ELSE {[to |-> "sv", recs |-> <<Plain(cke, c.writeSeq)>>],
                           [to |-> "sv", recs |-> <<[Plain(Nil, c.writeSeq + 1) EXCEPT !.typ = "ccs"]>>],
                           [to |-> "sv", recs |-> <<Sealed("handshake", 0, <<"cl", master>>, fin)>>]}]
ClientFinished(c) ==
  IF findMsg(c, "Finished").body = <<"server", c.master, c.transcript>>
  THEN Stays([c EXCEPT !.pc = "done"]) ELSE Fails(c)
clientHandshake(c) ==
  CASE c.pc = "hello1" /\ Has(c, "HelloVerifyRequest") -> SecondHello(c)
    [] c.pc \in {"hello1", "hello2"} /\ Has(c, "ServerHelloDone") -> ClientKeys(c)
    [] c.pc = "fin" /\ Has(c, "Finished") -> ClientFinished(c)
    [] OTHER -> Stays(c)

\* --- serverHandshake ---

\* A ClientHello without the cookie is answered with one, and the reassembler expects the
\* message after it.
VerifyRequest(c, ch) ==
  LET f == Flight("sv", c, <<Msg("HelloVerifyRequest", 0, CookieOf)>>, FALSE)
  IN [conn |-> [Read(c, "hello2", f) EXCEPT !.sendSeq = 1, !.writeSeq = @ + 1, !.next = ch.seq + 1, !.partial = {}],
      sends |-> f]
ServerFlight(c, ch) ==
  LET sc == env.sc
      s == selectSuite(sc, ch.body.suites)
      n == c.sendSeq
      msgs == <<Msg("ServerHello", n, [random |-> "sr", suite |-> s])>>
                \o (IF s = "ecdhe" THEN <<Msg("Certificate", n + 1, "cert"), Msg("ServerKeyExchange", n + 2, "s"),
                                          Msg("ServerHelloDone", n + 3, Nil)>>
                    ELSE <<Msg("ServerKeyExchange", n + 1, "hint"), Msg("ServerHelloDone", n + 2, Nil)>>)
      f == Flight("sv", c, msgs, sc.split)
  IN IF ch.body.cookie # CookieOf \/ s = Nil \/ (s = "ecdhe" /\ ~sc.cert) THEN Fails(c)
     ELSE [conn |-> [Read(c, "cke", f) EXCEPT !.suite = s, !.sendSeq = n + Len(msgs), !.writeSeq = @ + Len(msgs),
                       !.transcript = <<ch>> \o msgs], sends |-> f]
\* The client's Finished is checked, and ours covers it.
ServerFinished(c) ==
  LET m == findMsg(c, "Finished")
      fin == Msg("Finished", c.sendSeq, <<"server", c.master, Append(c.transcript, m)>>)
      key == <<"sv", c.master>>
  IN IF m.body # <<"client", c.master, c.transcript>> THEN Fails(c)
     ELSE [conn |-> [c EXCEPT !.pc = "done", !.out = key, !.writeSeq = 1, !.flight = {}],
           sends |-> {[to |-> "cl", recs |-> <<[Plain(Nil, c.writeSeq) EXCEPT !.typ = "ccs"]>>],
                      [to |-> "cl", recs |-> <<Sealed("handshake", 0, key, fin)>>]}]
\* The keys are installed with the ClientKeyExchange, and what was held for want of them
\* is read before waiting for more.
ServerKeys(c) ==
  LET cke == findMsg(c, "ClientKeyExchange")
      pre == IF c.suite = "ecdhe" THEN <<cke.body, "s">> ELSE env.sc.spsk
      master == <<c.suite, pre, "cr", "sr">>
      keyed == drainDeferred([Read(c, "fin", c.flight) EXCEPT !.master = master, !.in = <<"cl", master>>, !.seen = {},
                                !.transcript = Append(@, cke)])
  IN IF keyed.pc = "fin" /\ Has(keyed, "Finished") THEN ServerFinished(keyed) ELSE Stays(keyed)
serverHandshake(c) ==
  CASE c.pc = "hello1" /\ Has(c, "ClientHello") ->
         LET ch == findMsg(c, "ClientHello") IN IF ch.body.cookie = CookieOf THEN ServerFlight(c, ch) ELSE VerifyRequest(c, ch)
    [] c.pc = "hello2" /\ Has(c, "ClientHello") -> ServerFlight(c, findMsg(c, "ClientHello"))
    [] c.pc = "cke" /\ Has(c, "ClientKeyExchange") -> ServerKeys(c)
    [] c.pc = "fin" /\ Has(c, "Finished") -> ServerFinished(c)
    [] OTHER -> Stays(c)

\* --- the connection's steps ---

C(e) == IF e = "cl" THEN cl ELSE sv
Put(e, c) == IF e = "cl" THEN cl' = c /\ UNCHANGED sv ELSE sv' = c /\ UNCHANGED cl
Handshaking(c) == c.pc \in {"hello1", "hello2", "cke", "fin"}
\* A datagram leaves the network, or is delivered and stays to be delivered again.
Taken(d) ==
  \/ net' = net \ {d} /\ UNCHANGED env
  \/ env.dups < env.sc.dups /\ env' = [env EXCEPT !.dups = @ + 1] /\ UNCHANGED net
\* readFlight, a datagram at a time.
ReadFlight(e, d) ==
  LET c == consumeHandshake(C(e), d.recs)
      step == IF e = "cl" THEN clientHandshake(c) ELSE serverHandshake(c) IN
  /\ d.to = e /\ Handshaking(C(e))
  /\ Put(e, step.conn)
  /\ \/ net' = (net \ {d}) \union step.sends /\ UNCHANGED env
     \/ env.dups < env.sc.dups /\ env' = [env EXCEPT !.dups = @ + 1] /\ net' = net \union step.sends
\* The read deadline: the last flight goes out again, and the deadline of the whole read
\* ends the handshake. A second is long: nothing is on its way, and the two ends' timers
\* run alike.
Fire(e) ==
  /\ Handshaking(C(e)) /\ ~\E d \in net : d.to = e
  /\ Handshaking(C(Other(e))) => C(e).tries <= C(Other(e)).tries /\ ~\E d \in net : d.to = Other(e)
  /\ IF C(e).tries < MaxTries
     THEN Put(e, [C(e) EXCEPT !.tries = @ + 1]) /\ net' = net \union C(e).flight
     ELSE Put(e, [C(e) EXCEPT !.pc = "failed"]) /\ UNCHANGED net
  /\ UNCHANGED env
\* Conn.Write, from the moment the handshake returned.
Write(e) ==
  /\ C(e).pc = "done" /\ env.wrote[e] < env.sc.data[e]
  /\ env' = [env EXCEPT !.wrote[e] = @ + 1]
  /\ net' = net \union {[to |-> Other(e), recs |-> <<Sealed("app", C(e).writeSeq, C(e).out, env.wrote[e] + 1)>>]}
  /\ Put(e, [C(e) EXCEPT !.writeSeq = @ + 1])
\* Conn.Read and processDatagram: another epoch, a replay and what does not open are
\* skipped, close_notify is the end.
processDatagram(c, r) ==
  IF r.epoch # 1 \/ Replayed(c, r.seq) THEN c
  ELSE IF r.key = c.in /\ r.typ = "alert" THEN [Seen(c, r.seq) EXCEPT !.pc = "eof"] ELSE Seen(c, r.seq)
Kept(c, r) == r.epoch = 1 /\ ~Replayed(c, r.seq) /\ r.key = c.in /\ r.typ = "app"
ReadData(e, d) ==
  LET r == d.recs[1] IN   \* an established peer puts one record in a datagram
  /\ d.to = e /\ C(e).pc = "done" /\ Len(d.recs) = 1
  /\ Put(e, processDatagram(C(e), r))
  /\ \E again \in BOOLEAN :
       /\ net' = IF again THEN net ELSE net \ {d}
       /\ again => env.dups < env.sc.dups
       /\ env' = [env EXCEPT !.dups = IF again THEN @ + 1 ELSE @,
                             !.read[e] = IF Kept(C(e), r) THEN Append(@, r.msg) ELSE @]
\* A longer datagram is a flight of the handshake, all of an older epoch.
ReadStale(e, d) == d.to = e /\ C(e).pc = "done" /\ Len(d.recs) > 1 /\ Taken(d) /\ UNCHANGED <<cl, sv>>
Close(e) ==
  /\ C(e).pc = "done" /\ env.sc.closing
  /\ net' = net \union {[to |-> Other(e), recs |-> <<Sealed("alert", C(e).writeSeq, C(e).out, Nil)>>]}
  /\ Put(e, [C(e) EXCEPT !.pc = "closed", !.writeSeq = @ + 1])
  /\ UNCHANGED env
\* The network loses a datagram; last: one of those nobody sends again.
Lose(d) ==
  /\ env.lost < env.sc.losses /\ net' = net \ {d}
  /\ env' = [env EXCEPT !.lost = @ + 1, !.last = @ \/ d \notin cl.flight \union sv.flight]
  /\ UNCHANGED <<cl, sv>>
\* A connection that is over reads nothing.
Discard(d) == C(d.to).pc \in {"failed", "eof", "closed"} /\ net' = net \ {d} /\ UNCHANGED <<cl, sv, env>>

Next ==
  \/ \E e \in {"cl", "sv"} : Fire(e) \/ Write(e) \/ Close(e)
  \/ \E d \in net : Lose(d) \/ Discard(d) \/ \E e \in {"cl", "sv"} : ReadFlight(e, d) \/ ReadData(e, d) \/ ReadStale(e, d)
Spec == Init /\ [][Next]_vars

\* The ends agree: a client that is done faces a server that is done, with the master
\* secret it has, over the exchange its configuration calls for; different pre-shared keys
\* end in neither (clientHandshake, serverHandshake, offered).
Over(c) == c.pc \in {"done", "eof", "closed"}
HandshakeAgreed ==
  /\ Over(cl) => Over(sv) /\ cl.master = sv.master /\ cl.in = sv.out /\ cl.out = sv.in
  /\ Over(sv) => (IF env.sc.cpsk = Nil THEN sv.suite = "ecdhe" ELSE sv.suite \in ToSet(pskSuites) /\ env.sc.cpsk = env.sc.spsk)

\* Between ends that match, a handshake is given up only when something was lost that is
\* not sent again: lost, repeated and reordered flights are recovered, also a Finished
\* that overtakes its ClientKeyExchange, unless a window's worth of data overtakes the
\* server's (readFlight, reassembler, drainDeferred).
Matching ==
  /\ env.sc.force = Nil /\ env.sc.data["sv"] < replayWindowSize
  /\ IF env.sc.cert THEN env.sc.cpsk = Nil /\ env.sc.trusted ELSE env.sc.cpsk = env.sc.spsk /\ env.sc.cpsk # Nil
GivenUpOnLoss == Matching /\ ~env.last => cl.pc # "failed" /\ sv.pc # "failed"

\* Every packet is read at most once, and only what the peer wrote (replayWindow.check).
ReadOnce ==
  \A e \in {"cl", "sv"} :
    /\ \A i, j \in DOMAIN env.read[e] : i # j => env.read[e][i] # env.read[e][j]
    /\ ToSet(env.read[e]) \subseteq 1..env.wrote[Other(e)]

\* What the package promises of lost datagrams ("retransmits the last flight on each
\* timeout"), which the flight after the client's keys and the server's Finished do not
\* keep: checked by no run.
AnyLossRecovered == Matching /\ env.lost <= MaxTries => cl.pc # "failed" /\ sv.pc # "failed"
====
