-------------------------------- MODULE Gate --------------------------------
(***************************************************************************)
(* Admission control for unauthenticated peers (dataplane.Gate): a token   *)
(* bucket for each source address and one bound on the handshakes in       *)
(* flight.  Buckets of sources that went quiet are evicted, at most once   *)
(* every sourceIdleTimeout.  Beside each the model keeps the bucket that   *)
(* is never evicted, which is what the rate limit means.                   *)
(***************************************************************************)
EXTENDS Naturals, FiniteSets, Functions, TLAPS

CONSTANTS
    Sources, MaxHalfOpen, PerSourceRate, PerSourceBurst, sourceIdleTimeout,
    MaxAdmits, MaxTime

VARIABLES
    gate,   \* the Gate
    env     \* the clock, the reservations held, and the ideal buckets

vars == <<gate, env>>

Least(a, b) == IF a < b THEN a ELSE b

Init ==
    /\ gate = [halfOpen |-> 0, sources |-> <<>>, lastGC |-> 0]
    /\ env = [now |-> 0, held |-> 0, admits |-> 0, agreed |-> TRUE,
              ideal |-> [s \in Sources |-> [tokens |-> PerSourceBurst, last |-> 0]]]

\* A bucket at the time it is asked: refilled for the time since.
Refilled(b, now) ==
    [tokens |-> Least(b.tokens + (now - b.last) * PerSourceRate, PerSourceBurst), last |-> now]

Taken(b) == [b EXCEPT !.tokens = IF @ < 1 THEN @ ELSE @ - 1]

\* Mutant of gc: a gc that evicts every bucket once it runs.
EvictAll(g, now) ==
    IF now - g.lastGC < sourceIdleTimeout THEN g ELSE [g EXCEPT !.lastGC = now, !.sources = <<>>]

\* Gate.gc
gc(g, now) ==
    IF now - g.lastGC < sourceIdleTimeout THEN g
    ELSE [g EXCEPT !.lastGC = now,
                   !.sources = Restrict(@, {s \in DOMAIN @ : now - @[s].last <= sourceIdleTimeout})]

\* Gate.allowSource: the bucket of a new source is full.
Bucket(g, s, now) ==
    Refilled(IF s \in DOMAIN g.sources THEN g.sources[s]
             ELSE [tokens |-> PerSourceBurst, last |-> now], now)

\* Gate.Admit: the rate first, which takes a token even when the server turns
\* out to be full; then the bound.
Admit(s) ==
    /\ env.admits < MaxAdmits
    /\ LET g == gc(gate, env.now)
           b == Bucket(g, s, env.now)
           i == Refilled(env.ideal[s], env.now)
           admitted == b.tokens >= 1 /\ g.halfOpen < MaxHalfOpen
           all == DOMAIN g.sources \cup {s}
       IN /\ gate' = [g EXCEPT !.sources = [x \in all |-> IF x = s THEN Taken(b) ELSE g.sources[x]],
                               !.halfOpen = IF admitted THEN @ + 1 ELSE @]
          /\ env' = [env EXCEPT !.admits = @ + 1, !.ideal[s] = Taken(i),
                                !.held = IF admitted THEN @ + 1 ELSE @,
                                !.agreed = (b.tokens >= 1) = (i.tokens >= 1)]

\* Gate.Done, by a caller that was admitted.
Done ==
    /\ env.held > 0
    /\ gate' = [gate EXCEPT !.halfOpen = IF @ > 0 THEN @ - 1 ELSE @]
    /\ env' = [env EXCEPT !.held = @ - 1]

Tick ==
    /\ env.now < MaxTime
    /\ env' = [env EXCEPT !.now = @ + 1] /\ UNCHANGED gate

Next == (\E s \in Sources : Admit(s)) \/ Done \/ Tick

Spec == Init /\ [][Next]_vars

-----------------------------------------------------------------------------
\* "Without eviction the limiter would itself become the unbounded allocation"
\* (sourceIdleTimeout): with it, every source is still limited to the rate it
\* would have been limited to without; and the reservations are those held.
LimiterExact == env.agreed /\ gate.halfOpen = env.held /\ gate.halfOpen <= MaxHalfOpen

-----------------------------------------------------------------------------
(* Proof that eviction is invisible, whatever the rates and the sources    *)

\* A bucket that may be evicted is one that has filled up again: five minutes at the
\* sustained rate are worth more than the burst (the defaults: 300 * 10 against 20).
ConstantsOK ==
    /\ MaxHalfOpen \in Nat /\ PerSourceRate \in Nat /\ PerSourceBurst \in Nat
    /\ sourceIdleTimeout \in Nat
    /\ sourceIdleTimeout * PerSourceRate >= PerSourceBurst

Buckets == [tokens : Nat, last : Nat]

\* Full again by the given time.
FilledUp(b, now) == b.tokens + (now - b.last) * PerSourceRate >= PerSourceBurst

\* The table g agrees with the ideal buckets: what it holds is the same, what it does
\* not hold has filled up.
Agrees(g, now) ==
    /\ g.sources \in [DOMAIN g.sources -> Buckets] /\ DOMAIN g.sources \subseteq Sources
    /\ \A s \in DOMAIN g.sources : g.sources[s] = env.ideal[s]
    /\ \A s \in Sources \ DOMAIN g.sources : FilledUp(env.ideal[s], now)

IInv ==
    /\ gate.halfOpen \in Nat /\ gate.lastGC \in Nat /\ DOMAIN gate = {"halfOpen", "sources", "lastGC"}
    /\ env \in [now : Nat, held : Nat, admits : Nat, agreed : BOOLEAN, ideal : [Sources -> Buckets]]
    /\ \A s \in Sources : env.ideal[s].tokens <= PerSourceBurst /\ env.ideal[s].last <= env.now
    /\ Agrees(gate, env.now)
    /\ LimiterExact

LEMMA Idle ==
    ASSUME ConstantsOK, NEW b \in Buckets, NEW now \in Nat, now - b.last > sourceIdleTimeout, b.last <= now
    PROVE  FilledUp(b, now)
<1> DEFINE d == now - b.last
<1>1. d \in Nat /\ d >= sourceIdleTimeout /\ b.tokens \in Nat
  BY DEF Buckets, ConstantsOK
<1> HIDE DEF d
<1>2. d * PerSourceRate >= sourceIdleTimeout * PerSourceRate
  BY <1>1 DEF ConstantsOK
<1>3. d * PerSourceRate \in Nat /\ sourceIdleTimeout * PerSourceRate \in Nat
  BY <1>1 DEF ConstantsOK
<1>4. b.tokens + d * PerSourceRate >= PerSourceBurst
  BY <1>1, <1>2, <1>3 DEF ConstantsOK
<1>5. QED BY <1>4 DEF FilledUp, d

\* Gate.gc leaves a table that still agrees: it drops full buckets only.
LEMMA Evicts ==
    ASSUME ConstantsOK, IInv
    PROVE  /\ Agrees(gc(gate, env.now), env.now)
           /\ gc(gate, env.now).halfOpen = gate.halfOpen /\ gc(gate, env.now).lastGC \in Nat
           /\ DOMAIN gc(gate, env.now) = {"halfOpen", "sources", "lastGC"}
<1> DEFINE now == env.now
           kept == {s \in DOMAIN gate.sources : now - gate.sources[s].last <= sourceIdleTimeout}
           g == gc(gate, now)
<1>0. now \in Nat /\ \A s \in Sources : env.ideal[s] \in Buckets /\ env.ideal[s].last \in Nat
  BY DEF IInv, Buckets
<1>1. CASE now - gate.lastGC < sourceIdleTimeout
  BY <1>0, <1>1 DEF gc, IInv
<1>2. CASE ~(now - gate.lastGC < sourceIdleTimeout)
  <2>1. g.sources = [s \in kept |-> gate.sources[s]] /\ g.halfOpen = gate.halfOpen /\ g.lastGC = now
        /\ DOMAIN g = {"halfOpen", "sources", "lastGC"}
    BY <1>2 DEF gc, Restrict, IInv
  <2>2. \A s \in DOMAIN gate.sources \ kept : FilledUp(env.ideal[s], now)
    <3> SUFFICES ASSUME NEW s \in DOMAIN gate.sources, s \notin kept PROVE FilledUp(env.ideal[s], now)
      OBVIOUS
    <3>1. s \in Sources /\ gate.sources[s] = env.ideal[s]
      BY DEF IInv, Agrees
    <3>2. now - env.ideal[s].last > sourceIdleTimeout /\ env.ideal[s].last <= now
      BY <1>0, <3>1 DEF IInv, ConstantsOK
    <3>3. QED BY <1>0, <3>1, <3>2, Idle
  <2>3. QED BY <1>0, <2>1, <2>2 DEF IInv, Agrees
<1>3. QED BY <1>1, <1>2

\* The bucket Gate.allowSource works on is the ideal one, in the table or new.
LEMMA SameBucket ==
    ASSUME ConstantsOK, IInv, NEW s \in Sources
    PROVE  /\ Bucket(gc(gate, env.now), s, env.now) = Refilled(env.ideal[s], env.now)
           /\ Taken(Refilled(env.ideal[s], env.now)) \in Buckets
           /\ Taken(Refilled(env.ideal[s], env.now)).last = env.now
           /\ Taken(Refilled(env.ideal[s], env.now)).tokens <= PerSourceBurst
<1> DEFINE now == env.now
           g == gc(gate, now)
           i == env.ideal[s]
           fill == i.tokens + (now - i.last) * PerSourceRate
<1>0. now \in Nat /\ i.tokens \in Nat /\ i.last \in Nat /\ i.last <= now /\ Agrees(g, now)
  BY Evicts DEF IInv, Buckets
<1>1. fill \in Nat
  <2>1. now - i.last \in Nat
    BY <1>0
  <2>2. (now - i.last) * PerSourceRate \in Nat
    BY <2>1 DEF ConstantsOK
  <2>3. QED BY <1>0, <2>2
<1>2. Refilled(i, now) = [tokens |-> Least(fill, PerSourceBurst), last |-> now]
  BY DEF Refilled
<1>3. Least(fill, PerSourceBurst) \in Nat /\ Least(fill, PerSourceBurst) <= PerSourceBurst
  BY <1>1 DEF Least, ConstantsOK
<1>4. ASSUME s \in DOMAIN g.sources PROVE Bucket(g, s, now) = Refilled(i, now)
  BY <1>0, <1>4 DEF Bucket, Agrees
<1>5. ASSUME s \notin DOMAIN g.sources PROVE Bucket(g, s, now) = Refilled(i, now)
  <2>1. Least(fill, PerSourceBurst) = PerSourceBurst
    BY <1>0, <1>1, <1>5 DEF Agrees, FilledUp, Least, ConstantsOK
  <2>2. (now - now) * PerSourceRate = 0
    BY <1>0 DEF ConstantsOK
  <2>3. Least(PerSourceBurst + (now - now) * PerSourceRate, PerSourceBurst) = PerSourceBurst
    BY <2>2 DEF Least, ConstantsOK
  <2>4. Bucket(g, s, now) = [tokens |-> PerSourceBurst, last |-> now]
    BY <1>5, <2>3 DEF Bucket, Refilled
  <2>5. QED BY <1>2, <2>1, <2>4
<1> DEFINE tk == Least(fill, PerSourceBurst)
<1> HIDE DEF fill, tk
<1>6. Taken([tokens |-> tk, last |-> now]) = [tokens |-> IF tk < 1 THEN tk ELSE tk - 1, last |-> now]
  BY DEF Taken
<1>7. (IF tk < 1 THEN tk ELSE tk - 1) \in Nat /\ (IF tk < 1 THEN tk ELSE tk - 1) <= PerSourceBurst
  BY <1>3 DEF tk, ConstantsOK
<1>8. QED BY <1>0, <1>2, <1>4, <1>5, <1>6, <1>7 DEF Buckets, tk

LEMMA AdmitStep ==
    ASSUME ConstantsOK, IInv, NEW s \in Sources, Admit(s)
    PROVE  IInv'
<1> DEFINE now == env.now
           g == gc(gate, now)
           b == Bucket(g, s, now)
           i == Refilled(env.ideal[s], now)
           admitted == b.tokens >= 1 /\ g.halfOpen < MaxHalfOpen
           all == DOMAIN g.sources \cup {s}
           table == [x \in all |-> IF x = s THEN Taken(b) ELSE g.sources[x]]
           count == IF admitted THEN g.halfOpen + 1 ELSE g.halfOpen
<1>1. b = i /\ Taken(i) \in Buckets /\ Taken(i).last = now /\ Taken(i).tokens <= PerSourceBurst
  BY SameBucket
<1>2. Agrees(g, now) /\ g.halfOpen = gate.halfOpen /\ g.lastGC \in Nat
      /\ DOMAIN g = {"halfOpen", "sources", "lastGC"}
  BY Evicts
<1>3. /\ gate' = [g EXCEPT !.sources = table, !.halfOpen = count]
      /\ env' = [env EXCEPT !.admits = @ + 1, !.ideal[s] = Taken(i),
                            !.held = IF admitted THEN @ + 1 ELSE @,
                            !.agreed = (b.tokens >= 1) = (i.tokens >= 1)]
  BY DEF Admit
<1> HIDE DEF g, b, i, admitted, all, table
<1>4. /\ gate'.sources = table /\ gate'.halfOpen = count /\ gate'.lastGC = g.lastGC
      /\ DOMAIN gate' = {"halfOpen", "sources", "lastGC"}
  BY <1>2, <1>3
<1>5. env \in [now : Nat, held : Nat, admits : Nat, agreed : BOOLEAN, ideal : [Sources -> Buckets]]
  BY DEF IInv
<1>6. /\ env'.now = now /\ env'.ideal = [env.ideal EXCEPT ![s] = Taken(i)]
      /\ env'.held = (IF admitted THEN env.held + 1 ELSE env.held)
      /\ env'.agreed = TRUE
  BY <1>1, <1>3, <1>5
<1>7. env' \in [now : Nat, held : Nat, admits : Nat, agreed : BOOLEAN, ideal : [Sources -> Buckets]]
  <2>1. env'.admits = env.admits + 1 /\ DOMAIN env' = DOMAIN env
    BY <1>3, <1>5
  <2>2. env' = [now |-> env'.now, held |-> env'.held, admits |-> env'.admits,
                agreed |-> env'.agreed, ideal |-> env'.ideal]
    BY <1>3, <1>5
  <2>3. env'.ideal \in [Sources -> Buckets]
    BY <1>1, <1>5, <1>6
  <2>4. env'.now \in Nat
    BY <1>5, <1>6
  <2>5. env'.admits \in Nat
    BY <1>5, <2>1
  <2>6. env'.agreed \in BOOLEAN
    BY <1>6
  <2>7. env'.held \in Nat
    <3>1. env.held \in Nat /\ (env'.held = env.held \/ env'.held = env.held + 1)
      BY <1>5, <1>6
    <3>2. QED BY <3>1
  <2>8. QED BY <2>2, <2>3, <2>4, <2>5, <2>6, <2>7
<1>8. Agrees(gate, env.now)'
  <2>1. table \in [all -> Buckets] /\ all \subseteq Sources
    BY <1>1, <1>2 DEF Agrees, table, all
  <2>2. \A x \in all : table[x] = env'.ideal[x]
    BY <1>1, <1>2, <1>5, <1>6, <2>1 DEF Agrees, table, all
  <2>3. \A x \in Sources \ all : FilledUp(env'.ideal[x], now)
    BY <1>2, <1>5, <1>6 DEF Agrees, all
  <2>4. QED BY <1>4, <1>6, <2>1, <2>2, <2>3 DEF Agrees, FilledUp
<1>9. LimiterExact'
  BY <1>2, <1>4, <1>6, <1>5 DEF LimiterExact, IInv, admitted, ConstantsOK
<1>10. \A x \in Sources : env'.ideal[x].tokens <= PerSourceBurst /\ env'.ideal[x].last <= env'.now
  BY <1>1, <1>5, <1>6 DEF IInv
<1>11. QED BY <1>2, <1>4, <1>7, <1>8, <1>9, <1>10 DEF IInv

\* Time passing fills the buckets that are not in the table further.
LEMMA TickStep ==
    ASSUME ConstantsOK, IInv, Tick
    PROVE  IInv'
<1>1. env \in [now : Nat, held : Nat, admits : Nat, agreed : BOOLEAN, ideal : [Sources -> Buckets]]
  BY DEF IInv
<1>2. /\ gate' = gate /\ env'.now = env.now + 1 /\ env'.ideal = env.ideal /\ env'.held = env.held
      /\ env'.agreed = env.agreed
      /\ env' \in [now : Nat, held : Nat, admits : Nat, agreed : BOOLEAN, ideal : [Sources -> Buckets]]
  BY <1>1 DEF Tick
<1>3. \A s \in Sources : FilledUp(env.ideal[s], env.now) => FilledUp(env.ideal[s], env.now + 1)
  <2> SUFFICES ASSUME NEW s \in Sources, FilledUp(env.ideal[s], env.now)
               PROVE  FilledUp(env.ideal[s], env.now + 1)
    OBVIOUS
  <2>1. env.ideal[s].tokens \in Nat /\ env.ideal[s].last \in Nat /\ env.now \in Nat
    BY <1>1 DEF Buckets
  <2> DEFINE d == env.now - env.ideal[s].last
  <2>2. d \in Int /\ (env.now + 1) - env.ideal[s].last = d + 1
    BY <2>1
  <2> HIDE DEF d
  <2>3. (d + 1) * PerSourceRate = d * PerSourceRate + PerSourceRate /\ d * PerSourceRate \in Int
    BY <2>2 DEF ConstantsOK
  <2>4. env.ideal[s].tokens + d * PerSourceRate >= PerSourceBurst
    BY DEF FilledUp, d
  <2>5. QED BY <2>1, <2>2, <2>3, <2>4 DEF FilledUp, ConstantsOK
<1>4. Agrees(gate, env.now)'
  BY <1>2, <1>3 DEF IInv, Agrees, FilledUp
<1>5. QED BY <1>1, <1>2, <1>4 DEF IInv, LimiterExact, Buckets

LEMMA DoneStep ==
    ASSUME ConstantsOK, IInv, Done
    PROVE  IInv'
<1>1. env \in [now : Nat, held : Nat, admits : Nat, agreed : BOOLEAN, ideal : [Sources -> Buckets]]
  BY DEF IInv
<1>2. /\ env'.now = env.now /\ env'.ideal = env.ideal /\ env'.held = env.held - 1
      /\ env'.agreed = env.agreed /\ env.held > 0
      /\ env' \in [now : Nat, held : Nat, admits : Nat, agreed : BOOLEAN, ideal : [Sources -> Buckets]]
  BY <1>1 DEF Done
<1>3. /\ gate'.sources = gate.sources /\ gate'.lastGC = gate.lastGC
      /\ gate'.halfOpen = gate.halfOpen - 1
      /\ DOMAIN gate' = {"halfOpen", "sources", "lastGC"}
  BY <1>1, <1>2 DEF Done, IInv, LimiterExact
<1>4. Agrees(gate, env.now)'
  BY <1>2, <1>3 DEF IInv, Agrees, FilledUp
<1>5. QED BY <1>1, <1>2, <1>3, <1>4 DEF IInv, LimiterExact, ConstantsOK

\* For every rate, burst, bound and number of sources: forgetting idle sources never
\* admits a handshake the bucket would have refused, nor refuses one it would have
\* allowed, and the gate counts the reservations held (Gate.Admit, Gate.gc, Gate.Done).
THEOREM EvictionInvisible ==
    ASSUME ConstantsOK
    PROVE  Spec => []LimiterExact
<1>1. Init => IInv
  BY DEF Init, IInv, LimiterExact, Agrees, Buckets, FilledUp, ConstantsOK
<1>2. IInv /\ [Next]_vars => IInv'
  <2> SUFFICES ASSUME IInv, [Next]_vars PROVE IInv'
    OBVIOUS
  <2>1. CASE UNCHANGED vars
    BY <2>1 DEF IInv, LimiterExact, Agrees, FilledUp, vars
  <2>2. QED BY <2>1, AdmitStep, DoneStep, TickStep DEF Next
<1>3. IInv => LimiterExact
  BY DEF IInv
<1>4. QED BY <1>1, <1>2, <1>3, PTL DEF Spec
=============================================================================
