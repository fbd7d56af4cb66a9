----------------------------- MODULE RingReplay -----------------------------
(***************************************************************************)
(* internal/replay: the sliding window nebula and toy share.  A slice of   *)
(* Size booleans indexed by counter % Size, and the highest counter.       *)
(*                                                                         *)
(* accepted and verdict are history variables: the code keeps neither.     *)
(***************************************************************************)
EXTENDS Integers, TLAPS

CONSTANTS
  Size,       \* len(w.seen)
  Counters    \* counters that authenticated packets carry

ASSUME SizeAssumption == Size \in Nat \ {0}
ASSUME CountersAssumption == Counters \subseteq Nat

VARIABLES
  highest,    \* Window.highest
  seen,       \* Window.seen
  accepted,   \* history: the counters Accept answered true for
  verdict     \* history: the last counter and Accept's answer

ring == <<highest, seen, accepted, verdict>>

Slots == 0 .. Size - 1

\* NewSize: a fresh slice, highest at Go's zero.
RingInit ==
  /\ highest = 0
  /\ seen = [i \in Slots |-> FALSE]
  /\ accepted = {}
  /\ verdict = [counter |-> 0, ok |-> FALSE]

\* Mutant of Passed: a jump of a whole window clears nothing.
PassedNotOnJump(c) ==
  IF c - highest >= Size THEN {} ELSE {i % Size : i \in (highest + 1) .. c}

\* The slots the window slides past when c becomes the highest: all of them
\* after a jump of a whole window, else those of highest+1 .. c.
Passed(c) ==
  IF c - highest >= Size THEN Slots ELSE {i % Size : i \in (highest + 1) .. c}

\* counter > w.highest
Slide(c) ==
  /\ c > highest
  /\ seen' = [i \in Slots |->
                IF i = c % Size THEN TRUE
                ELSE IF i \in Passed(c) THEN FALSE ELSE seen[i]]
  /\ highest' = c
  /\ accepted' = accepted \cup {c}
  /\ verdict' = [counter |-> c, ok |-> TRUE]

Refused(c) ==
  /\ verdict' = [counter |-> c, ok |-> FALSE]
  /\ UNCHANGED <<highest, seen, accepted>>

\* w.highest - counter >= n
TooOld(c) ==
  /\ c <= highest
  /\ highest - c >= Size
  /\ Refused(c)

\* Mutant of Duplicate: a duplicate inside the window is let through.
DuplicateTaken(c) ==
  /\ c <= highest
  /\ highest - c < Size
  /\ seen[c % Size]
  /\ verdict' = [counter |-> c, ok |-> TRUE]
  /\ UNCHANGED <<highest, seen, accepted>>

\* default, slot already set
Duplicate(c) ==
  /\ c <= highest
  /\ highest - c < Size
  /\ seen[c % Size]
  /\ Refused(c)

\* default, slot clear: a late counter inside the window
Late(c) ==
  /\ c <= highest
  /\ highest - c < Size
  /\ ~seen[c % Size]
  /\ seen' = [seen EXCEPT ![c % Size] = TRUE]
  /\ accepted' = accepted \cup {c}
  /\ verdict' = [counter |-> c, ok |-> TRUE]
  /\ UNCHANGED highest

Accept(c) == Slide(c) \/ TooOld(c) \/ Duplicate(c) \/ Late(c)

\* MarkSeen is upTo such calls, for 1 .. upTo.
RingNext == \E c \in Counters : Accept(c)

RingSpec == RingInit /\ [][RingNext]_ring

-----------------------------------------------------------------------------
\* Type invariant: seen keeps the length NewSize gave it, so counter % n is
\* always an index of it.
RingTypeOK ==
  /\ highest \in Nat
  /\ seen \in [Slots -> BOOLEAN]
  /\ accepted \subseteq Nat
  /\ verdict \in [counter : Nat, ok : BOOLEAN]

\* A ring slot says what happened to the one counter of the current window it
\* stands for, never to an older counter that shared the slot.
SlotsExact ==
  \A c \in 0 .. highest :
    highest - c < Size => (seen[c % Size] <=> c \in accepted)

Abstract == INSTANCE AntiReplay

\* Window.Accept takes each counter at most once and turns away no fresh
\* counter of the window.
ImplementsAntiReplay == Abstract!Spec

-----------------------------------------------------------------------------
(***************************************************************************)
(* For every window size and every set of counters, the ring implements    *)
(* AntiReplay.                                                             *)
(***************************************************************************)
\* The inductive invariant: the type, the exactness of the slots, and that
\* nothing ahead of highest was ever accepted (what makes clearing the passed
\* slots right).
RingIInv ==
  /\ RingTypeOK
  /\ SlotsExact
  /\ \A c \in accepted : c <= highest

-----------------------------------------------------------------------------
\* Two counters of one window share a slot only if they are equal: the reason
\* a ring of Size slots is enough.
LEMMA SlotUnique ==
  ASSUME NEW a \in Nat, NEW b \in Nat,
         b <= a, a - b < Size, a % Size = b % Size
  PROVE  a = b
<1> DEFINE qa == a \div Size
           qb == b \div Size
<1>1. Size \in Nat /\ Size > 0
  BY SizeAssumption
<1>2. qa \in Int /\ qb \in Int /\ a = Size * qa + (a % Size) /\ b = Size * qb + (b % Size)
  BY <1>1
<1>3. a - b = Size * (qa - qb)
  BY <1>1, <1>2
<1> HIDE DEF qa, qb
<1>4. qa - qb < 1
  <2>1. SUFFICES ASSUME qa - qb >= 1 PROVE FALSE
    BY <1>2
  <2>2. PICK k \in Nat : qa - qb = k + 1
    <3>1. qa - qb - 1 \in Nat /\ qa - qb = (qa - qb - 1) + 1
      BY <2>1, <1>2
    <3>2. QED BY <3>1
  <2>3. a - b = Size * k + Size
    BY <2>2, <1>3, <1>1
  <2>4. Size * k >= 0
    BY <1>1, <2>2
  <2>5. QED BY <2>3, <2>4, <1>1
<1>5. qa - qb > -1
  <2>1. SUFFICES ASSUME qa - qb <= -1 PROVE FALSE
    BY <1>2
  <2>2. PICK k \in Nat : qa - qb = -k - 1
    <3>1. qb - qa - 1 \in Nat /\ qa - qb = -(qb - qa - 1) - 1
      BY <2>1, <1>2
    <3>2. QED BY <3>1
  <2>3. a - b = -(Size * k) - Size
    BY <2>2, <1>3, <1>1
  <2>4. Size * k >= 0
    BY <1>1, <2>2
  <2>5. QED BY <2>3, <2>4, <1>1
<1>6. qa = qb
  BY <1>4, <1>5, <1>2
<1>7. QED BY <1>6, <1>2

LEMMA SlotInRange ==
  ASSUME NEW c \in Nat
  PROVE  c % Size \in Slots
BY SizeAssumption DEF Slots

-----------------------------------------------------------------------------
LEMMA RingInitIInv == RingInit => RingIInv
BY SizeAssumption, SlotInRange DEF RingInit, RingIInv, RingTypeOK, SlotsExact, Slots

\* Sliding forward keeps the slots exact: the slots passed are precisely those
\* of the counters that entered the window.
LEMMA SlideIInv ==
  ASSUME RingIInv, NEW c \in Counters, Slide(c)
  PROVE  RingIInv'
<1> USE DEF RingIInv, Slide
<1>0. c \in Nat /\ Size \in Nat /\ Size > 0
  BY CountersAssumption, SizeAssumption
<1>1. RingTypeOK'
  BY <1>0 DEF RingTypeOK, Slots
<1>2. \A d \in accepted' : d <= highest'
  BY <1>0 DEF RingTypeOK
<1>3. SlotsExact'
  <2> SUFFICES ASSUME NEW d \in 0 .. c, c - d < Size
               PROVE  seen'[d % Size] <=> d \in accepted \cup {c}
    BY DEF SlotsExact
  <2>0. d \in Nat /\ highest \in Nat /\ d % Size \in Slots
    BY <1>0, SlotInRange DEF RingTypeOK
  <2>1. CASE d = c
    BY <2>0, <2>1
  <2>2. CASE d # c
    <3>1. d % Size # c % Size
      BY <2>2, <2>0, <1>0, SlotUnique
    <3>2. seen'[d % Size] = IF d % Size \in Passed(c) THEN FALSE ELSE seen[d % Size]
      BY <3>1, <2>0
    <3>3. CASE d > highest
      <4>1. d % Size \in Passed(c)
        BY <3>3, <2>0, <1>0 DEF Passed
      <4>2. d \notin accepted
        BY <3>3, <2>0 DEF RingTypeOK
      <4>3. QED BY <4>1, <4>2, <3>2, <2>2
    <3>4. CASE d <= highest
      <4>1. c - highest < Size /\ highest - d < Size
        BY <3>4, <2>0, <1>0
      <4>2. ASSUME NEW i \in (highest + 1) .. c
            PROVE  i % Size # d % Size
        <5>1. i \in Nat /\ d <= i /\ i - d < Size /\ i # d
          BY <3>4, <2>0, <1>0
        <5>2. QED BY <5>1, <2>0, SlotUnique
      <4>3. d % Size \notin Passed(c)
        BY <4>1, <4>2, <2>0, <1>0 DEF Passed
      <4>4. seen[d % Size] <=> d \in accepted
        BY <4>1, <3>4, <2>0 DEF SlotsExact
      <4>5. QED BY <4>3, <4>4, <3>2, <2>2
    <3>5. QED BY <3>3, <3>4, <2>0
  <2>3. QED BY <2>1, <2>2
<1>4. QED BY <1>1, <1>2, <1>3

\* A late counter sets its own slot and no other counter's.
LEMMA LateIInv ==
  ASSUME RingIInv, NEW c \in Counters, Late(c)
  PROVE  RingIInv'
<1> USE DEF RingIInv, Late
<1>0. c \in Nat /\ highest \in Nat /\ Size \in Nat /\ Size > 0 /\ c % Size \in Slots
  BY CountersAssumption, SizeAssumption, SlotInRange DEF RingTypeOK
<1>1. RingTypeOK'
  BY <1>0 DEF RingTypeOK, Slots
<1>2. \A d \in accepted' : d <= highest'
  BY <1>0
<1>3. SlotsExact'
  <2> SUFFICES ASSUME NEW d \in 0 .. highest, highest - d < Size
               PROVE  seen'[d % Size] <=> d \in accepted \cup {c}
    BY DEF SlotsExact
  <2>0. d \in Nat /\ d % Size \in Slots
    BY <1>0, SlotInRange
  <2>1. CASE d = c
    BY <2>0, <2>1, <1>0 DEF RingTypeOK
  <2>2. CASE d # c
    <3>1. d % Size # c % Size
      <4>1. CASE d <= c
        BY <4>1, <2>2, <2>0, <1>0, SlotUnique
      <4>2. CASE c <= d
        BY <4>2, <2>2, <2>0, <1>0, SlotUnique
      <4>3. QED BY <4>1, <4>2, <2>0, <1>0
    <3>2. seen'[d % Size] = seen[d % Size]
      BY <3>1, <2>0 DEF RingTypeOK
    <3>3. seen[d % Size] <=> d \in accepted
      BY <2>0 DEF SlotsExact
    <3>4. QED BY <3>2, <3>3, <2>2
  <2>3. QED BY <2>1, <2>2
<1>4. QED BY <1>1, <1>2, <1>3

LEMMA RefusedIInv ==
  ASSUME RingIInv, NEW c \in Counters, Refused(c)
  PROVE  RingIInv'
BY CountersAssumption DEF RingIInv, RingTypeOK, SlotsExact, Refused

\* Every slot of internal/replay's ring describes the counter of the current
\* window it stands for, whatever the window size and whatever arrives.
THEOREM RingInvariant == RingSpec => []RingIInv
<1>1. RingIInv /\ [RingNext]_ring => RingIInv'
  <2> SUFFICES ASSUME RingIInv, [RingNext]_ring PROVE RingIInv'
    OBVIOUS
  <2>1. ASSUME NEW c \in Counters, Accept(c) PROVE RingIInv'
    BY <2>1, SlideIInv, LateIInv, RefusedIInv DEF Accept, TooOld, Duplicate
  <2>2. CASE UNCHANGED ring
    BY <2>2 DEF ring, RingIInv, RingTypeOK, SlotsExact
  <2>3. QED BY <2>1, <2>2 DEF RingNext
<1>2. QED BY RingInitIInv, <1>1, PTL DEF RingSpec

\* The slot Accept reads for a counter of the window tells whether that counter was
\* accepted, for every window size.
THEOREM RingSlotsExact == RingSpec => []SlotsExact
<1>1. RingIInv => SlotsExact BY DEF RingIInv
<1>2. QED BY RingInvariant, <1>1, PTL

\* One call of Window.Accept is one step of AntiReplay.
LEMMA AcceptRefines ==
  ASSUME RingIInv, NEW c \in Counters, Accept(c)
  PROVE  Abstract!Judge(c)
<1>0. c \in Nat /\ highest \in Nat /\ Size \in Nat
  BY CountersAssumption, SizeAssumption DEF RingIInv, RingTypeOK
<1>1. CASE Slide(c)
  BY <1>1 DEF Slide, Abstract!Judge, Abstract!Fresh
<1>2. CASE TooOld(c)
  <2>1. ~Abstract!Fresh(c)
    BY <1>0, <1>2 DEF TooOld, Abstract!Fresh
  <2>2. Abstract!Fresh(c) = FALSE
    BY <2>1 DEF Abstract!Fresh
  <2>3. QED BY <1>2, <2>2 DEF TooOld, Refused, Abstract!Judge
<1>3. CASE Duplicate(c) \/ Late(c)
  <2>1. seen[c % Size] <=> c \in accepted
    BY <1>0, <1>3 DEF RingIInv, SlotsExact, Duplicate, Late
  <2>2. ~(c > highest)
    BY <1>0, <1>3 DEF Duplicate, Late
  <2>3. CASE Duplicate(c)
    BY <2>1, <2>2, <2>3 DEF Duplicate, Refused, Abstract!Judge, Abstract!Fresh
  <2>4. CASE Late(c)
    BY <2>1, <2>2, <2>4 DEF Late, Abstract!Judge, Abstract!Fresh
  <2>5. QED BY <2>3, <2>4, <1>3
<1>4. QED BY <1>1, <1>2, <1>3 DEF Accept

\* internal/replay implements AntiReplay for every window size: no counter is
\* accepted twice and no fresh counter inside the window is turned away.
THEOREM RingRefines == RingSpec => ImplementsAntiReplay
<1>1. RingInit => Abstract!Init
  BY DEF RingInit, Abstract!Init, Abstract!NoVerdict
<1>2. RingIInv /\ [RingNext]_ring => [Abstract!Next]_(Abstract!vars)
  BY AcceptRefines DEF RingNext, ring, Abstract!Next, Abstract!vars
<1>3. QED BY <1>1, <1>2, RingInvariant, PTL DEF RingSpec, ImplementsAntiReplay, Abstract!Spec
=============================================================================
