----------------------------- MODULE AntiReplay -----------------------------
(***************************************************************************)
(* What internal/replay's anti-replay window promises, whatever its        *)
(* representation: a counter is accepted at most once, a counter ahead of  *)
(* everything accepted is always taken, and a late one is taken exactly    *)
(* when it lies less than Size behind the highest and was not seen before. *)
(*                                                                         *)
(* The state is the set of accepted counters itself, which no              *)
(* implementation keeps: RingReplay is shown to implement this module with *)
(* a bounded amount of memory.                                             *)
(***************************************************************************)
EXTENDS Integers

CONSTANTS
  Size,       \* how many counters, the highest included, can still be judged
  Counters    \* the counters a peer may put on the wire

VARIABLES
  highest,    \* the largest counter accepted so far, 0 before the first
  accepted,   \* every counter accepted since the window was created
  verdict     \* the last answer given to the packet path

vars == <<highest, accepted, verdict>>

NoVerdict == [counter |-> 0, ok |-> FALSE]

Fresh(c) == c > highest \/ (highest - c < Size /\ c \notin accepted)

Init ==
  /\ highest = 0
  /\ accepted = {}
  /\ verdict = NoVerdict

Judge(c) ==
  /\ verdict' = [counter |-> c, ok |-> Fresh(c)]
  /\ accepted' = IF Fresh(c) THEN accepted \cup {c} ELSE accepted
  /\ highest' = IF Fresh(c) /\ c > highest THEN c ELSE highest

Next == \E c \in Counters : Judge(c)

Spec == Init /\ [][Next]_vars
=============================================================================
