---- MODULE OrderedStream ----
(***************************************************************************)
(* What a reliable control channel promises the code above it: each side   *)
(* reads the messages the other side wrote, every one of them once and in  *)
(* the order they were written, and never one that was not written yet.    *)
(***************************************************************************)
EXTENDS Naturals, Sequences

CONSTANTS Sides,      \* the two ends
          Peer(_),    \* the other end of each
          Messages    \* what may be written

VARIABLES wrote, read

vars == <<wrote, read>>

Init ==
  /\ wrote = [c \in Sides |-> <<>>]
  /\ read = [c \in Sides |-> <<>>]

Write(c, m) ==
  /\ wrote' = [wrote EXCEPT ![c] = Append(@, m)]
  /\ UNCHANGED read

Read(c) ==
  /\ Len(read[c]) < Len(wrote[Peer(c)])
  /\ read' = [read EXCEPT ![c] = Append(@, wrote[Peer(c)][Len(@) + 1])]
  /\ UNCHANGED wrote

Next == \E c \in Sides : Read(c) \/ \E m \in Messages : Write(c, m)

Spec == Init /\ [][Next]_vars
====
