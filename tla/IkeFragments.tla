---- MODULE IkeFragments ----
\* RFC 7383 fragmentation between an initiator and the responder's handleSecured: what
\* sealMaybeFragment cuts up, the path repeats, reorders and loses, and
\* fragReassembler.add puts together again.
EXTENDS Integers, Sequences, FiniteSets
CONSTANTS Sizes,         \* sizes of protected messages, in fragments
          MaxFragments,  \* maxFragments
          MaxBytes,      \* maxReassembledBytes, in fragments
          MaxMessages,   \* bound: requests
          MaxAges,       \* bound: how often the reassembly times out
          Nil
VARIABLES snd, net, sa, out, ages
vars == <<snd, net, sa, out, ages>>

\* buildFragmentedMessage: a message of total fragments; only the first names the type
\* of the first inner payload.
Fragment(id, k, total) == [id |-> id, k |-> k, total |-> total, first |-> IF k = 1 THEN id ELSE 0]
Fragments(id, total) == {Fragment(id, k, total) : k \in 1 .. total}

\* sealMaybeFragment: an oversized message is an error of the sender.
Seal(total) ==
  /\ snd.id < MaxMessages /\ snd.answered
  /\ IF total > MaxFragments THEN UNCHANGED <<snd, net>>
     ELSE /\ snd' = [id |-> snd.id + 1, total |-> total, answered |-> FALSE]
          /\ net' = net \cup Fragments(snd.id + 1, total)
  /\ UNCHANGED <<sa, out, ages>>

Empty == [id |-> 0, total |-> 0, parts |-> {}, first |-> 0, old |-> FALSE]
\* the four reasons to start over
Restart(r, f) == r.parts = {} \/ f.id # r.id \/ f.total # r.total \/ r.old
Begun(r, f) == IF Restart(r, f) THEN [id |-> f.id, total |-> f.total, parts |-> {}, first |-> 0, old |-> FALSE] ELSE r
Valid(f) == f.total \in 1 .. MaxFragments /\ f.k \in 1 .. f.total
\* fragReassembler.add: the reassembler after f, and the message when f completes it.
Add(r, f) ==
  LET b == Begun(r, f)
      after == [b EXCEPT !.parts = @ \cup {f.k}, !.first = IF f.k = 1 THEN f.first ELSE @]
  IN  IF ~Valid(f) THEN [r |-> r, msg |-> Nil]
      ELSE IF f.k \in b.parts THEN [r |-> b, msg |-> Nil]
      ELSE IF Cardinality(b.parts) + 1 > MaxBytes THEN [r |-> Empty, msg |-> Nil]
      ELSE IF Cardinality(after.parts) < after.total THEN [r |-> after, msg |-> Nil]
      ELSE [r |-> Empty, msg |-> [id |-> after.id, parts |-> [k \in 1 .. after.total |-> k], first |-> after.first]]

\* Mutant of Expected.
ExpectedNone(f) == TRUE
\* handleSecured's check comes before the fragment is even opened.
Expected(f) == f.id = sa.recv

\* handleSecured: a fragment of the expected message; the complete one is handled, which
\* moves the expected ID and answers. sa.seen are the fragments that got this far since
\* the reassembly began.
Arrive(f) ==
  /\ f \in net
  /\ IF ~Expected(f) THEN UNCHANGED <<snd, sa, out>>
     ELSE LET a == Add(sa.reasm, f)
              seen == IF a.r = Empty THEN {} ELSE IF sa.reasm.old THEN {f.k} ELSE sa.seen \cup {f.k}
          IN  IF a.msg = Nil THEN sa' = [sa EXCEPT !.reasm = a.r, !.seen = seen] /\ UNCHANGED <<snd, out>>
              ELSE /\ sa' = [sa EXCEPT !.reasm = a.r, !.recv = @ + 1, !.seen = {}]
                   /\ out' = Append(out, a.msg)
                   /\ snd' = [snd EXCEPT !.answered = TRUE]
  /\ UNCHANGED <<net, ages>>

Lose(f) == f \in net /\ net' = net \ {f} /\ UNCHANGED <<snd, sa, out, ages>>
\* fragReassemblyTTL passes.
Age ==
  /\ sa.reasm.parts # {} /\ ~sa.reasm.old /\ ages < MaxAges
  /\ sa' = [sa EXCEPT !.reasm.old = TRUE] /\ ages' = ages + 1 /\ UNCHANGED <<snd, net, out>>

Init ==
  /\ snd = [id |-> 0, total |-> 0, answered |-> TRUE] /\ net = {} /\ ages = 0
  /\ sa = [recv |-> 1, reasm |-> Empty, seen |-> {}] /\ out = <<>>
Next == (\E n \in Sizes : Seal(n)) \/ (\E f \in net : Arrive(f) \/ Lose(f)) \/ Age
Spec == Init /\ [][Next]_vars

\* Repeated, late and reordered fragments of other messages never touch the one being put
\* together: it holds exactly the fragments of the expected message that arrived, and
\* what comes out is each message once, whole and in order.
Reassembles ==
  /\ sa.reasm.parts = sa.seen
  /\ sa.seen # 1 .. snd.total \/ snd.answered
  /\ \A i \in DOMAIN out : out[i].id = i /\ out[i].first = i
  /\ sa.reasm.parts # {} => sa.reasm.id = snd.id /\ sa.reasm.total = snd.total
====
