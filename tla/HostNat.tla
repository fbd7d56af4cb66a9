------------------------------ MODULE HostNat ------------------------------
(* What internal/hostnet does to the host for a listener, one command at a   *)
(* time: the tunnel's address and link, and per address family the three     *)
(* tagged NAT rules, which Apply checks for and adds, which Teardown removes *)
(* by the recorded State and TeardownByTag removes by their comment alone.   *)
(* Commands of several listeners interleave, any command may fail, and the   *)
(* process may be killed between two of them; the rules outlive it.          *)
(*                                                                           *)
(* A listener's name is a sequence, so that one can begin with another, as   *)
(* "site-ab" begins with "site-a".  The rules of the host are a function     *)
(* from rule to the number of times it is installed.                         *)
EXTENDS Naturals, Sequences, FiniteSets

CONSTANTS Names, Configs, MaxFaults, MaxKills, MaxStarts, MaxDeletes, Nil

VARIABLES lis, hn

vars == <<lis, hn>>

natRules(bin, network, n, tun, wan) ==
    << [bin |-> bin, chain |-> "POSTROUTING", sel |-> network, out |-> wan, tag |-> n],
       [bin |-> bin, chain |-> "FORWARD", sel |-> "in", out |-> tun, tag |-> n],
       [bin |-> bin, chain |-> "FORWARD", sel |-> "out", out |-> tun, tag |-> n] >>

\* State(): what the configuration says, whatever of it could be installed.
State(c) == [tun |-> c.tun, wan |-> c.wan, network |-> c.network, network6 |-> c.network6]

\* The rules of one family, none where the listener has no such network.
Of(bin, network, n, st) ==
    IF network = Nil THEN << >> ELSE natRules(bin, network, n, st.tun, st.wan)

\* The rules Apply ensures, in its order: IPv4 first, IPv6 only where usable.
families(n, c, v6) ==
    IF c.wan = Nil THEN << >>
    ELSE Of("iptables", c.network, n, c)
            \o (IF v6 THEN Of("ip6tables", c.network6, n, c) ELSE << >>)

\* The rules Teardown removes, the families in the reverse order.
familiesFromState(n, st) ==
    IF st.wan = Nil THEN << >>
    ELSE Of("ip6tables", st.network6, n, st) \o Of("iptables", st.network, n, st)

Count(r) == IF r \in DOMAIN hn.rules THEN hn.rules[r] ELSE 0

Installed == {r \in DOMAIN hn.rules : hn.rules[r] > 0}

\* The host's rules with the count of r replaced.
With(r, k) == [x \in DOMAIN hn.rules \cup {r} |-> IF x = r THEN k ELSE hn.rules[x]]

\* A rule that is not veepin's, there from the beginning.
Foreign == [bin |-> "iptables", chain |-> "FORWARD", sel |-> "in", out |-> "br0", tag |-> Nil]

Init ==
    /\ lis = [n \in Names |-> [pc |-> "down", cfg |-> Nil, todo |-> << >>, saved |-> Nil,
                               v6 |-> FALSE, left |-> 0, hurt |-> FALSE, stale |-> FALSE,
                               starts |-> 0]]
    /\ hn = [rules |-> [r \in {Foreign} |-> 1], faults |-> 0, kills |-> 0, unsure |-> FALSE]

\* A command fails.
Fault == hn.faults < MaxFaults /\ hn' = [hn EXCEPT !.faults = @ + 1]

At(n, pc) == lis[n].pc = pc

\* A killed listener left rules, or a record, that State st does not describe.
Outlived(n, st) ==
    \/ lis[n].saved \notin {Nil, st}
    \/ \E r \in Installed : r.tag = n /\ \A i \in DOMAIN familiesFromState(n, st) :
                                              familiesFromState(n, st)[i] # r

\* The supervisor builds the listener; Apply begins.  A layer-2 listener has
\* no address and goes straight to its link.
Start(n) ==
    /\ lis[n].pc \in {"down", "killed"} /\ lis[n].starts < MaxStarts
    /\ \E c \in Configs[n] :
          lis' = [lis EXCEPT ![n].pc = IF c.network = Nil THEN "link" ELSE "addr",
                             ![n].cfg = c, ![n].starts = @ + 1,
                             ![n].stale = @ \/ Outlived(n, State(c))]
    /\ UNCHANGED hn

\* A failed Apply: the supervisor takes out what its configuration describes.
Abort(n) == [lis EXCEPT ![n].pc = "remove", ![n].todo = familiesFromState(n, State(lis[n].cfg)),
                        ![n].left = MaxDeletes]

\* ip addr add, where an address that is already there is a success.
AddrAdd(n) ==
    /\ At(n, "addr")
    /\ \/ lis' = [lis EXCEPT ![n].pc = "link"] /\ UNCHANGED hn
       \/ Fault /\ lis' = Abort(n)

\* ip link set up, then the advisory sysctl.  A layer-2 listener is done here.
LinkUp(n) ==
    /\ At(n, "link")
    /\ LET c == lis[n].cfg IN
       \/ /\ lis' = [lis EXCEPT ![n].pc = IF c.network = Nil THEN "persist"
                                          ELSE IF c.network6 = Nil THEN "ensure" ELSE "probe",
                                ![n].v6 = FALSE, ![n].todo = families(n, c, FALSE)]
          /\ UNCHANGED hn
       \/ Fault /\ lis' = Abort(n)

\* applyIPv6: the probe of ip6tables, the address, the sysctl.  A failure of
\* either of the first two leaves the listener with its IPv4 half.
applyIPv6(n) ==
    /\ At(n, "probe")
    /\ \/ /\ lis' = [lis EXCEPT ![n].pc = "ensure", ![n].v6 = TRUE,
                                ![n].todo = families(n, lis[n].cfg, TRUE)]
          /\ UNCHANGED hn
       \/ Fault /\ lis' = [lis EXCEPT ![n].pc = "ensure"]

\* Mutant of EnsureCheck: ensureRule without its check.
EnsureUnchecked(n) ==
    /\ At(n, "ensure") /\ lis[n].todo # << >>
    /\ lis' = [lis EXCEPT ![n].pc = "add"]
    /\ UNCHANGED hn

\* ensureRule's -C: a rule that is there is left alone, and a check that fails
\* for any other reason is taken for a rule that is not.
EnsureCheck(n) ==
    /\ At(n, "ensure") /\ lis[n].todo # << >>
    /\ \/ /\ Count(Head(lis[n].todo)) > 0
          /\ lis' = [lis EXCEPT ![n].todo = Tail(@)]
          /\ UNCHANGED hn
       \/ /\ Count(Head(lis[n].todo)) = 0
          /\ lis' = [lis EXCEPT ![n].pc = "add"]
          /\ UNCHANGED hn
       \/ /\ Count(Head(lis[n].todo)) > 0
          /\ hn.faults < MaxFaults
          /\ hn' = [hn EXCEPT !.faults = @ + 1, !.unsure = TRUE]
          /\ lis' = [lis EXCEPT ![n].pc = "add"]

\* ensureRule's -A.  A failing IPv4 rule fails Apply; a failing IPv6 rule ends
\* that family, which is the last.
EnsureAdd(n) ==
    /\ At(n, "add")
    /\ LET r == Head(lis[n].todo) IN
       \/ /\ hn' = [hn EXCEPT !.rules = With(r, Count(r) + 1)]
          /\ lis' = [lis EXCEPT ![n].pc = "ensure", ![n].todo = Tail(@)]
       \/ /\ r.bin = "iptables"
          /\ Fault
          /\ lis' = Abort(n)
       \/ /\ r.bin = "ip6tables"
          /\ Fault
          /\ lis' = [lis EXCEPT ![n].pc = "ensure", ![n].todo = << >>, ![n].v6 = FALSE]

\* Apply has returned nil, ErrNoWAN or ErrNoIPv6: the State is persisted, or
\* the write fails and is only logged.
Persist(n) ==
    /\ At(n, "persist") \/ (At(n, "ensure") /\ lis[n].todo = << >>)
    /\ \/ lis' = [lis EXCEPT ![n].pc = "up", ![n].saved = State(lis[n].cfg)] /\ UNCHANGED hn
       \/ Fault /\ lis' = [lis EXCEPT ![n].pc = "up"]

\* Mutant of ruleHasTag: comparing only the beginning of the comment.
TagPrefix(r, n) == r.tag # Nil /\ Len(r.tag) >= Len(n) /\ SubSeq(r.tag, 1, Len(n)) = n

\* ruleHasTag compares the whole comment.
ruleHasTag(r, n) == r.tag = n

Chains == << <<"iptables", "POSTROUTING">>, <<"iptables", "FORWARD">>,
             <<"ip6tables", "POSTROUTING">>, <<"ip6tables", "FORWARD">> >>

\* The listener stops: Teardown from the recorded State, or by tag without one.
Stop(n) ==
    /\ At(n, "up")
    /\ lis' = IF lis[n].saved # Nil
              THEN [lis EXCEPT ![n].pc = "remove", ![n].left = MaxDeletes,
                               ![n].todo = familiesFromState(n, lis[n].saved)]
              ELSE [lis EXCEPT ![n].pc = "list", ![n].todo = Chains]
    /\ UNCHANGED hn

\* A teardown has returned; the record of the State is removed.
Down(n, hurt) == [lis EXCEPT ![n].pc = "down", ![n].saved = Nil, ![n].todo = << >>,
                             ![n].left = 0, ![n].hurt = @ \/ hurt]

\* removeRule's -C: no rule left, or a check that failed, is the next rule.
RemoveCheck(n) ==
    /\ At(n, "remove") /\ lis[n].todo # << >>
    /\ \/ /\ Count(Head(lis[n].todo)) > 0 /\ lis[n].left > 0
          /\ lis' = [lis EXCEPT ![n].pc = "delete"]
          /\ UNCHANGED hn
       \/ /\ Count(Head(lis[n].todo)) = 0 \/ lis[n].left = 0
          /\ lis' = [lis EXCEPT ![n].todo = Tail(@), ![n].left = MaxDeletes]
          /\ UNCHANGED hn
       \/ /\ Count(Head(lis[n].todo)) > 0 /\ lis[n].left > 0
          /\ Fault
          /\ lis' = [lis EXCEPT ![n].todo = Tail(@), ![n].left = MaxDeletes, ![n].hurt = TRUE]

\* removeRule's -D, after which the same rule is checked again.  The first
\* deletion that fails ends the teardown.
RemoveDelete(n) ==
    /\ At(n, "delete")
    /\ LET r == Head(lis[n].todo) IN
       \/ /\ hn' = [hn EXCEPT !.rules = With(r, Count(r) - 1)]
          /\ lis' = [lis EXCEPT ![n].pc = "remove", ![n].left = @ - 1]
       \/ Fault /\ lis' = Down(n, TRUE)

\* teardownByTagWith, one chain: its listing, and a deletion for each line that
\* carries the tag.  A chain that cannot be listed is skipped.
ByTag(n) ==
    /\ At(n, "list") /\ lis[n].todo # << >>
    /\ LET at == Head(lis[n].todo)
           tagged == {r \in Installed : <<r.bin, r.chain>> = at /\ ruleHasTag(r, n)} IN
       \/ /\ hn' = [hn EXCEPT !.rules = [r \in DOMAIN @ |-> IF r \in tagged THEN 0 ELSE @[r]]]
          /\ lis' = [lis EXCEPT ![n].todo = Tail(@)]
       \/ /\ Fault
          /\ lis' = [lis EXCEPT ![n].todo = Tail(@), ![n].hurt = @ \/ tagged # {}]
       \/ /\ tagged # {}
          /\ Fault
          /\ lis' = Down(n, TRUE)

\* The teardown is through all its rules or chains.
Ended(n) ==
    /\ lis[n].pc \in {"remove", "list"} /\ lis[n].todo = << >>
    /\ lis' = Down(n, FALSE)
    /\ UNCHANGED hn

\* The process is killed: what its commands did stays, and so does the file
\* with the State of an earlier Apply.
Kill(n) ==
    /\ lis[n].pc \notin {"down", "killed"} /\ hn.kills < MaxKills
    /\ lis' = [lis EXCEPT ![n].pc = "killed", ![n].todo = << >>, ![n].left = 0]
    /\ hn' = [hn EXCEPT !.kills = @ + 1]

Next ==
    \E n \in Names :
        \/ Start(n) \/ AddrAdd(n) \/ LinkUp(n) \/ applyIPv6(n)
        \/ EnsureCheck(n) \/ EnsureAdd(n) \/ Persist(n)
        \/ Stop(n) \/ RemoveCheck(n) \/ RemoveDelete(n) \/ ByTag(n) \/ Ended(n)
        \/ Kill(n)

Spec == Init /\ [][Next]_vars

-----------------------------------------------------------------------------
(* A listener that came down, through Teardown or TeardownByTag, after a     *)
(* failed Apply or a restart after a kill, leaves none of its rules on the   *)
(* host, and a rule of someone else is never touched; a listener that is up  *)
(* has every rule of each family it reports, whatever the other listeners    *)
(* do.  Excepted are a teardown one of whose commands failed, and a listener *)
(* that was killed and came back with a different configuration, whose       *)
(* earlier rules or record no longer describe it.                            *)
HostExact ==
    /\ hn.rules[Foreign] = 1
    /\ \A n \in Names :
         /\ At(n, "down") /\ ~lis[n].hurt /\ ~lis[n].stale => \A r \in Installed : r.tag # n
         /\ At(n, "up") => LET rs == families(n, lis[n].cfg, lis[n].v6) IN
                              \A i \in DOMAIN rs : Count(rs[i]) > 0

\* Apply is idempotent: while every check is answered, no rule is ever
\* installed twice, over any number of starts, kills and failures elsewhere.
NoDuplicates == ~hn.unsure => \A r \in Installed : hn.rules[r] = 1
=============================================================================
