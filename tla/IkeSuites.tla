---- MODULE IkeSuites ----
\* What the IKEv2 responder makes of an offer: the cipher suite of the IKE SA and of the
\* Child SA, the additional key exchange, and the traffic selector of the initiator
\* narrowed to the addresses leased to it. One step is one message.
EXTENDS Integers, Sequences, SequencesExt
CONSTANTS Offers,     \* SA payloads: sequences of proposals
          Selectors,  \* TSi payloads: sequences of selectors
          Leases,     \* [4 -> address or Nil, 6 -> address or Nil]
          Nil
VARIABLES offer, tsi, lease
vars == <<offer, tsi, lease>>

\* A transform is [t, id, len]; a proposal is [num, proto, trs].
Supported == [encr  |-> {"gcm", "chacha", "cbc"}, prf |-> {"sha1", "sha256"}, integ |-> {"hmac256"},
              dh    |-> {"x25519", "modp"}, addke |-> {"mlkem768"}, esn |-> {}]
IsAEAD(id) == id \in {"gcm", "chacha"}
\* transform.Cipher: AES has three key lengths, of which 0 is the default one.
Builds(encr) == encr.id = "chacha" \/ encr.len \in {0, 128, 192, 256}

\* chosenTransform: the first entry of the type that is supported.
Chosen(p, type) == SelectSeq(p.trs, LAMBDA tr : tr.t = type /\ tr.id \in Supported[type])
Found(p, type) == Chosen(p, type) # <<>>

\* The proposal can be satisfied: a supported transform of every type its protocol needs,
\* an integrity transform when the cipher chosen carries none, and a cipher that builds.
Satisfies(p, proto, needed) ==
  /\ p.proto = proto
  /\ \A type \in needed : Found(p, type)
  /\ IsAEAD(Chosen(p, "encr")[1].id) \/ Found(p, "integ")
  /\ Builds(Chosen(p, "encr")[1])

\* The proposal echoed: the chosen transforms only, an integrity transform only for a
\* cipher that needs one; every type but the cipher without its key length.
One(p, type) == IF Found(p, type) THEN <<[t |-> type, id |-> Chosen(p, type)[1].id, len |-> 0]>> ELSE <<>>
Integ(p) == IF IsAEAD(Chosen(p, "encr")[1].id) THEN <<>> ELSE One(p, "integ")
AcceptIKE(p) == [p EXCEPT !.trs = <<Chosen(p, "encr")[1]>> \o One(p, "prf") \o Integ(p) \o One(p, "dh")]
AcceptESP(p) == [p EXCEPT !.trs = <<Chosen(p, "encr")[1]>> \o Integ(p) \o <<[t |-> "esn", id |-> "none", len |-> 0]>>]

\* SelectIKESuite and SelectESPSuite: the first proposal that can be satisfied, or none.
SelectIKESuite(sa) ==
  LET ok == SelectSeq(sa, LAMBDA p : Satisfies(p, "ike", {"encr", "prf", "dh"}))
  IN  IF ok = <<>> THEN Nil ELSE AcceptIKE(ok[1])
SelectESPSuite(sa) ==
  LET ok == SelectSeq(sa, LAMBDA p : Satisfies(p, "esp", {"encr"}))
  IN  IF ok = <<>> THEN Nil ELSE AcceptESP(ok[1])
\* SelectADDKE.
SelectADDKE(p) == IF Found(p, "addke") THEN Chosen(p, "addke")[1].id ELSE Nil

\* narrowTSiToAssignment. A selector is [fam, from, to, ports].
Covers(sel, a) == sel.from <= a /\ a <= sel.to
Template(ts, f) ==
  LET fam == SelectSeq(ts, LAMBDA s : s.fam = f)
      has == SelectSeq(fam, LAMBDA s : Covers(s, lease[f]))
  IN  IF has # <<>> THEN SubSeq(has, 1, 1) ELSE SubSeq(fam, 1, IF fam = <<>> THEN 0 ELSE 1)
Narrowed(ts, f) ==
  IF lease[f] = Nil THEN <<>>
  ELSE LET t == Template(ts, f)
       IN  IF t = <<>> THEN <<>> ELSE <<[t[1] EXCEPT !.from = lease[f], !.to = lease[f]]>>
Narrow(ts) ==
  LET out == Narrowed(ts, 4) \o Narrowed(ts, 6)
  IN  IF out = <<>> THEN ts ELSE out \o SelectSeq(ts, LAMBDA s : lease[s.fam] = Nil)

Init == offer = <<>> /\ tsi = <<>> /\ lease = [f \in {4, 6} |-> Nil]
\* An SA payload arrives; an IKE_AUTH with a configuration request arrives.
Offer == offer = <<>> /\ tsi = <<>> /\ offer' \in Offers /\ UNCHANGED <<tsi, lease>>
Request == offer = <<>> /\ tsi = <<>> /\ tsi' \in Selectors /\ lease' \in Leases /\ UNCHANGED offer
Next == Offer \/ Request
Spec == Init /\ [][Next]_vars

Kinds(p) == {p.trs[i].t : i \in DOMAIN p.trs}
\* The initiator runs the same selection on the answer (client.saInit, rekey.go), and
\* must arrive at the suite the responder has already derived keys for: the accepted
\* proposal is one that was offered, cut down to one transform of each kind, with an
\* integrity transform exactly when its cipher has none of its own, and selecting from
\* it gives it back.
AnswerReselected ==
  \A a \in {SelectIKESuite(offer), SelectESPSuite(offer)} \ {Nil} :
     /\ \E p \in ToSet(offer) :
           p.num = a.num /\ \A i \in DOMAIN a.trs :
              a.trs[i].t # "esn" => \E j \in DOMAIN p.trs : p.trs[j].t = a.trs[i].t /\ p.trs[j].id = a.trs[i].id
     /\ \A i, j \in DOMAIN a.trs : a.trs[i].t = a.trs[j].t => i = j
     /\ ("integ" \in Kinds(a)) # IsAEAD(a.trs[1].id)
     /\ a = (IF a.proto = "ike" THEN SelectIKESuite(<<a>>) ELSE SelectESPSuite(<<a>>))

\* Narrowing answers with a selector of the leased address and of nothing else in its
\* family, whose ports are those of a selector that allowed the address when one did,
\* and leaves a family without a lease as it was proposed.
NarrowedToLease ==
  LET out == Narrow(tsi)
      of(ts, f) == SelectSeq(ts, LAMBDA s : s.fam = f)
  IN  \A f \in {4, 6} :
        IF lease[f] = Nil THEN of(out, f) = of(tsi, f)
        ELSE /\ Len(of(out, f)) = (IF of(tsi, f) = <<>> THEN 0 ELSE 1)
             /\ \A s \in ToSet(of(out, f)) :
                   /\ s.from = lease[f] /\ s.to = lease[f]
                   /\ (\E t \in ToSet(of(tsi, f)) : Covers(t, lease[f]))
                        => \E t \in ToSet(of(tsi, f)) : Covers(t, lease[f]) /\ t.ports = s.ports
====
