-------------------------------- MODULE Toy --------------------------------
(***************************************************************************)
(* The TOY protocol (internal/toy): HELLO / CHALLENGE / AUTH / WELCOME     *)
(* over datagrams, the server's pending and established tables, and its    *)
(* expiry sweep.  The datagrams sent are the set net: one may be delivered *)
(* never, late or several times, which also stands for the client sending  *)
(* it again.  The server's read loop is one goroutine and the sweep is     *)
(* another: handleAuth reads the pending table and writes it under two     *)
(* separate locks, so it is two steps here.  A session's key is the pair   *)
(* of nonces it was derived from.                                          *)
(***************************************************************************)
EXTENDS Naturals, FiniteSets, Functions

CONSTANTS Clients,      \* hosts that dial; a host dials again under a new nonce
          Users,        \* the clients whose user name and secret the server has
          Ids,          \* session IDs
          Inner,        \* the pool's addresses
          MaxHalfOpen,  \* the gate's half-open cap
          MaxDials,     \* bound: dials of one client
          MaxSealed,    \* bound: sealed messages of one session
          MaxAges,      \* bound: times SessionTimeout goes by
          Nil

VARIABLES cl, sv, net, ages

vars == <<cl, sv, net, ages>>

NewClient(c, dials) == [phase |-> "idle", n |-> <<c, dials>>, dials |-> dials,
                        id |-> Nil, sn |-> Nil, addr |-> Nil, ctr |-> 0]

Init ==
    /\ cl = [c \in Clients |-> NewClient(c, 0)]
    /\ sv = [pending |-> <<>>, sessions |-> <<>>, pool |-> Inner, gate |-> 0,
             sn |-> 0, auth |-> Nil, closed |-> FALSE, overtaken |-> FALSE]
    /\ net = {} /\ ages = 0

Less(f, S) == Restrict(f, DOMAIN f \ S)
With(f, x, v) == [y \in DOMAIN f \cup {x} |-> IF y = x THEN v ELSE f[y]]
Client(n) == n[1]

-----------------------------------------------------------------------------
(* The client: Handshake, exchange, StartClient, keepaliveLoop, Close.     *)

Hello(c) ==
    /\ cl[c].phase = "idle" /\ cl[c].dials < MaxDials
    /\ cl' = [cl EXCEPT ![c].phase = "hello"]
    /\ net' = net \cup {[t |-> "hello", n |-> cl[c].n]}
    /\ UNCHANGED <<sv, ages>>

\* The CHALLENGE carries the server's nonce; the client keeps the first one it reads.
HandleChallenge(c) == \E m \in net :
    /\ cl[c].phase = "hello" /\ m.t = "challenge" /\ m.n = cl[c].n
    /\ cl' = [cl EXCEPT ![c].phase = "auth", ![c].id = m.id, ![c].sn = m.sn]
    /\ net' = net \cup {[t |-> "auth", n |-> cl[c].n, id |-> m.id, sn |-> m.sn]}
    /\ UNCHANGED <<sv, ages>>

HandleWelcome(c) == \E m \in net :
    /\ cl[c].phase = "auth" /\ m.t = "welcome" /\ m.n = cl[c].n
    /\ cl' = [cl EXCEPT ![c].phase = "up", ![c].addr = m.addr]
    /\ UNCHANGED <<sv, net, ages>>

\* A REJECT of either exchange is final; so are ten attempts without the answer.
HandleReject(c) ==
    /\ cl[c].phase \in {"hello", "auth"}
    /\ [t |-> "reject", n |-> cl[c].n] \in net
    /\ cl' = [cl EXCEPT ![c] = NewClient(c, @.dials + 1)]
    /\ UNCHANGED <<sv, net, ages>>

GiveUp(c) ==
    /\ cl[c].phase \in {"hello", "auth"}
    /\ cl' = [cl EXCEPT ![c] = NewClient(c, @.dials + 1)]
    /\ UNCHANGED <<sv, net, ages>>

\* seal: the counter is taken before the message is built.
Seal(c) ==
    /\ cl[c].phase = "up" /\ cl[c].ctr < MaxSealed
    /\ cl' = [cl EXCEPT ![c].ctr = @ + 1]
    /\ net' = net \cup {[t |-> "sealed", n |-> cl[c].n, id |-> cl[c].id, sn |-> cl[c].sn,
                         ctr |-> cl[c].ctr + 1]}
    /\ UNCHANGED <<sv, ages>>

\* Close sends a BYE the server ignores.
Close(c) ==
    /\ cl[c].phase = "up"
    /\ cl' = [cl EXCEPT ![c] = NewClient(c, @.dials + 1)]
    /\ UNCHANGED <<sv, net, ages>>

-----------------------------------------------------------------------------
(* The server's read loop.                                                 *)

Listening == ~sv.closed /\ sv.auth = Nil

Reject(m) == net' = net \cup {[t |-> "reject", n |-> m.n]}

Challenge(id, p) == net' = net \cup {[t |-> "challenge", n |-> p.n, id |-> id, sn |-> p.sn]}

PendingFor(n) == {id \in DOMAIN sv.pending : sv.pending[id].n = n}

NewSessionID == Ids \ (DOMAIN sv.pending \cup DOMAIN sv.sessions)

Allocate == CHOOSE a \in sv.pool : \A b \in sv.pool : a <= b

Refused(m) == Client(m.n) \notin Users \/ sv.gate >= MaxHalfOpen \/ NewSessionID = {} \/ sv.pool = {}

HandleHello == \E m \in net :
    /\ Listening /\ m.t = "hello"
    /\ \/ \E id \in PendingFor(m.n) : Challenge(id, sv.pending[id]) /\ UNCHANGED sv
       \/ PendingFor(m.n) = {} /\ Refused(m) /\ Reject(m) /\ UNCHANGED sv
       \/ /\ PendingFor(m.n) = {} /\ ~Refused(m)
          /\ \E id \in NewSessionID :
             LET p == [n |-> m.n, sn |-> sv.sn, addr |-> Allocate, old |-> FALSE] IN
             /\ sv' = [sv EXCEPT !.pending = With(@, id, p), !.pool = @ \ {p.addr},
                                 !.gate = @ + 1, !.sn = @ + 1]
             /\ Challenge(id, p)
    /\ UNCHANGED <<cl, ages>>

CheckProof(p, m) == p.n = m.n /\ p.sn = m.sn

\* handleAuth up to the proof: an unknown session is ignored, a wrong proof refused.
AuthLookup == \E m \in net :
    /\ Listening /\ m.t = "auth" /\ m.id \in DOMAIN sv.pending
    /\ LET p == sv.pending[m.id] IN
       \/ ~CheckProof(p, m) /\ Reject(m) /\ UNCHANGED sv
       \/ /\ CheckProof(p, m)
          /\ sv' = [sv EXCEPT !.auth = [id |-> m.id, p |-> p]] /\ UNCHANGED net
    /\ UNCHANGED <<cl, ages>>

\* Mutant of Done: a reservation that only a refusal returns.
NeverDone(g) == g

Done(g) == IF g > 0 THEN g - 1 ELSE 0

\* The rest of handleAuth: the gate, the tables, the tunnel and the WELCOME.
AuthCommit ==
    /\ sv.auth # Nil
    /\ LET p == sv.auth.p
           s == [n |-> p.n, sn |-> p.sn, addr |-> p.addr, old |-> FALSE, seen |-> {}] IN
       /\ sv' = [sv EXCEPT !.auth = Nil, !.gate = Done(@),
                           !.pending = Less(@, {sv.auth.id}),
                           !.sessions = With(@, sv.auth.id, s)]
       /\ net' = net \cup {[t |-> "welcome", n |-> p.n, addr |-> p.addr]}
    /\ UNCHANGED <<cl, ages>>

\* open: the tag, then the window, and only then the session is seen alive.
HandleSealed == \E m \in net :
    /\ Listening /\ m.t = "sealed" /\ m.id \in DOMAIN sv.sessions
    /\ LET s == sv.sessions[m.id] IN
       /\ s.n = m.n /\ s.sn = m.sn /\ m.ctr \notin s.seen
       /\ sv' = [sv EXCEPT !.sessions[m.id] = [s EXCEPT !.seen = @ \cup {m.ctr}, !.old = FALSE]]
    /\ UNCHANGED <<cl, net, ages>>

-----------------------------------------------------------------------------
(* Time and the sweep.                                                     *)

\* SessionTimeout goes by: longer than a handshake takes, so none is under way.
TimePasses ==
    /\ ages < MaxAges /\ sv.auth = Nil /\ ages' = ages + 1
    /\ \A c \in Clients : cl[c].phase \notin {"hello", "auth"}
    /\ sv' = [sv EXCEPT !.pending = [id \in DOMAIN @ |-> [@[id] EXCEPT !.old = TRUE]],
                        !.sessions = [id \in DOMAIN @ |-> [@[id] EXCEPT !.old = TRUE]]]
    /\ UNCHANGED <<cl, net>>

OldOf(f) == {id \in DOMAIN f : f[id].old}
AddrsOf(f) == {f[id].addr : id \in DOMAIN f}

\* What the sweep gives back to the pool: the addresses of the dead and of the stale.
Doomed == {sv.sessions[id].addr : id \in OldOf(sv.sessions)}
          \cup {sv.pending[id].addr : id \in OldOf(sv.pending)}

Expire ==
    /\ ~sv.closed /\ OldOf(sv.pending) \cup OldOf(sv.sessions) # {}
    /\ sv' = [sv EXCEPT !.pending = Less(@, OldOf(@)), !.sessions = Less(@, OldOf(@)),
                        !.pool = @ \cup Doomed,
                        !.gate = IF Cardinality(OldOf(sv.pending)) > @ THEN 0
                                 ELSE @ - Cardinality(OldOf(sv.pending)),
                        !.overtaken = @ \/ (sv.auth # Nil /\ sv.auth.id \in OldOf(sv.pending))]
    /\ UNCHANGED <<cl, net, ages>>

ServerClose ==
    /\ ~sv.closed /\ sv' = [sv EXCEPT !.closed = TRUE]
    /\ UNCHANGED <<cl, net, ages>>

ClientStep(c) == Hello(c) \/ HandleChallenge(c) \/ HandleWelcome(c) \/ HandleReject(c)
                 \/ GiveUp(c) \/ Seal(c) \/ Close(c)
ServerStep == HandleHello \/ AuthLookup \/ AuthCommit \/ HandleSealed

Next == (\E c \in Clients : ClientStep(c)) \/ ServerStep \/ TimePasses \/ Expire \/ ServerClose

Spec == Init /\ [][Next]_vars

-----------------------------------------------------------------------------
Tables == {<<id, sv.pending[id].addr>> : id \in DOMAIN sv.pending}
          \cup {<<id, sv.sessions[id].addr>> : id \in DOMAIN sv.sessions}

(* Every address of the pool is free or belongs to exactly one pending or  *)
(* established session: none is handed out twice and none is lost, unless  *)
(* the sweep took the pending session out from under an AUTH in progress.  *)
LeasesOwned == ~sv.overtaken =>
    /\ \A a \in Inner : Cardinality({e \in Tables : e[2] = a}) = IF a \in sv.pool THEN 0 ELSE 1
    /\ DOMAIN sv.pending \cap DOMAIN sv.sessions = {}

(* The gate counts the handshakes under way: one reservation for every     *)
(* pending session, whichever way handshakes have ended so far.            *)
GateBalanced == ~sv.overtaken => sv.gate = Cardinality(DOMAIN sv.pending)

(* Both ends mean the same tunnel: the server's session of an established  *)
(* client has that client's key and the address the client was told.       *)
Agreed == \A c \in Clients : \A id \in DOMAIN sv.sessions :
    LET s == sv.sessions[id]
    IN  cl[c].phase = "up" /\ s.n = cl[c].n => s.addr = cl[c].addr /\ s.sn = cl[c].sn /\ id = cl[c].id

=============================================================================
