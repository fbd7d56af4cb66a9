------------------------------ MODULE Connect ------------------------------
(***************************************************************************)
(* `veepin connect': the reconnection loop, and the host state one session *)
(* installs and takes away again: addresses and routes (ClientRouter), the *)
(* resolver, and the kill switch that outlives the sessions.               *)
(*                                                                         *)
(* Every external command is one step, so that a command can fail, the     *)
(* session can die, a signal can arrive or the process can be killed       *)
(* between any two of them.  The commands still to run are kept in todo.   *)
(* The handshake is one step that succeeds or fails; the host is its       *)
(* routing table, the tunnel device and the resolver file.                 *)
(***************************************************************************)
EXTENDS Naturals, Sequences, FiniteSets

CONSTANTS
    Scenarios,      \* the flags and session results to run with
    MaxFailures,    \* how many commands may fail
    MaxKills        \* how often the process is killed outright

VARIABLES
    pr,     \* the process
    hs      \* the host

vars == <<pr, hs>>

-----------------------------------------------------------------------------
\* The two /1 halves of each family, the server's own address, one -route and
\* one -exclude prefix.  The server's address lies in the first half.
Half(f) == IF f = 4 THEN <<"4a", "4b">> ELSE <<"6a", "6b">>
Halves == {"4a", "4b", "6a", "6b"}
ServerHalf(c) == Half(IF c.srv6 THEN 6 ELSE 4)[1]

Route(dst, via, metric) == [dst |-> dst, via |-> via, metric |-> metric]

killSwitchMetric == 100

\* The routing decision for a destination that matches dst: the best metric
\* wins; with no such route the next wider prefix is asked.
Best(dst) ==
    LET rs == {r \in hs.routes : r.dst = dst}
    IN CHOOSE r \in rs : \A q \in rs : r.metric <= q.metric
Has(dst) == \E r \in hs.routes : r.dst = dst
Lookup(dst) == IF Has(dst) THEN Best(dst).via ELSE "physical"
LookupServer(c) == IF Has("server") THEN Best("server").via ELSE Lookup(ServerHalf(c))

\* A route added without a metric has the kernel's: 0, or 1024 in the IPv6 table.
defaultMetric6 == 1024
V6(dst) == dst \in {"6a", "6b"} \/ (dst = "server" /\ pr.c.srv6)
Installed(r) == IF r.metric = 0 /\ V6(r.dst) THEN [r EXCEPT !.metric = defaultMetric6] ELSE r
\* `ip route add' of a destination and metric that is taken: "File exists".
Exists(r) == \E q \in hs.routes : q.dst = r.dst /\ q.metric = Installed(r).metric

-----------------------------------------------------------------------------
\* One external command: what it adds or removes, what its success records in
\* the process, and whether "File exists" is an error.
Command(op, r) == [op |-> op, r |-> r, mark |-> {}, lenient |-> FALSE]
Add(dst, via) == Command("add", Route(dst, via, 0))
Del(dst, via) == Command("del", Route(dst, via, 0))
Marking(cmd, m) == [cmd EXCEPT !.mark = {m}]
Lenient(cmd) == [cmd EXCEPT !.lenient = TRUE]

When(b, cmds) == IF b THEN cmds ELSE <<>>

\* Both halves of family f through via; only the second success is recorded.
AddHalves(f, via, m) == <<Add(Half(f)[1], via), Marking(Add(Half(f)[2], via), m)>>
DelHalves(f, via) == <<Del(Half(f)[1], via), Del(Half(f)[2], via)>>

\* The family a full tunnel has no address in.
unroutedFamilies(c) ==
    {f \in {4, 6} \ c.fam : c.full /\ ~c.allowUnrouted /\ (f = 6 => c.v6host)}

\* The resolver backends: per-link settings that go with the link, or the file
\* with a copy of the previous one kept beside it; a file that another daemon
\* manages is refused.
DnsApply(c) ==
    CASE c.dns = "resolved" -> <<Marking(Command("link-dns", Route("dns", "tun", 0)), "dns")>>
      [] c.dns = "file" -> <<Command("backup", Route("dns", "file", 0)),
                             Marking(Command("resolv", Route("dns", "file", 0)), "dns")>>
      [] c.dns = "managed" -> <<Command("refuse", Route("dns", "file", 0))>>
      [] c.dns = "none" -> <<>>

DnsRevert(c) ==
    When(c.dns = "file", <<Command("restore", Route("dns", "file", 0)),
                           Command("unbackup", Route("dns", "file", 0))>>)

\* ClientRouter.Apply: the default route is read; addresses; the link; the host
\* route to the server; the halves; the family to block; -route and -exclude
\* prefixes; the resolver.
Apply(c) ==
    <<Command("read", Route("default", "physical", 0)),
      Marking(Command("up", Route("addr", "tun", 0)), "installed")>>
    \o When(c.gateway, <<Lenient(Marking(Add("server", "physical"), "host"))>>)
    \o When(c.full /\ 4 \in c.fam, AddHalves(4, "tun", "def4"))
    \o When(c.full /\ 6 \in c.fam, AddHalves(6, "tun", "def6"))
    \o When(6 \in unroutedFamilies(c), AddHalves(6, "unreachable", "block6"))
    \o When(4 \in unroutedFamilies(c), AddHalves(4, "unreachable", "block4"))
    \o When(c.route, <<Lenient(Marking(Add("route", "tun"), "route"))>>)
    \o When(c.exclude, <<Lenient(Marking(Add("exclude", "physical"), "exclude"))>>)
    \o DnsApply(c)

\* The removals, guarded by what Apply recorded, with the halves named by
\* device and type.
Removals(done, tun, unreachable) ==
    When("exclude" \in done, <<Del("exclude", "any")>>)
    \o When("route" \in done, <<Del("route", "any")>>)
    \o When("def4" \in done, DelHalves(4, tun))
    \o When("def6" \in done, DelHalves(6, tun))
    \o When("block6" \in done, DelHalves(6, unreachable))
    \o When("block4" \in done, DelHalves(4, unreachable))
    \o When("host" \in done, <<Del("server", "any")>>)

\* Mutant of Revert: the halves are named by prefix alone.
RevertByPrefix(c, done) == When("dns" \in done, DnsRevert(c)) \o Removals(done, "any", "any")
\* Mutant of Revert: the resolver is left to the disappearance of the device.
RevertRoutesOnly(c, done) == Removals(done, "tun", "unreachable")

\* ClientRouter.Revert: the resolver first, then the routes.
Revert(c, done) ==
    When("dns" \in done, DnsRevert(c)) \o Removals(done, "tun", "unreachable")

Blackhole(op, dst) == Lenient(Command(op, Route(dst, "blackhole", killSwitchMetric)))
CarveOut(op) == Lenient(Command(op, Route("server", "physical", killSwitchMetric)))

\* Mutant of Engage.
BlackholesFirst(c) ==
    <<Blackhole("add", "4a"), Blackhole("add", "4b"), Blackhole("add", "6a"),
      Blackhole("add", "6b"), Command("read", Route("default", "physical", 0)), CarveOut("add")>>

\* KillSwitch.Engage: the way to the server first, then both halves of both
\* families, whatever the tunnel carries.
Engage(c) ==
    <<Command("read", Route("default", "physical", 0)), CarveOut("add"),
      Blackhole("add", "4a"), Blackhole("add", "4b"),
      Blackhole("add", "6a"), Blackhole("add", "6b")>>

Disengage ==
    <<Blackhole("del", "4a"), Blackhole("del", "4b"), Blackhole("del", "6a"),
      Blackhole("del", "6b"), CarveOut("del")>>

-----------------------------------------------------------------------------
\* netFlags.resolve: -kill-switch with -no-route is refused, and so is -route
\* with an explicit -full-tunnel; -route alone means a split tunnel.
Refused(c) == (c.kill /\ c.noRoute) \/ (c.route /\ c.explicitFull)
Resolved(c) == IF c.route THEN [c EXCEPT !.full = FALSE] ELSE c

Start(c, failures, kills, stuck) ==
    [c |-> Resolved(c), phase |-> "dial", todo |-> <<>>, done |-> {}, dead |-> FALSE,
     killer |-> FALSE, why |-> "none", attempt |-> 1, signalled |-> FALSE,
     original |-> "none", torn |-> FALSE, stuck |-> stuck,
     failures |-> failures, kills |-> kills]

Init == \E c \in Scenarios :
    /\ ~Refused(c)
    /\ pr = Start(c, 0, 0, {})
    /\ hs = [routes |-> {}, tun |-> FALSE, resolv |-> "host", backup |-> "none"]

Running == pr.phase \notin {"exited", "killed"}

\* The device disappears, and with it every route through it.
WithoutTun(h) == [h EXCEPT !.tun = FALSE, !.routes = {r \in @ : r.via # "tun"}]

\* What oneSession reports decides what dialConnect does next.
Leave(why) == [pr EXCEPT !.why = why, !.phase = "revert", !.todo = Revert(pr.c, pr.done)]

Exit(p) == [p EXCEPT !.phase = "disengage", !.todo = IF p.killer THEN Disengage ELSE <<>>]

-----------------------------------------------------------------------------
\* client.Dial succeeds only if the server can be reached.
Dial ==
    /\ pr.phase = "dial" /\ LookupServer(pr.c) = "physical"
    /\ hs' = [hs EXCEPT !.tun = TRUE]
    /\ pr' = [pr EXCEPT !.done = {}, !.dead = FALSE,
                        !.phase = IF pr.c.noRoute THEN "up" ELSE "apply",
                        !.todo = IF pr.c.noRoute THEN <<>> ELSE Apply(pr.c)]

\* A rejected credential, or any other error (an unreachable server among them).
DialFails ==
    /\ pr.phase = "dial" /\ UNCHANGED hs
    /\ \E why \in {"auth", "outage"} : pr' = [pr EXCEPT !.why = why, !.phase = "decide"]

\* The session ends by itself; the engine has closed the device.
SessionDies ==
    /\ hs.tun /\ ~pr.dead
    /\ pr' = [pr EXCEPT !.dead = TRUE] /\ hs' = WithoutTun(hs)

\* The command at the head of todo.
Cmd == Head(pr.todo)

CanRun ==
    CASE Cmd.op = "add" -> ~Exists(Cmd.r) /\ (Cmd.r.via = "tun" => hs.tun)
      [] Cmd.op \in {"up", "link-dns"} -> hs.tun
      [] Cmd.op = "refuse" -> FALSE
      [] OTHER -> TRUE

\* `ip route del': by destination and, when they are named, by device, by metric
\* and in the IPv4 table by type; the best of the routes that match.
Matches(q, r) ==
    \/ r.via \in {q.via, "any"}
    \/ V6(r.dst) /\ r.via # "tun" /\ q.via # "tun"
Deleted(r) ==
    LET named == {q \in hs.routes : /\ q.dst = r.dst /\ Matches(q, r)
                                    /\ r.metric # 0 => q.metric = r.metric}
    IN {q \in named : \A p \in named : q.metric <= p.metric}

Effect ==
    CASE Cmd.op = "add" -> [hs EXCEPT !.routes = @ \cup {Installed(Cmd.r)}]
      [] Cmd.op = "del" -> [hs EXCEPT !.routes = @ \ Deleted(Cmd.r)]
      [] Cmd.op = "backup" -> [hs EXCEPT !.backup = hs.resolv]
      [] Cmd.op = "resolv" -> [hs EXCEPT !.resolv = "tunnel"]
      [] Cmd.op = "restore" -> [hs EXCEPT !.resolv = pr.original]
      [] Cmd.op = "unbackup" -> [hs EXCEPT !.backup = "none"]
      [] OTHER -> hs

\* The command succeeds.  resolvConfDNS keeps the file it read in memory too.
Runs ==
    /\ pr.todo # <<>> /\ CanRun
    /\ hs' = Effect
    /\ pr' = [pr EXCEPT !.todo = Tail(@), !.done = @ \cup Cmd.mark,
                        !.original = IF Cmd.op = "backup" THEN hs.resolv ELSE @]

\* "File exists", where that is not an error: nothing is recorded.
Tolerated ==
    /\ pr.todo # <<>> /\ ~CanRun /\ Cmd.lenient /\ Exists(Cmd.r)
    /\ pr' = [pr EXCEPT !.todo = Tail(@)] /\ UNCHANGED hs

Installs == pr.phase \in {"apply", "engage"}

\* Any other failure ends Apply, which the session survives, or Engage, which
\* takes back what it added.
CommandFails ==
    /\ pr.todo # <<>> /\ Installs
    /\ \/ ~CanRun /\ ~(Cmd.lenient /\ Exists(Cmd.r))
       \/ CanRun /\ pr.failures < MaxFailures
    /\ UNCHANGED hs
    /\ LET p == [pr EXCEPT !.failures = IF CanRun THEN @ + 1 ELSE @,
                           !.torn = @ \/ (Cmd.r.via = "unreachable" /\ Cmd.mark # {})]
       IN pr' = CASE pr.phase = "apply" -> [p EXCEPT !.todo = <<>>]
                  [] pr.phase = "engage" /\ Cmd.r.via = "blackhole" ->
                       [p EXCEPT !.phase = "undo", !.todo = Disengage]
                  [] pr.phase = "engage" -> [Leave("outage") EXCEPT !.failures = p.failures]

\* Revert and Disengage go on past a failure.  What the command should have removed
\* stays (stuck); the copy of the resolver file goes even when restoring it failed.
RemovalFails ==
    /\ pr.todo # <<>> /\ ~Installs /\ pr.failures < MaxFailures /\ UNCHANGED hs
    /\ pr' = [pr EXCEPT !.todo = Tail(@), !.failures = @ + 1,
                        !.stuck = @ \cup IF Cmd.op = "del" THEN Deleted(Cmd.r) ELSE {Cmd.r}]

\* Apply is over, with an error or without: armKillSwitch, once per command.
\* A split tunnel and a protocol with no single server address are refused, for
\* good.
Applied ==
    /\ pr.phase = "apply" /\ pr.todo = <<>> /\ UNCHANGED hs
    /\ pr' = IF ~pr.c.kill \/ pr.killer THEN [pr EXCEPT !.phase = "up"]
             ELSE IF ~pr.c.full \/ ~pr.c.gateway THEN Leave("refused")
             ELSE [pr EXCEPT !.phase = "engage", !.todo = Engage(pr.c)]

Engaged ==
    /\ pr.phase = "engage" /\ pr.todo = <<>> /\ UNCHANGED hs
    /\ pr' = [pr EXCEPT !.killer = TRUE, !.phase = "up"]

Undone ==
    /\ pr.phase = "undo" /\ pr.todo = <<>> /\ UNCHANGED hs
    /\ pr' = Leave("outage")

\* sess.Wait returns: the session died, ended cleanly, or was told to stop.
WaitReturns ==
    /\ pr.phase = "up" /\ UNCHANGED hs
    /\ \/ pr.dead /\ \E why \in {"outage", "stop"} : pr' = Leave(why)
       \/ pr.signalled /\ pr' = Leave("stop")

\* The deferred sess.Close runs after the deferred Revert.
SessionClose ==
    /\ pr.phase = "revert" /\ pr.todo = <<>>
    /\ hs' = WithoutTun(hs)
    /\ pr' = [pr EXCEPT !.phase = "decide", !.done = {}]

permanent(why) == why \in {"auth", "refused"}

\* dialConnect: whether there is another attempt.
Decide ==
    /\ pr.phase = "decide" /\ UNCHANGED hs
    /\ pr' = IF \/ pr.why = "stop" \/ pr.signalled \/ permanent(pr.why) \/ ~pr.c.retry
                \/ pr.c.retryMax > 0 /\ pr.attempt >= pr.c.retryMax
             THEN Exit(pr)
             ELSE [pr EXCEPT !.phase = "backoff"]

\* The wait before the next attempt, cut short by a signal.
Backoff ==
    /\ pr.phase = "backoff" /\ UNCHANGED hs
    /\ pr' = IF pr.signalled THEN Exit(pr)
             ELSE [pr EXCEPT !.phase = "dial", !.attempt = @ + 1, !.why = "none"]

Disengaged ==
    /\ pr.phase = "disengage" /\ pr.todo = <<>> /\ UNCHANGED hs
    /\ pr' = [pr EXCEPT !.phase = "exited", !.killer = FALSE]

\* Ctrl-C.
Signal ==
    /\ Running /\ ~pr.signalled /\ UNCHANGED hs
    /\ pr' = [pr EXCEPT !.signalled = TRUE]

\* SIGKILL: no defer runs; the kernel takes the device.
Kill ==
    /\ Running /\ pr.kills < MaxKills
    /\ hs' = WithoutTun(hs)
    /\ pr' = [pr EXCEPT !.phase = "killed", !.todo = <<>>, !.kills = @ + 1]

\* The same command again, after a kill.
Again ==
    /\ pr.phase = "killed" /\ UNCHANGED hs
    /\ pr' = Start(pr.c, pr.failures, pr.kills, pr.stuck)

Ended == pr.phase = "exited" /\ UNCHANGED vars

Next ==
    \/ Dial \/ DialFails \/ SessionDies
    \/ Runs \/ Tolerated \/ CommandFails \/ RemovalFails
    \/ Applied \/ Engaged \/ Undone \/ WaitReturns \/ SessionClose
    \/ Decide \/ Backoff \/ Disengaged \/ Signal
    \/ Kill \/ Again \/ Ended

Spec == Init /\ [][Next]_vars

-----------------------------------------------------------------------------
\* "if the tunnel drops, blackhole traffic instead of letting it resume in
\* plaintext, until the tunnel is back or veepin exits" (-kill-switch): from
\* the moment the switch is armed until the command exits, through every death
\* of the session, Revert and re-dial, no destination of either family but the
\* server's and the excluded ones leaves by the physical link.
FailsClosed ==
    pr.killer /\ Running /\ pr.phase # "disengage" =>
        \A d \in Halves : Lookup(d) # "physical"

\* A host the switch has closed can still reach the server, at every point of
\* Engage and Disengage and after a kill at any of them: "if the blackholes
\* went in first and the host route failed, the machine would be closed with no
\* way to reconnect" (KillSwitch.Engage).  Except through a blackhole that
\* Disengage failed to remove, which goes on to remove the way to the server.
NeverBricked ==
    \A r \in hs.routes \ pr.stuck : r.via = "blackhole" => LookupServer(pr.c) = "physical"

\* "a re-dial starts from a host whose routing table, addresses and resolver
\* configuration are as they were before the first attempt" (oneSession), the
\* switch's own routes apart; and a command that has exited has left nothing.
\* Unless it was killed, a removal failed, or an Apply installed one unreachable
\* half and failed at the other, which Revert does not know of.  And an IPv6 route
\* of the session beside one of the switch's stays: Revert names no metric, and
\* the switch's, the better of the two, is the one removed in its place.
HostRestored ==
    pr.phase \in {"decide", "backoff", "dial", "exited"} /\ pr.kills = 0 /\ ~pr.torn =>
        /\ \A r \in hs.routes \ pr.stuck :
              \/ r.metric = killSwitchMetric /\ pr.phase # "exited"
              \/ r.metric = defaultMetric6 /\ pr.c.kill
        /\ hs.resolv = "host" \/ Route("dns", "file", 0) \in pr.stuck
        /\ ~hs.tun

\* The pre-tunnel resolver file exists, in place or beside it: "a veepin killed
\* with SIGKILL -- which runs no defer -- leaves the operator something to
\* restore by hand" (resolvConfDNS).  Not so once the command is run again, which
\* takes the file it left behind for the host's, or when restoring it failed.
OriginalKept == "host" \in {hs.resolv, hs.backup}
=============================================================================
