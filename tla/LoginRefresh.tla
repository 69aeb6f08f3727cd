--------------------------- MODULE LoginRefresh ---------------------------
(***************************************************************************)
(* opkssh login and its refresh loop with the user's ssh-agent:            *)
(* commands/login.go, LoginCmd.Run, login, LoginWithRefresh and            *)
(* addCertToAgent.  One command runs at a time; earlier ones may have left *)
(* certificates in the agent.  Certificates are numbered as they are made. *)
(* A tick is a second; the command waits for the provider, for its timer   *)
(* and for the agent, and its other steps take less than one.  The OpenID  *)
(* Provider may answer late, refuse, or never answer; the agent may be     *)
(* away, refuse, answer late, or do what it is asked without its answer    *)
(* arriving before the deadline.                                           *)
(***************************************************************************)
EXTENDS AgentLifetime, FiniteSets

CONSTANTS Settings,     \* pairs of --lifetime (flag) and agent_lifetime (conf)
          TokenLives,   \* seconds an ID token may be good for
          Early,        \* refresh this long before expiry: a minute
          Deadline,     \* seconds for an exchange with the agent: five
          MaxCerts,     \* bound on the certificates made
          MaxRuns       \* bound on the login commands started

ASSUME SettingsAssumption == Settings \subseteq [flag : Setting, conf : Setting]
ASSUME LivesAssumption == TokenLives \subseteq Nat /\ Early \in Nat \ {0}
ASSUME DeadlineAssumption == Deadline \in Nat \ {0}
ASSUME RunsAssumption == MaxCerts \in Nat /\ MaxRuns \in Nat

VARIABLES
    opts,       \* the arguments of the command
    pc,         \* its next step
    ver,        \* the certificates made so far: the newest one's number
    life,       \* the seconds its token was good for when issued
    left,       \* the seconds its token is still good for
    until,      \* the seconds until claims.Expiration of the loop
    disk,       \* the certificate in the key files, 0 for none
    agent,      \* the certificates in the agent with the seconds they stay
    agentCert,  \* l.agentCert, 0 for nil
    io,         \* the seconds until the deadline of the connection to the agent
    runs,       \* the login commands started
    before,     \* history: disk when the command started
    faults,     \* history: exchanges of this command with the agent that failed
    lost        \* history: removals refused and additions not confirmed in time

vars == <<opts, pc, ver, life, left, until, disk, agent, agentCert, io, runs,
          before, faults, lost>>

Options == [print : BOOLEAN, auto : BOOLEAN, sock : BOOLEAN,
            life : Settings]

Lifetime(o) == ResolveAgentLifetimeSecs(o.life.flag, o.life.conf)

Init ==
    /\ opts \in Options
    /\ pc = "ended"
    /\ ver = 0 /\ life = 0 /\ left = 0 /\ until = 0
    /\ disk = 0 /\ agent = {} /\ agentCert = 0 /\ io = 0
    /\ runs = 0 /\ before = 0 /\ faults = 0 /\ lost = 0

Goto(label) == pc' = label

\* Run resolves the lifetime before it opens the browser; it may also fail
\* to read its config or to find a provider.
Start ==
    /\ pc = "ended" /\ runs < MaxRuns
    /\ runs' = runs + 1
    /\ opts' \in Options
    /\ pc' \in {"ended"} \cup IF Lifetime(opts') = Invalid THEN {} ELSE {"auth"}
    /\ agentCert' = 0 /\ before' = disk /\ faults' = 0
    /\ UNCHANGED <<ver, life, left, until, disk, agent, io, lost>>

\* The provider issues a token, from which a certificate is made ...
Issue(label) ==
    /\ ver < MaxCerts
    /\ ver' = ver + 1
    /\ life' \in TokenLives
    /\ left' = life'
    /\ Goto(label)

\* ... or does not; without an access token that was asked for the command
\* fails in the same way.
Refuse ==
    /\ Goto("ended")
    /\ UNCHANGED <<ver, life, left>>

Auth ==
    /\ pc = "auth"
    /\ Issue("output") \/ Refuse
    /\ UNCHANGED <<opts, until, disk, agent, agentCert, io, runs, before, faults, lost>>

\* login prints the keys or writes them; writing may fail.
Output ==
    /\ pc = "output"
    /\ \/ opts.print /\ Goto("gate") /\ UNCHANGED disk
       \/ ~opts.print /\ Goto("gate") /\ disk' = ver
       \/ ~opts.print /\ Goto("ended") /\ UNCHANGED disk
    /\ UNCHANGED <<opts, ver, life, left, until, agent, agentCert, io, runs,
                   before, faults, lost>>

-----------------------------------------------------------------------------
\* Variant of AgentGate with a mistake: the superseded certificate stays.
AgentGateAddOnly ==
    /\ pc = "gate"
    /\ Goto(IF ~opts.print /\ opts.sock THEN "add" ELSE "after")
    /\ io' = Deadline
    /\ UNCHANGED <<opts, ver, life, left, until, disk, agent, agentCert, runs,
                   before, faults, lost>>

\* maybeAddCertToAgent, and the early returns of addCertToAgent: no socket, or
\* nobody answers the dial.  AddKeyToAgent is set by the CLI.
AgentGate ==
    /\ pc = "gate"
    /\ \/ /\ opts.print \/ ~opts.sock
          /\ Goto("after")
          /\ UNCHANGED <<io, faults>>
       \/ /\ ~opts.print /\ opts.sock
          /\ \/ /\ Goto(IF agentCert = 0 THEN "add" ELSE "remove")
                /\ io' = Deadline
                /\ UNCHANGED faults
             \/ Goto("after") /\ faults' = faults + 1 /\ UNCHANGED io
    /\ UNCHANGED <<opts, ver, life, left, until, disk, agent, agentCert, runs, before, lost>>

Without(v) == {e \in agent : e.ver # v}

\* Removing the superseded certificate is advisory: the agent removes it, or
\* has none; or it refuses and keeps it, and the command goes on all the same.
\* When the deadline passes or the connection breaks first, the agent may or may
\* not have removed it, and Add fails on the same connection.
AgentRemove ==
    /\ pc = "remove"
    /\ \/ /\ io > 0 /\ Goto("add")
          /\ agent' = Without(agentCert)
          /\ UNCHANGED <<io, faults, lost>>
       \/ /\ io > 0 /\ Goto("add")
          /\ \E e \in agent : e.ver = agentCert
          /\ faults' = faults + 1 /\ lost' = lost + 1
          /\ UNCHANGED <<agent, io>>
       \/ /\ Goto("after") /\ io' = 0
          /\ agent' \in {agent, Without(agentCert)}
          /\ faults' = faults + 1
          /\ UNCHANGED lost
    /\ UNCHANGED <<opts, ver, life, left, until, disk, agentCert, runs, before>>

\* Variant of AgentAdd with a mistake: the certificate added is not remembered.
AgentAddForgets ==
    /\ pc = "add"
    /\ agent' = agent \cup {[ver |-> ver, secs |-> Lifetime(opts)]}
    /\ Goto("after")
    /\ UNCHANGED <<opts, ver, life, left, until, disk, agentCert, io, runs, before,
                   faults, lost>>

\* The agent adds the certificate and says so in time; or it refuses, or the
\* request does not reach it; or it adds it and the answer does not come in time.
AgentAdd ==
    /\ pc = "add"
    /\ LET added == agent \cup {[ver |-> ver, secs |-> Lifetime(opts)]}
       IN  \/ io > 0 /\ agent' = added /\ agentCert' = ver /\ UNCHANGED <<faults, lost>>
           \/ faults' = faults + 1 /\ UNCHANGED <<agent, agentCert, lost>>
           \/ agent' = added /\ faults' = faults + 1 /\ lost' = lost + 1
              /\ UNCHANGED agentCert
    /\ Goto("after") /\ io' = 0
    /\ UNCHANGED <<opts, ver, life, left, until, disk, runs, before>>

-----------------------------------------------------------------------------
\* Variant of After with a mistake: the minute is added, not kept in reserve.
AfterLate ==
    /\ pc = "after"
    /\ \/ ~opts.auto /\ Goto("ended") /\ UNCHANGED until
       \/ opts.auto /\ Goto("wait") /\ until' = left + 2 * Early
    /\ UNCHANGED <<opts, ver, life, left, disk, agent, agentCert, io, runs, before, faults, lost>>

\* login returns, or a refresh is done.  LoginWithRefresh reads the expiration
\* of the new token and goes on, unless there is no refresh token or the
\* token does not parse.
After ==
    /\ pc = "after"
    /\ \/ ~opts.auto /\ Goto("ended") /\ UNCHANGED until
       \/ opts.auto /\ Goto("ended") /\ UNCHANGED until
       \/ opts.auto /\ Goto("wait") /\ until' = left
    /\ UNCHANGED <<opts, ver, life, left, disk, agent, agentCert, io, runs, before, faults, lost>>

Timer ==
    /\ pc = "wait" /\ until <= Early
    /\ Goto("refresh")
    /\ UNCHANGED <<opts, ver, life, left, until, disk, agent, agentCert, io, runs,
                   before, faults, lost>>

\* The context is cancelled by a signal.
Cancel ==
    /\ pc \in {"auth", "wait", "refresh"}
    /\ Goto("ended")
    /\ UNCHANGED <<opts, ver, life, left, until, disk, agent, agentCert, io, runs,
                   before, faults, lost>>

Refresh ==
    /\ pc = "refresh"
    /\ Issue("rewrite") \/ Refuse
    /\ UNCHANGED <<opts, until, disk, agent, agentCert, io, runs, before, faults, lost>>

\* writeKeysToDestination, whatever the arguments say about printing.
Rewrite ==
    /\ pc = "rewrite"
    /\ \/ disk' = ver /\ Goto("gate")
       \/ UNCHANGED disk /\ Goto("ended")
    /\ UNCHANGED <<opts, ver, life, left, until, agent, agentCert, io, runs,
                   before, faults, lost>>

-----------------------------------------------------------------------------
Less(n) == IF n > 0 THEN n - 1 ELSE 0

\* The agent forgets a certificate when its seconds are over; it keeps one
\* that was added with no lifetime, that is 0, forever.
Aged == {[e EXCEPT !.secs = Less(@)] : e \in {d \in agent : d.secs # 1}}

\* Time passes while the command is over, waits for its timer, for the provider,
\* or, up to the deadline, for an answer of the agent.
Tick ==
    /\ \/ pc \in {"ended", "auth", "refresh"}
       \/ pc = "wait" /\ until > Early
       \/ pc \in {"remove", "add"} /\ io > 0
    /\ io' = Less(io)
    /\ agent' = Aged
    /\ left' = Less(left)
    /\ until' = Less(until)
    /\ UNCHANGED <<opts, pc, ver, life, disk, agentCert, runs, before, faults, lost>>

Command == Output \/ AgentGate \/ AgentRemove \/ AgentAdd \/ After \/ Timer \/ Rewrite

Next == Start \/ Auth \/ Refresh \/ Cancel \/ Command \/ Tick

\* The command is scheduled and the clock runs; the provider and the user owe
\* nothing.
Spec == Init /\ [][Next]_vars /\ WF_vars(Command) /\ WF_vars(Tick)

-----------------------------------------------------------------------------
\* The variables' types: certificates are numbered up to the newest.
TypeOK ==
    /\ opts \in Options
    /\ pc \in {"ended", "auth", "output", "gate", "remove", "add", "after", "wait",
              "refresh", "rewrite"}
    /\ ver \in 0..MaxCerts
    /\ life \in TokenLives \cup {0} /\ left \in Nat /\ until \in Nat
    /\ disk \in 0..ver /\ agentCert \in 0..ver /\ before \in 0..ver
    /\ agent \subseteq [ver : 1..ver, secs : Nat]
    /\ runs \in 0..MaxRuns
    /\ io \in 0..Deadline /\ faults \in Nat /\ lost \in Nat

Held == {e.ver : e \in agent}

\* "so the agent tracks the certificate on disk for as long as the command
\* runs" (docs/config.md): while the refresh loop waits and no exchange of
\* this command with the agent has failed, the only certificate in the agent
\* of those this command made is the one in the key files.  It is there until
\* its lifetime, counted from its own making, is over, and no longer than the
\* agent took to answer after that.
AgentTracksDisk ==
    pc = "wait" /\ ~opts.print /\ opts.sock /\ faults = 0 =>
        LET mine == {v \in Held : v > before}
        IN  /\ mine \subseteq {disk}
            /\ life - left < Lifetime(opts) => mine = {disk}
            /\ life - left >= Lifetime(opts) + Deadline => mine = {}

\* What piles up in the agent is accounted for: besides the certificate that
\* addCertToAgent will remove next there is at most one for each earlier
\* login command, one for each removal the agent refused and one for each
\* addition whose confirmation was lost.
LeftoversCounted ==
    runs > 0 => Cardinality(Held \ {agentCert}) <= lost + runs - 1

\* "without a lifetime every login would leave another certificate in the
\* agent forever": every certificate opkssh adds leaves the agent, whether or
\* not the command that added it lives to remove it.
LeftoversExpire ==
    \A v \in 1..MaxCerts : v \in Held ~> v \notin Held

\* What the user asked for, in whole seconds and in unbounded arithmetic.
AskedSecs(o) ==
    LET s == IF o.life.flag # Unset THEN o.life.flag ELSE o.life.conf
    IN  CASE s.kind = "unset" -> DefaultSecs
          [] s.kind = "duration" -> s.n \div Second
          [] OTHER -> s.n

\* No value of --lifetime or agent_lifetime wraps around: every certificate in
\* the agent has a lifetime, which is not 0 ("the key would live forever"),
\* fits the protocol, and when just added is the one that was asked for.
LifetimeAsAsked ==
    \A e \in agent : /\ e.secs \in 1..MaxUint32
                     /\ pc = "after" /\ e.ver = ver => e.secs = AskedSecs(opts)

\* The loop refreshes in time: while it waits, a token that was issued for
\* longer than the minute kept in reserve and the time an exchange with the
\* agent may take still has that minute left, and a shorter one has lost no
\* more than that time; the key files hold the certificate of the newest token.
RefreshedInTime ==
    pc = "wait" =>
        /\ left >= Early \/ left + Deadline >= life
        /\ disk = ver \/ opts.print

\* --print-key: "Print the raw private key and SSH cert to stdout instead of
\* writing them to the filesystem".
PrintsInsteadOfWriting ==
    opts.print => disk = before
=============================================================================
