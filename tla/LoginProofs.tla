---------------------------- MODULE LoginProofs ----------------------------
(***************************************************************************)
(* Theorems about AgentLifetime and LoginRefresh, for every value of the   *)
(* constants that satisfies the assumptions, the real widths included.     *)
(***************************************************************************)
EXTENDS LoginRefresh, FiniteSetTheorems, TLAPS

\* Division by time.Second keeps a checked duration within the protocol's range.
LEMMA WholeSeconds ==
    ASSUME NEW d \in Int, NEW k \in Nat, NEW s \in Nat \ {0}, s <= d, d <= k * s
    PROVE  d \div s \in 1..k
<1>1. PICK q \in Int : q = d \div s
    OBVIOUS
<1>2. q * s <= d /\ d < q * s + s
    BY <1>1, Z3
<1>3. q >= 1
    BY <1>2, Z3
<1>4. q <= k
    BY <1>2, Z3
<1> QED
    BY <1>1, <1>3, <1>4

\* A number of seconds that passes the range check is multiplied without
\* wrapping around, and divided back to itself.
LEMMA NoWrap ==
    ASSUME NEW x \in Int, -MaxInt64 - 1 <= x, x <= MaxInt64
    PROVE  WrapInt64(x) = x
BY WidthsAssumption, Z3 DEF WrapInt64

\* Whole seconds survive the way to time.Duration and back.
LEMMA WholeSecondsBack ==
    ASSUME NEW n \in Nat, NEW s \in Nat \ {0}
    PROVE  (n * s) \div s = n
OBVIOUS

\* What resolveAgentLifetimeSecs accepts it passes on unchanged.
LEMMA CheckedSetting ==
    ASSUME NEW s \in Setting, CheckedSecs(s) # Invalid
    PROVE  /\ CheckedSecs(s) \in 1..MaxUint32
           /\ s.kind = "duration" => CheckedSecs(s) = s.n \div Second
           /\ s.kind # "duration" => s.kind = "number" /\ CheckedSecs(s) = s.n
<1> DEFINE d == ParseDurationOrSeconds(s)
<1>1. Parses(s) /\ d >= Second /\ d <= MaxUint32 * Second
      /\ CheckedSecs(s) = ToUint32(d \div Second)
  <2>1. ~(\/ ~Parses(s) \/ d < Second \/ d > MaxUint32 * Second)
      BY DEF CheckedSecs
  <2>2. d \in Int
      BY WidthsAssumption DEF ParseDurationOrSeconds, WrapInt64, Setting, Int64
  <2>3. Second \in Int /\ MaxUint32 * Second \in Int
      BY WidthsAssumption
  <2> QED
      BY <2>1, <2>2, <2>3 DEF CheckedSecs
<1>2. s.n \in Int /\ s.n >= -MaxInt64 - 1 /\ s.n <= MaxInt64
    BY WidthsAssumption DEF Setting, Int64
<1>3. CASE s.kind = "duration"
  <2>1. d = s.n
      BY <1>3 DEF ParseDurationOrSeconds
  <2>2. d \div Second \in 1..MaxUint32
      BY <1>1, <1>2, <2>1, WholeSeconds, WidthsAssumption
  <2>3. ToUint32(d \div Second) = d \div Second
      BY <2>2, WidthsAssumption DEF ToUint32
  <2> QED
      BY <1>1, <1>3, <2>1, <2>2, <2>3
<1>4. CASE s.kind # "duration"
  <2>1. s.kind = "number" /\ s.n \in Nat /\ s.n <= MaxUint32
      BY <1>1, <1>2, <1>4, WidthsAssumption DEF Parses
  <2>2. s.n * Second <= MaxUint32 * Second /\ s.n * Second \in Nat
      BY <2>1, WidthsAssumption
  <2>3. d = s.n * Second
    <3>1. s.n * Second <= MaxInt64 /\ -MaxInt64 - 1 <= s.n * Second
        BY <2>2, WidthsAssumption
    <3> QED
        BY <3>1, <2>2, <1>4, NoWrap DEF ParseDurationOrSeconds
  <2>4. d \div Second = s.n
      BY <2>1, <2>3, WholeSecondsBack, WidthsAssumption
  <2>5. d \div Second \in 1..MaxUint32
      BY <1>1, <2>2, <2>3, WholeSeconds, WidthsAssumption
  <2>6. ToUint32(d \div Second) = d \div Second
      BY <2>5, WidthsAssumption DEF ToUint32
  <2> QED
      BY <1>1, <1>4, <2>1, <2>4, <2>5, <2>6
<1> QED
    BY <1>3, <1>4

\* resolveAgentLifetimeSecs for every flag and every config value: it fails,
\* or returns what was asked for, which is at least a second and fits a uint32.
THEOREM LifetimeIsAsAsked ==
    ASSUME NEW o \in Options, Lifetime(o) # Invalid
    PROVE  Lifetime(o) \in 1..MaxUint32 /\ Lifetime(o) = AskedSecs(o)
<1>1. o.life.flag \in Setting /\ o.life.conf \in Setting
    BY SettingsAssumption DEF Options
<1>2. CASE o.life.flag # Unset
  <2>1. Lifetime(o) = CheckedSecs(o.life.flag)
      BY <1>2 DEF Lifetime, ResolveAgentLifetimeSecs
  <2> QED
      BY <1>1, <1>2, <2>1, CheckedSetting DEF AskedSecs
<1>3. CASE o.life.flag = Unset /\ o.life.conf # Unset
  <2>1. Lifetime(o) = CheckedSecs(o.life.conf)
      BY <1>3 DEF Lifetime, ResolveAgentLifetimeSecs
  <2> QED
      BY <1>1, <1>3, <2>1, CheckedSetting DEF AskedSecs
<1>4. CASE o.life.flag = Unset /\ o.life.conf = Unset
    BY <1>4, WidthsAssumption DEF Lifetime, ResolveAgentLifetimeSecs, AskedSecs, Unset
<1> QED
    BY <1>2, <1>3, <1>4

-----------------------------------------------------------------------------
\* Where the command is between making a certificate and adding it to the
\* agent, the certificate is newer than all the agent holds; a command that
\* got past Run has a valid lifetime; every lifetime in the agent is positive.
NewerThanAgent ==
    pc \in {"output", "rewrite", "gate", "remove", "add"} =>
        ver >= 1 /\ \A e \in agent : e.ver < ver

LifetimeInv ==
    /\ NewerThanAgent
    /\ pc # "ended" => Lifetime(opts) # Invalid
    /\ LifetimeAsAsked

\* The variables of the login command keep their types, whatever the provider,
\* the agent and the user do.
THEOREM LoginTypes == Spec => [](TypeOK /\ LifetimeInv)
<1>1. Init => TypeOK /\ LifetimeInv
    BY RunsAssumption, DeadlineAssumption DEF Init, TypeOK, LifetimeInv, NewerThanAgent, LifetimeAsAsked
<1>2. TypeOK /\ LifetimeInv /\ [Next]_vars => TypeOK' /\ LifetimeInv'
  <2> SUFFICES ASSUME TypeOK, LifetimeInv, [Next]_vars
               PROVE  TypeOK' /\ LifetimeInv'
      OBVIOUS
  <2> USE RunsAssumption, LivesAssumption, DeadlineAssumption
  <2>1. CASE Start
    <3>1. TypeOK'
        BY <2>1 DEF Start, TypeOK
    <3>2. LifetimeInv'
        BY <2>1 DEF Start, TypeOK, LifetimeInv, NewerThanAgent, LifetimeAsAsked, Lifetime
    <3> QED  BY <3>1, <3>2
  <2>2. ASSUME NEW label, Issue(label), label \in {"output", "rewrite"}, pc # "ended",
               UNCHANGED <<opts, until, disk, agent, agentCert, io, runs, before,
                           faults, lost>>
        PROVE  TypeOK' /\ LifetimeInv'
    <3>1. TypeOK'
        BY <2>2 DEF Issue, Goto, TypeOK
    <3>2. LifetimeInv'
        BY <2>2 DEF Issue, Goto, TypeOK, LifetimeInv, NewerThanAgent, LifetimeAsAsked, Lifetime
    <3> QED  BY <3>1, <3>2
  <2>3. ASSUME Refuse,
               UNCHANGED <<opts, until, disk, agent, agentCert, io, runs, before,
                           faults, lost>>
        PROVE  TypeOK' /\ LifetimeInv'
      BY <2>3 DEF Refuse, Goto, TypeOK, LifetimeInv, NewerThanAgent, LifetimeAsAsked
  <2>4. CASE Auth
      BY <2>2, <2>3, <2>4 DEF Auth
  <2>5. CASE Refresh
      BY <2>2, <2>3, <2>5 DEF Refresh
  <2>6. CASE Output
    <3>1. TypeOK'
        BY <2>6 DEF Output, Goto, TypeOK
    <3>2. LifetimeInv'
        BY <2>6 DEF Output, Goto, TypeOK, LifetimeInv, NewerThanAgent, LifetimeAsAsked, Lifetime
    <3> QED  BY <3>1, <3>2
  <2>7. CASE AgentGate
    <3>1. TypeOK'
        BY <2>7 DEF AgentGate, Goto, TypeOK
    <3>2. LifetimeInv'
        BY <2>7 DEF AgentGate, Goto, TypeOK, LifetimeInv, NewerThanAgent, LifetimeAsAsked, Lifetime
    <3> QED  BY <3>1, <3>2
  <2>8. CASE AgentRemove
    <3>1. agent' \subseteq agent
        BY <2>8 DEF AgentRemove, Without
    <3>2. TypeOK'
        BY <2>8, <3>1 DEF AgentRemove, Goto, TypeOK
    <3>3. LifetimeInv'
        BY <2>8, <3>1 DEF AgentRemove, Goto, TypeOK, LifetimeInv, NewerThanAgent,
                          LifetimeAsAsked, Lifetime
    <3> QED  BY <3>2, <3>3
  <2>9. CASE AgentAdd
    <3> DEFINE new == [ver |-> ver, secs |-> Lifetime(opts)]
    <3>1. Lifetime(opts) \in 1..MaxUint32 /\ Lifetime(opts) = AskedSecs(opts)
        BY <2>9, LifetimeIsAsAsked DEF AgentAdd, LifetimeInv, TypeOK
    <3>2. agent' \in {agent, agent \cup {new}} /\ opts' = opts /\ ver' = ver /\ pc' = "after"
        BY <2>9 DEF AgentAdd, Goto
    <3>3. ver >= 1 /\ \A e \in agent : e.ver < ver /\ e.secs \in 1..MaxUint32
        BY <2>9 DEF AgentAdd, LifetimeInv, NewerThanAgent, LifetimeAsAsked
    <3>4. new \in [ver : 1..ver, secs : Nat]
        BY <3>1, <3>3, WidthsAssumption DEF TypeOK
    <3>5. TypeOK'
        BY <2>9, <3>2, <3>4 DEF AgentAdd, TypeOK
    <3>6. \A e \in agent' : e.secs \in 1..MaxUint32 /\ (e.ver = ver => e.secs = AskedSecs(opts))
        BY <3>1, <3>2, <3>3 DEF TypeOK
    <3>7. Lifetime(opts)' = Lifetime(opts) /\ AskedSecs(opts)' = AskedSecs(opts)
        BY <3>2 DEF Lifetime, AskedSecs
    <3>8. Lifetime(opts) # Invalid
        BY <3>1, WidthsAssumption DEF Invalid
    <3>9. LifetimeInv'
        BY <3>2, <3>6, <3>7, <3>8 DEF LifetimeInv, NewerThanAgent, LifetimeAsAsked
    <3> QED  BY <3>5, <3>9
  <2>10. CASE After
    <3>1. TypeOK'
        BY <2>10 DEF After, Goto, TypeOK
    <3>2. LifetimeInv'
        BY <2>10 DEF After, Goto, TypeOK, LifetimeInv, NewerThanAgent, LifetimeAsAsked, Lifetime
    <3> QED  BY <3>1, <3>2
  <2>11. CASE Timer \/ Cancel
    <3>1. TypeOK'
        BY <2>11 DEF Timer, Cancel, Goto, TypeOK
    <3>2. LifetimeInv'
        BY <2>11 DEF Timer, Cancel, Goto, TypeOK, LifetimeInv, NewerThanAgent,
                     LifetimeAsAsked, Lifetime
    <3> QED  BY <3>1, <3>2
  <2>12. CASE Rewrite
    <3>1. TypeOK'
        BY <2>12 DEF Rewrite, Goto, TypeOK
    <3>2. LifetimeInv'
        BY <2>12 DEF Rewrite, Goto, TypeOK, LifetimeInv, NewerThanAgent, LifetimeAsAsked, Lifetime
    <3> QED  BY <3>1, <3>2
  <2>13. CASE Tick
    <3>1. \A e \in agent : e \in [ver : 1..ver, secs : Nat] /\ e.secs \in 1..MaxUint32
        BY DEF TypeOK, LifetimeInv, LifetimeAsAsked
    <3>2. \A e \in agent' : \E d \in agent :
              d.secs # 1 /\ e = [d EXCEPT !.secs = Less(@)]
        BY <2>13 DEF Tick, Aged
    <3>3. \A e \in agent' : e \in [ver : 1..ver, secs : Nat] /\ e.secs \in 1..MaxUint32
        BY <3>1, <3>2, WidthsAssumption DEF Less
    <3>4. TypeOK'
      <4>1. left' \in Nat /\ until' \in Nat /\ io' \in 0..Deadline
          BY <2>13 DEF Tick, TypeOK, Less
      <4>2. UNCHANGED <<opts, pc, ver, life, disk, agentCert, runs, before, faults, lost>>
          BY <2>13 DEF Tick
      <4> QED
          BY <3>3, <4>1, <4>2 DEF TypeOK
    <3>5. LifetimeInv'
      <4>1. \A e \in agent' : \E d \in agent : e.ver = d.ver
          BY <3>1, <3>2
      <4>2. UNCHANGED <<opts, pc, ver>> /\ pc # "after"
          BY <2>13 DEF Tick
      <4>3. NewerThanAgent'
          BY <4>1, <4>2 DEF LifetimeInv, NewerThanAgent
      <4> QED
          BY <3>3, <4>2, <4>3 DEF LifetimeInv, LifetimeAsAsked, Lifetime
    <3> QED  BY <3>4, <3>5
  <2>14. CASE UNCHANGED vars
    <3>1. TypeOK'
        BY <2>14 DEF vars, TypeOK
    <3>2. LifetimeInv'
        BY <2>14 DEF vars, LifetimeInv, NewerThanAgent, LifetimeAsAsked, Lifetime, AskedSecs
    <3> QED  BY <3>1, <3>2
  <2> QED
      BY <2>1, <2>4, <2>5, <2>6, <2>7, <2>8, <2>9, <2>10, <2>11, <2>12, <2>13, <2>14
         DEF Next, Command
<1> QED
    BY <1>1, <1>2, PTL DEF Spec

\* Every certificate in the agent has a lifetime that fits the protocol, and
\* when added the one the user asked for: nothing that --lifetime or
\* agent_lifetime may contain makes opkssh add a key that never leaves.
THEOREM LifetimesAreAsAsked == Spec => []LifetimeAsAsked
<1>1. LifetimeInv => LifetimeAsAsked
    BY DEF LifetimeInv
<1> QED
    BY <1>1, LoginTypes, PTL

-----------------------------------------------------------------------------
(***************************************************************************)
(* The refresh loop.                                                       *)
(***************************************************************************)
\* From the making of a certificate to the wait no more time passes than the
\* deadline of the agent's connection allows; the wait counts down with the
\* token and ends with a minute to spare.
TimeInv ==
    /\ pc \in {"output", "rewrite", "gate"} => left = life
    /\ pc \in {"remove", "add"} => left <= life /\ left + (Deadline - io) >= life
    /\ pc = "after" => left <= life /\ left + Deadline >= life
    /\ pc = "wait" => until = left /\ (left >= Early \/ left + Deadline >= life)
    /\ pc \in {"gate", "remove", "add", "after", "wait"} => disk = ver \/ opts.print
    /\ pc \in {"remove", "add"} => ~opts.print

\* TimeInv holds in every state.
LEMMA TimeInvariant == Spec => []TimeInv
<1>1. Init => TimeInv
    BY DEF Init, TimeInv
<1>2. TypeOK /\ TimeInv /\ [Next]_vars => TimeInv'
  <2> SUFFICES ASSUME TypeOK, TimeInv, [Next]_vars PROVE TimeInv'
      OBVIOUS
  <2>0. /\ Deadline \in Nat /\ Early \in Nat /\ Early >= 1
        /\ left \in Nat /\ life \in Nat /\ until \in Nat /\ io \in Nat /\ io <= Deadline
      BY LivesAssumption, DeadlineAssumption DEF TypeOK
  <2>1. CASE Start
      BY <2>0, <2>1 DEF Start, TimeInv
  <2>2. CASE Auth \/ Refresh
      BY <2>0, <2>2, LivesAssumption DEF Auth, Refresh, Issue, Refuse, Goto, TimeInv
  <2>3. CASE Output \/ Rewrite
      BY <2>0, <2>3 DEF Output, Rewrite, Goto, TimeInv
  <2>4. CASE AgentGate
      BY <2>0, <2>4 DEF AgentGate, Goto, TimeInv
  <2>5. CASE AgentRemove \/ AgentAdd
      BY <2>0, <2>5 DEF AgentRemove, AgentAdd, Goto, TimeInv
  <2>6. CASE After
      BY <2>0, <2>6 DEF After, Goto, TimeInv, TypeOK
  <2>7. CASE Timer \/ Cancel
      BY <2>0, <2>7 DEF Timer, Cancel, Goto, TimeInv
  <2>8. CASE Tick
      BY <2>0, <2>8 DEF Tick, Less, TimeInv, TypeOK
  <2>9. CASE UNCHANGED vars
      BY <2>0, <2>9 DEF vars, TimeInv
  <2> QED
      BY <2>1, <2>2, <2>3, <2>4, <2>5, <2>6, <2>7, <2>8, <2>9 DEF Next, Command
<1> QED
    BY <1>1, <1>2, LoginTypes, PTL DEF Spec

\* While the loop waits, a token has a minute left, or has lost no more than the
\* time of one exchange with the agent, and the key files hold the newest
\* certificate.
THEOREM RefreshesInTime == Spec => []RefreshedInTime
<1>1. TimeInv => RefreshedInTime
    BY DEF TimeInv, RefreshedInTime
<1> QED
    BY <1>1, TimeInvariant, PTL

-----------------------------------------------------------------------------
(***************************************************************************)
(* The agent and the key files.                                            *)
(***************************************************************************)
\* The certificates in the agent that the running command has made.
Own == {e \in agent : e.ver > before}

\* The agent can be reached and has answered every request of the command.
Tracked == ~opts.print /\ opts.sock /\ faults = 0

\* What Own must be when the newest certificate has been added: nothing, its
\* lifetime being over, or that certificate, for the lifetime counted from a
\* moment between its making and the deadline of the exchange.
Counted(k) ==
    /\ Own = {[ver |-> ver, secs |-> k]}
    /\ Lifetime(opts) <= k + (life - left)
    /\ k + (life - left) <= Lifetime(opts) + Deadline

OwnNow ==
    \/ Own = {} /\ Lifetime(opts) <= life - left
    \/ \E k \in Nat \ {0} : Counted(k)

\* The agent has nothing that is newer than the key files.  Up to the removal,
\* the only certificate of its own that the command has in the agent is the one
\* it remembers; at the addition it has none; afterwards the newest.
TrackInv ==
    /\ \A e \in agent : e.ver <= disk
    /\ pc \notin {"ended", "auth"} => before < ver
    /\ Tracked =>
         /\ pc \in {"auth", "output", "gate", "remove", "refresh", "rewrite"} =>
               \A e \in Own : e.ver = agentCert
         /\ pc = "add" => Own = {}
         /\ pc \in {"after", "wait"} => agentCert = ver /\ OwnNow

\* TrackInv holds in every state.
LEMMA TrackInvariant == Spec => []TrackInv
<1>1. Init => TrackInv
    BY DEF Init, TrackInv
<1>2. TypeOK /\ LifetimeInv /\ TimeInv /\ TrackInv /\ [Next]_vars => TrackInv'
  <2> SUFFICES ASSUME TypeOK, LifetimeInv, TimeInv, TrackInv, [Next]_vars PROVE TrackInv'
      OBVIOUS
  <2>0. pc # "ended" => Lifetime(opts) \in 1..MaxUint32
      BY LifetimeIsAsAsked DEF LifetimeInv, TypeOK
  <2>n. \A e \in agent : e.ver \in Nat /\ e.ver >= 1 /\ e.secs \in Nat /\ e.secs >= 1
      BY DEF TypeOK, LifetimeInv, LifetimeAsAsked
  <2>v. ver \in Nat /\ disk \in Nat /\ before \in Nat /\ agentCert \in Nat /\ faults \in Nat
        /\ disk <= ver /\ before <= ver /\ agentCert <= ver
      BY RunsAssumption DEF TypeOK
  <2>1. CASE Start
      BY <2>1, <2>n, <2>v DEF Start, TrackInv, Own
  <2>2. CASE Auth \/ Refresh
    <3>1. UNCHANGED <<agent, disk, before, agentCert, opts, faults>> /\ pc \in {"auth", "refresh"}
          /\ pc' \in {"ended", "output", "rewrite"} /\ (pc' # "ended" => ver' = ver + 1)
        BY <2>2 DEF Auth, Refresh, Issue, Refuse, Goto
    <3> QED
        BY <3>1, <2>v DEF TrackInv, Own, Tracked
  <2>3. CASE Output \/ Rewrite
    <3>1. UNCHANGED <<agent, before, agentCert, opts, faults, ver>> /\ pc \in {"output", "rewrite"}
          /\ pc' \in {"ended", "gate"} /\ disk' \in {disk, ver}
        BY <2>3 DEF Output, Rewrite, Goto
    <3> QED
        BY <3>1, <2>n, <2>v DEF TrackInv, Own, Tracked
  <2>4. CASE AgentGate
    <3>1. UNCHANGED <<agent, before, agentCert, opts, disk, ver>> /\ pc = "gate"
        BY <2>4 DEF AgentGate
    <3>2. Tracked' => /\ Tracked /\ pc' \in {"add", "remove"}
                      /\ pc' = "add" => agentCert = 0
        BY <2>4, <3>1, <2>v DEF AgentGate, Goto, Tracked
    <3>3. pc' \notin {"ended", "auth"}
        BY <2>4 DEF AgentGate, Goto
    <3>4. Own' = Own
        BY <3>1 DEF Own
    <3>5. Tracked' /\ pc' = "add" => Own = {}
        BY <3>1, <3>2, <2>n DEF TrackInv, Own
    <3> QED
        BY <3>1, <3>2, <3>3, <3>4, <3>5 DEF TrackInv
  <2>5. CASE AgentRemove
    <3>1. UNCHANGED <<before, agentCert, opts, disk, ver>> /\ pc = "remove" /\ agent' \subseteq agent
          /\ pc' \in {"add", "after"}
        BY <2>5 DEF AgentRemove, Goto, Without
    <3>2. Tracked' => Tracked /\ pc' = "add" /\ agent' = Without(agentCert)
        BY <2>5, <3>1, <2>v DEF AgentRemove, Goto, Tracked
    <3>3. Tracked' => Own' = {}
        BY <3>1, <3>2 DEF TrackInv, Own, Without
    <3> QED
        BY <3>1, <3>2, <3>3 DEF TrackInv
  <2>6. CASE AgentAdd
    <3> DEFINE new == [ver |-> ver, secs |-> Lifetime(opts)]
    <3>1. UNCHANGED <<before, opts, disk, ver, life, left>> /\ pc = "add" /\ pc' = "after"
          /\ agent' \in {agent, agent \cup {new}}
        BY <2>6 DEF AgentAdd, Goto
    <3>2. Tracked' => Tracked /\ agent' = agent \cup {new} /\ agentCert' = ver
        BY <2>6, <3>1, <2>v DEF AgentAdd, Tracked
    <3>3. disk = ver /\ before < ver
        BY <3>1 DEF TimeInv, TrackInv
    <3>4. \A e \in agent' : e.ver <= disk'
        BY <3>1, <3>3, <2>n, <2>v DEF TrackInv
    <3>5. Tracked' => Own' = {new}
        BY <3>1, <3>2, <3>3 DEF TrackInv, Own
    <3>6. Tracked' => OwnNow'
      <4> SUFFICES ASSUME Tracked' PROVE OwnNow'
          OBVIOUS
      <4> DEFINE k == Lifetime(opts)
      <4>1. k \in Nat \ {0} /\ Lifetime(opts)' = k
          BY <2>0, <3>1, WidthsAssumption
      <4>2. life' - left' \in 0..Deadline
          BY <3>1, LivesAssumption, DeadlineAssumption DEF TimeInv, TypeOK
      <4>3. k <= k + (life' - left') /\ k + (life' - left') <= k + Deadline
        <5> HIDE DEF k
        <5> QED
            BY <4>1, <4>2, DeadlineAssumption
      <4>4. Counted(k)'
          BY <3>1, <3>5, <4>1, <4>3 DEF Counted
      <4> QED
          BY <4>1, <4>4 DEF OwnNow
    <3> QED
        BY <3>1, <3>2, <3>3, <3>4, <3>6 DEF TrackInv
  <2>7. CASE After
    <3>1. UNCHANGED <<agent, before, agentCert, opts, disk, ver, life, left, faults>>
          /\ pc = "after" /\ pc' \in {"ended", "wait"}
        BY <2>7 DEF After, Goto
    <3>2. Own' = Own /\ (OwnNow' <=> OwnNow) /\ (Tracked' <=> Tracked)
        BY <3>1 DEF Own, OwnNow, Counted, Tracked
    <3> QED
        BY <3>1, <3>2 DEF TrackInv
  <2>8. CASE Timer \/ Cancel
    <3>1. UNCHANGED <<agent, before, agentCert, opts, disk, ver, life, left, faults>>
          /\ (pc' = "ended" \/ (pc = "wait" /\ pc' = "refresh"))
        BY <2>8 DEF Timer, Cancel, Goto
    <3>2. Own' = Own /\ (Tracked' <=> Tracked)
        BY <3>1 DEF Own, Tracked
    <3>3. OwnNow => \A e \in Own : e.ver = ver
        BY DEF OwnNow, Counted
    <3> QED
        BY <3>1, <3>2, <3>3 DEF TrackInv
  <2>9. CASE Tick
    <3>1. /\ UNCHANGED <<pc, before, agentCert, opts, disk, ver, life, faults>>
          /\ pc \in {"ended", "auth", "refresh", "wait", "remove", "add"}
          /\ agent' = {[e EXCEPT !.secs = Less(@)] : e \in {d \in agent : d.secs # 1}}
        BY <2>9 DEF Tick, Aged
    <3>2. \A e \in agent' : \E d \in agent : e.ver = d.ver
        BY <3>1, <2>n DEF TypeOK
    <3>3. \A e \in agent' : e.ver <= disk'
        BY <3>1, <3>2 DEF TrackInv
    <3>4. \A e \in Own' : \E d \in Own : e.ver = d.ver
        BY <3>1, <3>2 DEF Own
    <3>5. CASE pc # "wait"
        BY <3>1, <3>3, <3>4, <3>5 DEF TrackInv, Tracked
    <3>6. CASE pc = "wait"
      <4>1. left' = left - 1 /\ left \in Nat /\ life \in Nat
          BY <2>9, <3>6, LivesAssumption DEF Tick, Less, TimeInv, TypeOK
      <4>2. Own' = {[e EXCEPT !.secs = Less(@)] : e \in {d \in Own : d.secs # 1}}
        <5>1. \A e \in agent : [e EXCEPT !.secs = Less(@)].ver = e.ver
            BY DEF TypeOK
        <5> QED
            BY <3>1, <5>1 DEF Own
      <4>3. ASSUME Tracked PROVE OwnNow'
        <5> DEFINE m == Lifetime(opts)
                   t == life - left
        <5>1. m \in Nat /\ t \in Int /\ life' - left' = t + 1 /\ Lifetime(opts)' = m /\ ver' = ver
            BY <2>0, <3>1, <3>6, <4>1, WidthsAssumption
        <5>2. OwnNow
            BY <3>6, <4>3 DEF TrackInv
        <5>3. CASE Own = {} /\ m <= t
          <6>1. Own' = {}
              BY <4>2, <5>3
          <6>2. m <= t + 1
            <7> HIDE DEF m, t
            <7> QED
                BY <5>1, <5>3
          <6> QED
              BY <5>1, <6>1, <6>2 DEF OwnNow
        <5>4. CASE \E k \in Nat \ {0} : Counted(k)
          <6>1. PICK k \in Nat \ {0} : Counted(k)
              BY <5>4
          <6> DEFINE r == [ver |-> ver, secs |-> k]
          <6>2. Own = {r} /\ r.secs = k /\ m <= k + t /\ k + t <= m + Deadline
              BY <6>1 DEF Counted
          <6>3. CASE k = 1
            <7>1. Own' = {}
              <8> HIDE DEF r
              <8> QED
                  BY <4>2, <6>2, <6>3
            <7>2. m <= t + 1
              <8> HIDE DEF m, t, r
              <8> QED
                  BY <5>1, <6>2, <6>3
            <7> QED
                BY <5>1, <7>1, <7>2 DEF OwnNow
          <6>4. CASE k # 1
            <7>1. k - 1 \in Nat \ {0}
                BY <6>4
            <7>2. [r EXCEPT !.secs = Less(@)] = [ver |-> ver, secs |-> k - 1]
                BY DEF Less
            <7>3. Own' = {[r EXCEPT !.secs = Less(@)]}
              <8> HIDE DEF r
              <8> QED
                  BY <4>2, <6>2, <6>4
            <7>4. m <= (k - 1) + (t + 1) /\ (k - 1) + (t + 1) <= m + Deadline
              <8> HIDE DEF m, t, r
              <8> QED
                  BY <5>1, <6>2, DeadlineAssumption
            <7>5. Counted(k - 1)'
                BY <5>1, <7>2, <7>3, <7>4 DEF Counted
            <7> QED
                BY <7>1, <7>5 DEF OwnNow
          <6> QED
              BY <6>3, <6>4
        <5> QED
            BY <5>2, <5>3, <5>4 DEF OwnNow
      <4>4. Tracked' <=> Tracked
          BY <3>1 DEF Tracked
      <4> QED
          BY <3>1, <3>3, <3>6, <4>3, <4>4 DEF TrackInv
    <3> QED
        BY <3>5, <3>6
  <2>10. CASE UNCHANGED vars
    <3>1. Own' = Own /\ (OwnNow' <=> OwnNow) /\ (Tracked' <=> Tracked)
        BY <2>10 DEF vars, Own, OwnNow, Counted, Tracked
    <3> QED
        BY <2>10, <3>1 DEF vars, TrackInv
  <2> QED
      BY <2>1, <2>2, <2>3, <2>4, <2>5, <2>6, <2>7, <2>8, <2>9, <2>10 DEF Next, Command
<1> QED
    BY <1>1, <1>2, LoginTypes, TimeInvariant, PTL DEF Spec

\* While the loop waits and no exchange with the agent has failed, the agent
\* has, of all the command has made, the certificate in the key files and no
\* other, for as long as was asked and no longer than the deadline beyond that.
THEOREM AgentFollowsDisk == Spec => []AgentTracksDisk
<1>1. TypeOK /\ LifetimeInv /\ TimeInv /\ TrackInv => AgentTracksDisk
  <2> DEFINE mine == {v \in Held : v > before}
             m == Lifetime(opts)
             t == life - left
  <2> SUFFICES ASSUME TypeOK, LifetimeInv, TimeInv, TrackInv, pc = "wait", Tracked
               PROVE  /\ mine \subseteq {disk}
                      /\ t < m => mine = {disk}
                      /\ t >= m + Deadline => mine = {}
      BY DEF AgentTracksDisk, Tracked
  <2>0. m \in Nat /\ t \in Int /\ Deadline \in Nat
      BY LifetimeIsAsAsked, WidthsAssumption, LivesAssumption, DeadlineAssumption
         DEF LifetimeInv, TypeOK
  <2>1. mine = {e.ver : e \in Own}
      BY DEF Held, Own
  <2>2. OwnNow /\ disk = ver
      BY DEF TrackInv, TimeInv, Tracked
  <2>3. CASE Own = {} /\ m <= t
    <3>1. mine = {}
        BY <2>1, <2>3
    <3> HIDE DEF mine, m, t
    <3> QED
        BY <2>0, <2>3, <3>1
  <2>4. ASSUME NEW k \in Nat \ {0}, Counted(k)
        PROVE  mine = {disk} /\ t < m + Deadline
    <3>1. mine = {disk}
        BY <2>1, <2>2, <2>4 DEF Counted
    <3>2. k + t <= m + Deadline
        BY <2>4 DEF Counted
    <3> HIDE DEF mine, m, t
    <3> QED
        BY <2>0, <3>1, <3>2
  <2> HIDE DEF mine, m, t
  <2>5. CASE \E k \in Nat \ {0} : Counted(k)
      BY <2>0, <2>4, <2>5
  <2> QED
      BY <2>2, <2>3, <2>5 DEF OwnNow, m, t
<1> QED
    BY <1>1, LoginTypes, TimeInvariant, TrackInvariant, PTL

-----------------------------------------------------------------------------
\* Counting what addCertToAgent leaves behind.  Before the first command the
\* agent is empty; a command that is about to add a certificate has got the one
\* it added before out of the agent, or counted it.
LeftInv ==
    /\ runs = 0 => pc = "ended" /\ agent = {}
    /\ pc = "add" => Cardinality(Held) <= lost + runs - 1
    /\ LeftoversCounted

\* Certificates are numbered, so those in the agent can be counted.
LEMMA CountHeld ==
    ASSUME TypeOK, NEW S \in SUBSET Held
    PROVE  /\ IsFiniteSet(S) /\ Cardinality(S) \in Nat
           /\ \A T \in SUBSET S : Cardinality(T) <= Cardinality(S)
           /\ \A x, T : T \subseteq S \cup {x} =>
                 IsFiniteSet(T) /\ Cardinality(T) \in Nat /\ Cardinality(T) <= Cardinality(S) + 1
<1>1. Held \subseteq 1..ver /\ ver \in Int
    BY RunsAssumption DEF TypeOK, Held
<1>2. IsFiniteSet(1..ver)
    BY <1>1, FS_Interval
<1>3. IsFiniteSet(S) /\ Cardinality(S) \in Nat
    BY <1>1, <1>2, FS_Subset, FS_CardinalityType
<1>4. \A T \in SUBSET S : Cardinality(T) <= Cardinality(S)
    BY <1>3, FS_Subset
<1>5. ASSUME NEW x, NEW T, T \subseteq S \cup {x}
      PROVE  IsFiniteSet(T) /\ Cardinality(T) \in Nat /\ Cardinality(T) <= Cardinality(S) + 1
  <2>1. /\ IsFiniteSet(S \cup {x})
        /\ Cardinality(S \cup {x}) = IF x \in S THEN Cardinality(S) ELSE Cardinality(S) + 1
      BY <1>3, FS_AddElement, Zenon
  <2>2. IsFiniteSet(T) /\ Cardinality(T) <= Cardinality(S \cup {x})
      BY <1>5, <2>1, FS_Subset
  <2>3. Cardinality(T) \in Nat
      BY <2>2, FS_CardinalityType
  <2> QED
      BY <1>3, <2>1, <2>2, <2>3
<1> QED
    BY <1>3, <1>4, <1>5

\* LeftInv holds in every state.
LEMMA LeftInvariant == Spec => []LeftInv
<1>1. Init => LeftInv
    BY DEF Init, LeftInv, LeftoversCounted
<1>2. TypeOK /\ LifetimeInv /\ LeftInv /\ [Next]_vars => LeftInv'
  <2> SUFFICES ASSUME TypeOK, LifetimeInv, LeftInv, [Next]_vars PROVE LeftInv'
      OBVIOUS
  <2> DEFINE Behind == Held \ {agentCert}
  <2>1. /\ Behind \in SUBSET Held /\ Cardinality(Behind) \in Nat
        /\ runs \in Nat /\ lost \in Nat
        /\ runs > 0 => Cardinality(Behind) <= lost + runs - 1
    <3>1. Cardinality(Behind) \in Nat
        BY CountHeld
    <3> QED
        BY <3>1, RunsAssumption DEF LeftInv, LeftoversCounted, TypeOK
  <2>2. ASSUME Behind' \subseteq Behind, lost' = lost, runs' = runs
        PROVE  LeftoversCounted'
    <3>1. Cardinality(Behind') <= Cardinality(Behind) /\ Cardinality(Behind') \in Nat
        BY <2>1, <2>2, CountHeld
    <3> QED
        BY <2>1, <2>2, <3>1 DEF LeftoversCounted
  <2>3. ASSUME UNCHANGED <<agent, agentCert, lost, runs>>, pc # "ended", pc' # "add"
        PROVE  LeftInv'
      BY <2>2, <2>3 DEF LeftInv, Held
  <2>4. CASE Start
    <3>1. /\ runs' = runs + 1 /\ agentCert' = 0 /\ UNCHANGED <<agent, lost>>
          /\ pc' # "add" /\ runs' # 0
        BY <2>1, <2>4 DEF Start
    <3>2. Behind' \subseteq Behind \cup {agentCert}
        BY <3>1 DEF Held
    <3>3. Cardinality(Behind') <= Cardinality(Behind) + 1 /\ Cardinality(Behind') \in Nat
        BY <2>1, <3>2, CountHeld
    <3>4. runs = 0 => Behind' = {}
        BY <3>1 DEF LeftInv, Held
    <3>5. Cardinality(Behind') <= lost + runs
      <4>1. runs = 0 => Cardinality(Behind') = 0
          BY <3>4, FS_EmptySet, Zenon
      <4> HIDE DEF Behind
      <4> QED
          BY <2>1, <3>3, <4>1
    <3> QED
        BY <2>1, <3>1, <3>5 DEF LeftInv, LeftoversCounted
  <2>5. CASE Auth \/ Refresh \/ Cancel \/ Output \/ After \/ Timer \/ Rewrite
      BY <2>3, <2>5 DEF Auth, Refresh, Issue, Refuse, Cancel, Output, After, Timer, Rewrite,
         Goto
  <2>6. CASE AgentGate
    <3>1. UNCHANGED <<agent, agentCert, lost, runs>> /\ pc = "gate"
        BY <2>6 DEF AgentGate
    <3>2. pc' = "add" => agentCert = 0
        BY <2>6 DEF AgentGate, Goto
    <3>3. 0 \notin Held
        BY DEF Held, TypeOK
    <3>4. pc' = "add" => Behind = Held
        BY <3>2, <3>3
    <3>5. runs > 0
        BY <2>1, <3>1 DEF LeftInv
    <3>6. Held' = Held
        BY <3>1 DEF Held
    <3>7. pc' = "add" => Cardinality(Held') <= lost' + runs' - 1
        BY <2>1, <3>1, <3>4, <3>5, <3>6
    <3> QED
        BY <2>2, <3>1, <3>6, <3>7 DEF LeftInv
  <2>7. CASE AgentRemove
    <3>1. /\ UNCHANGED <<agentCert, runs>> /\ pc = "remove" /\ agent' \subseteq agent
          /\ pc' \in {"add", "after"}
        BY <2>7 DEF AgentRemove, Goto, Without
    <3>2. Behind' \subseteq Behind
        BY <3>1 DEF Held
    <3>3. runs > 0
        BY <2>1, <3>1 DEF LeftInv
    <3>4. CASE pc' = "add" /\ lost' = lost /\ agent' = Without(agentCert)
      <4>1. Held' \subseteq Behind
          BY <3>4 DEF Held, Without
      <4>2. Cardinality(Held') <= Cardinality(Behind) /\ Cardinality(Held') \in Nat
          BY <2>1, <4>1, CountHeld
      <4>3. Cardinality(Held') <= lost' + runs' - 1
          BY <2>1, <3>1, <3>3, <3>4, <4>2
      <4> QED
          BY <2>2, <3>1, <3>2, <3>4, <4>3 DEF LeftInv
    <3>5. CASE pc' = "add" /\ lost' = lost + 1 /\ agent' = agent
      <4>1. Held' \subseteq Behind \cup {agentCert}
          BY <3>5 DEF Held
      <4>2. Cardinality(Held') <= Cardinality(Behind) + 1 /\ Cardinality(Held') \in Nat
          BY <2>1, <4>1, CountHeld
      <4>3. Cardinality(Behind') <= Cardinality(Behind) /\ Cardinality(Behind') \in Nat
          BY <2>1, <3>2, CountHeld
      <4>4. Cardinality(Held') <= lost' + runs' - 1 /\ Cardinality(Behind') <= lost' + runs' - 1
          BY <2>1, <3>1, <3>3, <3>5, <4>2, <4>3
      <4> QED
          BY <3>1, <3>3, <4>4 DEF LeftInv, LeftoversCounted
    <3>6. CASE pc' = "after" /\ lost' = lost
        BY <2>2, <3>1, <3>2, <3>3, <3>6 DEF LeftInv
    <3> QED
        BY <2>7, <3>4, <3>5, <3>6 DEF AgentRemove, Goto
  <2>8. CASE AgentAdd
    <3>1. /\ runs' = runs /\ runs > 0 /\ pc' = "after" /\ Cardinality(Held) <= lost + runs - 1
          /\ \/ /\ agent' = agent \cup {[ver |-> ver, secs |-> Lifetime(opts)]}
                /\ agentCert' = ver /\ lost' = lost
             \/ UNCHANGED <<agent, agentCert, lost>>
             \/ /\ agent' = agent \cup {[ver |-> ver, secs |-> Lifetime(opts)]}
                /\ lost' = lost + 1 /\ UNCHANGED agentCert
        BY <2>1, <2>8 DEF AgentAdd, Goto, LeftInv
    <3>2. ASSUME agent' = agent \cup {[ver |-> ver, secs |-> Lifetime(opts)]}
          PROVE  Held' = Held \cup {ver}
      <4>1. [ver |-> ver, secs |-> Lifetime(opts)].ver = ver
          OBVIOUS
      <4> QED
          BY <3>2, <4>1 DEF Held
    <3>3. Cardinality(Held) \in Nat
        BY CountHeld
    <3>4. CASE agent' = agent \cup {[ver |-> ver, secs |-> Lifetime(opts)]} /\ agentCert' = ver
               /\ lost' = lost
      <4>1. Behind' \subseteq Held
          BY <3>2, <3>4
      <4>2. Cardinality(Behind') <= Cardinality(Held) /\ Cardinality(Behind') \in Nat
          BY <4>1, CountHeld
      <4>3. Cardinality(Behind') <= lost' + runs' - 1
          BY <2>1, <3>1, <3>3, <3>4, <4>2
      <4> QED
          BY <3>1, <4>3 DEF LeftInv, LeftoversCounted
    <3>5. CASE UNCHANGED <<agent, agentCert, lost>>
        BY <2>2, <3>1, <3>5 DEF LeftInv, Held
    <3>6. CASE agent' = agent \cup {[ver |-> ver, secs |-> Lifetime(opts)]} /\ lost' = lost + 1
               /\ UNCHANGED agentCert
      <4>1. Behind' \subseteq Held \cup {ver}
          BY <3>2, <3>6
      <4>2. Cardinality(Behind') <= Cardinality(Held) + 1 /\ Cardinality(Behind') \in Nat
          BY <4>1, CountHeld
      <4>3. Cardinality(Behind') <= lost' + runs' - 1
          BY <2>1, <3>1, <3>3, <3>6, <4>2
      <4> QED
          BY <3>1, <4>3 DEF LeftInv, LeftoversCounted
    <3> QED
        BY <3>1, <3>4, <3>5, <3>6
  <2>9. CASE Tick
    <3>1. UNCHANGED <<pc, agentCert, lost, runs>> /\ agent' = Aged
        BY <2>9 DEF Tick
    <3>2. Held' \subseteq Held /\ (agent = {} => agent' = {})
      <4>1. \A e \in Aged : \E d \in agent : e.ver = d.ver
        <5> SUFFICES ASSUME NEW e \in Aged PROVE \E d \in agent : e.ver = d.ver
            OBVIOUS
        <5>1. PICK d \in agent : e = [d EXCEPT !.secs = Less(@)]
            BY DEF Aged
        <5>2. d \in [ver : 1..ver, secs : Nat]
            BY DEF TypeOK
        <5> QED
            BY <5>1, <5>2
      <4>2. agent = {} => Aged = {}
          BY DEF Aged
      <4> QED
          BY <3>1, <4>1, <4>2 DEF Held
    <3>3. Cardinality(Held') <= Cardinality(Held) /\ Cardinality(Held') \in Nat
          /\ Cardinality(Held) \in Nat
        BY <3>2, CountHeld
    <3>4. pc' = "add" => Cardinality(Held') <= lost' + runs' - 1
        BY <2>1, <3>1, <3>3 DEF LeftInv
    <3> QED
        BY <2>2, <3>1, <3>2, <3>4 DEF LeftInv
  <2>10. CASE UNCHANGED vars
      BY <2>2, <2>10 DEF vars, LeftInv, Held
  <2> QED
      BY <2>4, <2>5, <2>6, <2>7, <2>8, <2>9, <2>10 DEF Next, Command
<1> QED
    BY <1>1, <1>2, LoginTypes, PTL DEF Spec

\* For any number of commands, certificates and faults: besides the certificate
\* addCertToAgent removes next, the agent holds at most one for each earlier
\* command, each refused removal and each addition whose confirmation was lost.
THEOREM LeftoversAreCounted == Spec => []LeftoversCounted
<1>1. LeftInv => LeftoversCounted
    BY DEF LeftInv
<1> QED
    BY <1>1, LeftInvariant, PTL
=============================================================================
