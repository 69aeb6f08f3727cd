------------------------ MODULE IdentityLinesProofs -------------------------
(***************************************************************************)
(* Theorems about IdentityDir that relate the lines of the config file to  *)
(* the keys: pairs are listed, and the lines without a key are counted.    *)
(***************************************************************************)
EXTENDS IdentityDirProofs, FiniteSetTheorems

\* Every pair is mentioned in the config file, or in the memory of the login
\* that is writing it, unless a full logout is removing all of them.
Mentioned(n) ==
    \/ Mentions(config.lines, n)
    \/ \E p \in Logins : pc[p] = "writeConfig" /\ Mentions(read[p], n)
    \/ \E q \in Logouts : pc[q] \in LogoutSteps

MentionInv ==
    ~overlap /\ crashes = 0 =>
        /\ \A n \in Names : Pair(n) => Mentioned(n)
        /\ \A p \in Logins : pc[p] \in KeySteps => Mentions(config.lines, Name[p])

\* More lines mention more names.
LEMMA MentionsMore ==
    ASSUME NEW lines, NEW more, lines \subseteq more, NEW n, Mentions(lines, n)
    PROVE  Mentions(more, n)
BY Zenon DEF Mentions

\* MentionInv holds in every state.
LEMMA MentionInvariant == Spec => []MentionInv
<1>1. Init => MentionInv
  <2> SUFFICES ASSUME Init PROVE MentionInv
      OBVIOUS
  <2>1. \A n \in Names : sec[n].key \notin Logins
      BY ProcsAssumption, Zenon DEF Init, NoSec, SecOf, User, Nobody
  <2>2. \A p \in Logins : pc[p] \notin KeySteps
      BY NameTypes DEF Init, KeySteps
  <2> QED
      BY <2>1, <2>2 DEF MentionInv, Pair
<1>2. /\ TypeInv /\ OneAtWork /\ AloneAtWork /\ HoldInv /\ ClearInv /\ MentionInv
      /\ [Next]_vars
      => MentionInv'
  <2> SUFFICES ASSUME TypeInv, OneAtWork, AloneAtWork, HoldInv, ClearInv, MentionInv,
                      [Next]_vars, ~overlap', crashes' = 0
               PROVE  MentionInv'
      BY DEF MentionInv
  <2>0. /\ pc \in [Procs -> Labels] /\ read \in [Procs -> SUBSET Lines]
        /\ sec \in [Names -> SecFile] /\ cert \in [Names -> CertFile]
        /\ Logins \subseteq Procs /\ Logouts \subseteq Procs
      BY NameTypes, Zenon DEF TypeInv, TypeOK, Labels
  <2>1. ASSUME NEW p \in Procs, Steps(p) PROVE MentionInv'
    <3>1. ~overlap /\ crashes = 0
      <4>1. ~overlap
          BY <2>1, Marks, Zenon
      <4>2. ~Crash(p) => crashes' = crashes
          BY <2>1, QuietSteps, TextSteps DEF Steps, Quiet
      <4> QED
          BY <2>1, <4>1, <4>2, TextSteps
    <3>2. /\ \A n \in Names : Pair(n) => Mentioned(n)
          /\ \A r \in Logins : pc[r] \in KeySteps => Mentions(config.lines, Name[r])
        BY <3>1 DEF MentionInv
    <3>3. \A q \in Procs \ {p} : pc'[q] = pc[q]
        BY <2>0, <2>1, Marks DEF Moves
    <3>4. Busy(p) => /\ alone[p]
                     /\ \A q \in Procs \ {p} : pc[q] \in Resting
        BY <3>1 DEF AloneAtWork, OneAtWork, Busy
    <3>5. \A l \in KeySteps \cup LogoutSteps \cup {"writeConfig"} : l \notin Resting
        BY Zenon DEF KeySteps, LogoutSteps, Resting
    <3>6. CASE /\ config'.lines = config.lines /\ sec' = sec /\ cert' = cert
               /\ \A q \in Logins : read'[q] = read[q]
               /\ pc[p] \notin LogoutSteps \cup {"writeConfig"}
               /\ pc'[p] \notin KeySteps
      <4>1. \A n : Pair(n)' <=> Pair(n)
          BY <3>6, PairKept, Zenon
      <4>2. ASSUME NEW n \in Names, Mentioned(n) PROVE Mentioned(n)'
          BY <2>0, <3>3, <3>6, <4>2, Zenon DEF Mentioned
      <4>3. ASSUME NEW r \in Logins, pc'[r] \in KeySteps PROVE Mentions(config'.lines, Name[r])
          BY <2>0, <3>2, <3>3, <3>6, <4>3
      <4> QED
          BY <3>2, <4>1, <4>2, <4>3 DEF MentionInv
    <3>7. CASE p \in Logouts /\ pc'[p] \in LogoutSteps
      <4>1. p \notin Logins
          BY <3>7, ProcsAssumption
      <4>2. CASE Busy(p)
        <5>1. \A r \in Logins : pc'[r] \notin KeySteps
            BY <2>0, <3>3, <3>4, <3>5, <4>1, <4>2
        <5>2. \A n : Mentioned(n)'
            BY <3>7, Zenon DEF Mentioned
        <5> QED
            BY <5>1, <5>2 DEF MentionInv
      <4>3. CASE config'.lines = config.lines
          BY <2>0, <3>2, <3>3, <3>7, <4>1, <4>3, Zenon DEF MentionInv, Mentioned
      <4>4. config' = config \/ Busy(p)
          BY <2>1, <3>7, QuietSteps, TextSteps, ProcsAssumption, Zenon DEF Steps, Quiet, Crash,
             files
      <4> QED
          BY <4>2, <4>3, <4>4
    <3>8. CASE KeyStep(p) /\ p \in Logins
      <4>1. /\ UNCHANGED <<config, read>> /\ pc[p] \in KeySteps
            /\ \A n \in Names \ {Name[p]} : sec'[n] = sec[n] /\ cert'[n] = cert[n]
          BY <2>0, <3>8, ProcsAssumption, ZenonT(30) DEF KeyStep, TruncateSecret, WriteSecret,
             TruncateCert, WriteCert, KeySteps, local
      <4>2. Mentions(config'.lines, Name[p])
          BY <3>2, <3>8, <4>1, Zenon
      <4>3. ASSUME NEW n \in Names, Mentioned(n) PROVE Mentioned(n)'
          BY <2>0, <3>3, <3>8, <4>1, <4>3, ProcsAssumption DEF Mentioned, KeySteps
      <4>4. ASSUME NEW n \in Names, Pair(n)' PROVE Mentioned(n)'
        <5>1. CASE n = Name[p]
            BY <4>2, <5>1 DEF Mentioned
        <5>2. CASE n # Name[p]
            BY <3>2, <4>1, <4>3, <4>4, <5>2 DEF Pair, KeyPairMatch
        <5> QED
            BY <5>1, <5>2
      <4>5. ASSUME NEW r \in Logins, pc'[r] \in KeySteps PROVE Mentions(config'.lines, Name[r])
          BY <2>0, <3>2, <3>3, <4>1, <4>2, <4>5, Zenon
      <4> QED
          BY <4>4, <4>5 DEF MentionInv
    <3>9. CASE KeyStep(p) /\ p \in Logouts
      <4>1. CASE pc[p] \in {"rmSec", "rmCert"}
        <5>1. pc'[p] \in LogoutSteps
            BY <2>0, <3>9, <4>1, ProcsAssumption, Zenon DEF KeyStep, RemoveSecret, RemoveCert,
               Goto, LogoutSteps
        <5> QED
            BY <3>7, <3>9, <5>1, Zenon
      <4>2. CASE pc[p] \in {"rmSecOne", "rmCertOne"}
        <5>1. /\ UNCHANGED <<config, read>> /\ at[p] \in Names
              /\ pc'[p] \notin KeySteps
              /\ \A n \in Names : \/ sec'[n] = sec[n] /\ cert'[n] = cert[n]
                                  \/ sec'[n] = NoSec \/ cert'[n] = NoCert
          <6>1. at[p] \in Names
              BY <3>9, Zenon DEF TypeInv, TypeOK
          <6> QED
              BY <2>0, <3>9, <4>2, <6>1, ProcsAssumption DEF KeyStep, RemoveSecret, RemoveCert,
                 Goto, KeySteps
        <5>2. \A n \in Names : Pair(n)' => Pair(n)
            BY <5>1 DEF Pair, KeyPairMatch, NoSec, NoCert
        <5>3. ASSUME NEW n \in Names, Mentioned(n) PROVE Mentioned(n)'
            BY <2>0, <3>3, <4>2, <5>1, <5>3 DEF Mentioned, LogoutSteps
        <5> QED
            BY <2>0, <3>2, <3>3, <5>1, <5>2, <5>3, Zenon DEF MentionInv
      <4> QED
          BY <3>9, <4>1, <4>2, ProcsAssumption DEF KeyStep, RemoveSecret, RemoveCert
    <3>10. CASE p \in Logouts /\ NextName(p)
      <4>1. CASE pc'[p] \in LogoutSteps
          BY <3>7, <3>10, <4>1, Zenon
      <4>2. CASE pc'[p] \notin LogoutSteps
        <5>1. /\ pc[p] = "next" /\ todo[p] = {} /\ UNCHANGED <<sec, cert, config>>
              /\ pc'[p] = "done"
            BY <2>0, <3>10, <4>2, Zenon DEF NextName, Goto, LogoutSteps, files
        <5>2. alone[p] /\ Clearing(p)
            BY <3>4, <3>10, <5>1, Zenon DEF ClearInv, LogoutSteps, Busy, Resting
        <5>3. \A n \in Names : ~Pair(n)'
            BY <5>1, <5>2, PairKept, Zenon DEF Clearing
        <5>4. \A r \in Logins : pc'[r] \in KeySteps => Mentions(config'.lines, Name[r])
            BY <2>0, <3>2, <3>3, <5>1, Zenon DEF KeySteps
        <5> QED
            BY <5>3, <5>4 DEF MentionInv
      <4> QED
          BY <4>1, <4>2
    <3>11. CASE p \in Logins /\ TruncateConfig(p)
      <4>1. /\ pc[p] = "truncConfig" /\ pc'[p] = "writeConfig" /\ read' = read
            /\ sec' = sec /\ cert' = cert
          BY <2>0, <3>11 DEF TruncateConfig, Goto, local
      <4>2. Busy(p)
          BY <4>1, Zenon DEF Busy, Resting
      <4>3. read[p] = config.lines
          BY <3>4, <4>1, <4>2, Zenon DEF HoldInv
      <4>4. ASSUME NEW n \in Names, Pair(n)' PROVE Mentioned(n)'
        <5>1. Mentioned(n)
            BY <3>2, <4>1, <4>4, PairKept
        <5> QED
            BY <2>0, <3>3, <3>11, <4>1, <4>3, <5>1, ProcsAssumption, Zenon DEF Mentioned
      <4>5. \A r \in Logins : pc'[r] \notin KeySteps
          BY <2>0, <3>3, <3>4, <3>5, <4>1, <4>2, Zenon DEF KeySteps
      <4> QED
          BY <4>4, <4>5, Zenon DEF MentionInv
    <3>12. CASE p \in Logins /\ LoginWriteConfig(p)
      <4>1. /\ pc[p] = "writeConfig" /\ pc'[p] = "truncSec" /\ sec' = sec /\ cert' = cert
          BY <2>0, <3>12 DEF LoginWriteConfig, Goto
      <4>2. Busy(p)
          BY <4>1, Zenon DEF Busy, Resting
      <4>3. config.lines = {} /\ config'.lines = Listing(p)
          BY <3>4, <3>12, <4>1, <4>2, OwnText DEF HoldInv
      <4>4. read[p] \subseteq Listing(p)
          BY DEF Listing
      <4>5. ASSUME NEW n \in Names, Pair(n)' PROVE Mentioned(n)'
        <5>1. Mentioned(n) /\ ~Mentions(config.lines, n)
            BY <3>2, <4>1, <4>3, <4>5, PairKept, Zenon DEF Mentions
        <5>2. Mentions(read[p], n)
            BY <2>0, <3>4, <3>5, <3>12, <4>2, <5>1, ProcsAssumption, Zenon DEF Mentioned
        <5>3. Mentions(config'.lines, n)
            BY <4>3, <4>4, <5>2, MentionsMore
        <5> QED
            BY <5>3, Zenon DEF Mentioned
      <4>6. Mentions(config'.lines, Name[p])
        <5>1. CASE Mentions(read[p], Name[p])
            BY <4>3, <4>4, <5>1, MentionsMore
        <5>2. CASE ~Mentions(read[p], Name[p])
          <6>1. IdLine(Name[p]) \in config'.lines
              BY <4>3, <5>2 DEF Listing
          <6>2. IdLine(Name[p]) \in NameLines /\ IsPrefix(Name[p], IdLine(Name[p]).name)
              BY <3>12, NameTypes DEF IdLine, IsPrefix
          <6> QED
              BY <6>1, <6>2 DEF Mentions
        <5> QED
            BY <5>1, <5>2
      <4>7. \A r \in Logins : r # p => pc'[r] \notin KeySteps
          BY <2>0, <3>3, <3>4, <3>5, <4>2, Zenon
      <4> QED
          BY <4>5, <4>6, <4>7 DEF MentionInv
    <3> QED
      <4>1. CASE p \in Configurers /\ \/ CreateConfig(p) \/ ReadSsh(p) \/ TruncateSsh(p)
                                      \/ WriteSsh(p)
        <5>1. /\ config'.lines = config.lines /\ sec' = sec /\ cert' = cert
              /\ pc[p] \notin LogoutSteps \cup {"writeConfig"} /\ pc'[p] \notin KeySteps
            BY <2>0, <4>1, TextLines DEF CreateConfig, ReadSsh, TruncateSsh, WriteSsh, files,
               Begin, Goto, LogoutSteps, KeySteps
        <5>2. \A q \in Logins : q # p
            BY <4>1, ProcsAssumption, Zenon
        <5>3. \A q \in Logins : read'[q] = read[q]
            BY <2>0, <4>1, <5>2 DEF CreateConfig, ReadSsh, TruncateSsh, WriteSsh, local
        <5> QED
            BY <3>6, <5>1, <5>3
      <4>2. CASE p \in Logins /\ (CheckInclude(p) \/ StatConfig(p) \/ WriteBegin(p))
          BY <2>0, <3>6, <4>2 DEF CheckInclude, StatConfig, WriteBegin, files, local, Begin,
             Goto, LogoutSteps, KeySteps
      <4>3. CASE p \in Logins /\ LoginReadConfig(p)
        <5>1. /\ config' = config /\ sec' = sec /\ cert' = cert
              /\ pc[p] = "readConfig" /\ pc'[p] \in {"truncConfig", "failed"}
              /\ \A q \in Procs \ {p} : read'[q] = read[q]
            BY <2>0, <4>3 DEF LoginReadConfig, files, Goto
        <5>2. \A n \in Names : Mentioned(n) => Mentioned(n)'
            BY <2>0, <3>3, <5>1 DEF Mentioned, LogoutSteps
        <5>3. \A n : Pair(n)' <=> Pair(n)
            BY <5>1, PairKept
        <5>4. \A r \in Logins : pc'[r] \in KeySteps => Mentions(config'.lines, Name[r])
            BY <2>0, <3>2, <3>3, <5>1 DEF KeySteps
        <5> QED
            BY <3>2, <5>2, <5>3, <5>4 DEF MentionInv
      <4>4. CASE p \in Logouts /\ (LogoutReadCert(p) \/ LogoutReadSecret(p))
        <5>1. CASE pc'[p] \in LogoutSteps
            BY <3>7, <4>4, <5>1
        <5>2. CASE pc'[p] \notin LogoutSteps
          <6>1. /\ config' = config /\ sec' = sec /\ cert' = cert /\ read' = read
                /\ pc[p] \notin LogoutSteps \cup {"writeConfig"} /\ pc'[p] \notin KeySteps
              BY <2>0, <4>4, <5>2 DEF LogoutReadCert, ReadCert, LogoutReadSecret,
                 ReadSecret, files, local, Goto, LogoutSteps, KeySteps
          <6> QED
              BY <3>6, <6>1, Zenon
        <5> QED
            BY <5>1, <5>2
      <4>5. CASE p \in Logouts /\ LogoutOneBegin(p)
          BY <2>0, <3>6, <4>5, Zenon DEF LogoutOneBegin, files, Begin, Goto, LogoutSteps, KeySteps
      <4>6. CASE p \in Logouts /\ \/ LogoutBegin(p) \/ LogoutReadConfig(p)
                                  \/ LogoutTruncateConfig(p) \/ LogoutWriteConfig(p)
          BY <2>0, <3>7, <4>6 DEF LogoutBegin, LogoutReadConfig, LogoutTruncateConfig,
             LogoutWriteConfig, Begin, Goto, LogoutSteps
      <4>7. ~Crash(p)
          BY TextSteps
      <4> QED
          BY <2>1, <3>8, <3>9, <3>10, <3>11, <3>12, <4>1, <4>2, <4>3, <4>4, <4>5, <4>6, <4>7
             DEF Steps, KeyStep, LookStep, ReadStep, TruncateStep, WriteStep
  <2>2. CASE UserRemovesDir
    <3>1. \A n \in Names : sec'[n] = NoSec
        BY <2>2 DEF UserRemovesDir
    <3>2. \A n \in Names : ~Pair(n)'
        BY <3>1 DEF Pair, KeyPairMatch, NoSec
    <3>3. \A p \in Logins : pc'[p] \notin KeySteps
        BY <2>0, <2>2, Zenon DEF UserRemovesDir, AtRest, Resting, KeySteps
    <3> QED
        BY <3>2, <3>3 DEF MentionInv
  <2>3. CASE UNCHANGED vars
    <3>1. UNCHANGED <<pc, sec, cert, config, read, overlap, crashes>>
        BY <2>3, Zenon DEF vars, files, local, hist, past
    <3>2. \A n : (Pair(n)' <=> Pair(n)) /\ (Mentioned(n)' <=> Mentioned(n))
        BY <3>1, PairKept DEF Mentioned
    <3> QED
        BY <3>1, <3>2, Zenon DEF MentionInv
  <2> QED
      BY <2>1, <2>2, <2>3, Sorted, NameTypes DEF Steps
<1> QED
    BY <1>1, <1>2, TypeInvariant, OneAtWorkInvariant, AloneAtWorkInvariant, HoldInvariant,
       ClearInvariant, PTL DEF Spec

\* Commands that neither overlap nor are killed leave every pair its line, unless
\* another line holds its path.
THEOREM EveryPairIsListed == Spec => []PairsAreListed
<1>1. MentionInv => PairsAreListed
  <2> SUFFICES ASSUME MentionInv, AtRest, ~overlap, crashes = 0, NEW n \in Names, Pair(n)
               PROVE  Listed(n) \/ Shadowed(n)
      BY DEF PairsAreListed
  <2>1. Mentioned(n)
      BY Zenon DEF MentionInv
  <2>2. Mentions(config.lines, n)
      BY <2>1, NameTypes DEF Mentioned, AtRest, Resting, LogoutSteps
  <2> QED
      BY <2>2, MentionsNames, Zenon
<1> QED
    BY <1>1, MentionInvariant, PTL

-----------------------------------------------------------------------------
\* The line of n is in the config file, or in the memory of the command that
\* rewrites it.
Shown(n) ==
    \/ Listed(n)
    \/ \E p \in Procs : pc[p] \in ConfigLabels /\ IdLine(n) \in read[p]

\* A command at work is about to write the key of n, or to remove its line, or
\* to end as a logout -i that has removed the key.
HandLabels == {"rmCert", "rmCertOne"} \cup LineSteps

InHand(n) ==
    \/ \E p \in Logins : pc[p] = "truncSec" /\ Name[p] = n
    \/ \E q \in Logouts : at[q] = n /\ pc[q] \in HandLabels

Dangling == {n \in KeyNames : Shown(n) /\ sec[n].state = "missing" /\ ~InHand(n)}

SingleInv == IsFiniteSet(single) /\ \A q \in single : pc[q] = "done"

DangleInv ==
    ~overlap => IsFiniteSet(Dangling) /\ Cardinality(Dangling) <= crashes + Cardinality(single)

\* Only the last step of logout -i counts as one.
LEMMA SingleSteps ==
    ASSUME TypeInv, NEW p \in Procs, Steps(p)
    PROVE  \/ single' = single
           \/ /\ p \in Logouts /\ RemoveCert(p) /\ pc[p] = "rmCertOne" /\ pc'[p] = "done"
              /\ single' = single \cup {p}
<1>0. pc \in [Procs -> Labels]
    BY Zenon DEF TypeInv, TypeOK, Labels
<1>1. CASE p \in Logouts /\ RemoveCert(p)
    BY <1>0, <1>1, Zenon DEF RemoveCert, Goto
<1>2. CASE KeyStep(p) /\ ~(p \in Logouts /\ RemoveCert(p))
    BY <1>2, ZenonT(30) DEF KeyStep, TruncateSecret, WriteSecret, TruncateCert, WriteCert,
       RemoveSecret, hist, past
<1>3. CASE LookStep(p)
    BY <1>3 DEF LookStep, CheckInclude, StatConfig, WriteBegin, LogoutBegin, LogoutOneBegin,
       NextName, LogoutReadCert, ReadCert, LogoutReadSecret, ReadSecret, hist, past
<1>4. CASE ReadStep(p) \/ TruncateStep(p) \/ WriteStep(p)
    BY <1>4 DEF ReadStep, TruncateStep, WriteStep, ReadSsh, TruncateSsh, WriteSsh,
       LoginReadConfig, TruncateConfig, LoginWriteConfig, LogoutReadConfig,
       LogoutTruncateConfig, LogoutWriteConfig, hist, past
<1>5. CASE Crash(p) \/ CreateConfig(p)
    BY <1>5 DEF Crash, CreateConfig, past
<1> QED
    BY <1>1, <1>2, <1>3, <1>4, <1>5 DEF Steps

\* A logout that is done takes no more steps.
LEMMA LogoutEnds ==
    ASSUME NEW q \in Logouts, Steps(q)
    PROVE  pc[q] # "done"
<1>1. q \notin Logins /\ q \notin Configurers
    BY ProcsAssumption
<1> QED
    BY <1>1, Zenon DEF Steps, KeyStep, LookStep, ReadStep, TruncateStep, WriteStep, RemoveSecret,
       RemoveCert, NextName, LogoutReadCert, ReadCert, LogoutBegin, LogoutOneBegin,
       LogoutReadSecret, ReadSecret, LogoutReadConfig, LogoutTruncateConfig,
       LogoutWriteConfig, Crash, Resting

\* SingleInv holds in every state.
LEMMA SingleInvariant == Spec => []SingleInv
<1>1. Init => SingleInv
    BY FS_EmptySet DEF Init, SingleInv
<1>2. TypeInv /\ SingleInv /\ [Next]_vars => SingleInv'
  <2> SUFFICES ASSUME TypeInv, SingleInv, [Next]_vars PROVE SingleInv'
      OBVIOUS
  <2>0. pc \in [Procs -> Labels] /\ single \subseteq Logouts /\ Logouts \subseteq Procs
      BY NameTypes DEF TypeInv, TypeOK, Labels
  <2>1. ASSUME NEW p \in Procs, Steps(p) PROVE SingleInv'
    <3>1. \A q \in Procs \ {p} : pc'[q] = pc[q]
        BY <2>0, <2>1, Marks DEF Moves
    <3>2. p \notin single
        BY <2>0, <2>1, LogoutEnds DEF SingleInv
    <3>3. IsFiniteSet(single \cup {p})
        BY FS_AddElement, Zenon DEF SingleInv
    <3> QED
        BY <2>0, <2>1, <3>1, <3>2, <3>3, SingleSteps DEF SingleInv
  <2>2. CASE UserRemovesDir \/ UNCHANGED vars
      BY <2>2, Zenon DEF SingleInv, UserRemovesDir, vars, hist, past
  <2> QED
      BY <2>1, <2>2, Sorted, NameTypes DEF Steps
<1> QED
    BY <1>1, <1>2, TypeInvariant, PTL DEF Spec

\* A step that touches no line, removes no key and has no key in hand leaves no
\* more dangling lines.
LEMMA NoMoreDangling ==
    ASSUME TypeInv, NEW p \in Procs,
           config'.lines = config.lines,
           \A n \in KeyNames : sec'[n].state = "missing" => sec[n].state = "missing",
           \A q \in Procs \ {p} : pc'[q] = pc[q] /\ read'[q] = read[q],
           \A q \in Logouts \ {p} : at'[q] = at[q],
           pc'[p] \notin ConfigLabels,
           pc[p] \notin HandLabels \cup {"truncSec"}
    PROVE  Dangling' \subseteq Dangling
<1> SUFFICES ASSUME NEW n \in KeyNames, Shown(n)', ~InHand(n)' PROVE Shown(n) /\ ~InHand(n)
    BY Zenon DEF Dangling
<1>1. Shown(n)
    BY Zenon DEF Shown, Listed
<1>2. ASSUME InHand(n) PROVE InHand(n)'
    BY <1>2, NameTypes, Zenon DEF InHand
<1> QED
    BY <1>1, <1>2, Zenon

\* While one command is at work, what dangles depends on that one alone.
LEMMA DanglingOf ==
    ASSUME NEW p \in Procs, \A q \in Procs \ {p} : pc[q] \in Resting, NEW n
    PROVE  /\ Shown(n) <=> Listed(n) \/ (pc[p] \in ConfigLabels /\ IdLine(n) \in read[p])
           /\ InHand(n) <=> \/ p \in Logins /\ pc[p] = "truncSec" /\ Name[p] = n
                            \/ p \in Logouts /\ at[p] = n /\ pc[p] \in HandLabels
<1>1. \A q \in Procs \ {p} : pc[q] \notin ConfigLabels \cup HandLabels \cup {"truncSec"}
    BY DEF Resting, ConfigLabels, HandLabels, LineSteps
<1> QED
    BY <1>1, NameTypes DEF Shown, InHand

\* What one step of a command that is alone at work can leave dangling: at most
\* the name it has in hand, when it is killed or is a logout -i that ends.
LEMMA DanglingStep ==
    ASSUME TypeInv, LinesExist, HoldInv, NEW p \in Procs, Steps(p), Busy(p), alone[p],
           \A q \in Procs \ {p} : pc[q] \in Resting
    PROVE  \/ Dangling' \subseteq Dangling
           \/ \E n : /\ Dangling' \subseteq Dangling \cup {n}
                     /\ \/ Crash(p)
                        \/ p \in Logouts /\ RemoveCert(p) /\ pc[p] = "rmCertOne"
<1> USE DEF ConfigLabels, HandLabels, LineSteps
<1>0. /\ pc \in [Procs -> Labels] /\ read \in [Procs -> SUBSET Lines]
      /\ sec \in [Names -> SecFile] /\ at \in [Logouts -> Names]
      /\ KeyNames \subseteq Names
    BY Zenon DEF TypeInv, TypeOK, Labels, Names
<1>1. \A q \in Procs \ {p} : pc'[q] \in Resting
    BY <1>0, Marks, Zenon DEF Moves
<1>2. \A n : /\ Shown(n) <=> Listed(n) \/ (pc[p] \in ConfigLabels /\ IdLine(n) \in read[p])
             /\ InHand(n) <=> \/ p \in Logins /\ pc[p] = "truncSec" /\ Name[p] = n
                              \/ p \in Logouts /\ at[p] = n /\ pc[p] \in HandLabels
    BY DanglingOf, Zenon
<1>3. \A n : /\ Shown(n)' <=> \/ Listed(n)'
                              \/ pc'[p] \in ConfigLabels /\ IdLine(n) \in read'[p]
             /\ InHand(n)' <=> \/ p \in Logins /\ pc'[p] = "truncSec" /\ Name[p] = n
                               \/ p \in Logouts /\ at'[p] = n /\ pc'[p] \in HandLabels
  <2>1. \A q \in Procs \ {p} : pc'[q] \notin ConfigLabels \cup HandLabels \cup {"truncSec"}
      BY <1>1, Zenon DEF Resting
  <2> QED
      BY <2>1, NameTypes, Zenon DEF Shown, InHand
<1>4. ASSUME NEW S,
             \A n \in KeyNames : /\ Shown(n)' /\ sec'[n].state = "missing" /\ ~InHand(n)'
                                 => n \in S \/ (Shown(n) /\ sec[n].state = "missing"
                                                /\ ~InHand(n))
      PROVE  Dangling' \subseteq Dangling \cup S
    BY <1>4, Zenon DEF Dangling
<1>5. ASSUME \A n \in KeyNames : /\ Shown(n)' /\ sec'[n].state = "missing" /\ ~InHand(n)'
                                 => Shown(n) /\ sec[n].state = "missing" /\ ~InHand(n)
      PROVE  Dangling' \subseteq Dangling
    BY <1>5, Zenon DEF Dangling
<1>6. CASE p \in Logins /\ (LoginReadConfig(p) \/ TruncateConfig(p))
  <2>1. /\ sec' = sec /\ pc[p] \in {"readConfig", "truncConfig"} /\ pc'[p] # "truncSec"
        /\ \A n : Shown(n)' => Shown(n)
    <3>1. CASE LoginReadConfig(p)
      <4>1. /\ sec' = sec /\ config' = config /\ read'[p] = config.lines
            /\ pc[p] = "readConfig" /\ pc'[p] # "truncSec"
          BY <1>0, <3>1, Zenon DEF LoginReadConfig, Goto, files
      <4> QED
          BY <1>2, <1>3, <4>1, Zenon DEF Listed
    <3>2. CASE TruncateConfig(p)
      <4>1. /\ sec' = sec /\ config'.lines = {} /\ read' = read
            /\ pc[p] = "truncConfig" /\ pc'[p] # "truncSec"
          BY <1>0, <3>2, TextLines, Zenon DEF TruncateConfig, Goto, local
      <4> QED
          BY <1>2, <1>3, <4>1, Zenon DEF Listed
    <3> QED
        BY <1>6, <3>1, <3>2, Zenon
  <2> QED
      BY <1>2, <1>5, <1>6, <2>1, ProcsAssumption, Zenon
<1>7. CASE p \in Logins /\ LoginWriteConfig(p)
  <2>1. /\ sec' = sec /\ pc[p] = "writeConfig" /\ pc'[p] = "truncSec"
        /\ config'.lines = Listing(p)
      BY <1>0, <1>7, OwnText, ZenonT(30) DEF LoginWriteConfig, Goto
  <2>2. \A n : Shown(n)' /\ ~InHand(n)' => IdLine(n) \in read[p]
      BY <1>3, <1>7, <2>1 DEF Listing, Listed, IdLine
  <2> QED
      BY <1>2, <1>5, <1>7, <2>1, <2>2, ProcsAssumption
<1>8. CASE p \in Logins /\ TruncateSecret(p)
  <2>1. /\ config' = config /\ pc[p] = "truncSec" /\ pc'[p] = "writeSec"
        /\ \A n \in KeyNames : /\ n = Name[p] => sec'[n] = EmptySec
                               /\ n # Name[p] => sec'[n] = sec[n]
      BY <1>0, <1>8, Zenon DEF TruncateSecret, Goto
  <2>2. EmptySec.state # "missing"
      BY Zenon DEF EmptySec
  <2>3. \A n : Shown(n)' => Shown(n)
      BY <1>2, <1>3, <2>1, Zenon DEF Listed
  <2> QED
      BY <1>2, <1>5, <1>8, <2>1, <2>2, <2>3, ProcsAssumption, Zenon
<1>9. CASE p \in Logouts /\ RemoveSecret(p)
  <2>1. /\ config' = config /\ pc[p] \in {"rmSec", "rmSecOne"}
        /\ pc'[p] \in {"rmCert", "rmCertOne"} /\ at' = at
        /\ \A n \in KeyNames : n # at[p] => sec'[n] = sec[n]
      BY <1>0, <1>9 DEF RemoveSecret, Goto
  <2>2. \A n : Shown(n)' => Shown(n)
      BY <1>2, <1>3, <2>1, Zenon DEF Listed
  <2>3. \A n : ~InHand(n)' => n # at[p]
      BY <1>3, <1>9, <2>1, Zenon
  <2> QED
      BY <1>2, <1>5, <1>9, <2>1, <2>2, <2>3, ProcsAssumption, Zenon
<1>10. CASE p \in Logouts /\ RemoveCert(p)
  <2>1. config' = config /\ sec' = sec /\ at' = at
      BY <1>10, Zenon DEF RemoveCert
  <2>2. CASE pc[p] = "rmCert"
    <3>1. pc'[p] = "readLines"
        BY <1>0, <1>10, <2>2 DEF RemoveCert, Goto
    <3>2. \A n : (Shown(n)' => Shown(n)) /\ (InHand(n) => InHand(n)')
        BY <1>2, <1>3, <1>10, <2>1, <2>2, <3>1, ProcsAssumption, Zenon DEF Listed
    <3> QED
        BY <1>5, <2>1, <3>2, Zenon
  <2>3. CASE pc[p] = "rmCertOne"
    <3>1. pc'[p] = "done"
        BY <1>0, <1>10, <2>3 DEF RemoveCert, Goto
    <3>2. \A n : (Shown(n)' => Shown(n)) /\ (InHand(n) => n = at[p])
        BY <1>2, <1>3, <1>10, <2>1, <2>3, <3>1, ProcsAssumption, Zenon DEF Listed
    <3>3. Dangling' \subseteq Dangling \cup {at[p]}
        BY <1>4, <2>1, <3>2, Zenon
    <3> QED
        BY <1>10, <2>3, <3>3, Zenon
  <2> QED
      BY <1>10, <2>2, <2>3, Zenon DEF RemoveCert
<1>11. CASE p \in Logouts /\ (LogoutReadConfig(p) \/ LogoutTruncateConfig(p))
  <2>1. /\ sec' = sec /\ at' = at /\ pc[p] \in {"readLines", "truncLines"}
        /\ pc'[p] \in {"next", "truncLines", "writeLines"}
      BY <1>0, <1>11 DEF LogoutReadConfig, LogoutTruncateConfig, Goto, files, local
  <2>2. pc'[p] = "next" => config' = config /\ config.lines = {}
      BY <1>0, <1>11 DEF LogoutReadConfig, LogoutTruncateConfig, Goto, files, LinesExist
  <2>3. \A n : Shown(n)' => Shown(n)
      BY <1>0, <1>2, <1>3, <1>11, TextLines, Zenon DEF LogoutReadConfig, LogoutTruncateConfig,
         Goto, files, local, Listed
  <2>4. pc'[p] = "next" => \A n : ~Shown(n)'
      BY <1>3, <2>2, ZenonT(30) DEF Listed
  <2>5. pc'[p] # "next" => \A n : InHand(n) => InHand(n)'
      BY <1>2, <1>3, <1>11, <2>1, ProcsAssumption
  <2> QED
      BY <1>5, <2>1, <2>3, <2>4, <2>5, Zenon
<1>12. CASE p \in Logouts /\ LogoutWriteConfig(p)
  <2>1. /\ sec' = sec /\ pc[p] = "writeLines" /\ pc'[p] = "next"
        /\ config'.lines = read[p] \ {IdLine(at[p])}
      BY <1>0, <1>12, OwnText, Zenon DEF LogoutWriteConfig, Goto
  <2>2. \A n : Shown(n)' => IdLine(n) \in read[p] /\ n # at[p]
      BY <1>3, <2>1, Zenon DEF Listed, IdLine
  <2> QED
      BY <1>2, <1>5, <1>12, <2>1, <2>2, ProcsAssumption, Zenon
<1>13. CASE Crash(p)
  <2>1. UNCHANGED <<config, sec, at, read>> /\ pc'[p] = "killed"
      BY <1>0, <1>13, Zenon DEF Crash, Goto, files, local
  <2>2. \A n : Shown(n)' => Shown(n)
      BY <1>2, <1>3, <2>1, Zenon DEF Listed
  <2>3. \E m : \A n : InHand(n) => n = m
    <3>1. CASE p \in Logins
        BY <1>2, <3>1, ProcsAssumption
    <3>2. CASE p \notin Logins
        BY <1>2, <3>2
    <3> QED
        BY <3>1, <3>2, Zenon
  <2>4. PICK m : \A n : InHand(n) => n = m
      BY <2>3, Zenon
  <2>5. Dangling' \subseteq Dangling \cup {m}
      BY <1>4, <2>1, <2>2, <2>4, Zenon
  <2> QED
      BY <1>13, <2>5, Zenon
<1>14. CASE /\ config'.lines = config.lines
            /\ \A n \in KeyNames : sec'[n].state = "missing" => sec[n].state = "missing"
            /\ pc'[p] \notin ConfigLabels
            /\ pc[p] \notin HandLabels \cup {"truncSec"}
  <2>1. \A n : (Shown(n)' => Shown(n)) /\ ~InHand(n)
      BY <1>2, <1>3, <1>14 DEF Listed
  <2> QED
      BY <1>5, <1>14, <2>1, ZenonT(30)
<1> QED
  <2>1. CASE p \in Configurers /\ \/ CreateConfig(p) \/ ReadSsh(p) \/ TruncateSsh(p)
                                  \/ WriteSsh(p)
      BY <1>0, <1>14, <2>1, TextLines, Zenon
      DEF CreateConfig, ReadSsh, TruncateSsh, WriteSsh, files, Begin,
         Goto
  <2>2. CASE p \in Logins /\ (WriteSecret(p) \/ TruncateCert(p) \/ WriteCert(p))
    <3>1. /\ config' = config /\ pc[p] \notin HandLabels \cup {"truncSec"}
          /\ pc'[p] \notin ConfigLabels
        BY <1>0, <2>2, Zenon DEF WriteSecret, TruncateCert, WriteCert, Goto
    <3>2. \A n \in KeyNames : sec'[n] = sec[n] \/ sec'[n] = SecOf(p)
        BY <1>0, <2>2, Zenon DEF WriteSecret, TruncateCert, WriteCert
    <3>3. SecOf(p).state # "missing"
        BY Zenon DEF SecOf
    <3> QED
        BY <1>14, <3>1, <3>2, <3>3
  <2>3. CASE LookStep(p)
    <3>1. config' = config /\ sec' = sec
        BY <2>3, Zenon DEF LookStep, CheckInclude, StatConfig, WriteBegin, LogoutBegin, NextName,
           LogoutOneBegin, LogoutReadCert, ReadCert, LogoutReadSecret, ReadSecret, files
    <3>2. pc'[p] \notin ConfigLabels
        BY <2>3, QuietSteps, Zenon DEF Quiet, TextLabels, WriteLabels
    <3>3. pc[p] \notin HandLabels \cup {"truncSec"}
        BY <2>3, Zenon DEF LookStep, CheckInclude, StatConfig, WriteBegin, LogoutBegin, NextName,
           LogoutOneBegin, LogoutReadCert, ReadCert, LogoutReadSecret, ReadSecret
    <3> QED
        BY <1>14, <3>1, <3>2, <3>3
  <2> QED
      BY <1>6, <1>7, <1>8, <1>9, <1>10, <1>11, <1>12, <1>13, <2>1, <2>2, <2>3, Zenon
         DEF Steps, KeyStep, ReadStep, TruncateStep, WriteStep

\* A command that starts to work leaves nothing more dangling.
LEMMA DanglingStart ==
    ASSUME TypeInv, NEW p \in Procs, Steps(p), ~Busy(p)
    PROVE  Dangling' \subseteq Dangling
<1>0. /\ pc \in [Procs -> Labels] /\ at \in [Logouts -> Names] /\ pc[p] \in Resting
    BY DEF TypeInv, TypeOK, Labels, Busy
<1>1. \/ LookStep(p) \/ CreateConfig(p)
  <2>1. ~ReadStep(p) /\ ~TruncateStep(p) /\ ~WriteStep(p)
      BY TextSteps, Zenon
  <2>2. ~KeyStep(p) /\ ~Crash(p)
      BY <1>0, Zenon DEF Resting, KeyStep, TruncateSecret, WriteSecret, TruncateCert, WriteCert,
         RemoveSecret, RemoveCert, Crash
  <2> QED
      BY <2>1, <2>2 DEF Steps
<1>2. config'.lines = config.lines /\ sec' = sec /\ read' = read
    BY <1>1, TextLines, Zenon DEF LookStep, CheckInclude, StatConfig, WriteBegin, LogoutBegin,
       NextName, LogoutOneBegin, LogoutReadCert, ReadCert, LogoutReadSecret, ReadSecret,
       CreateConfig, files, local
<1>3. \A q \in Procs \ {p} : pc'[q] = pc[q]
    BY <1>0, Marks DEF Moves
<1>4. \A q \in Logouts \ {p} : at'[q] = at[q]
    BY <1>0, <1>1, Zenon DEF LookStep, CheckInclude, StatConfig, WriteBegin, LogoutBegin,
       NextName, LogoutOneBegin, LogoutReadCert, ReadCert, LogoutReadSecret, ReadSecret,
       CreateConfig, local
<1>5. pc'[p] \notin ConfigLabels
  <2>1. CASE LookStep(p)
      BY <2>1, QuietSteps DEF Quiet, TextLabels, WriteLabels, ConfigLabels
  <2>2. CASE CreateConfig(p)
      BY <1>0, <2>2 DEF CreateConfig, Begin, Goto, ConfigLabels
  <2> QED
      BY <1>1, <2>1, <2>2, Zenon
<1>6. pc[p] \notin HandLabels \cup {"truncSec"}
    BY <1>0, Zenon DEF Resting, HandLabels, LineSteps
<1> QED
    BY <1>2, <1>3, <1>4, <1>5, <1>6, NoMoreDangling, Zenon

\* Counting: a subset is no larger, one more element is one more.
LEMMA CountMore ==
    ASSUME NEW S, IsFiniteSet(S), NEW T, NEW n
    PROVE  /\ Cardinality(S) \in Nat
           /\ T \subseteq S => IsFiniteSet(T) /\ Cardinality(T) <= Cardinality(S)
           /\ T \subseteq S \cup {n} => IsFiniteSet(T) /\ Cardinality(T) <= Cardinality(S) + 1
           /\ n \notin S => Cardinality(S \cup {n}) = Cardinality(S) + 1
<1>1. Cardinality(S) \in Nat
    BY FS_CardinalityType
<1>2. T \subseteq S => IsFiniteSet(T) /\ Cardinality(T) <= Cardinality(S)
    BY FS_Subset, Zenon
<1>3. /\ IsFiniteSet(S \cup {n})
      /\ n \in S => Cardinality(S \cup {n}) = Cardinality(S)
      /\ n \notin S => Cardinality(S \cup {n}) = Cardinality(S) + 1
    BY FS_AddElement, Zenon
<1>4. T \subseteq S \cup {n} =>
         IsFiniteSet(T) /\ Cardinality(T) <= Cardinality(S \cup {n}) /\ Cardinality(T) \in Nat
    BY <1>3, FS_Subset, FS_CardinalityType, Zenon
<1>5. T \subseteq S \cup {n} => Cardinality(T) <= Cardinality(S) + 1
    BY <1>1, <1>3, <1>4
<1> QED
    BY <1>1, <1>2, <1>3, <1>4, <1>5

\* DangleInv holds in every state.
LEMMA DangleInvariant == Spec => []DangleInv
<1>1. Init => DangleInv
  <2> SUFFICES ASSUME Init PROVE DangleInv
      OBVIOUS
  <2>1. (\A n : ~Listed(n)) /\ \A p \in Procs : pc[p] = "new"
      BY InitialConfig DEF Init
  <2>2. \A n : ~Shown(n)
      BY <2>1, Zenon DEF Shown, ConfigLabels
  <2>3. Dangling = {} /\ single = {} /\ crashes = 0
      BY <2>2 DEF Dangling, Init
  <2>4. IsFiniteSet({}) /\ Cardinality({}) = 0
      BY FS_EmptySet, Zenon
  <2> QED
      BY <2>3, <2>4 DEF DangleInv
<1>2. /\ TypeInv /\ OneAtWork /\ AloneAtWork /\ LinesExist /\ HoldInv /\ SingleInv
      /\ DangleInv /\ [Next]_vars
      => DangleInv'
  <2> SUFFICES ASSUME TypeInv, OneAtWork, AloneAtWork, LinesExist, HoldInv, SingleInv,
                      DangleInv, [Next]_vars, ~overlap'
               PROVE  /\ IsFiniteSet(Dangling')
                      /\ Cardinality(Dangling') <= crashes' + Cardinality(single')
      BY Zenon DEF DangleInv
  <2>0. crashes \in Nat /\ IsFiniteSet(single) /\ Cardinality(single) \in Nat
      BY FS_CardinalityType, BoundsAssumption DEF TypeInv, TypeOK, SingleInv
  <2>1. ASSUME NEW p \in Procs, Steps(p)
        PROVE  /\ IsFiniteSet(Dangling')
               /\ Cardinality(Dangling') <= crashes' + Cardinality(single')
    <3>1. ~overlap
        BY <2>1, Marks
    <3>2. /\ IsFiniteSet(Dangling) /\ Cardinality(Dangling) <= crashes + Cardinality(single)
          /\ Cardinality(Dangling) \in Nat
        BY <3>1, FS_CardinalityType, Zenon DEF DangleInv
    <3>3. /\ Crash(p) => crashes' = crashes + 1 /\ single' = single
          /\ ~Crash(p) => crashes' = crashes
        BY <2>1, QuietSteps, TextSteps, Zenon DEF Crash, Steps, Quiet
    <3>4. /\ Cardinality(single') \in Nat
          /\ Cardinality(single') >= Cardinality(single)
          /\ p \in Logouts /\ RemoveCert(p) /\ pc[p] = "rmCertOne" =>
                Cardinality(single') = Cardinality(single) + 1
      <4>1. p \in Logouts => p \notin single
          BY <2>1, LogoutEnds, Zenon DEF SingleInv
      <4>2. p \notin single => Cardinality(single \cup {p}) = Cardinality(single) + 1
          BY <2>0, CountMore, Zenon
      <4>3. p \in Logouts /\ RemoveCert(p) /\ pc[p] = "rmCertOne" => single' = single \cup {p}
          BY Zenon DEF RemoveCert
      <4>4. single' = single \/ (p \in Logouts /\ single' = single \cup {p})
          BY <2>1, SingleSteps
      <4>5. \/ Cardinality(single') = Cardinality(single)
            \/ Cardinality(single') = Cardinality(single) + 1
          BY <4>1, <4>2, <4>4, Zenon
      <4>6. p \in Logouts /\ RemoveCert(p) /\ pc[p] = "rmCertOne" =>
                Cardinality(single') = Cardinality(single) + 1
          BY <4>1, <4>2, <4>3, Zenon
      <4> QED
          BY <2>0, <4>5, <4>6
    <3>5. CASE Dangling' \subseteq Dangling
      <4>1. /\ IsFiniteSet(Dangling') /\ Cardinality(Dangling') <= Cardinality(Dangling)
            /\ Cardinality(Dangling') \in Nat
          BY <3>2, <3>5, CountMore, FS_CardinalityType, Zenon
      <4>2. crashes' \in Nat /\ crashes' >= crashes
          BY <2>0, <3>3
      <4> QED
          BY <2>0, <3>2, <3>4, <4>1, <4>2
    <3>6. ASSUME NEW n, Dangling' \subseteq Dangling \cup {n},
                 Crash(p) \/ (p \in Logouts /\ RemoveCert(p) /\ pc[p] = "rmCertOne")
          PROVE  /\ IsFiniteSet(Dangling')
                 /\ Cardinality(Dangling') <= crashes' + Cardinality(single')
      <4>1. /\ IsFiniteSet(Dangling') /\ Cardinality(Dangling') <= Cardinality(Dangling) + 1
          BY <3>2, <3>6, CountMore, Zenon
      <4>2. Cardinality(Dangling') \in Nat
          BY <4>1, FS_CardinalityType, Zenon
      <4>3. crashes' \in Nat /\ crashes' >= crashes
          BY <2>0, <3>3
      <4>4. crashes' + Cardinality(single') >= crashes + Cardinality(single) + 1
          BY <2>0, <3>3, <3>4, <3>6, <4>3
      <4> QED
          BY <2>0, <3>2, <3>4, <4>1, <4>2, <4>3, <4>4
    <3>7. CASE Busy(p)
      <4>1. alone[p] /\ \A q \in Procs \ {p} : pc[q] \in Resting
          BY <3>1, <3>7 DEF AloneAtWork, OneAtWork, Busy
      <4> QED
          BY <2>1, <3>5, <3>6, <3>7, <4>1, DanglingStep, Zenon
    <3>8. CASE ~Busy(p)
        BY <2>1, <3>5, <3>8, DanglingStart, Zenon
    <3> QED
        BY <3>7, <3>8
  <2>2. CASE UserRemovesDir
    <3>1. /\ config'.lines = {} /\ UNCHANGED <<pc, single, crashes>>
          /\ \A p \in Procs : pc'[p] \in Resting
        BY <2>2, Zenon DEF UserRemovesDir, NoFile, AtRest
    <3>2. \A n : ~Shown(n)'
        BY <3>1, Zenon DEF Shown, Listed, ConfigLabels, Resting
    <3>3. Dangling' = {}
        BY <3>2 DEF Dangling
    <3>4. IsFiniteSet({}) /\ Cardinality({}) = 0
        BY FS_EmptySet
    <3> QED
        BY <2>0, <3>1, <3>3, <3>4
  <2>3. CASE UNCHANGED vars
    <3>1. UNCHANGED <<config, pc, read, at, sec, single, crashes, overlap>>
        BY <2>3, Zenon DEF vars, files, local, hist, past
    <3>2. Dangling' = Dangling
        BY <3>1, Zenon DEF Dangling, Shown, Listed, InHand
    <3> QED
        BY <3>1, <3>2, Zenon DEF DangleInv
  <2> QED
      BY <2>1, <2>2, <2>3, Sorted, NameTypes, Zenon DEF Steps
<1> QED
    BY <1>1, <1>2, TypeInvariant, OneAtWorkInvariant, AloneAtWorkInvariant,
       LinesExistInvariant, HoldInvariant, SingleInvariant, PTL DEF Spec

\* Without overlap there are at most as many lines without a key as commands
\* were killed and keys removed one by one.
THEOREM DanglingLinesAreCounted == Spec => []DanglingCounted
<1>1. DangleInv => DanglingCounted
  <2> SUFFICES ASSUME DangleInv, AtRest, ~overlap
               PROVE  Cardinality({n \in KeyNames : Listed(n) /\ sec[n].state = "missing"})
                         <= crashes + Cardinality(single)
      BY Zenon DEF DanglingCounted
  <2>1. \A n : (Shown(n) <=> Listed(n)) /\ ~InHand(n)
      BY NameTypes, Zenon DEF Shown, InHand, AtRest, Resting, ConfigLabels, HandLabels, LineSteps
  <2>2. Dangling = {n \in KeyNames : Listed(n) /\ sec[n].state = "missing"}
      BY <2>1 DEF Dangling
  <2> QED
      BY <2>2, Zenon DEF DangleInv
<1> QED
    BY <1>1, DangleInvariant, PTL
=============================================================================
