------------------------- MODULE ServerFilesProofs --------------------------
(***************************************************************************)
(* Theorems about ServerFiles, for every set of contents and attributes    *)
(* the files may be given and any number of changes and failing calls.     *)
(***************************************************************************)
EXTENDS ServerFiles, FiniteSetTheorems, TLAPS

Repaired == EtcFiles \cup {"plugin"}

\* What the repair works on at each of its steps.
Shape ==
    /\ pc = "ask" => cur = "policy"
    /\ pc = "stat" => cur \in EtcFiles \cup {"dir"}
    /\ pc = "create" => cur \in {"policy", "dir"}
    /\ pc \in {"chmod", "chown"} => cur \in Repaired
    /\ pc = "list" => cur = "dir"
    /\ pc = "report" => cur \in {"dir", "plugin"}

TypeInv == TypeOK /\ Shape

\* A file that exists has a mode, an owner and a group.
LEMMA Existing ==
    ASSUME attr \in [Files -> Attrs], NEW f \in Files, attr[f].exists
    PROVE  attr[f] \in [exists : {TRUE}, mode : Modes, owner : Owners, group : Groups]
<1>1. attr[f] \in Attrs
    OBVIOUS
<1>2. ~ Missing.exists
    BY DEF Missing
<1> QED
    BY <1>1, <1>2 DEF Attrs

\* The attributes the repair gives a file are attributes.
LEMMA AttrTypes ==
    ASSUME attr \in [Files -> Attrs]
    PROVE  /\ \A f \in Repaired : attr[f].exists =>
                 /\ [attr[f] EXCEPT !.mode = RequiredMode(f)] \in Attrs
                 /\ ChownedTo(f) \in Attrs
           /\ AfterCreate \in Attrs
           /\ AfterMkdir \in Attrs
           /\ Missing \in Attrs
           /\ \A f \in Files : Right(f) \in Attrs
<1>1. \A f \in Repaired : attr[f].exists =>
          attr[f] \in [exists : {TRUE}, mode : Modes, owner : Owners, group : Groups]
    BY Existing DEF Repaired, EtcFiles, Files
<1>2. \A f \in Repaired : attr[f].exists =>
                 /\ [attr[f] EXCEPT !.mode = RequiredMode(f)] \in Attrs
                 /\ ChownedTo(f) \in Attrs
    BY <1>1, ZenonT(30) DEF Attrs, ChownedTo, RequiredMode, RequiredOwner, RequiredGroup, Modes,
                Owners, Groups, Repaired, EtcFiles
<1>3. NewFile \in Attrs /\ NewDir \in Attrs
    BY DEF Attrs, NewFile, NewDir, RequiredMode, Modes, Owners, Groups
<1>4. AfterCreate \in Attrs /\ AfterMkdir \in Attrs
    BY <1>3 DEF AfterCreate, AfterMkdir, Files
<1>5. Missing \in Attrs /\ \A f \in Files : Right(f) \in Attrs
    BY DEF Attrs, Right, RequiredMode, Modes, Owners, Groups
<1> QED
    BY <1>2, <1>4, <1>5

\* A finished or failed system call keeps the types.
LEMMA CallTypes ==
    ASSUME TypeOK, NEW op, NEW f \in Files, NEW a \in Attrs, Op(op, f) \in Ops,
           \/ Succeeds(op, f, a)
           \/ Fails(op, f) /\ (Accident \/ UNCHANGED failures)
    PROVE  /\ attr' \in [Files -> Attrs]
           /\ tried' \subseteq Ops /\ errs' \subseteq tried'
           /\ failures' \in 0 .. MaxFailures
<1>1. attr' \in [Files -> Attrs]
    BY DEF TypeOK, Succeeds, Fails
<1>2. tried' \subseteq Ops /\ errs' \subseteq tried'
    BY DEF TypeOK, Succeeds, Fails
<1>3. failures' \in 0 .. MaxFailures
    BY BoundsAssumption DEF TypeOK, Succeeds, Fails, Accident
<1> QED
    BY <1>1, <1>2, <1>3

\* An operation has its kind and its file.
LEMMA OpParts == \A what, f : Op(what, f)[1] = what /\ Op(what, f)[2] = f
BY DEF Op

\* Failing looks are counted.
LEMMA OverlookTypes ==
    ASSUME TypeOK, NEW lost, Overlooks(lost)
    PROVE  failures' \in 0 .. MaxFailures /\ lost \subseteq Files
<1>1. \A x, y, z : IsFiniteSet({x} \cup {y} \cup {z})
    BY FS_Singleton, FS_Union, Zenon
<1>2. Files = ({"policy"} \cup {"providers"} \cup {"config"})
              \cup ({"dir"} \cup {"plugin"} \cup {"home"})
    BY DEF Files
<1>3. IsFiniteSet(Files)
    BY <1>1, <1>2, FS_Union, Zenon
<1>4. lost \subseteq Files
    BY DEF Overlooks, There
<1>5. Cardinality(lost) \in Nat
    BY <1>3, <1>4, FS_Subset, FS_CardinalityType
<1> QED
    BY <1>4, <1>5, BoundsAssumption DEF Overlooks, TypeOK

\* Existence is a truth value.
LEMMA ExistsType ==
    ASSUME attr \in [Files -> Attrs]
    PROVE  \A f \in Files : attr[f].exists \in BOOLEAN
<1> TAKE f \in Files
<1>1. attr[f] \in Attrs
    OBVIOUS
<1>2. CASE attr[f] = Missing
    BY <1>2 DEF Missing
<1>3. CASE attr[f] # Missing
    BY <1>1, <1>3 DEF Attrs
<1> QED
    BY <1>2, <1>3

\* A Stat finds the file, or finds none, or fails at one that is there.
LEMMA StatStep ==
    ASSUME Stat
    PROVE  /\ pc = "stat"
           /\ UNCHANGED <<attr, text, tried, errs, opt, planned, exit, misplanned, fixSolo>>
           /\ UNCHANGED <<auditing, auditSolo, touches>>
           /\ \/ /\ attr[cur].exists /\ blind' = blind
                 /\ pc' = IF cur = "dir" THEN "list" ELSE "chmod"
                 /\ cur' = cur
              \/ NotFound /\ ~attr[cur].exists /\ blind' = blind
              \/ NotFound /\ attr[cur].exists /\ blind' = blind \cup {cur}
<1>1. PICK lost \in SUBSET {cur} :
          /\ Overlooks(lost) /\ blind' = blind \cup lost
          /\ IF attr[cur].exists /\ lost = {}
             THEN Goto(IF cur = "dir" THEN "list" ELSE "chmod", cur)
             ELSE NotFound
    BY DEF Stat
<1>2. lost = {} \/ (lost = {cur} /\ attr[cur].exists)
    BY <1>1 DEF Overlooks, There
<1> QED
    BY <1>1, <1>2 DEF Stat, Goto, FixStays, AuditStays, disk

\* So does the listing of the plugins.
LEMMA ListStep ==
    ASSUME ListPlugins
    PROVE  /\ pc = "list"
           /\ UNCHANGED <<attr, text, tried, errs, opt, planned, exit, misplanned, fixSolo>>
           /\ UNCHANGED <<auditing, auditSolo, touches>>
           /\ \/ /\ attr["plugin"].exists /\ blind' = blind
                 /\ pc' = "chmod" /\ cur' = "plugin"
              \/ /\ ~attr["plugin"].exists /\ blind' = blind
                 /\ pc' = "report" /\ cur' = cur
              \/ /\ attr["plugin"].exists /\ blind' = blind \cup {"plugin"}
                 /\ pc' = "report" /\ cur' = cur
<1>1. PICK lost \in SUBSET {"plugin"} :
          /\ Overlooks(lost) /\ blind' = blind \cup lost
          /\ IF attr["plugin"].exists /\ lost = {}
             THEN Goto("chmod", "plugin") ELSE Goto("report", cur)
    BY DEF ListPlugins
<1>2. lost = {} \/ (lost = {"plugin"} /\ attr["plugin"].exists)
    BY <1>1 DEF Overlooks, There
<1> QED
    BY <1>1, <1>2 DEF ListPlugins, Goto, FixStays, AuditStays, disk

\* What audit finds in one file.
LEMMA AuditFileTypes ==
    ASSUME TypeOK, NEW f \in TextFiles, AuditFile(f)
    PROVE  /\ rows' \subseteq {"SUCCESS", "WARNING", "ERROR"} /\ badFile' \in BOOLEAN
           /\ failures' \in 0 .. MaxFailures /\ missed' \subseteq TextFiles
<1>1. \A l : LineStatus(l) \in {"SUCCESS", "WARNING", "ERROR"}
    BY DEF LineStatus, ValidateEntry
<1> PICK lost \in SUBSET {f} :
        /\ Overlooks(lost)
        /\ missed' = missed \cup lost
        /\ IF attr[f].exists /\ lost = {}
           THEN /\ rows' = rows \cup {LineStatus(l) : l \in text[f]}
                /\ badFile' = (badFile \/ ~PermsRight(f))
           ELSE UNCHANGED <<rows, badFile>>
    BY DEF AuditFile
<1>2. rows' \subseteq {"SUCCESS", "WARNING", "ERROR"}
    BY <1>1 DEF TypeOK
<1>3. badFile' \in BOOLEAN
  <2>1. badFile \in BOOLEAN
      BY DEF TypeOK
  <2> QED
      BY <2>1, Zenon
<1>4. failures' \in 0 .. MaxFailures /\ missed' \subseteq TextFiles
    BY OverlookTypes DEF TypeOK
<1> QED
    BY <1>2, <1>3, <1>4

\* The types, and the file in hand at each step of the repair.
LEMMA TypeInvariant == Spec => []TypeInv
<1>1. Init => TypeInv
  <2> SUFFICES ASSUME Init PROVE TypeInv
      OBVIOUS
  <2>1. attr \in [Files -> Attrs]
    <3>1. \A f \in Files : Right(f) \in Attrs
        BY DEF Attrs, Right, RequiredMode, Modes, Owners, Groups, Files
    <3> QED
        BY <3>1 DEF Init
  <2>2. text = [f \in TextFiles |-> text[f]]
      BY StartsAssumption DEF Init
  <2>3. touches \in 0 .. MaxTouches /\ failures \in 0 .. MaxFailures
      BY BoundsAssumption DEF Init
  <2> QED
      BY <2>1, <2>2, <2>3 DEF Init, TypeInv, TypeOK, Shape, Options, Files
<1>2. TypeInv /\ [Next]_vars => TypeInv'
  <2> SUFFICES ASSUME TypeInv, [Next]_vars PROVE TypeInv'
      OBVIOUS
  <2>1. ASSUME NEW o \in Options, NEW yes \in BOOLEAN, FixBegin(o, yes) PROVE TypeInv'
    <3>1. PICK lost \in SUBSET (Files \ {"home"}) :
              Overlooks(lost) /\ misplanned' = lost /\ planned' = Plan(There \ lost)
        BY <2>1 DEF FixBegin
    <3>2. /\ planned' \subseteq Ops /\ misplanned' \subseteq Files
          /\ failures' \in 0 .. MaxFailures
        BY <3>1, OverlookTypes DEF Plan, TypeInv
    <3> QED
        BY <2>1, <3>2 DEF FixBegin, TypeInv, TypeOK, Shape, Goto, AuditStays,
            disk, auditing, Files, EtcFiles
  <2>2. ASSUME NEW yes \in BOOLEAN, Answer(yes) PROVE TypeInv'
      BY <2>2 DEF Answer, TypeInv, TypeOK, Shape, Goto, AuditStays, disk, auditing,
          EtcFiles
  <2>3. CASE Stat
    <3>1. failures' \in 0 .. MaxFailures /\ blind' \subseteq Files
        BY <2>3, OverlookTypes, Zenon DEF Stat, TypeInv, TypeOK
    <3>2. /\ pc' \in {"stat", "create", "chmod", "list"} /\ cur' \in Files \ {"home"}
          /\ Shape'
        BY <2>3, StatStep DEF NotFound, TypeInv, Shape, Goto, EtcFiles, Repaired, Files
    <3> QED
        BY <2>3, <3>1, <3>2, StatStep DEF TypeInv, TypeOK, auditing
  <2>4. CASE CreatePolicy
      BY <2>4, AttrTypes, CallTypes DEF CreatePolicy, TypeInv, TypeOK, Shape, Goto, FixStays,
          AuditStays, auditing, Repaired, EtcFiles, Files, Ops
  <2>5. CASE MakeDir
      BY <2>5, AttrTypes, CallTypes DEF MakeDir, TypeInv, TypeOK, Shape, Goto, FixStays,
          AuditStays, auditing, Files, Ops
  <2>6. CASE Chmod
      BY <2>6, AttrTypes, CallTypes DEF Chmod, TypeInv, TypeOK, Shape, Goto, FixStays,
          AuditStays, auditing, Repaired, EtcFiles, Files, Ops, Repair
  <2>7. CASE Chown
      BY <2>7, AttrTypes, CallTypes DEF Chown, TypeInv, TypeOK, Shape, Goto, GoOn, FixStays,
          AuditStays, auditing, Repaired, EtcFiles, Files, Ops, Repair
  <2>8. CASE ListPlugins
    <3>1. failures' \in 0 .. MaxFailures /\ blind' \subseteq Files
        BY <2>8, OverlookTypes, Zenon DEF ListPlugins, TypeInv, TypeOK
    <3> QED
        BY <2>8, <3>1, ListStep DEF TypeInv, TypeOK, Shape, auditing, Repaired, Files
  <2>9. CASE Report
      BY <2>9 DEF Report, TypeInv, TypeOK, Shape, Goto, AuditStays, disk, auditing
  <2>10. ASSUME NEW elevated \in BOOLEAN, AuditProviders(elevated) PROVE TypeInv'
      BY <2>10 DEF AuditProviders, TypeInv, TypeOK, Shape, AuditEnds, FixAside, disk, fixing
  <2>11. CASE AuditSystem
    <3>1. /\ rows' \subseteq {"SUCCESS", "WARNING", "ERROR"} /\ badFile' \in BOOLEAN
          /\ apc' \in {"homes", "done"} /\ auditExit' \in {"none", "ok", "error"}
        BY <2>11, AuditFileTypes DEF AuditSystem, TypeInv, TypeOK, AuditEnds, TextFiles
    <3>2. failures' \in 0 .. MaxFailures /\ missed' \subseteq TextFiles
        BY <2>11, AuditFileTypes, BoundsAssumption
           DEF AuditSystem, TypeInv, TypeOK, Accident, TextFiles
    <3> QED
        BY <2>11, <3>1, <3>2 DEF AuditSystem, TypeInv, TypeOK, Shape, FixAside, disk, fixing
  <2>12. CASE AuditHomes
    <3>1. /\ rows' \subseteq {"SUCCESS", "WARNING", "ERROR"}
          /\ badFile' \in BOOLEAN /\ homes' \in BOOLEAN
        BY <2>12, AuditFileTypes DEF AuditHomes, TypeInv, TypeOK, TextFiles
    <3>2. failures' \in 0 .. MaxFailures /\ missed' \subseteq TextFiles
        BY <2>12, AuditFileTypes, BoundsAssumption
           DEF AuditHomes, TypeInv, TypeOK, Accident, TextFiles
    <3> QED
        BY <2>12, <3>1, <3>2 DEF AuditHomes, TypeInv, TypeOK, Shape, AuditEnds, Summary,
            FixAside, disk, fixing
  <2>13. ASSUME NEW f \in Files, NEW a \in Found[f], Retouch(f, a) PROVE TypeInv'
    <3>1. attr' \in [Files -> Attrs]
        BY <2>13, FoundAssumption, AttrTypes DEF Retouch, TypeInv, TypeOK, Files
    <3>2. text' = [g \in TextFiles |-> text'[g]]
        BY <2>13 DEF Retouch, TypeInv, TypeOK
    <3>3. touches' \in 0 .. MaxTouches
        BY <2>13, BoundsAssumption DEF Retouch, Touch, TypeInv, TypeOK
    <3> QED
        BY <2>13, <3>1, <3>2, <3>3, ZenonT(30) DEF Retouch, TypeInv, TypeOK, Shape, Touch, fixing, auditing
  <2>14. ASSUME NEW f \in TextFiles, NEW lines \in Texts[f], Rewrite(f, lines) PROVE TypeInv'
    <3>1. text' = [g \in TextFiles |-> text'[g]]
        BY <2>14 DEF Rewrite, TypeInv, TypeOK
    <3>2. touches' \in 0 .. MaxTouches
        BY <2>14, BoundsAssumption DEF Rewrite, Touch, TypeInv, TypeOK
    <3> QED
        BY <2>14, <3>1, <3>2, ZenonT(30) DEF Rewrite, TypeInv, TypeOK, Shape, Touch, fixing, auditing
  <2>15. CASE UNCHANGED vars
      BY <2>15 DEF TypeInv, TypeOK, Shape, vars, disk, fixing, auditing
  <2> QED
      BY <2>1, <2>2, <2>3, <2>4, <2>5, <2>6, <2>7, <2>8, <2>9, <2>10, <2>11, <2>12, <2>13,
         <2>14, <2>15 DEF Next, FixStep, AuditStep, Others
<1> QED
    BY <1>1, <1>2, PTL DEF Spec

\* Every state of the administrator's commands is well typed.
THEOREM ServerFilesTypes == Spec => []TypeOK
<1>1. TypeInv => TypeOK
    BY DEF TypeInv
<1> QED
    BY <1>1, TypeInvariant, PTL

-----------------------------------------------------------------------------
Working == pc \notin {"idle", "done"}

\* Before a repair nothing is tried, and its result is known only at the end.
CourseInv ==
    /\ pc = "idle" => tried = {} /\ errs = {} /\ exit = "none" /\ blind = {}
    /\ exit # "none" => pc = "done"

\* CourseInv holds in every state.
LEMMA CourseInvariant == Spec => []CourseInv
<1>1. Init => CourseInv
    BY DEF Init, CourseInv, Working
<1>2. TypeInv /\ CourseInv /\ [Next]_vars => CourseInv'
  <2> SUFFICES ASSUME TypeInv, CourseInv, [Next]_vars PROVE CourseInv'
      OBVIOUS
  <2> USE DEF CourseInv, Working
  <2>1. ASSUME NEW o \in Options, NEW yes \in BOOLEAN, FixBegin(o, yes) PROVE CourseInv'
      BY <2>1 DEF FixBegin, Goto
  <2>2. ASSUME NEW yes \in BOOLEAN, Answer(yes) PROVE CourseInv'
      BY <2>2 DEF Answer, Goto, TypeInv, Shape
  <2>3. CASE Stat
      BY <2>3, StatStep DEF NotFound, Goto
  <2>4. CASE CreatePolicy
      BY <2>4 DEF CreatePolicy, Goto, FixStays, Succeeds, Fails
  <2>5. CASE MakeDir
      BY <2>5 DEF MakeDir, Goto, FixStays, Succeeds, Fails
  <2>6. CASE Chmod
      BY <2>6 DEF Chmod, Goto, FixStays, Succeeds, Fails
  <2>7. CASE Chown
      BY <2>7 DEF Chown, GoOn, Goto, FixStays, Succeeds, Fails
  <2>8. CASE ListPlugins
      BY <2>8, ListStep
  <2>9. CASE Report
      BY <2>9 DEF Report, Goto
  <2>10. CASE AuditStep
      BY <2>10 DEF AuditStep, AuditProviders, AuditSystem, AuditHomes, FixAside, fixing
  <2>11. CASE Others
      BY <2>11 DEF Others, Retouch, Rewrite, Touch, fixing
  <2>12. CASE UNCHANGED vars
      BY <2>12 DEF vars, fixing
  <2> QED
      BY <2>1, <2>2, <2>3, <2>4, <2>5, <2>6, <2>7, <2>8, <2>9, <2>10, <2>11, <2>12
         DEF Next, FixStep
<1> QED
    BY <1>1, <1>2, TypeInvariant, PTL DEF Spec

\* No step of a repair, finished or not, takes a file out of reach of verify.
THEOREM RepairsKeepAccess == Spec => FixKeepsAccess
<1>1. TypeInv /\ [Next]_vars =>
        [FixStep => \A f \in EtcFiles : LoadedByVerify(f, attr[f]) =>
                                         LoadedByVerify(f, attr'[f])]_vars
  <2> SUFFICES ASSUME TypeInv, FixStep, NEW f \in EtcFiles, LoadedByVerify(f, attr[f])
               PROVE  LoadedByVerify(f, attr'[f])
      OBVIOUS
  <2>1. attr[f].exists /\ attr[f].mode = "640"
      BY DEF LoadedByVerify, CheckPerm, EtcFiles
  <2>2. f \in Files /\ f # "dir" /\ attr \in [Files -> Attrs]
      BY DEF TypeInv, TypeOK, EtcFiles, Files
  <2>2a. attr[f] \in [exists : {TRUE}, mode : Modes, owner : Owners, group : Groups]
      BY <2>1, <2>2, Existing
  <2>3. CASE UNCHANGED attr
      BY <2>3
  <2>4. CASE CreatePolicy
      BY <2>2, <2>4, <2>1 DEF CreatePolicy, Succeeds, Fails, AfterCreate
  <2>5. CASE MakeDir
      BY <2>2, <2>5 DEF MakeDir, Succeeds, Fails
  <2>6. CASE Chmod
    <3>1. CASE cur = f /\ attr' = [attr EXCEPT ![cur] = [attr[cur] EXCEPT !.mode = RequiredMode(cur)]]
      <4>1. attr'[f] = [attr[f] EXCEPT !.mode = "640"]
          BY <3>1, <2>2 DEF RequiredMode, EtcFiles
      <4>2. /\ attr'[f].exists = attr[f].exists /\ attr'[f].mode = attr[f].mode
            /\ attr'[f].owner = attr[f].owner /\ attr'[f].group = attr[f].group
          BY <4>1, <2>1, <2>2a
      <4> QED
          BY <4>2 DEF LoadedByVerify, CheckPerm, ReadableByUser
    <3>2. CASE attr'[f] = attr[f]
        BY <3>2
    <3> QED
        BY <2>6, <2>2, <3>1, <3>2 DEF Chmod, Succeeds, Fails, TypeInv, TypeOK
  <2>7. CASE Chown
    <3>1. CASE cur = f /\ attr' = [attr EXCEPT ![cur] = ChownedTo(cur)]
      <4>1. attr'[f] = [attr[f] EXCEPT !.owner = "root", !.group = "opksshuser"]
          BY <3>1, <2>2 DEF ChownedTo, RequiredOwner, RequiredGroup, EtcFiles
      <4>2. /\ attr'[f].exists = attr[f].exists /\ attr'[f].mode = attr[f].mode
            /\ attr'[f].owner = "root" /\ attr'[f].group = "opksshuser"
          BY <4>1, <2>1, <2>2a
      <4> QED
          BY <4>2, <2>1 DEF LoadedByVerify, CheckPerm, ReadableByUser, EtcFiles
    <3>2. CASE attr'[f] = attr[f]
        BY <3>2
    <3> QED
        BY <2>7, <2>2, <3>1, <3>2 DEF Chown, Succeeds, Fails, TypeInv, TypeOK
  <2> QED
      BY <2>3, <2>4, <2>5, <2>6, <2>7, StatStep, ListStep DEF FixStep, FixBegin, Answer,
         Report, disk
<1> QED
    BY <1>1, TypeInvariant, PTL DEF Spec, FixKeepsAccess

-----------------------------------------------------------------------------
\* A file that does not exist has no lines, and after a Stat that did not fail
\* only a third party can bring the policy into being before its creation.
LinesInv ==
    /\ \A f \in TextFiles : ~attr[f].exists => text[f] = {}
    /\ fixSolo /\ pc = "create" /\ cur = "policy" /\ "policy" \notin blind =>
            ~attr["policy"].exists

\* No system call of the repair makes a file disappear.
LEMMA CallsKeepFiles ==
    ASSUME TypeInv, NEW f \in Files, attr[f].exists,
           CreatePolicy \/ MakeDir \/ Chmod \/ Chown
    PROVE  attr'[f].exists
<1>1. attr[f] \in [exists : {TRUE}, mode : Modes, owner : Owners, group : Groups]
    BY Existing DEF TypeInv, TypeOK
<1>2. CASE attr'[f] = attr[f]
    BY <1>2
<1>3. CASE cur = f /\ attr'[f] = [attr[f] EXCEPT !.mode = RequiredMode(f)]
    BY <1>1, <1>3
<1>4. CASE cur = f /\ attr'[f] = ChownedTo(f)
    BY <1>1, <1>4 DEF ChownedTo
<1>5. attr \in [Files -> Attrs]
    BY DEF TypeInv, TypeOK
<1> QED
    BY <1>2, <1>3, <1>4, <1>5 DEF CreatePolicy, MakeDir, Chmod, Chown, Succeeds, Fails,
       AfterCreate, AfterMkdir

\* LinesInv holds in every state.
LEMMA LinesInvariant == Spec => []LinesInv
<1>1. Init => LinesInv
    BY DEF Init, LinesInv, Right, TextFiles, Files
<1>2. TypeInv /\ LinesInv /\ [Next]_vars => LinesInv'
  <2> SUFFICES ASSUME TypeInv, LinesInv, [Next]_vars PROVE LinesInv'
      OBVIOUS
  <2>0. TextFiles \subseteq Files /\ attr \in [Files -> Attrs]
        /\ text = [f \in TextFiles |-> text[f]]
      BY DEF TextFiles, Files, TypeInv, TypeOK
  <2>1. ASSUME NEW o \in Options, NEW yes \in BOOLEAN, FixBegin(o, yes) PROVE LinesInv'
      BY <2>1 DEF LinesInv, FixBegin, Goto, disk
  <2>2. CASE ListPlugins \/ Report \/ \E yes \in BOOLEAN : Answer(yes)
      BY <2>2, ListStep DEF LinesInv, Report, Answer, Goto, disk
  <2>2a. CASE Stat
      BY <2>2a, StatStep DEF LinesInv, NotFound, Goto, TypeInv, TypeOK
  <2>3. CASE CreatePolicy \/ MakeDir \/ Chmod \/ Chown
    <3>1. \A f \in TextFiles : text'[f] = text[f] \/ text'[f] = {}
        BY <2>3, <2>0 DEF CreatePolicy, MakeDir, Chmod, Chown
    <3>2. pc' # "create"
        BY <2>3 DEF CreatePolicy, MakeDir, Chmod, Chown, Goto, GoOn
    <3> QED
        BY <2>3, <2>0, <3>1, <3>2, CallsKeepFiles DEF LinesInv
  <2>4. CASE AuditStep
    <3>1. UNCHANGED <<attr, text, pc, cur, blind, fixSolo>>
        BY <2>4 DEF AuditStep, AuditProviders, AuditSystem, AuditHomes, FixAside, disk, fixing
    <3> QED
        BY <3>1 DEF LinesInv
  <2>5. ASSUME NEW f \in Files, NEW a \in Found[f], Retouch(f, a) PROVE LinesInv'
    <3>1. ASSUME NEW g \in TextFiles, ~attr'[g].exists PROVE text'[g] = {}
      <4>1. CASE g # f
          BY <2>5, <2>0, <3>1, <4>1 DEF LinesInv, Retouch, TextFiles
      <4>2. CASE g = f
        <5>1. attr'[f] = a /\ ~a.exists
            BY <2>5, <2>0, <3>1, <4>2 DEF Retouch, TextFiles
        <5>2. CASE attr[f].exists
            BY <2>5, <2>0, <4>2, <5>1, <5>2 DEF Retouch
        <5>3. CASE ~attr[f].exists
            BY <2>5, <5>1, <5>3, FoundAssumption, <2>0 DEF Retouch, Attrs
        <5> QED
            BY <5>2, <5>3
      <4> QED
          BY <4>1, <4>2
    <3> QED
        BY <3>1, <2>5 DEF LinesInv, Retouch, Touch
  <2>6. ASSUME NEW f \in TextFiles, NEW lines \in Texts[f], Rewrite(f, lines) PROVE LinesInv'
      BY <2>6, <2>0 DEF LinesInv, Rewrite, Touch
  <2>7. CASE UNCHANGED vars
      BY <2>7 DEF LinesInv, vars, disk, fixing
  <2> QED
      BY <2>1, <2>2, <2>2a, <2>3, <2>4, <2>5, <2>6, <2>7 DEF Next, FixStep, Others
<1> QED
    BY <1>1, <1>2, TypeInvariant, PTL DEF Spec

\* A repair nobody interferes with, and whose Stat of the policy did not fail,
\* changes no line of a policy.
THEOREM RepairsKeepLines == Spec => FixKeepsLines
<1>1. TypeInv /\ LinesInv /\ [Next]_vars => [FixStep /\ fixSolo /\ "policy" \notin blind => text' = text]_vars
  <2> SUFFICES ASSUME TypeInv, LinesInv, FixStep, fixSolo, "policy" \notin blind
               PROVE  text' = text
      OBVIOUS
  <2>1. CASE CreatePolicy
    <3>1. text["policy"] = {}
        BY <2>1 DEF LinesInv, CreatePolicy, TextFiles
    <3> QED
        BY <2>1, <3>1 DEF CreatePolicy, TypeInv, TypeOK, TextFiles
  <2> QED
      BY <2>1, StatStep, ListStep DEF FixStep, FixBegin, Answer, MakeDir, Chmod, Chown, Report,
         disk
<1> QED
    BY <1>1, TypeInvariant, LinesInvariant, PTL DEF Spec, FixKeepsLines

-----------------------------------------------------------------------------
\* The parts of the repair that lie behind it, in the order of Fix.
Before(f) ==
    {g \in Repaired \cup {"dir"} :
        \/ f = "providers" /\ g = "policy"
        \/ f = "config" /\ g \in {"policy", "providers"}
        \/ f = "dir" /\ g \in EtcFiles
        \/ f = "plugin" /\ g \in EtcFiles \cup {"dir"}}

Past ==
    IF pc = "report" THEN Repaired \cup {"dir"}
    ELSE IF pc = "list" THEN EtcFiles \cup {"dir"} ELSE Before(cur)

\* The files at which a look of one of the two phases failed.
Unsure == misplanned \cup blind

\* While nobody interferes, the second look of the repair at each other file
\* sees what the first one saw.
PlanInv ==
    /\ \A op \in tried : op[2] \notin Unsure => op \in planned
    /\ Working =>
         /\ \A f \in {"providers", "config", "plugin"} \ Unsure :
                \A op \in Repair(f) : op \in planned <=> attr[f].exists
         /\ Repair("policy") \subseteq planned
         /\ pc \in {"ask", "stat"} /\ cur = "policy" /\ "policy" \notin Unsure =>
                (Op("create", "policy") \in planned <=> ~attr["policy"].exists)
         /\ pc = "create" /\ cur = "policy" /\ "policy" \notin Unsure =>
                Op("create", "policy") \in planned
         /\ "dir" \notin Past \cup Unsure /\ ~(pc = "create" /\ cur = "dir") =>
                (Op("mkdir", "dir") \in planned <=> ~attr["dir"].exists)
         /\ pc = "create" /\ cur = "dir" /\ "dir" \notin Unsure =>
                Op("mkdir", "dir") \in planned
         /\ pc \in {"chmod", "chown"} /\ cur # "policy" => attr[cur].exists
         /\ \A op \in planned : op[2] \in Past \ Unsure => op \in tried
         /\ /\ pc \in {"chmod", "chown"} /\ cur = "policy" /\ "policy" \notin Unsure
            /\ Op("create", "policy") \in planned
            => Op("create", "policy") \in tried
         /\ pc = "chown" => Op("chmod", cur) \in tried

\* The existence of the other files is not touched by a system call on one.
LEMMA CallsCreateOne ==
    ASSUME TypeInv, NEW f \in Files,
           \/ CreatePolicy /\ f # "policy"
           \/ MakeDir /\ f # "dir"
           \/ Chmod \/ Chown
    PROVE  attr'[f].exists = attr[f].exists
<1>1. attr[f].exists \in BOOLEAN
    BY ExistsType DEF TypeInv, TypeOK
<1>2. CASE f # cur
    BY <1>2 DEF CreatePolicy, MakeDir, Chmod, Chown, Succeeds, Fails, TypeInv, TypeOK
<1>3. CASE f = cur
  <2>1. Chmod \/ Chown
      BY <1>3 DEF CreatePolicy, MakeDir
  <2>2. CASE attr' = attr
      BY <2>2
  <2>3. CASE attr' # attr
    <3>1. attr[f].exists /\ attr \in [Files -> Attrs]
        BY <1>3, <2>1, <2>3 DEF Chmod, Chown, Fails, TypeInv, TypeOK
    <3>2. attr[f] \in [exists : {TRUE}, mode : Modes, owner : Owners, group : Groups]
        BY <3>1, Existing
    <3>3. \/ attr'[f] = [attr[f] EXCEPT !.mode = RequiredMode(f)]
          \/ attr'[f] = ChownedTo(f)
        BY <1>3, <2>1, <2>3, <3>1 DEF Chmod, Chown, Succeeds, Fails
    <3> QED
        BY <3>2, <3>3 DEF ChownedTo
  <2> QED
      BY <2>2, <2>3
<1> QED
    BY <1>2, <1>3

\* A repair nobody interferes with keeps to its plan.
LEMMA PlanInvariant == Spec => [](fixSolo => PlanInv)
<1>1. Init => PlanInv
    BY DEF Init, PlanInv, Working
<1>2. TypeInv /\ CourseInv /\ (fixSolo => PlanInv) /\ [Next]_vars => (fixSolo => PlanInv)'
  <2> SUFFICES ASSUME TypeInv, CourseInv, fixSolo => PlanInv, [Next]_vars, fixSolo'
               PROVE  PlanInv'
      OBVIOUS
  <2>0. attr \in [Files -> Attrs] /\ \A f \in Files : attr[f].exists \in BOOLEAN
      BY ExistsType DEF TypeInv, TypeOK
  <2>1. ASSUME NEW o \in Options, NEW yes \in BOOLEAN, FixBegin(o, yes) PROVE PlanInv'
    <3>1. PICK lost \in SUBSET (Files \ {"home"}) :
              misplanned' = lost /\ planned' = Plan(There \ lost)
        BY <2>1 DEF FixBegin
    <3>2. tried' = {} /\ blind' = {} /\ attr' = attr /\ Unsure' = lost
        BY <2>1, <3>1 DEF FixBegin, CourseInv, disk, Unsure
    <3>3. pc' \in {"done", "ask", "stat"} /\ (pc' # "done" => cur' = "policy")
        BY <2>1 DEF FixBegin, Goto
    <3>4. Working' => Past' = {}
        BY <3>3 DEF Working, Past, Before
    <3>5. \A f \in Files \ lost : f \in There \ lost <=> attr[f].exists
        BY DEF There
    <3>6. \A f \in {"providers", "config", "plugin"} \ lost :
                \A op \in Repair(f) : op \in Plan(There \ lost) <=> attr[f].exists
      <4> SUFFICES ASSUME NEW f \in {"providers", "config", "plugin"}, f \notin lost,
                          NEW op \in Repair(f)
                   PROVE  op \in Plan(There \ lost) <=> attr[f].exists
          OBVIOUS
      <4>1. op \in Ops /\ op[1] \in {"chmod", "chown"} /\ op[2] = f
          BY OpParts DEF Repair, Ops
      <4>2. f \in There \ lost <=> attr[f].exists
          BY <3>5 DEF Files
      <4> QED
          BY <4>1, <4>2 DEF Plan
    <3>7. /\ Repair("policy") \subseteq Plan(There \ lost)
          /\ "policy" \notin lost =>
                (Op("create", "policy") \in Plan(There \ lost) <=> ~attr["policy"].exists)
          /\ "dir" \notin lost =>
                (Op("mkdir", "dir") \in Plan(There \ lost) <=> ~attr["dir"].exists)
        BY <3>5, OpParts DEF Plan, Repair, Ops, Files
    <3> HIDE DEF Past, Unsure
    <3> QED
        BY <3>1, <3>2, <3>3, <3>4, <3>6, <3>7 DEF PlanInv, Working
  <2>2. ASSUME NEW yes \in BOOLEAN, Answer(yes) PROVE PlanInv'
    <3>1. /\ fixSolo /\ PlanInv /\ Working /\ cur = "policy"
          /\ UNCHANGED <<attr, planned, tried, cur, fixSolo, misplanned, blind>>
          /\ pc' \in {"stat", "done"}
        BY <2>2 DEF Answer, Goto, disk, Working, TypeInv, Shape
    <3>2. Past = {} /\ (pc' = "stat" => Past' = {}) /\ Unsure' = Unsure
        BY <3>1, <2>2 DEF Past, Before, Answer, Unsure
    <3> QED
        BY <3>1, <3>2, <2>2 DEF PlanInv, Working, Answer
  <2>3. CASE Stat
    <3>1. /\ fixSolo /\ PlanInv /\ Working
          /\ UNCHANGED <<attr, planned, tried, fixSolo, misplanned>>
        BY <2>3, StatStep DEF Working
    <3>2. planned \subseteq Ops /\ cur \in EtcFiles \cup {"dir"} /\ pc = "stat"
        BY <2>3, StatStep DEF TypeInv, TypeOK, Shape
    <3>3. CASE /\ attr[cur].exists /\ blind' = blind
               /\ pc' = IF cur = "dir" THEN "list" ELSE "chmod"
               /\ cur' = cur
      <4>1. Unsure' = Unsure
          BY <3>1, <3>3 DEF Unsure
      <4> HIDE DEF Unsure
      <4> QED
          BY <3>1, <3>2, <3>3, <4>1, OpParts DEF PlanInv, Working, Past, Before, Ops,
             Repair, EtcFiles, Repaired
    <3>4. CASE NotFound /\ ~attr[cur].exists /\ blind' = blind
      <4>1. Unsure' = Unsure
          BY <3>1, <3>4 DEF Unsure
      <4> HIDE DEF Unsure
      <4> QED
          BY <3>1, <3>2, <3>4, <4>1, OpParts DEF NotFound, Goto, PlanInv, Working, Past, Before,
             Ops, Repair, EtcFiles, Repaired
    <3>5. CASE NotFound /\ blind' = blind \cup {cur}
      <4>1. Unsure' = Unsure \cup {cur}
          BY <3>1, <3>5 DEF Unsure
      <4> HIDE DEF Unsure
      <4> QED
          BY <3>1, <3>2, <3>5, <4>1, OpParts DEF NotFound, Goto, PlanInv, Working, Past, Before,
             Ops, Repair, EtcFiles, Repaired
    <3> QED
        BY <2>3, StatStep, <3>3, <3>4, <3>5
  <2>4. CASE CreatePolicy
    <3>1. /\ fixSolo /\ PlanInv /\ Working /\ cur = "policy" /\ pc = "create" /\ pc' = "chmod"
          /\ UNCHANGED <<planned, fixSolo, cur, Unsure>>
          /\ tried' = tried \cup {Op("create", "policy")}
        BY <2>4 DEF CreatePolicy, FixStays, Working, Goto, Succeeds, Fails, Unsure
    <3>2. \A f \in Files \ {"policy"} : attr'[f].exists = attr[f].exists
        BY <2>4, CallsCreateOne
    <3>3. Past = {} /\ Past' = {}
        BY <3>1 DEF Past, Before
    <3> HIDE DEF Past, Unsure
    <3> QED
        BY <3>1, <3>2, <3>3, OpParts DEF PlanInv, Working, Files
  <2>5. CASE MakeDir
    <3>1. /\ fixSolo /\ PlanInv /\ Working /\ cur = "dir" /\ pc = "create" /\ pc' = "list"
          /\ UNCHANGED <<planned, fixSolo, cur, Unsure>>
          /\ tried' = tried \cup {Op("mkdir", "dir")}
        BY <2>5 DEF MakeDir, FixStays, Working, Goto, Succeeds, Fails, Unsure
    <3>2. \A f \in Files \ {"dir"} : attr'[f].exists = attr[f].exists
        BY <2>5, CallsCreateOne
    <3>3. Past = EtcFiles /\ Past' = EtcFiles \cup {"dir"}
        BY <3>1 DEF Past, Before, Repaired, EtcFiles
    <3>4. \A op \in planned : op[2] = "dir" => op = Op("mkdir", "dir")
        BY OpParts DEF TypeInv, TypeOK, Ops, Repair
    <3> HIDE DEF Past, Unsure
    <3> QED
        BY <3>1, <3>2, <3>3, <3>4, OpParts DEF PlanInv, Working, Files, EtcFiles
  <2>6. CASE Chmod
    <3>1. /\ fixSolo /\ PlanInv /\ Working /\ pc = "chmod" /\ pc' = "chown"
          /\ UNCHANGED <<planned, fixSolo, cur, Unsure>>
          /\ tried' = tried \cup {Op("chmod", cur)} /\ cur \in Repaired
        BY <2>6 DEF Chmod, FixStays, Working, Goto, Succeeds, Fails, TypeInv, Shape,
           Unsure
    <3>2. \A f \in Files : attr'[f].exists = attr[f].exists
        BY <2>6, CallsCreateOne
    <3>3. Past' = Past
        BY <3>1 DEF Past
    <3>4. cur \notin Unsure => Op("chmod", cur) \in planned
        BY <3>1 DEF PlanInv, Repaired, EtcFiles, Repair
    <3> HIDE DEF Past, Unsure
    <3> QED
        BY <3>1, <3>2, <3>3, <3>4, OpParts DEF PlanInv, Working, Files, Repaired, EtcFiles
  <2>7. CASE Chown
    <3>1. /\ fixSolo /\ PlanInv /\ Working /\ pc = "chown" /\ pc' \in {"stat", "report"}
          /\ UNCHANGED <<planned, fixSolo, Unsure>> /\ GoOn
          /\ tried' = tried \cup {Op("chown", cur)} /\ cur \in Repaired
        BY <2>7 DEF Chown, FixStays, Working, GoOn, Goto, Succeeds, Fails, TypeInv, Shape,
           Unsure
    <3>2. \A f \in Files : attr'[f].exists = attr[f].exists
        BY <2>7, CallsCreateOne
    <3>3. Past' \subseteq Past \cup {cur} /\ ("dir" \in Past <=> "dir" \in Past')
        BY <3>1 DEF Past, Before, GoOn, Goto, Repaired, EtcFiles
    <3>4. cur \notin Unsure => Op("chown", cur) \in planned
        BY <3>1 DEF PlanInv, Repaired, EtcFiles, Repair
    <3>5. \A op \in planned : op[2] = cur =>
              op \in {Op("create", "policy"), Op("chmod", cur), Op("chown", cur)}
        BY <3>1, OpParts DEF TypeInv, TypeOK, Ops, Repair, Repaired, EtcFiles
    <3>6. \A op \in planned : op[2] = cur /\ cur \notin Unsure => op \in tried'
      <4> SUFFICES ASSUME NEW op \in planned, op[2] = cur, cur \notin Unsure
                   PROVE  op \in tried'
          OBVIOUS
      <4>1. CASE op = Op("create", "policy")
        <5>1. cur = "policy"
            BY <4>1, OpParts
        <5> QED
            BY <3>1, <4>1, <5>1 DEF PlanInv
      <4> QED
          BY <3>1, <3>5, <4>1 DEF PlanInv
    <3>7. \A op \in planned : op[2] \in Past' \ Unsure => op \in tried'
        BY <3>1, <3>3, <3>6 DEF PlanInv
    <3>8. cur' # "policy"
        BY <3>1 DEF GoOn, Goto
    <3> HIDE DEF Past, Unsure
    <3> QED
        BY <3>1, <3>2, <3>3, <3>4, <3>7, <3>8, OpParts DEF PlanInv, Working, Files, Repaired, EtcFiles
  <2>8. CASE ListPlugins
    <3>1. /\ fixSolo /\ PlanInv /\ Working /\ pc = "list"
          /\ UNCHANGED <<attr, planned, fixSolo, tried, misplanned>>
        BY <2>8, ListStep DEF Working
    <3>2. planned \subseteq Ops
        BY DEF TypeInv, TypeOK
    <3>3. /\ Past = EtcFiles \cup {"dir"}
          /\ pc' = "chmod" => Past' = Past
          /\ pc' = "report" => Past' = Past \cup {"plugin"}
        BY <2>8, <3>1, ListStep DEF Past, Before, Repaired, EtcFiles
    <3>4. CASE attr["plugin"].exists /\ blind' = blind /\ pc' = "chmod" /\ cur' = "plugin"
      <4>1. Unsure' = Unsure
          BY <3>1, <3>4 DEF Unsure
      <4> HIDE DEF Unsure, Past
      <4> QED
          BY <3>1, <3>3, <3>4, <4>1 DEF PlanInv, Working, EtcFiles
    <3>5. CASE ~attr["plugin"].exists /\ blind' = blind /\ pc' = "report"
      <4>1. Unsure' = Unsure
          BY <3>1, <3>5 DEF Unsure
      <4>2. \A op \in planned : op[2] = "plugin" => op \in Repair("plugin")
          BY <3>2, OpParts DEF Ops, Repair
      <4> HIDE DEF Unsure, Past
      <4> QED
          BY <3>1, <3>3, <3>5, <4>1, <4>2 DEF PlanInv, Working, EtcFiles
    <3>6. CASE blind' = blind \cup {"plugin"} /\ pc' = "report"
      <4>1. Unsure' = Unsure \cup {"plugin"}
          BY <3>1, <3>6 DEF Unsure
      <4> HIDE DEF Unsure, Past
      <4> QED
          BY <3>1, <3>3, <3>6, <4>1 DEF PlanInv, Working, EtcFiles
    <3> QED
        BY <2>8, ListStep, <3>4, <3>5, <3>6
  <2>9. CASE Report
      BY <2>9 DEF Report, Goto, PlanInv, Working, Unsure
  <2>10. CASE AuditStep
    <3>1. UNCHANGED <<attr, pc, cur, planned, tried, fixSolo, Unsure>>
        BY <2>10 DEF AuditStep, AuditProviders, AuditSystem, AuditHomes, FixAside, disk, fixing,
           Unsure
    <3> HIDE DEF Unsure
    <3> QED
        BY <3>1 DEF PlanInv, Working, Past
  <2>11. CASE Others
      BY <2>11 DEF Others, Retouch, Rewrite, Touch
  <2>12. CASE UNCHANGED vars
      BY <2>12 DEF PlanInv, Working, Past, Unsure, vars, disk, fixing
  <2> QED
      BY <2>1, <2>2, <2>3, <2>4, <2>5, <2>6, <2>7, <2>8, <2>9, <2>10, <2>11, <2>12
         DEF Next, FixStep
<1> QED
    BY <1>1, <1>2, TypeInvariant, CourseInvariant, PTL DEF Spec

\* What a repair nobody interferes with, and of which no call has failed, has
\* put right so far, and all of it when it reports success.
AllRight ==
    /\ \A f \in EtcFiles \ (blind \ {"policy"}) : attr[f].exists => PermsRight(f)
    /\ attr["policy"].exists /\ attr["dir"].exists

RepairInv ==
    /\ Working /\ errs = {} =>
         /\ \A f \in EtcFiles \ (blind \ {"policy"}) :
                f \in Past /\ attr[f].exists => PermsRight(f)
         /\ \A f \in {"policy", "dir"} : f \in Past => attr[f].exists
         /\ pc \in {"chmod", "chown"} => attr[cur].exists
         /\ pc = "chown" => attr[cur].mode = RequiredMode(cur)
    /\ exit = "ok" /\ ~opt.dry /\ ~opt.json => AllRight

\* RepairInv holds as long as nobody interferes.
LEMMA RepairInvariant == Spec => [](fixSolo => RepairInv)
<1>1. Init => RepairInv
    BY DEF Init, RepairInv, Working
<1>2. TypeInv /\ CourseInv /\ (fixSolo => RepairInv) /\ [Next]_vars => (fixSolo => RepairInv)'
  <2> SUFFICES ASSUME TypeInv, CourseInv, fixSolo => RepairInv, [Next]_vars, fixSolo'
               PROVE  RepairInv'
      OBVIOUS
  <2>0. attr \in [Files -> Attrs] /\ \A f \in Files : attr[f].exists \in BOOLEAN
      BY ExistsType DEF TypeInv, TypeOK
  <2>1. ASSUME NEW o \in Options, NEW yes \in BOOLEAN, FixBegin(o, yes) PROVE RepairInv'
    <3>1. attr' = attr /\ exit = "none"
        BY <2>1 DEF FixBegin, CourseInv, disk
    <3>2. /\ pc' \in {"done", "ask", "stat"} /\ (pc' # "done" => cur' = "policy")
          /\ exit' = "ok" => opt'.dry
        BY <2>1, <3>1 DEF FixBegin, Goto
    <3>3. Working' => Past' = {}
        BY <3>2 DEF Working, Past, Before
    <3> HIDE DEF Past
    <3> QED
        BY <3>1, <3>2, <3>3 DEF RepairInv
  <2>2. ASSUME NEW yes \in BOOLEAN, Answer(yes) PROVE RepairInv'
    <3>1. /\ fixSolo /\ RepairInv /\ Working /\ cur = "policy" /\ exit = "none"
          /\ UNCHANGED <<attr, errs, cur, blind, opt>> /\ pc' \in {"stat", "done"}
          /\ exit' \in {"none", "error"}
        BY <2>2 DEF Answer, Goto, disk, Working, TypeInv, Shape, CourseInv
    <3>2. pc' = "stat" => Past' = {}
        BY <3>1, <2>2 DEF Past, Before, Answer
    <3> HIDE DEF Past
    <3> QED
        BY <3>1, <3>2, <2>2 DEF RepairInv, Working, Answer
  <2>3. CASE Stat
    <3>1. /\ fixSolo /\ RepairInv /\ Working /\ exit = "none" /\ pc = "stat"
          /\ UNCHANGED <<attr, errs, exit>> /\ pc' \in {"chmod", "list", "create", "stat"}
          /\ blind \subseteq blind'
        BY <2>3, StatStep DEF NotFound, Goto, Working, CourseInv
    <3>2. cur \in EtcFiles \cup {"dir"} /\ cur \in Files
        BY <2>3, <3>1 DEF TypeInv, TypeOK, Shape
    <3>3. /\ Past' \subseteq Past \cup {cur}
          /\ cur \in Past' => cur # "policy" /\ (cur = "dir" <=> pc' = "list")
          /\ pc' = "chmod" => attr[cur].exists /\ cur' = cur
        BY <2>3, <3>1, <3>2, StatStep DEF NotFound, Goto, Past, Before, EtcFiles, Repaired
    <3>4. cur \in Past' =>
              IF cur = "dir" THEN attr[cur].exists ELSE ~attr[cur].exists \/ cur \in blind'
        BY <2>3, <3>2, <3>3, StatStep DEF NotFound, Goto, Past, Before, EtcFiles, Repaired
    <3>5. \A f \in EtcFiles : PermsRight(f)' = PermsRight(f)
        BY <3>1 DEF PermsRight
    <3>6. ASSUME NEW f \in EtcFiles, f \notin blind' \ {"policy"}, f \in Past', attr'[f].exists,
                 errs = {}
          PROVE  PermsRight(f)'
        BY <3>1, <3>3, <3>4, <3>5, <3>6 DEF RepairInv, EtcFiles
    <3>7. \A f \in {"policy", "dir"} : f \in Past' /\ errs = {} => attr'[f].exists
        BY <3>1, <3>3, <3>4 DEF RepairInv
    <3> HIDE DEF Past
    <3> QED
        BY <3>1, <3>3, <3>6, <3>7 DEF RepairInv, Working
  <2>4. CASE CreatePolicy
    <3>1. /\ fixSolo /\ RepairInv /\ Working /\ cur = "policy" /\ pc = "create" /\ pc' = "chmod"
          /\ UNCHANGED <<blind, cur, exit>> /\ exit = "none"
          /\ errs' = {} => errs = {} /\ Succeeds("create", "policy", AfterCreate)
        BY <2>4 DEF CreatePolicy, FixStays, Working, Goto, Succeeds, Fails, CourseInv
    <3>2. Past' = {}
        BY <3>1 DEF Past, Before
    <3>3. ASSUME errs' = {} PROVE attr'["policy"].exists
        BY <3>1, <3>3, <2>0 DEF Succeeds, AfterCreate, NewFile, Files
    <3> HIDE DEF Past
    <3> QED
        BY <3>1, <3>2, <3>3 DEF RepairInv, Working
  <2>5. CASE MakeDir
    <3>1. /\ fixSolo /\ RepairInv /\ Working /\ cur = "dir" /\ pc = "create" /\ pc' = "list"
          /\ UNCHANGED <<blind, cur, exit>> /\ exit = "none"
          /\ errs' = {} => errs = {} /\ Succeeds("mkdir", "dir", AfterMkdir)
        BY <2>5 DEF MakeDir, FixStays, Working, Goto, Succeeds, Fails, CourseInv
    <3>2. Past = EtcFiles /\ Past' = EtcFiles \cup {"dir"}
        BY <3>1 DEF Past, Before, Repaired, EtcFiles
    <3>3. ASSUME errs' = {}
          PROVE  /\ attr'["dir"] = AfterMkdir
                 /\ \A f \in EtcFiles : attr'[f] = attr[f] /\ PermsRight(f)' = PermsRight(f)
        BY <3>1, <3>3, <2>0 DEF Succeeds, Files, EtcFiles, PermsRight
    <3>4. errs' = {} => attr'["dir"].exists
        BY <3>3 DEF AfterMkdir, NewDir, NewFile
    <3> HIDE DEF Past
    <3> QED
        BY <3>1, <3>2, <3>3, <3>4 DEF RepairInv, Working, EtcFiles
  <2>6. CASE Chmod
    <3>1. /\ fixSolo /\ RepairInv /\ Working /\ pc = "chmod" /\ pc' = "chown"
          /\ UNCHANGED <<blind, cur, exit>> /\ exit = "none" /\ cur \in Repaired
          /\ errs' = {} => /\ errs = {} /\ attr[cur].exists
                           /\ attr' = [attr EXCEPT ![cur] =
                                [attr[cur] EXCEPT !.mode = RequiredMode(cur)]]
        BY <2>6 DEF Chmod, FixStays, Working, Goto, Succeeds, Fails, TypeInv, Shape, CourseInv
    <3>2. Past' = Past /\ cur \notin Past /\ cur \in Files /\ cur # "dir"
        BY <3>1 DEF Past, Before, Repaired, EtcFiles, Files
    <3>3. ASSUME errs' = {}, NEW f \in Files, f # cur
          PROVE  attr'[f] = attr[f] /\ PermsRight(f)' = PermsRight(f)
        BY <3>1, <3>3, <2>0 DEF PermsRight
    <3>4. ASSUME errs' = {} PROVE attr'[cur].exists /\ attr'[cur].mode = RequiredMode(cur)
      <4>1. attr[cur] \in [exists : {TRUE}, mode : Modes, owner : Owners, group : Groups]
          BY <3>1, <3>2, <3>4, <2>0, Existing
      <4> QED
          BY <3>1, <3>2, <3>4, <4>1, <2>0
    <3> HIDE DEF Past
    <3> QED
        BY <3>1, <3>2, <3>3, <3>4 DEF RepairInv, Working, EtcFiles, Files
  <2>7. CASE Chown
    <3>1. /\ fixSolo /\ RepairInv /\ Working /\ pc = "chown" /\ pc' \in {"stat", "report"}
          /\ GoOn /\ cur \in Repaired
          /\ UNCHANGED <<blind, exit>> /\ exit = "none"
          /\ errs' = {} => /\ errs = {} /\ attr[cur].exists
                           /\ attr' = [attr EXCEPT ![cur] = ChownedTo(cur)]
        BY <2>7 DEF Chown, FixStays, Working, GoOn, Goto, Succeeds, Fails, TypeInv, Shape,
           CourseInv
    <3>2. Past' \subseteq Past \cup {cur} /\ cur \in Files /\ cur # "dir"
        BY <3>1 DEF Past, Before, GoOn, Goto, Repaired, EtcFiles, Files
    <3>3. ASSUME errs' = {}, NEW f \in Files, f # cur
          PROVE  attr'[f] = attr[f] /\ PermsRight(f)' = PermsRight(f)
        BY <3>1, <3>3, <2>0 DEF PermsRight
    <3>4. ASSUME errs' = {} PROVE attr'[cur].exists /\ \A f \in EtcFiles : f = cur => PermsRight(f)'
      <4>1. attr[cur] \in [exists : {TRUE}, mode : Modes, owner : Owners, group : Groups]
          BY <3>1, <3>2, <3>4, <2>0, Existing
      <4>2. attr[cur].mode = RequiredMode(cur)
          BY <3>1, <3>4 DEF RepairInv
      <4>3. attr'[cur] = ChownedTo(cur)
          BY <3>1, <3>2, <3>4, <2>0
      <4>4. attr'[cur].exists /\ attr'[cur].mode = RequiredMode(cur)
          BY <4>1, <4>2, <4>3 DEF ChownedTo
      <4>5. cur \in EtcFiles => attr'[cur].owner = "root" /\ attr'[cur].group = "opksshuser"
          BY <4>1, <4>3 DEF ChownedTo, RequiredOwner, RequiredGroup, EtcFiles
      <4> QED
          BY <4>4, <4>5 DEF PermsRight, CheckPerm, RequiredOwner, RequiredGroup, EtcFiles
    <3>5. ASSUME errs' = {}, NEW f \in EtcFiles \ (blind \ {"policy"}), f \in Past',
                 attr'[f].exists
          PROVE  PermsRight(f)'
        BY <3>1, <3>2, <3>3, <3>4, <3>5 DEF RepairInv, EtcFiles, Files
    <3>6. ASSUME errs' = {}, NEW f \in {"policy", "dir"}, f \in Past' PROVE attr'[f].exists
        BY <3>1, <3>2, <3>3, <3>4, <3>6 DEF RepairInv, Files
    <3> HIDE DEF Past
    <3> QED
        BY <3>1, <3>2, <3>3, <3>5, <3>6 DEF RepairInv, Working, Files
  <2>8. CASE ListPlugins
    <3>1. /\ fixSolo /\ RepairInv /\ Working /\ pc = "list" /\ exit = "none"
          /\ UNCHANGED <<attr, errs, exit>> /\ blind \subseteq blind'
        BY <2>8, ListStep DEF Working, CourseInv
    <3>2. Past = EtcFiles \cup {"dir"} /\ Past' \subseteq Past \cup {"plugin"}
        BY <2>8, <3>1, ListStep DEF Past, Before, Repaired
    <3>3. (pc' = "chmod" /\ attr[cur'].exists) \/ pc' = "report"
        BY <2>8, ListStep
    <3>4. \A f \in EtcFiles : PermsRight(f)' = PermsRight(f)
        BY <3>1 DEF PermsRight
    <3> HIDE DEF Past
    <3> QED
        BY <3>1, <3>2, <3>3, <3>4 DEF RepairInv, Working, EtcFiles
  <2>9. CASE Report
    <3>1. /\ fixSolo /\ RepairInv /\ Working /\ pc = "report" /\ pc' = "done"
          /\ UNCHANGED <<attr, errs, blind, opt>>
          /\ exit' = "ok" => errs = {} \/ opt.json
        BY <2>9 DEF Report, Goto, Working, disk
    <3>2. Past = EtcFiles \cup {"plugin", "dir"}
        BY <3>1 DEF Past, Repaired
    <3>3. \A f \in EtcFiles : PermsRight(f)' = PermsRight(f)
        BY <3>1 DEF PermsRight
    <3> HIDE DEF Past
    <3>4. errs = {} => AllRight'
        BY <3>1, <3>2, <3>3 DEF RepairInv, AllRight, EtcFiles
    <3> QED
        BY <3>1, <3>4 DEF RepairInv, Working
  <2>10. CASE AuditStep
    <3>1. UNCHANGED <<attr, pc, cur, opt, errs, exit, blind, fixSolo>>
        BY <2>10 DEF AuditStep, AuditProviders, AuditSystem, AuditHomes, FixAside, disk, fixing
    <3>2. Past' = Past /\ AllRight' = AllRight /\ \A f : PermsRight(f)' = PermsRight(f)
        BY <3>1 DEF Past, AllRight, PermsRight
    <3> QED
        BY <3>1, <3>2 DEF RepairInv, Working
  <2>11. CASE Others
      BY <2>11 DEF Others, Retouch, Rewrite, Touch
  <2>12. CASE UNCHANGED vars
    <3>1. Past' = Past /\ AllRight' = AllRight /\ \A f : PermsRight(f)' = PermsRight(f)
        BY <2>12 DEF Past, AllRight, PermsRight, vars, disk, fixing
    <3> QED
        BY <2>12, <3>1 DEF RepairInv, Working, vars, disk, fixing
  <2> QED
      BY <2>1, <2>2, <2>3, <2>4, <2>5, <2>6, <2>7, <2>8, <2>9, <2>10, <2>11, <2>12
         DEF Next, FixStep
<1> QED
    BY <1>1, <1>2, TypeInvariant, CourseInvariant, PTL DEF Spec

\* Fix carries out what it announced, and at the end all of it, but for files
\* at which a look failed.
THEOREM RepairsAsPlanned == Spec => []DoesWhatItPlanned
<1>1. TypeInv /\ (fixSolo => PlanInv) => DoesWhatItPlanned
  <2> SUFFICES ASSUME TypeInv, fixSolo, PlanInv, pc = "report",
                      NEW op \in planned, op[2] \notin Unsure
               PROVE  op \in tried
      BY DEF DoesWhatItPlanned, PlanInv, Unsure
  <2>1. op \in Ops /\ Past = Repaired \cup {"dir"}
      BY DEF Past, TypeInv, TypeOK
  <2>2. op[2] \in Past
      BY <2>1, OpParts DEF Ops, Repair, Repaired, EtcFiles
  <2> QED
      BY <2>2 DEF PlanInv, Working
<1> QED
    BY <1>1, TypeInvariant, PlanInvariant, PTL

\* After a successful fix the files it works on are there and as required, but
\* for a providers file or config.yml at which its Stat failed.
THEOREM RepairsAreComplete == Spec => []FixRepairs
<1>1. (fixSolo => RepairInv) => FixRepairs
    BY DEF FixRepairs, RepairInv, AllRight, EtcFiles
<1> QED
    BY <1>1, RepairInvariant, PTL

-----------------------------------------------------------------------------
Statuses(f) == {LineStatus(l) : l \in text[f]}
KnownIssuers == {l.issuer : l \in ProvidersFromTable(text["providers"])}

\* No repair runs beside an audit, so only a third party can change what the
\* audit has read: until then the issuers and the rows are those of the files.
AuditInv ==
    /\ apc # "idle" => pc \in {"idle", "done"}
    /\ auditExit # "none" <=> apc = "done"
    /\ apc # "done" => ~homes
    /\ auditSolo /\ (apc \in {"system", "homes"} \/ auditExit = "ok") =>
            issuers = KnownIssuers
    /\ auditSolo /\ (apc = "homes" \/ auditExit = "ok") /\ "policy" \notin missed =>
            Statuses("policy") \subseteq rows
    /\ auditExit = "ok" => rows \subseteq {"SUCCESS"}
    /\ auditSolo /\ auditExit = "ok" /\ homes /\ "home" \notin missed =>
            Statuses("home") \subseteq rows

\* A file that audit did not miss has its statuses among the rows.
LEMMA AuditFileRows ==
    ASSUME LinesInv, NEW f \in TextFiles, AuditFile(f)
    PROVE  /\ rows \subseteq rows' /\ missed \subseteq missed'
           /\ f \notin missed' => Statuses(f) \subseteq rows'
<1>1. PICK lost \in SUBSET {f} :
        /\ Overlooks(lost)
        /\ missed' = missed \cup lost
        /\ IF attr[f].exists /\ lost = {}
           THEN /\ rows' = rows \cup {LineStatus(l) : l \in text[f]}
                /\ badFile' = (badFile \/ ~PermsRight(f))
           ELSE UNCHANGED <<rows, badFile>>
    BY DEF AuditFile
<1>2. rows \subseteq rows' /\ missed \subseteq missed'
    BY <1>1
<1>3. ~attr[f].exists => Statuses(f) = {}
    BY DEF LinesInv, Statuses
<1>4. f \notin missed' => lost = {}
    BY <1>1
<1> QED
    BY <1>1, <1>2, <1>3, <1>4 DEF Statuses

\* AuditInv holds in every state.
LEMMA AuditInvariant == Spec => []AuditInv
<1>1. Init => AuditInv
    BY DEF Init, AuditInv
<1>2. TypeInv /\ LinesInv /\ AuditInv /\ [Next]_vars => AuditInv'
  <2> SUFFICES ASSUME TypeInv, LinesInv, AuditInv, [Next]_vars PROVE AuditInv'
      OBVIOUS
  <2>1. CASE FixStep
    <3>1. apc = "idle"
        BY <2>1, StatStep, ListStep DEF AuditInv, FixStep, FixBegin, Answer, CreatePolicy,
           MakeDir, Chmod, Chown, Report
    <3>2. UNCHANGED <<apc, auditExit, homes, rows>>
        BY <2>1, StatStep, ListStep DEF FixStep, FixBegin, Answer, CreatePolicy, MakeDir, Chmod,
           Chown, Report, AuditStays, auditing
    <3> QED
        BY <3>1, <3>2 DEF AuditInv
  <2>2. ASSUME UNCHANGED <<text, issuers>>
        PROVE  /\ KnownIssuers' = KnownIssuers
               /\ \A f : Statuses(f)' = Statuses(f)
      BY <2>2 DEF KnownIssuers, Statuses, LineStatus, ValidateEntry
  <2>3. ASSUME NEW elevated \in BOOLEAN, AuditProviders(elevated) PROVE AuditInv'
    <3>1. /\ UNCHANGED <<text, rows, homes, pc>> /\ apc = "idle" /\ auditExit = "none"
          /\ pc \in {"idle", "done"}
        BY <2>3 DEF AuditProviders, FixAside, disk, fixing, AuditInv
    <3>2. \/ issuers' = KnownIssuers /\ apc' = "system" /\ auditExit' = "none"
          \/ apc' = "done" /\ auditExit' = "error"
        BY <2>3, <3>1 DEF AuditProviders, KnownIssuers, AuditEnds
    <3>3. KnownIssuers' = KnownIssuers
        BY <3>1 DEF KnownIssuers
    <3> QED
        BY <3>1, <3>2, <3>3 DEF AuditInv
  <2>4. CASE AuditSystem
    <3>1. /\ UNCHANGED <<text, issuers, homes, pc, auditSolo>> /\ apc = "system"
          /\ auditExit = "none"
        BY <2>4 DEF AuditSystem, FixAside, disk, fixing, AuditInv
    <3>2. \/ /\ "policy" \notin missed' => Statuses("policy") \subseteq rows'
             /\ apc' = "homes" /\ auditExit' = "none"
          \/ apc' = "done" /\ auditExit' = "error"
        BY <2>4, <3>1, AuditFileRows DEF AuditSystem, AuditEnds, TextFiles
    <3> QED
        BY <3>1, <3>2, <2>2 DEF AuditInv
  <2>5. CASE AuditHomes
    <3>1. /\ UNCHANGED <<text, issuers, pc, auditSolo>> /\ apc = "homes" /\ apc' = "done"
        BY <2>5 DEF AuditHomes, FixAside, disk, fixing, AuditEnds
    <3>2. /\ auditExit' \in {"ok", "error"}
          /\ auditExit' = "ok" => rows' \subseteq {"SUCCESS"}
        BY <2>5 DEF AuditHomes, AuditEnds, Summary
    <3>3. /\ rows \subseteq rows' /\ missed \subseteq missed'
          /\ homes' /\ "home" \notin missed' => Statuses("home") \subseteq rows'
        BY <2>5, AuditFileRows DEF AuditHomes, AuditInv, TextFiles
    <3> QED
        BY <3>1, <3>2, <3>3, <2>2 DEF AuditInv
  <2>6. CASE Others
      BY <2>6, SMTT(30) DEF Others, Retouch, Rewrite, Touch, AuditInv, auditing, fixing
  <2>7. CASE UNCHANGED vars
      BY <2>7, <2>2 DEF AuditInv, vars, disk, fixing, auditing
  <2> QED
      BY <2>1, <2>3, <2>4, <2>5, <2>6, <2>7 DEF Next, AuditStep
<1> QED
    BY <1>1, <1>2, TypeInvariant, LinesInvariant, PTL DEF Spec

\* A file whose lines all have status SUCCESS has no dead line.
LEMMA SuccessIsAlive ==
    ASSUME NEW f \in TextFiles, issuers = KnownIssuers, Statuses(f) \subseteq {"SUCCESS"}
    PROVE  DeadLines(f) = {}
<1> SUFFICES ASSUME NEW l \in PolicyFromTable(text[f])
             PROVE  \E p \in ProvidersFromTable(text["providers"]) : p.issuer = l.issuer
    BY DEF DeadLines
<1>1. l \in text[f] /\ l \in PolicyFromTable({l})
    BY DEF PolicyFromTable
<1>2. LineStatus(l) = "SUCCESS"
    BY <1>1 DEF Statuses
<1>3. l.issuer \in issuers
    BY <1>1, <1>2 DEF LineStatus, ValidateEntry
<1> QED
    BY <1>3 DEF KnownIssuers

\* Exit code 0 of an undisturbed audit: every line of a policy it did not take
\* for missing has a provider.
THEOREM AuditIsComplete == Spec => []AuditFindsDeadLines
<1>1. AuditInv => AuditFindsDeadLines
  <2> SUFFICES ASSUME AuditInv, auditExit = "ok", auditSolo
               PROVE  /\ "policy" \notin missed => DeadLines("policy") = {}
                      /\ homes /\ "home" \notin missed => DeadLines("home") = {}
      BY DEF AuditFindsDeadLines
  <2>1. /\ issuers = KnownIssuers
        /\ "policy" \notin missed => Statuses("policy") \subseteq {"SUCCESS"}
        /\ homes /\ "home" \notin missed => Statuses("home") \subseteq {"SUCCESS"}
      BY DEF AuditInv
  <2> QED
      BY <2>1, SuccessIsAlive DEF TextFiles
<1> QED
    BY <1>1, AuditInvariant, PTL

\* A server that check and audit find nothing wrong with can be logged in to,
\* unless an expiration policy is misspelt.
THEOREM CleanMeansWorking == Spec => []CleanServerWorks
<1>1. TypeInv /\ AuditInv => CleanServerWorks
  <2> SUFFICES ASSUME TypeInv, AuditInv, AuditOk, auditExit # "error", auditSolo,
                      CheckProblems = {}
               PROVE  /\ \A f \in EtcFiles : attr[f].exists => LoadedByVerify(f, attr[f])
                      /\ "policy" \notin missed /\ PolicyFromTable(text["policy"]) # {} =>
                           ProvidersFromTable(text["providers"]) # {}
      BY DEF CleanServerWorks, CreateVerifierOK
  <2>1. ASSUME NEW f \in EtcFiles, attr[f].exists PROVE LoadedByVerify(f, attr[f])
    <3>1. PermsRight(f)
        BY <2>1 DEF CheckProblems
    <3>2. /\ attr[f].mode = "640" /\ attr[f].owner = "root" /\ attr[f].group = "opksshuser"
          /\ f # "plugin"
        BY <3>1 DEF PermsRight, CheckPerm, RequiredMode, RequiredOwner, RequiredGroup, EtcFiles
    <3> QED
        BY <2>1, <3>2 DEF LoadedByVerify, CheckPerm, ReadableByUser
  <2>2. auditExit = "ok"
      BY DEF AuditInv, AuditOk, TypeInv, TypeOK
  <2>3. "policy" \notin missed => DeadLines("policy") = {}
      BY <2>2, SuccessIsAlive DEF AuditInv, TextFiles
  <2> QED
      BY <2>1, <2>3 DEF DeadLines
<1> QED
    BY <1>1, TypeInvariant, AuditInvariant, PTL
=============================================================================
