------------------------- MODULE IdentityDirProofs --------------------------
(***************************************************************************)
(* Theorems about IdentityDir: for any number of login, logout and         *)
(* configure commands and of crashes, and whatever names the identities    *)
(* get.                                                                    *)
(***************************************************************************)
EXTENDS IdentityDir, TLAPS

Labels == Resting \cup LoginSteps \cup LogoutSteps \cup OneSteps \cup ConfigureSteps

\* Each kind of command keeps to its own steps.
Shape ==
    /\ \A p \in Logins : pc[p] \in Resting \cup LoginSteps
    /\ \A q \in Logouts : pc[q] \in Resting \cup LogoutSteps \cup OneSteps
    /\ \A p \in Configurers : pc[p] \in Resting \cup ConfigureSteps

TypeInv == TypeOK /\ Shape

\* Every name is a name.
LEMMA NameTypes ==
    /\ UserFile \in Names
    /\ \A p \in Logins : /\ Name[p] \in Names /\ Name[p] \in KeyNames
                         /\ IdLine(Name[p]) \in NameLines
    /\ Logins \subseteq Procs /\ Logouts \subseteq Procs /\ Configurers \subseteq Procs
BY DEF Names, KeyNames, Name, IdLine, NameLines, Procs

\* A text has the lines it is made of.
LEMMA TextLines == \A lines : Text(lines).lines = lines /\ Text(lines).exists
BY DEF Text

\* What a rewritten config file may hold: the new lines, all of them, and over
\* an empty file nothing else.
LEMMA WrittenLines ==
    ASSUME NEW new, NEW old, NEW lines \in Written(new, old)
    PROVE  /\ new \subseteq lines
           /\ old = {} => lines = new
           /\ new \subseteq Lines /\ old \subseteq Lines => lines \subseteq Lines
           /\ lines \cap (NameLines \ old) \subseteq
                new \cup [kind : {"rest"}, name : KeyNames]
<1>1. ASSUME NEW tail \in SUBSET old, lines = new \cup tail
      PROVE  /\ new \subseteq lines
             /\ old = {} => lines = new
             /\ new \subseteq Lines /\ old \subseteq Lines => lines \subseteq Lines
             /\ lines \cap (NameLines \ old) \subseteq
                  new \cup [kind : {"rest"}, name : KeyNames]
    BY <1>1
<1>2. ASSUME NEW tail \in SUBSET old, NEW l \in old \cap NameLines,
             lines = new \cup tail \cup {Rest(l)}
      PROVE  /\ new \subseteq lines
             /\ old = {} => lines = new
             /\ new \subseteq Lines /\ old \subseteq Lines => lines \subseteq Lines
             /\ lines \cap (NameLines \ old) \subseteq
                  new \cup [kind : {"rest"}, name : KeyNames]
  <2>1. Rest(l) \in NameLines /\ Rest(l) \in [kind : {"rest"}, name : KeyNames]
      BY DEF Rest, NameLines
  <2> QED
      BY <1>2, <2>1 DEF Lines
<1> QED
    BY <1>1, <1>2 DEF Written

\* The same of the file that such a rewrite leaves.
LEMMA WrittenFile ==
    ASSUME NEW new, NEW old, NEW file, \E lines \in Written(new, old) : file = Text(lines)
    PROVE  /\ new \subseteq file.lines
           /\ old = {} => file.lines = new
<1> PICK lines \in Written(new, old) : file = Text(lines)
    BY Zenon
<1>1. file.lines = lines
    BY TextLines, Zenon
<1> QED
    BY <1>1, WrittenLines, Zenon

\* The values the steps give to the files and to the variables of a process.
LEMMA FileTypes ==
    /\ NoFile \in TextFile /\ \A lines \in SUBSET Lines : Text(lines) \in TextFile
    /\ NoSec \in SecFile /\ EmptySec \in SecFile /\ \A k \in Holders : SecOf(k) \in SecFile
    /\ NoCert \in CertFile /\ EmptyCert \in CertFile
    /\ \A k \in Holders : CertOf(k, TRUE) \in CertFile
    /\ Own \in Lines /\ Include \in Lines
    /\ Nobody \in Holders /\ User \in Holders /\ Logins \subseteq Holders
BY DEF NoFile, TextFile, Text, NoSec, EmptySec, SecOf, SecFile, NoCert, EmptyCert, CertOf,
   CertFile, Lines, Holders, Nobody, User

\* What Begin, Changes, Goto and Counted do to their variables.
LEMMA StepTypes ==
    ASSUME TypeOK, NEW p \in Procs
    PROVE  /\ \A label \in Labels : Goto(p, label) => pc' \in [Procs -> Labels]
           /\ Changes(p) => alone' \in [Procs -> BOOLEAN]
           /\ Counted => commands' \in 0..MaxCommands
           /\ \A label \in Labels : Begin(p, label) =>
                 /\ pc' \in [Procs -> Labels] /\ alone' \in [Procs -> BOOLEAN]
                 /\ overlap' \in BOOLEAN
<1>1. \A label \in Labels : Goto(p, label) => pc' \in [Procs -> Labels]
    BY DEF Goto, TypeOK, Labels
<1>2. Changes(p) => alone' \in [Procs -> BOOLEAN]
    BY DEF Changes, TypeOK
<1>3. Counted => commands' \in 0..MaxCommands
    BY BoundsAssumption DEF Counted, TypeOK
<1>4. \A label \in Labels : Begin(p, label) =>
                 /\ alone' \in [Procs -> BOOLEAN]
                 /\ overlap' \in BOOLEAN
    BY DEF Begin, TypeOK
<1> QED
    BY <1>1, <1>2, <1>3, <1>4 DEF Begin

\* The config file of the beginning holds lines of the user only.
LEMMA InitialConfig ==
    ASSUME Init
    PROVE  /\ config \in TextFile
           /\ ~config.exists => config.lines = {}
           /\ \A n : ~Listed(n)
<1>1. CASE config = NoFile
  <2>1. config.lines = {}
      BY <1>1 DEF NoFile
  <2> QED
      BY <1>1, <2>1, FileTypes, Zenon DEF Listed
<1>2. ASSUME NEW names \in SUBSET KeyNames,
             config = Text({Own} \cup {Note(n) : n \in names})
      PROVE  /\ config \in TextFile
             /\ ~config.exists => config.lines = {}
             /\ \A n : ~Listed(n)
  <2>1. /\ config.lines = {Own} \cup {Note(n) : n \in names} /\ config.exists
      BY <1>2, TextLines, Zenon
  <2>2. \A n \in names : Note(n) \in Lines
      BY DEF Note, Lines, NameLines
  <2>3. config \in TextFile
    <3>1. {Own} \cup {Note(n) : n \in names} \in SUBSET Lines
        BY <2>2, FileTypes, Zenon
    <3> QED
        BY <1>2, <3>1, FileTypes, Zenon
  <2>4. \A n : IdLine(n) # Own /\ \A m : IdLine(n) # Note(m)
      BY DEF IdLine, Own, Note
  <2>5. \A n : ~Listed(n)
      BY <2>1, <2>4, Zenon DEF Listed
  <2> QED
      BY <2>1, <2>3, <2>5, Zenon
<1>3. \/ config = NoFile
      \/ \E names \in SUBSET KeyNames : config = Text({Own} \cup {Note(n) : n \in names})
  <2>1. CASE config # NoFile
    <3>1. PICK names \in SUBSET (Noted \cap KeyNames) :
             config = Text({Own} \cup {Note(n) : n \in names})
        BY <2>1, Zenon DEF Init
    <3>2. names \in SUBSET KeyNames
        OBVIOUS
    <3> QED
        BY <3>1, <3>2, Zenon
  <2> QED
      BY <2>1
<1> QED
    BY <1>1, <1>2, <1>3, Zenon

\* Every state is well typed.
LEMMA TypeInvariant == Spec => []TypeInv
<1>1. Init => TypeInv
  <2> SUFFICES ASSUME Init PROVE TypeInv
      OBVIOUS
  <2>1. ssh \in TextFile /\ config \in TextFile
    <3>1. ssh \in {NoFile, Text({Own}), Text({Own, Include})}
        BY Zenon DEF Init
    <3> QED
        BY <3>1, FileTypes, InitialConfig
  <2>2. sec \in [Names -> SecFile] /\ cert \in [Names -> CertFile]
      BY FileTypes, Zenon DEF Init
  <2>3. /\ pc \in [Procs -> Labels] /\ alone \in [Procs -> BOOLEAN] /\ Shape
        /\ linked \in [Logins -> BOOLEAN] /\ overlap \in BOOLEAN
      BY NameTypes DEF Init, Labels, Resting, Shape
  <2>4. /\ at \in [Logouts -> Names] /\ todo \in [Logouts -> SUBSET Names]
        /\ read \in [Procs -> SUBSET Lines] /\ readKey \in [Logouts -> CertFile]
        /\ single \in SUBSET Logouts /\ removed \in [Logouts -> SUBSET Names]
      BY NameTypes, FileTypes DEF Init
  <2>5. commands \in 0..MaxCommands /\ crashes \in 0..MaxCrashes
      BY BoundsAssumption DEF Init
  <2>6. had \in [ssh : BOOLEAN, config : BOOLEAN]
      BY DEF Init
  <2> QED
      BY <2>1, <2>2, <2>3, <2>4, <2>5, <2>6 DEF TypeInv, TypeOK, Labels
<1>2. TypeInv /\ [Next]_vars => TypeInv'
  <2> SUFFICES ASSUME TypeInv, [Next]_vars PROVE TypeInv'
      OBVIOUS
  <2> USE DEF TypeInv
  <2>a. ASSUME NEW p \in Procs, NEW label, Goto(p, label),
               \/ p \in Logins /\ label \in Resting \cup LoginSteps
               \/ p \in Logouts /\ label \in Resting \cup LogoutSteps \cup OneSteps
               \/ p \in Configurers /\ label \in Resting \cup ConfigureSteps
        PROVE  Shape' /\ pc' \in [Procs -> Labels]
      BY <2>a, ProcsAssumption, NameTypes DEF Shape, TypeOK, Labels, Goto
  <2>b. ssh.lines \subseteq Lines /\ config.lines \subseteq Lines
      BY DEF TypeOK, TextFile
  <2>1. ASSUME NEW p \in Configurers, CreateConfig(p) PROVE TypeInv'
    <3>1. Shape' /\ pc' \in [Procs -> Labels]
        BY NameTypes, <2>1, <2>a, Zenon DEF CreateConfig, Begin, ConfigureSteps
    <3>2. /\ alone' \in [Procs -> BOOLEAN] /\ overlap' \in BOOLEAN
          /\ commands' \in 0..MaxCommands /\ config' \in TextFile
        BY StepTypes, FileTypes, NameTypes, <2>1, <2>b DEF CreateConfig, Labels, ConfigureSteps
    <3> QED
        BY <2>1, <3>1, <3>2 DEF CreateConfig, TypeOK, local, past, Labels
  <2>2. ASSUME NEW p \in Configurers, ReadSsh(p) PROVE TypeInv'
    <3>1. Shape' /\ pc' \in [Procs -> Labels]
        BY NameTypes, <2>2, <2>a DEF ReadSsh, ConfigureSteps, Resting
    <3>2. read' \in [Procs -> SUBSET Lines]
        BY NameTypes, <2>2, <2>b DEF ReadSsh, TypeOK
    <3> QED
        BY <2>2, <3>1, <3>2 DEF ReadSsh, TypeOK, files, hist, past, Labels
  <2>3. ASSUME NEW p \in Configurers, TruncateSsh(p) \/ WriteSsh(p) PROVE TypeInv'
    <3>1. Shape' /\ pc' \in [Procs -> Labels]
        BY NameTypes, <2>3, <2>a, Zenon DEF TruncateSsh, WriteSsh, ConfigureSteps, Resting
    <3>2. alone' \in [Procs -> BOOLEAN]
        BY StepTypes, NameTypes, <2>3 DEF TruncateSsh, WriteSsh
    <3>3. ssh' \in TextFile
      <4>1. read[p] \cup {Include} \subseteq Lines
          BY FileTypes, NameTypes, Zenon DEF TypeOK
      <4> QED
          BY FileTypes, NameTypes, <2>3, <2>b, <4>1, WrittenLines DEF TruncateSsh, WriteSsh
    <3> QED
        BY <2>3, <3>1, <3>2, <3>3, Zenon DEF TruncateSsh, WriteSsh, TypeOK, local, hist, past,
           Labels
  <2>4. ASSUME NEW p \in Logins, CheckInclude(p) \/ StatConfig(p) PROVE TypeInv'
    <3>1. Shape' /\ pc' \in [Procs -> Labels]
        BY NameTypes, <2>4, <2>a, Zenon DEF CheckInclude, StatConfig, Resting
    <3>2. commands' \in 0..MaxCommands
        BY StepTypes, NameTypes, <2>4 DEF CheckInclude, StatConfig, hist, TypeOK
    <3> QED
        BY <2>4, <3>1, <3>2, Zenon DEF CheckInclude, StatConfig, TypeOK, files, local, hist,
           past, Labels
  <2>5. ASSUME NEW p \in Logins, WriteBegin(p) PROVE TypeInv'
    <3>1. Shape' /\ pc' \in [Procs -> Labels]
        BY NameTypes, <2>5, <2>a DEF WriteBegin, Begin, LoginSteps
    <3>2. /\ alone' \in [Procs -> BOOLEAN] /\ overlap' \in BOOLEAN
          /\ commands' \in 0..MaxCommands
        BY StepTypes, NameTypes, <2>5 DEF WriteBegin, Labels, LoginSteps, TypeOK
    <3> QED
        BY <2>5, <3>1, <3>2 DEF WriteBegin, TypeOK, files, local, past, Labels
  <2>6. ASSUME NEW p \in Logins, LoginReadConfig(p) PROVE TypeInv'
    <3>1. Shape' /\ pc' \in [Procs -> Labels]
        BY NameTypes, <2>6, <2>a DEF LoginReadConfig, LoginSteps, Resting
    <3>2. read' \in [Procs -> SUBSET Lines]
        BY NameTypes, <2>6, <2>b DEF LoginReadConfig, TypeOK
    <3> QED
        BY <2>6, <3>1, <3>2 DEF LoginReadConfig, TypeOK, files, hist, past, Labels
  <2>7. ASSUME NEW p \in Logins, TruncateConfig(p) \/ LoginWriteConfig(p) PROVE TypeInv'
    <3>1. Shape' /\ pc' \in [Procs -> Labels]
        BY NameTypes, <2>7, <2>a, Zenon DEF TruncateConfig, LoginWriteConfig, LoginSteps
    <3>2. alone' \in [Procs -> BOOLEAN]
        BY StepTypes, NameTypes, <2>7, Zenon DEF TruncateConfig, LoginWriteConfig
    <3>3. config' \in TextFile
      <4>1. Listing(p) \subseteq Lines
          BY NameTypes, Zenon DEF TypeOK, Listing, Lines
      <4> QED
          BY FileTypes, NameTypes, <2>7, <2>b, <4>1, WrittenLines DEF TruncateConfig,
             LoginWriteConfig
    <3> QED
        BY <2>7, <3>1, <3>2, <3>3, Zenon DEF TruncateConfig, LoginWriteConfig, TypeOK, local,
           hist, past, Labels
  <2>8. ASSUME NEW p \in Logins,
               TruncateSecret(p) \/ WriteSecret(p) \/ TruncateCert(p) \/ WriteCert(p)
        PROVE  TypeInv'
    <3>1. Shape' /\ pc' \in [Procs -> Labels]
        BY NameTypes, <2>8, <2>a, Zenon DEF TruncateSecret, WriteSecret, TruncateCert, WriteCert,
           LoginSteps, Resting
    <3>2. alone' \in [Procs -> BOOLEAN]
        BY StepTypes, NameTypes, <2>8, Zenon DEF TruncateSecret, WriteSecret, TruncateCert,
           WriteCert
    <3>c. /\ sec \in [Names -> SecFile] /\ cert \in [Names -> CertFile]
          /\ SecOf(p) \in SecFile /\ CertOf(p, TRUE) \in CertFile
        BY FileTypes, Zenon DEF TypeOK
    <3>3. sec' \in [Names -> SecFile]
      <4>1. \/ sec' = sec
            \/ \E f \in SecFile : sec' = [sec EXCEPT ![Name[p]] = f]
          BY FileTypes, NameTypes, <2>8, <3>c, Zenon DEF TruncateSecret, WriteSecret,
             TruncateCert, WriteCert
      <4> QED
          BY FileTypes, NameTypes, <4>1, <3>c
    <3>4. cert' \in [Names -> CertFile]
      <4>1. \/ cert' = cert
            \/ \E f \in CertFile : cert' = [cert EXCEPT ![Name[p]] = f]
          BY FileTypes, NameTypes, <2>8, <3>c, Zenon DEF TruncateSecret, WriteSecret,
             TruncateCert, WriteCert
      <4> QED
          BY FileTypes, NameTypes, <4>1, <3>c
    <3>5. linked' \in [Logins -> BOOLEAN]
        BY NameTypes, <2>8, Zenon DEF TruncateSecret, WriteSecret, TruncateCert, WriteCert,
           TypeOK, local
    <3> QED
        BY <2>8, <3>1, <3>2, <3>3, <3>4, <3>5, Zenon DEF TruncateSecret, WriteSecret,
           TruncateCert, WriteCert, TypeOK, local, hist, past, Labels
  <2>9. ASSUME NEW q \in Logouts, LogoutBegin(q) \/ LogoutOneBegin(q) PROVE TypeInv'
    <3>1. Shape' /\ pc' \in [Procs -> Labels]
        BY NameTypes, <2>9, <2>a DEF LogoutBegin, LogoutOneBegin, Begin, LogoutSteps, OneSteps
    <3>2. /\ alone' \in [Procs -> BOOLEAN] /\ overlap' \in BOOLEAN
          /\ commands' \in 0..MaxCommands
        BY StepTypes, NameTypes, <2>9 DEF LogoutBegin, LogoutOneBegin, Labels, LogoutSteps,
           OneSteps
    <3>3. at' \in [Logouts -> Names] /\ todo' \in [Logouts -> SUBSET Names]
        BY NameTypes, <2>9 DEF LogoutBegin, LogoutOneBegin, TypeOK
    <3> QED
        BY <2>9, <3>1, <3>2, <3>3 DEF LogoutBegin, LogoutOneBegin, TypeOK, files, past, Labels
  <2>10. ASSUME NEW q \in Logouts, NextName(q) PROVE TypeInv'
    <3>1. Shape' /\ pc' \in [Procs -> Labels]
        BY NameTypes, <2>10, <2>a DEF NextName, LogoutSteps, Resting
    <3>2. at' \in [Logouts -> Names] /\ todo' \in [Logouts -> SUBSET Names]
      <4>1. CASE UNCHANGED <<at, todo>>
          BY <4>1, Zenon DEF TypeOK
      <4>2. ASSUME NEW n \in todo[q], at' = [at EXCEPT ![q] = n],
                   todo' = [todo EXCEPT ![q] = @ \ {n}]
            PROVE  at' \in [Logouts -> Names] /\ todo' \in [Logouts -> SUBSET Names]
          BY <4>2 DEF TypeOK
      <4> QED
          BY <2>10, <4>1, <4>2, Zenon DEF NextName
    <3> QED
        BY <2>10, <3>1, <3>2 DEF NextName, TypeOK, files, hist, past, Labels
  <2>11. ASSUME NEW q \in Logouts, LogoutReadCert(q) PROVE TypeInv'
    <3>1. Shape' /\ pc' \in [Procs -> Labels]
        BY NameTypes, <2>11, <2>a, Zenon DEF LogoutReadCert, ReadCert, LogoutSteps, OneSteps,
           Resting
    <3>2. readKey' \in [Logouts -> CertFile]
        BY FileTypes, NameTypes, <2>11, Zenon DEF LogoutReadCert, ReadCert, TypeOK
    <3> QED
        BY <2>11, <3>1, <3>2, Zenon DEF LogoutReadCert, ReadCert, TypeOK, files, hist, past,
           Labels
  <2>12. ASSUME NEW q \in Logouts, LogoutReadSecret(q) PROVE TypeInv'
    <3>1. Shape' /\ pc' \in [Procs -> Labels]
        BY NameTypes, <2>12, <2>a, Zenon DEF LogoutReadSecret, ReadSecret, LogoutSteps, OneSteps,
           Resting
    <3> QED
        BY <2>12, <3>1, Zenon DEF LogoutReadSecret, ReadSecret, TypeOK, files, local, hist, past,
           Labels
  <2>13. ASSUME NEW q \in Logouts, RemoveSecret(q) \/ RemoveCert(q) PROVE TypeInv'
    <3>1. Shape' /\ pc' \in [Procs -> Labels]
        BY NameTypes, <2>13, <2>a, Zenon DEF RemoveSecret, RemoveCert, LogoutSteps, OneSteps,
           Resting
    <3>2. alone' \in [Procs -> BOOLEAN]
        BY StepTypes, NameTypes, <2>13 DEF RemoveSecret, RemoveCert
    <3>c. sec \in [Names -> SecFile] /\ cert \in [Names -> CertFile] /\ at[q] \in Names
        BY FileTypes, Zenon DEF TypeOK
    <3>3. sec' \in [Names -> SecFile] /\ cert' \in [Names -> CertFile]
        BY FileTypes, <2>13, <3>c, Zenon DEF RemoveSecret, RemoveCert
    <3>4. linked' \in [Logins -> BOOLEAN]
        BY NameTypes, <2>13, Zenon DEF RemoveSecret, RemoveCert, TypeOK, Unlink
    <3>d. removed \in [Logouts -> SUBSET Names] /\ single \in SUBSET Logouts
        BY DEF TypeOK
    <3>5. removed' \in [Logouts -> SUBSET Names] /\ single' \in SUBSET Logouts
      <4>1. CASE UNCHANGED <<removed, single>>
          BY <3>d, <4>1
      <4>2. CASE removed' = [removed EXCEPT ![q] = @ \cup {at[q]}] /\ single' = single
          BY <3>c, <3>d, <4>2
      <4>3. CASE removed' = removed /\ single' = single \cup {q}
          BY <3>d, <4>3
      <4> QED
          BY <2>13, <4>1, <4>2, <4>3 DEF RemoveSecret, RemoveCert, hist, past
    <3> QED
        BY <2>13, <3>1, <3>2, <3>3, <3>4, <3>5, Zenon DEF RemoveSecret, RemoveCert, TypeOK, hist,
           past, Labels
  <2>14. ASSUME NEW q \in Logouts, LogoutReadConfig(q) PROVE TypeInv'
    <3>1. Shape' /\ pc' \in [Procs -> Labels]
        BY NameTypes, <2>14, <2>a, Zenon DEF LogoutReadConfig, LogoutSteps
    <3>2. read' \in [Procs -> SUBSET Lines]
        BY NameTypes, <2>14, <2>b, Zenon DEF LogoutReadConfig, TypeOK
    <3> QED
        BY <2>14, <3>1, <3>2 DEF LogoutReadConfig, TypeOK, files, hist, past, Labels
  <2>15. ASSUME NEW q \in Logouts, LogoutTruncateConfig(q) \/ LogoutWriteConfig(q) PROVE TypeInv'
    <3>1. Shape' /\ pc' \in [Procs -> Labels]
        BY NameTypes, <2>15, <2>a, Zenon DEF LogoutTruncateConfig, LogoutWriteConfig, LogoutSteps
    <3>2. alone' \in [Procs -> BOOLEAN]
        BY StepTypes, NameTypes, <2>15, Zenon DEF LogoutTruncateConfig, LogoutWriteConfig
    <3>3. config' \in TextFile
      <4>1. read[q] \ {IdLine(at[q])} \subseteq Lines
          BY NameTypes, Zenon DEF TypeOK
      <4> QED
          BY FileTypes, NameTypes, <2>15, <2>b, <4>1, WrittenLines DEF LogoutTruncateConfig,
             LogoutWriteConfig
    <3> QED
        BY <2>15, <3>1, <3>2, <3>3, Zenon DEF LogoutTruncateConfig, LogoutWriteConfig, TypeOK,
           local, hist, past, Labels
  <2>16. ASSUME NEW p \in Procs, Crash(p) PROVE TypeInv'
    <3>1. Shape' /\ pc' \in [Procs -> Labels]
        BY NameTypes, <2>16, <2>a, Zenon DEF Crash, Resting, Procs
    <3>2. crashes' \in 0..MaxCrashes
        BY NameTypes, <2>16, BoundsAssumption DEF Crash, TypeOK
    <3> QED
        BY <2>16, <3>1, <3>2 DEF Crash, TypeOK, files, local, Labels
  <2>17. CASE UserRemovesDir
    <3>1. /\ config' \in TextFile /\ sec' \in [Names -> SecFile]
          /\ cert' \in [Names -> CertFile] /\ alone' \in [Procs -> BOOLEAN]
        BY StepTypes, FileTypes, NameTypes, <2>17 DEF UserRemovesDir
    <3>2. had' \in [ssh : BOOLEAN, config : BOOLEAN]
        BY NameTypes, <2>17 DEF UserRemovesDir, TypeOK
    <3> QED
        BY <2>17, <3>1, <3>2 DEF UserRemovesDir, TypeOK, Shape, local
  <2>18. CASE UNCHANGED vars
      BY NameTypes, <2>18, Zenon DEF vars, files, local, hist, past, TypeOK, Shape
  <2> QED
      BY <2>1, <2>2, <2>3, <2>4, <2>5, <2>6, <2>7, <2>8, <2>9, <2>10, <2>11, <2>12, <2>13,
         <2>14, <2>15, <2>16, <2>17, <2>18 DEF Next
<1> QED
    BY <1>1, <1>2, PTL DEF Spec

\* Every state of the identity directory and of its commands is well typed.
THEOREM IdentityDirTypes == Spec => []TypeOK
<1>1. TypeInv => TypeOK
    BY DEF TypeInv
<1> QED
    BY <1>1, TypeInvariant, PTL

-----------------------------------------------------------------------------
(***************************************************************************)
(* The two config files, and what an undisturbed command leaves behind.    *)
(***************************************************************************)
Busy(p) == pc[p] \notin Resting

\* Only p moves; it starts to work only with Begin, which looks around.
Moves(p) ==
    /\ pc' = [pc EXCEPT ![p] = pc'[p]]
    /\ \/ overlap' = overlap /\ (pc'[p] \in Resting \/ Busy(p))
       \/ overlap' = (overlap \/ \E q \in Procs \ {p} : Busy(q))

\* The steps that neither read nor write a config file.
WriteLabels == {"writeSsh", "writeConfig", "writeLines"}
TextLabels == WriteLabels \cup {"truncSsh", "truncConfig", "truncLines"}

Quiet(p) ==
    /\ Moves(p)
    /\ pc[p] \notin WriteLabels /\ pc'[p] \notin TextLabels
    /\ UNCHANGED <<ssh, config, read, had, crashes>>

KeyStep(p) ==
    \/ p \in Logins /\ \/ TruncateSecret(p) \/ WriteSecret(p) \/ TruncateCert(p) \/ WriteCert(p)
    \/ p \in Logouts /\ (RemoveSecret(p) \/ RemoveCert(p))

LookStep(p) ==
    \/ p \in Logins /\ (CheckInclude(p) \/ StatConfig(p) \/ WriteBegin(p))
    \/ p \in Logouts /\ \/ LogoutBegin(p) \/ NextName(p) \/ LogoutOneBegin(p)
                        \/ LogoutReadCert(p) \/ LogoutReadSecret(p)

ReadStep(p) ==
    \/ p \in Configurers /\ ReadSsh(p)
    \/ p \in Logins /\ LoginReadConfig(p)
    \/ p \in Logouts /\ LogoutReadConfig(p)

TruncateStep(p) ==
    \/ p \in Configurers /\ TruncateSsh(p)
    \/ p \in Logins /\ TruncateConfig(p)
    \/ p \in Logouts /\ LogoutTruncateConfig(p)

WriteStep(p) ==
    \/ p \in Configurers /\ WriteSsh(p)
    \/ p \in Logins /\ LoginWriteConfig(p)
    \/ p \in Logouts /\ LogoutWriteConfig(p)

\* The steps of all commands, sorted by what they do to the config files.
LEMMA Sorted ==
    ASSUME [Next]_vars
    PROVE  \/ \E p \in Procs : \/ KeyStep(p) \/ LookStep(p) \/ ReadStep(p) \/ TruncateStep(p)
                               \/ WriteStep(p) \/ Crash(p)
           \/ \E p \in Configurers : CreateConfig(p)
           \/ UserRemovesDir
           \/ UNCHANGED vars
<1> USE NameTypes
<1>1. ASSUME NEW p \in Configurers,
             CreateConfig(p) \/ ReadSsh(p) \/ TruncateSsh(p) \/ WriteSsh(p)
      PROVE  CreateConfig(p) \/ ReadStep(p) \/ TruncateStep(p) \/ WriteStep(p)
    BY <1>1, Zenon DEF ReadStep, TruncateStep, WriteStep
<1>2. ASSUME NEW p \in Logins,
             \/ CheckInclude(p) \/ StatConfig(p) \/ WriteBegin(p) \/ LoginReadConfig(p)
             \/ TruncateConfig(p) \/ LoginWriteConfig(p) \/ TruncateSecret(p)
             \/ WriteSecret(p) \/ TruncateCert(p) \/ WriteCert(p)
      PROVE  \/ KeyStep(p) \/ LookStep(p) \/ ReadStep(p) \/ TruncateStep(p) \/ WriteStep(p)
    BY <1>2, Zenon DEF KeyStep, LookStep, ReadStep, TruncateStep, WriteStep
<1>3. ASSUME NEW q \in Logouts,
             \/ LogoutBegin(q) \/ NextName(q) \/ LogoutOneBegin(q) \/ LogoutReadCert(q)
             \/ LogoutReadSecret(q) \/ RemoveSecret(q) \/ RemoveCert(q)
             \/ LogoutReadConfig(q) \/ LogoutTruncateConfig(q) \/ LogoutWriteConfig(q)
      PROVE  \/ KeyStep(q) \/ LookStep(q) \/ ReadStep(q) \/ TruncateStep(q) \/ WriteStep(q)
    BY <1>3, Zenon DEF KeyStep, LookStep, ReadStep, TruncateStep, WriteStep
<1> QED
    BY <1>1, <1>2, <1>3, Zenon DEF Next

\* Steps on key files, and steps that only look, are quiet.
LEMMA QuietSteps ==
    ASSUME TypeInv, NEW p \in Procs, KeyStep(p) \/ LookStep(p)
    PROVE  Quiet(p)
<1> USE DEF Quiet, Moves, Busy, WriteLabels, TextLabels
<1>0. pc \in [Procs -> Labels]
    BY DEF TypeInv, TypeOK, Labels
<1>1. CASE KeyStep(p) /\ p \in Logins
    BY <1>0, <1>1, ProcsAssumption, ZenonT(30)
    DEF KeyStep, TruncateSecret, WriteSecret, TruncateCert,
       WriteCert, Goto, local, hist, past, Resting
<1>2. CASE KeyStep(p) /\ p \in Logouts
    BY <1>0, <1>2, ProcsAssumption, Zenon DEF KeyStep, RemoveSecret, RemoveCert, Goto, hist, past,
       Resting
<1>3. CASE p \in Logins /\ (CheckInclude(p) \/ StatConfig(p))
    BY <1>0, <1>3, Zenon DEF CheckInclude, StatConfig, Goto, files, local, hist, past, Resting
<1>4. CASE p \in Logins /\ WriteBegin(p)
    BY <1>0, <1>4, Zenon DEF WriteBegin, Begin, Goto, files, local, past
<1>5. CASE p \in Logouts /\ (LogoutBegin(p) \/ LogoutOneBegin(p))
    BY <1>0, <1>5, Zenon DEF LogoutBegin, LogoutOneBegin, Begin, Goto, files, past
<1>6. CASE p \in Logouts /\ NextName(p)
    BY <1>0, <1>6 DEF NextName, Goto, files, hist, past, Resting
<1>7. CASE p \in Logouts /\ (LogoutReadCert(p) \/ LogoutReadSecret(p))
    BY <1>0, <1>7, Zenon DEF LogoutReadCert, ReadCert, LogoutReadSecret, ReadSecret, Goto, files,
       local, hist, past, Resting
<1> QED
    BY <1>1, <1>2, <1>3, <1>4, <1>5, <1>6, <1>7 DEF KeyStep, LookStep

\* Every other step of a command moves that command only, too.
LEMMA TextSteps ==
    ASSUME TypeInv, NEW p \in Procs
    PROVE  /\ ReadStep(p) \/ TruncateStep(p) \/ WriteStep(p) =>
                Moves(p) /\ UNCHANGED <<sec, cert, had, crashes, overlap>> /\ Busy(p)
           /\ CreateConfig(p) => Moves(p) /\ UNCHANGED <<ssh, sec, cert, read, had, crashes>>
           /\ Crash(p) => Moves(p) /\ crashes' # 0
<1> USE DEF Moves, Busy
<1>0. pc \in [Procs -> Labels] /\ crashes \in Nat
    BY DEF TypeInv, TypeOK, Labels
<1>1. ReadStep(p) => Moves(p) /\ UNCHANGED <<sec, cert, had, crashes, overlap>> /\ Busy(p)
    BY <1>0, Zenon DEF ReadStep, ReadSsh, LoginReadConfig, LogoutReadConfig, Goto, files, hist,
       past, Resting
<1>2. TruncateStep(p) => Moves(p) /\ UNCHANGED <<sec, cert, had, crashes, overlap>> /\ Busy(p)
    BY <1>0, Zenon DEF TruncateStep, TruncateSsh, TruncateConfig, LogoutTruncateConfig, Goto,
       hist, past, Resting
<1>3. WriteStep(p) => Moves(p) /\ UNCHANGED <<sec, cert, had, crashes, overlap>> /\ Busy(p)
    BY <1>0 DEF WriteStep, WriteSsh, LoginWriteConfig, LogoutWriteConfig, Goto, hist, past,
       Resting
<1>4. CreateConfig(p) => Moves(p) /\ UNCHANGED <<ssh, sec, cert, read, had, crashes>>
    BY <1>0 DEF CreateConfig, Begin, Goto, local, past
<1>5. Crash(p) => Moves(p) /\ crashes' # 0
    BY <1>0 DEF Crash, Goto, Resting
<1> QED
    BY <1>1, <1>2, <1>3, <1>4, <1>5

-----------------------------------------------------------------------------
\* Without overlap, at most one command is at work.
OneAtWork == ~overlap => \A p, q \in Procs : Busy(p) /\ Busy(q) => p = q

\* A command that moves keeps OneAtWork.
LEMMA MovesAlone ==
    ASSUME TypeInv, OneAtWork, NEW p \in Procs, Moves(p)
    PROVE  OneAtWork'
<1>1. pc \in [Procs -> Labels]
    BY Zenon DEF TypeInv, TypeOK, Labels
<1> QED
    BY <1>1, Zenon DEF OneAtWork, Moves, Busy

\* OneAtWork holds in every state.
LEMMA OneAtWorkInvariant == Spec => []OneAtWork
<1>1. Init => OneAtWork
    BY Zenon DEF Init, OneAtWork, Busy, Resting
<1>2. TypeInv /\ OneAtWork /\ [Next]_vars => OneAtWork'
  <2> SUFFICES ASSUME TypeInv, OneAtWork, [Next]_vars PROVE OneAtWork'
      OBVIOUS
  <2>1. CASE \E p \in Procs : Moves(p)
      BY <2>1, MovesAlone
  <2>2. CASE UserRemovesDir \/ UNCHANGED vars
      BY <2>2 DEF OneAtWork, Busy, UserRemovesDir, vars
  <2> QED
      BY <2>1, <2>2, Sorted, QuietSteps, TextSteps, NameTypes DEF Quiet
<1> QED
    BY <1>1, <1>2, TypeInvariant, PTL DEF Spec

-----------------------------------------------------------------------------
SshLabels == {"truncSsh", "writeSsh"}
ConfigLabels == {"truncConfig", "writeConfig", "truncLines", "writeLines"}

\* While one command is at work, a line of the user that is not in the file is
\* in the memory of the command that has truncated it.
OwnInv ==
    ~overlap /\ crashes = 0 =>
        /\ had.ssh => Own \in ssh.lines \/ \E p \in Procs : pc[p] = "writeSsh"
        /\ had.config =>
              Own \in config.lines \/ \E p \in Procs : pc[p] \in {"writeConfig", "writeLines"}
        /\ \A p \in Procs : had.ssh /\ pc[p] \in SshLabels => Own \in read[p]
        /\ \A p \in Procs : had.config /\ pc[p] \in ConfigLabels => Own \in read[p]

\* OwnInv holds in every state.
LEMMA OwnInvariant == Spec => []OwnInv
<1>1. Init => OwnInv
  <2>1. ASSUME Init
        PROVE  had.ssh = (Own \in ssh.lines) /\ had.config = (Own \in config.lines)
      BY <2>1, Zenon DEF Init
  <2>2. Init => \A p \in Procs : pc[p] \notin SshLabels \cup ConfigLabels
      BY DEF Init, SshLabels, ConfigLabels
  <2>3. ASSUME Init
        PROVE  (had.ssh => Own \in ssh.lines) /\ (had.config => Own \in config.lines)
      BY <2>1, <2>3, Zenon
  <2> QED
      BY <2>2, <2>3 DEF OwnInv, SshLabels, ConfigLabels
<1>2. TypeInv /\ OneAtWork /\ OwnInv /\ [Next]_vars => OwnInv'
  <2> SUFFICES ASSUME TypeInv, OneAtWork, OwnInv, [Next]_vars, ~overlap', crashes' = 0
               PROVE  OwnInv'
      BY DEF OwnInv
  <2>0. pc \in [Procs -> Labels] /\ read \in [Procs -> SUBSET Lines]
      BY Zenon DEF TypeInv, TypeOK, Labels
  <2>1. ASSUME NEW p \in Procs, Quiet(p) PROVE OwnInv'
    <3>0. ~overlap
        BY <2>1, Zenon DEF Quiet, Moves
    <3>1. ~overlap /\ crashes = 0
        BY <2>1, <3>0 DEF Quiet
    <3>2. \A q \in Procs : pc'[q] \in TextLabels => pc'[q] = pc[q]
        BY <2>0, <2>1 DEF Quiet, Moves
    <3>3. \A q \in Procs : pc[q] \in WriteLabels => pc'[q] = pc[q]
        BY <2>0, <2>1, Zenon DEF Quiet, Moves
    <3> QED
        BY <2>1, <3>1, <3>2, <3>3 DEF Quiet, OwnInv, SshLabels, ConfigLabels, TextLabels,
           WriteLabels
  <2>2. ASSUME NEW p \in Configurers, CreateConfig(p) PROVE OwnInv'
    <3>1. p \in Procs /\ UNCHANGED <<ssh, read, had, crashes>> /\ config'.lines = config.lines
        BY <2>2, NameTypes, TextSteps, TextLines DEF CreateConfig
    <3>2. ~overlap /\ crashes = 0
        BY <2>2, <3>1, Zenon DEF CreateConfig, Begin
    <3>3. \A q \in Procs : pc'[q] = pc[q] \/ (q = p /\ pc[q] = "new" /\ pc'[q] = "readSsh")
        BY <2>0, <2>2, <3>1 DEF CreateConfig, Begin, Goto
    <3> QED
        BY <3>1, <3>2, <3>3, Zenon DEF OwnInv, SshLabels, ConfigLabels
  <2>3. ASSUME NEW p \in Procs, ReadStep(p) \/ TruncateStep(p) \/ WriteStep(p) PROVE OwnInv'
    <3>1. UNCHANGED <<had, crashes, overlap>> /\ ~overlap /\ crashes = 0 /\ Busy(p)
        BY <2>3, TextSteps, Zenon
    <3>2. \A q \in Procs \ {p} : pc'[q] = pc[q] /\ pc[q] \in Resting
        BY <2>0, <2>3, <3>1, TextSteps, Zenon DEF Moves, OneAtWork, Busy
    <3>3. \A q \in Procs \ {p} : pc'[q] \notin SshLabels \cup ConfigLabels
        BY <3>2, Zenon DEF Resting, SshLabels, ConfigLabels
    <3>4. ASSUME /\ had.ssh => Own \in ssh'.lines \/ pc'[p] = "writeSsh"
                 /\ had.config => Own \in config'.lines \/ pc'[p] \in {"writeConfig", "writeLines"}
                 /\ had.ssh /\ pc'[p] \in SshLabels => Own \in read'[p]
                 /\ had.config /\ pc'[p] \in ConfigLabels => Own \in read'[p]
          PROVE  OwnInv'
        BY <3>1, <3>3, <3>4, Zenon DEF OwnInv
    <3>5. /\ had.ssh => Own \in ssh.lines \/ pc[p] = "writeSsh"
          /\ had.config => Own \in config.lines \/ pc[p] \in {"writeConfig", "writeLines"}
          /\ had.ssh /\ pc[p] \in SshLabels => Own \in read[p]
          /\ had.config /\ pc[p] \in ConfigLabels => Own \in read[p]
        BY <3>1, <3>2 DEF OwnInv, Resting
    <3>6. CASE ReadStep(p)
      <4>1. UNCHANGED <<ssh, config>>
          BY <3>6, Zenon DEF ReadStep, ReadSsh, LoginReadConfig, LogoutReadConfig, files
      <4>2. CASE p \in Configurers /\ ReadSsh(p)
          BY <2>0, <3>4, <3>5, <4>1, <4>2, Zenon DEF ReadSsh, Goto, SshLabels, ConfigLabels
      <4>3. CASE (p \in Logins /\ LoginReadConfig(p)) \/ (p \in Logouts /\ LogoutReadConfig(p))
          BY <2>0, <3>4, <3>5, <4>1, <4>3 DEF LoginReadConfig, LogoutReadConfig, Goto,
             SshLabels, ConfigLabels
      <4> QED
          BY <3>6, <4>2, <4>3, Zenon DEF ReadStep
    <3>7. CASE TruncateStep(p)
      <4>1. read' = read
          BY <3>7, Zenon DEF TruncateStep, TruncateSsh, TruncateConfig, LogoutTruncateConfig,
             local
      <4>2. CASE p \in Configurers /\ TruncateSsh(p)
          BY <2>0, <3>4, <3>5, <4>1, <4>2, Zenon DEF TruncateSsh, Goto, SshLabels, ConfigLabels
      <4>3. CASE \/ p \in Logins /\ TruncateConfig(p)
                 \/ p \in Logouts /\ LogoutTruncateConfig(p)
          BY <2>0, <3>4, <3>5, <4>1, <4>3 DEF TruncateConfig, LogoutTruncateConfig, Goto,
             SshLabels, ConfigLabels
      <4> QED
          BY <3>7, <4>2, <4>3, Zenon DEF TruncateStep
    <3>8. CASE WriteStep(p)
      <4>1. CASE p \in Configurers /\ WriteSsh(p)
        <5>1. pc[p] = "writeSsh" /\ pc'[p] = "done" /\ config' = config
            BY <2>0, <4>1, Zenon DEF WriteSsh, Goto
        <5>2. read[p] \cup {Include} \subseteq ssh'.lines
            BY <4>1, WrittenFile, Zenon DEF WriteSsh
        <5> QED
            BY <3>4, <3>5, <5>1, <5>2, Zenon DEF SshLabels, ConfigLabels
      <4>2. CASE p \in Logins /\ LoginWriteConfig(p)
        <5>1. pc[p] = "writeConfig" /\ pc'[p] = "truncSec" /\ ssh' = ssh
            BY <2>0, <4>2 DEF LoginWriteConfig, Goto
        <5>2. Listing(p) \subseteq config'.lines
            BY <4>2, WrittenFile, Zenon DEF LoginWriteConfig
        <5> QED
            BY <3>4, <3>5, <5>1, <5>2 DEF SshLabels, ConfigLabels, Listing
      <4>3. CASE p \in Logouts /\ LogoutWriteConfig(p)
        <5>1. pc[p] = "writeLines" /\ pc'[p] = "next" /\ ssh' = ssh
            BY <2>0, <4>3 DEF LogoutWriteConfig, Goto
        <5>2. read[p] \ {IdLine(at[p])} \subseteq config'.lines
            BY <4>3, WrittenFile, Zenon DEF LogoutWriteConfig
        <5>3. Own # IdLine(at[p])
            BY DEF Own, IdLine
        <5> QED
            BY <3>4, <3>5, <5>1, <5>2, <5>3, Zenon DEF SshLabels, ConfigLabels
      <4> QED
          BY <3>8, <4>1, <4>2, <4>3, Zenon DEF WriteStep
    <3> QED
        BY <2>3, <3>6, <3>7, <3>8
  <2>4. CASE UserRemovesDir
      BY <2>4 DEF UserRemovesDir, OwnInv, AtRest, Resting, SshLabels, ConfigLabels, local,
         TypeInv, TypeOK
  <2>5. CASE UNCHANGED vars
      BY <2>5, Zenon DEF OwnInv, vars, files, local, hist, past
  <2> QED
      BY <2>1, <2>2, <2>3, <2>4, <2>5, Sorted, QuietSteps, TextSteps, Zenon
<1> QED
    BY <1>1, <1>2, TypeInvariant, OneAtWorkInvariant, PTL DEF Spec

\* Commands that neither overlap nor are killed keep every line of the user in
\* ~/.ssh/config and in the config file of the directory.
THEOREM UserLinesSurvive == Spec => []UserLinesKept
<1>1. OwnInv => UserLinesKept
    BY Zenon DEF OwnInv, UserLinesKept, AtRest, Resting
<1> QED
    BY <1>1, OwnInvariant, PTL

-----------------------------------------------------------------------------
Steps(p) ==
    \/ KeyStep(p) \/ LookStep(p) \/ ReadStep(p) \/ TruncateStep(p) \/ WriteStep(p)
    \/ Crash(p)
    \/ p \in Configurers /\ CreateConfig(p)

\* The memory of a command, and its entries in the histories.
Same(q) ==
    /\ pc'[q] = pc[q] /\ read'[q] = read[q]
    /\ q \in Logins => linked'[q] = linked[q]
    /\ q \in Logouts => /\ at'[q] = at[q] /\ todo'[q] = todo[q] /\ readKey'[q] = readKey[q]
                        /\ removed'[q] = removed[q] /\ (q \in single' <=> q \in single)

\* What q may rely on while it is alone: the others change neither its memory
\* nor a file.
LEMMA Aside ==
    ASSUME TypeInv, NEW p \in Procs, Steps(p), NEW q \in Procs \ {p}, alone'[q]
    PROVE  /\ Same(q) /\ alone[q]
           /\ sec' = sec /\ cert' = cert /\ config'.lines = config.lines
<1> USE DEF Same
<1>0. /\ pc \in [Procs -> Labels] /\ read \in [Procs -> SUBSET Lines]
      /\ linked \in [Logins -> BOOLEAN] /\ at \in [Logouts -> Names]
      /\ todo \in [Logouts -> SUBSET Names] /\ readKey \in [Logouts -> CertFile]
      /\ removed \in [Logouts -> SUBSET Names] /\ alone \in [Procs -> BOOLEAN]
    BY DEF TypeInv, TypeOK, Labels
<1>1. ~ Changes(p)
    BY ZenonT(30) DEF Changes
<1>2. CASE KeyStep(p) \/ TruncateStep(p) \/ WriteStep(p)
    BY <1>1, <1>2, Zenon DEF KeyStep, TruncateStep, WriteStep, TruncateSecret, WriteSecret,
       TruncateCert, WriteCert, RemoveSecret, RemoveCert, TruncateSsh, TruncateConfig,
       LogoutTruncateConfig, WriteSsh, LoginWriteConfig, LogoutWriteConfig
<1>3. CASE p \in Logins /\ (CheckInclude(p) \/ StatConfig(p))
    BY <1>0, <1>3, Zenon DEF CheckInclude, StatConfig, Goto, files, local, hist, past
<1>4. CASE p \in Logins /\ WriteBegin(p)
    BY <1>0, <1>4, Zenon DEF WriteBegin, Begin, Goto, files, local, past
<1>5. CASE p \in Logouts /\ LogoutBegin(p)
    BY <1>0, <1>5, Zenon DEF LogoutBegin, Begin, Goto, files, past
<1>6. CASE p \in Logouts /\ LogoutOneBegin(p)
    BY <1>0, <1>6, Zenon DEF LogoutOneBegin, Begin, Goto, files, past
<1>7. CASE p \in Logouts /\ NextName(p)
    BY <1>0, <1>7, Zenon DEF NextName, Goto, files, hist, past
<1>8. CASE p \in Logouts /\ LogoutReadCert(p)
    BY <1>0, <1>8, Zenon DEF LogoutReadCert, ReadCert, Goto, files, hist, past
<1>9. CASE p \in Logouts /\ LogoutReadSecret(p)
    BY <1>0, <1>9, Zenon DEF LogoutReadSecret, ReadSecret, Goto, files, local, hist, past
<1>10. CASE ReadStep(p)
    BY <1>0, <1>10, Zenon DEF ReadStep, ReadSsh, LoginReadConfig, LogoutReadConfig, Goto, files,
       hist, past
<1>11. CASE Crash(p)
    BY <1>0, <1>11, Zenon DEF Crash, Goto, files, local
<1>12. CASE CreateConfig(p)
    BY <1>0, <1>12, TextLines, Zenon DEF CreateConfig, Begin, Goto, local, past
<1> QED
    BY <1>2, <1>3, <1>4, <1>5, <1>6, <1>7, <1>8, <1>9, <1>10, <1>11, <1>12,
       Zenon DEF Steps, LookStep

\* The config file has no lines when it does not exist.
LinesExist == ~config.exists => config.lines = {}

\* LinesExist holds in every state.
LEMMA LinesExistInvariant == Spec => []LinesExist
<1>1. Init => LinesExist
    BY InitialConfig DEF LinesExist
<1>2. TypeInv /\ LinesExist /\ [Next]_vars => LinesExist'
  <2> SUFFICES ASSUME TypeInv, LinesExist, [Next]_vars PROVE LinesExist'
      OBVIOUS
  <2>1. CASE config' = config
      BY <2>1 DEF LinesExist
  <2>2. CASE \E lines : config' = Text(lines)
      BY <2>2, TextLines, Zenon DEF LinesExist
  <2>3. ASSUME NEW p \in Procs, KeyStep(p) \/ LookStep(p) PROVE config' = config
      BY <2>3, QuietSteps, Zenon DEF Quiet
  <2>4. ASSUME NEW p \in Procs, ReadStep(p) \/ Crash(p) PROVE config' = config
      BY <2>4 DEF ReadStep, ReadSsh, LoginReadConfig, LogoutReadConfig, Crash, files
  <2>5. ASSUME NEW p \in Procs, TruncateStep(p) \/ WriteStep(p) \/ CreateConfig(p)
        PROVE  config' = config \/ \E lines : config' = Text(lines)
      BY <2>5, Zenon DEF TruncateStep, WriteStep, TruncateSsh, TruncateConfig,
         LogoutTruncateConfig, WriteSsh, LoginWriteConfig, LogoutWriteConfig, CreateConfig
  <2>6. CASE UserRemovesDir
      BY <2>6, Zenon DEF UserRemovesDir, LinesExist, NoFile
  <2> QED
      BY <2>1, <2>2, <2>3, <2>4, <2>5, <2>6, Sorted, NameTypes DEF vars, files
<1> QED
    BY <1>1, <1>2, TypeInvariant, PTL DEF Spec

-----------------------------------------------------------------------------
LineSteps == {"readLines", "truncLines", "writeLines"}

\* What a full logout has still to do, as long as it is alone: every pair is in
\* its list or in its hands, and a line of a pair it removed is the one it is
\* about to remove.
Clearing(q) ==
    /\ \A n \in Names : Pair(n) =>
          n \in todo[q] \/ (n = at[q] /\ pc[q] \in {"readCert", "readSec", "rmSec"})
    /\ pc[q] = "done" => todo[q] = {}
    /\ pc[q] = "readSec" => readKey[q] = cert[at[q]]
    /\ \A n \in removed[q] : Listed(n) => n = at[q] /\ pc[q] \in LineSteps
    /\ pc[q] \in {"truncLines", "writeLines"} =>
          \A n \in removed[q] \ {at[q]} : IdLine(n) \notin read[q]
    /\ pc[q] = "writeLines" => config.lines = {}

ClearInv ==
    \A q \in Logouts :
        /\ pc[q] = "new" => removed[q] = {} /\ ~alone[q]
        /\ pc[q] \in LogoutSteps \cup {"new"} => q \notin single
        /\ alone[q] /\ q \notin single /\ pc[q] \in LogoutSteps \cup {"done"} => Clearing(q)

\* Pairs are judged by the key files alone.
LEMMA PairKept ==
    ASSUME NEW n, sec' = sec, cert' = cert
    PROVE  Pair(n)' <=> Pair(n)
BY DEF Pair, KeyPairMatch

\* The full logout keeps to Clearing.
LEMMA ClearingKept ==
    ASSUME TypeInv, LinesExist, NEW q \in Logouts, Clearing(q), alone'[q], alone[q],
           q \notin single, q \notin single', pc[q] \in LogoutSteps,
           Steps(q), pc'[q] \in LogoutSteps \cup {"done"}
    PROVE  Clearing(q)'
<1> USE DEF LogoutSteps, LineSteps
<1>0. /\ q \in Procs /\ q \notin Logins /\ q \notin Configurers
      /\ pc \in [Procs -> Labels] /\ read \in [Procs -> SUBSET Lines]
      /\ at \in [Logouts -> Names] /\ todo \in [Logouts -> SUBSET Names]
      /\ readKey \in [Logouts -> CertFile] /\ removed \in [Logouts -> SUBSET Names]
      /\ sec \in [Names -> SecFile] /\ cert \in [Names -> CertFile]
    BY NameTypes, ProcsAssumption, Zenon DEF TypeInv, TypeOK, Labels
<1>1. CASE NextName(q)
  <2>1. /\ UNCHANGED <<config, sec, cert, read, readKey, removed>> /\ pc[q] = "next"
        /\ \/ todo[q] = {} /\ pc'[q] = "done" /\ at'[q] = at[q] /\ todo'[q] = todo[q]
           \/ /\ at'[q] \in todo[q] /\ todo'[q] = todo[q] \ {at'[q]} /\ pc'[q] = "readCert"
      BY <1>0, <1>1 DEF NextName, Goto, files, hist, past
  <2>2. \A n : Listed(n)' <=> Listed(n)
      BY <2>1, Zenon DEF Listed
  <2> QED
      BY <2>1, <2>2, PairKept, Zenon DEF Clearing
<1>2. CASE LogoutReadCert(q)
  <2>1. /\ UNCHANGED <<config, sec, cert, read, at, todo, removed>> /\ pc[q] = "readCert"
        /\ readKey'[q] = cert[at[q]]
        /\ pc'[q] = IF cert[at[q]].ours THEN "readSec" ELSE "next"
      BY <1>0, <1>2 DEF LogoutReadCert, ReadCert, Goto, files, hist, past
  <2>2. /\ \A n : Listed(n)' <=> Listed(n)
        /\ pc'[q] # "readSec" => ~Pair(at[q])
      BY <2>1, Zenon DEF Listed, Pair
  <2> QED
      BY <2>1, <2>2, PairKept, Zenon DEF Clearing
<1>3. CASE LogoutReadSecret(q)
  <2>1. /\ UNCHANGED <<config, sec, cert, read, readKey, at, todo, removed>> /\ pc[q] = "readSec"
        /\ pc'[q] = IF KeyPairMatch(sec[at[q]], readKey[q]) THEN "rmSec" ELSE "next"
      BY <1>0, <1>3, Zenon DEF LogoutReadSecret, ReadSecret, Goto, files, local, hist, past
  <2>2. /\ \A n : Listed(n)' <=> Listed(n)
        /\ pc'[q] # "rmSec" => ~Pair(at[q])
      BY <2>1 DEF Listed, Pair, Clearing
  <2> QED
      BY <2>1, <2>2, PairKept, Zenon DEF Clearing
<1>4. CASE RemoveSecret(q)
  <2>1. /\ UNCHANGED <<config, cert, read, at, todo, removed>>
        /\ pc[q] = "rmSec" /\ pc'[q] = "rmCert"
        /\ sec' = [sec EXCEPT ![at[q]] = NoSec]
      BY <1>0, <1>4, Zenon DEF RemoveSecret, Goto, hist, past
  <2>2. /\ \A n : Listed(n)' <=> Listed(n)
        /\ ~Pair(at[q])'
        /\ \A n \in Names \ {at[q]} : Pair(n)' <=> Pair(n)
      BY <1>0, <2>1, Zenon DEF Listed, Pair, KeyPairMatch, NoSec
  <2> QED
      BY <2>1, <2>2, Zenon DEF Clearing
<1>5. CASE RemoveCert(q)
  <2>1. /\ UNCHANGED <<config, sec, read, at, todo>>
        /\ pc[q] = "rmCert" /\ pc'[q] = "readLines"
        /\ cert' = [cert EXCEPT ![at[q]] = NoCert]
        /\ removed'[q] = removed[q] \cup {at[q]}
      BY <1>0, <1>5, Zenon DEF RemoveCert, Goto
  <2>2. /\ \A n : Listed(n)' <=> Listed(n)
        /\ ~Pair(at[q])'
        /\ \A n \in Names \ {at[q]} : Pair(n)' <=> Pair(n)
      BY <1>0, <2>1, ZenonT(30) DEF Listed, Pair, KeyPairMatch, NoCert
  <2> QED
      BY <2>1, <2>2, Zenon DEF Clearing
<1>6. CASE LogoutReadConfig(q)
  <2>1. /\ UNCHANGED <<config, sec, cert, readKey, at, todo, removed>> /\ pc[q] = "readLines"
        /\ read'[q] = config.lines
        /\ pc'[q] = IF config.exists THEN "truncLines" ELSE "next"
      BY <1>0, <1>6, Zenon DEF LogoutReadConfig, Goto, files, hist, past
  <2>2. /\ \A n : Listed(n)' <=> Listed(n)
        /\ pc'[q] = "next" => \A n : ~Listed(n)
      BY <2>1, ZenonT(30) DEF Listed, LinesExist
  <2>3. \A n \in removed[q] \ {at[q]} : IdLine(n) \notin read'[q]
      BY <2>1 DEF Listed, Clearing
  <2> QED
      BY <2>1, <2>2, <2>3, PairKept DEF Clearing
<1>7. CASE LogoutTruncateConfig(q)
  <2>1. /\ UNCHANGED <<sec, cert, read, readKey, at, todo, removed>> /\ pc[q] = "truncLines"
        /\ config'.lines = {} /\ pc'[q] = "writeLines"
      BY <1>0, <1>7, TextLines, Zenon DEF LogoutTruncateConfig, Goto, local, hist, past
  <2>2. \A n : ~Listed(n)'
      BY <2>1, Zenon DEF Listed
  <2> QED
      BY <2>1, <2>2, PairKept, Zenon DEF Clearing
<1>8. CASE LogoutWriteConfig(q)
  <2>1. /\ UNCHANGED <<sec, cert, read, readKey, at, todo, removed>> /\ pc[q] = "writeLines"
        /\ pc'[q] = "next"
      BY <1>0, <1>8, Zenon DEF LogoutWriteConfig, Goto, local, hist, past
  <2>2. config'.lines = read[q] \ {IdLine(at[q])}
    <3>1. config.lines = {}
        BY <2>1, Zenon DEF Clearing
    <3>2. \E lines \in Written(read[q] \ {IdLine(at[q])}, config.lines) : config' = Text(lines)
        BY <1>8, Zenon DEF LogoutWriteConfig
    <3> QED
        BY <3>1, <3>2, WrittenFile
  <2>3. \A n \in removed[q] : ~Listed(n)'
      BY <2>1, <2>2, Zenon DEF Listed, Clearing
  <2> QED
      BY <2>1, <2>3, PairKept, Zenon DEF Clearing
<1>9. ~Crash(q) /\ ~LogoutBegin(q) /\ ~LogoutOneBegin(q)
    BY <1>0 DEF Crash, LogoutBegin, LogoutOneBegin, Goto
<1> QED
    BY <1>0, <1>1, <1>2, <1>3, <1>4, <1>5, <1>6, <1>7, <1>8, <1>9, Zenon DEF Steps, KeyStep,
       LookStep, ReadStep, TruncateStep, WriteStep

\* ClearInv holds in every state.
LEMMA ClearInvariant == Spec => []ClearInv
<1>1. Init => ClearInv
    BY NameTypes, Zenon DEF Init, ClearInv, LogoutSteps
<1>2. TypeInv /\ LinesExist /\ ClearInv /\ [Next]_vars => ClearInv'
  <2> SUFFICES ASSUME TypeInv, LinesExist, ClearInv, [Next]_vars, NEW q \in Logouts
               PROVE  /\ pc'[q] = "new" => removed'[q] = {} /\ ~alone'[q]
                      /\ pc'[q] \in LogoutSteps \cup {"new"} => q \notin single'
                      /\ alone'[q] /\ q \notin single' /\ pc'[q] \in LogoutSteps \cup {"done"}
                            => Clearing(q)'
      BY Zenon DEF ClearInv
  <2>0. /\ q \in Procs /\ q \notin Logins /\ q \notin Configurers
        /\ pc \in [Procs -> Labels] /\ alone \in [Procs -> BOOLEAN]
        /\ at \in [Logouts -> Names] /\ todo \in [Logouts -> SUBSET Names]
        /\ removed \in [Logouts -> SUBSET Names] /\ pc[q] \in Labels
      BY NameTypes, ProcsAssumption DEF TypeInv, TypeOK, Labels
  <2>1. ASSUME NEW p \in Procs \ {q}, Steps(p)
        PROVE  /\ pc'[q] = pc[q] /\ removed'[q] = removed[q] /\ (q \in single' <=> q \in single)
               /\ alone'[q] => alone[q]
    <3>1. pc'[q] = pc[q]
        BY <2>0, <2>1, QuietSteps, TextSteps, Zenon DEF Steps, Quiet, Moves
    <3>2. CASE UNCHANGED <<removed, single>> /\ (Changes(p) \/ UNCHANGED alone \/ Begin(p, pc'[p]))
        BY <2>0, <3>1, <3>2, Zenon DEF Changes, Begin
    <3>3. CASE p \in Logouts /\ RemoveCert(p)
        BY <2>0, <3>1, <3>3, Zenon DEF RemoveCert, Changes
    <3>4. ASSUME NEW label, Begin(p, label) PROVE Begin(p, pc'[p])
        BY <2>0, <3>4 DEF Begin, Goto
    <3>5. CASE KeyStep(p) /\ ~(p \in Logouts /\ RemoveCert(p))
        BY <3>2, <3>5, Zenon DEF KeyStep, TruncateSecret, WriteSecret, TruncateCert, WriteCert,
           RemoveSecret, hist, past
    <3>6. CASE LookStep(p)
        BY <3>2, <3>4, <3>6, Zenon DEF LookStep, CheckInclude, StatConfig, WriteBegin,
           LogoutBegin, LogoutOneBegin, NextName, LogoutReadCert, ReadCert, LogoutReadSecret,
           ReadSecret, hist, past
    <3>7. CASE ReadStep(p) \/ TruncateStep(p) \/ WriteStep(p)
        BY <3>2, <3>7, ZenonT(30)
        DEF ReadStep, TruncateStep, WriteStep, ReadSsh, TruncateSsh, WriteSsh,
           LoginReadConfig, TruncateConfig, LoginWriteConfig, LogoutReadConfig,
           LogoutTruncateConfig, LogoutWriteConfig, hist, past
    <3>8. CASE Crash(p) \/ CreateConfig(p)
        BY <3>2, <3>4, <3>8 DEF Crash, CreateConfig, past
    <3> QED
        BY <2>1, <3>3, <3>5, <3>6, <3>7, <3>8, Zenon DEF Steps
  <2>2. ASSUME NEW p \in Procs \ {q}, Steps(p), alone'[q], Clearing(q) PROVE Clearing(q)'
    <3>1. Same(q) /\ sec' = sec /\ cert' = cert /\ config'.lines = config.lines
        BY <2>0, <2>2, Aside, Zenon
    <3>2. \A n : Listed(n)' <=> Listed(n)
        BY <3>1, Zenon DEF Listed
    <3>3. \A n : Pair(n)' <=> Pair(n)
        BY <3>1, PairKept
    <3>4. /\ pc'[q] = pc[q] /\ read'[q] = read[q] /\ at'[q] = at[q] /\ todo'[q] = todo[q]
          /\ readKey'[q] = readKey[q] /\ removed'[q] = removed[q] /\ cert' = cert
          /\ config'.lines = config.lines
        BY <3>1, Zenon DEF Same
    <3> QED
        BY <2>2, <3>2, <3>3, <3>4, Zenon DEF Clearing
  <2>3. CASE \E p \in Procs \ {q} : Steps(p)
      BY <2>1, <2>2, <2>3, Zenon DEF ClearInv
  <2>4. CASE Steps(q) /\ pc[q] = "new"
    <3>1. CASE LogoutBegin(q)
      <4>1. /\ UNCHANGED <<config, sec, cert, removed, single>> /\ pc'[q] = "next"
            /\ todo'[q] = {n \in Names : sec[n].state # "missing"}
          BY <2>0, <3>1, Zenon DEF LogoutBegin, Begin, Goto, files, past
      <4>2. removed[q] = {} /\ q \notin single
          BY <2>4, Zenon DEF ClearInv
      <4>3. \A n \in Names : Pair(n)' => n \in todo'[q]
          BY <4>1, Zenon DEF Pair, KeyPairMatch
      <4>4. Clearing(q)'
          BY <4>1, <4>2, <4>3, Zenon DEF Clearing
      <4> QED
          BY <4>1, <4>2, <4>4, Zenon
    <3>2. CASE LogoutOneBegin(q)
        BY <2>0, <3>2 DEF LogoutOneBegin, Begin, Goto, LogoutSteps
    <3>3. LogoutBegin(q) \/ LogoutOneBegin(q)
      <4>1. pc[q] = "new" /\ pc[q] \in Resting
          BY <2>4, Zenon DEF Resting
      <4> QED
          BY <2>0, <2>4, <4>1, Zenon DEF Steps, KeyStep, LookStep, ReadStep, TruncateStep,
             WriteStep, RemoveSecret, RemoveCert, NextName, LogoutReadCert, ReadCert,
             LogoutReadSecret, ReadSecret, LogoutReadConfig, LogoutTruncateConfig,
             LogoutWriteConfig, Crash
    <3> QED
        BY <3>1, <3>2, <3>3, Zenon
  <2>5. CASE Steps(q) /\ pc[q] \in LogoutSteps
    <3>1. q \notin single' /\ pc'[q] # "new" /\ (alone'[q] => alone[q])
      <4>1. q \notin single /\ ~LogoutBegin(q) /\ ~LogoutOneBegin(q)
          BY <2>5 DEF ClearInv, LogoutBegin, LogoutOneBegin, LogoutSteps
      <4> QED
          BY <2>0, <2>5, <4>1, Zenon DEF Steps, KeyStep, LookStep, ReadStep, TruncateStep,
             WriteStep, RemoveSecret, RemoveCert, NextName, LogoutReadCert, ReadCert,
             LogoutReadSecret, ReadSecret, LogoutReadConfig, LogoutTruncateConfig,
             LogoutWriteConfig, Crash, Goto, Changes, hist, past, LogoutSteps
    <3> QED
        BY <2>5, <3>1, ClearingKept DEF ClearInv
  <2>6. CASE Steps(q) /\ pc[q] \in OneSteps
      BY <2>0, <2>6, Zenon DEF Steps, KeyStep, LookStep, ReadStep, TruncateStep,
         WriteStep, RemoveSecret, RemoveCert, NextName, LogoutReadCert, ReadCert, LogoutBegin,
         LogoutOneBegin, LogoutReadSecret, ReadSecret, LogoutReadConfig, LogoutTruncateConfig,
         LogoutWriteConfig, Crash, Goto, LogoutSteps, OneSteps
  <2>7. ~(Steps(q) /\ pc[q] \in Resting \ {"new"})
      BY <2>0, Zenon DEF Steps, KeyStep, LookStep, ReadStep, TruncateStep,
         WriteStep, RemoveSecret, RemoveCert, NextName, LogoutReadCert, ReadCert, LogoutBegin,
         LogoutOneBegin, LogoutReadSecret, ReadSecret, LogoutReadConfig, LogoutTruncateConfig,
         LogoutWriteConfig, Crash, Resting
  <2>8. CASE UserRemovesDir
      BY <2>0, <2>8 DEF UserRemovesDir, ClearInv
  <2>9. CASE UNCHANGED vars
    <3>1. Clearing(q)' <=> Clearing(q)
        BY <2>9, Zenon DEF Clearing, Pair, KeyPairMatch, Listed, vars, files, local, hist, past
    <3> QED
        BY <2>9, <3>1, ZenonT(30) DEF ClearInv, vars, hist, past
  <2>10. Steps(q) => \/ pc[q] = "new" \/ pc[q] \in LogoutSteps \/ pc[q] \in OneSteps
      BY <2>0, <2>7, Zenon DEF TypeInv, Shape
  <2> QED
      BY <2>0, <2>3, <2>4, <2>5, <2>6, <2>8, <2>9, <2>10, Sorted, NameTypes, Zenon DEF Steps
<1> QED
    BY <1>1, <1>2, TypeInvariant, LinesExistInvariant, PTL DEF Spec

\* A full logout that nobody disturbs removes every pair of opkssh, and the
\* line of every pair it removed.
THEOREM LogoutIsComplete == Spec => []LogoutClears
<1>1. ClearInv => LogoutClears
    BY Zenon DEF ClearInv, LogoutClears, Clearing, LineSteps
<1> QED
    BY <1>1, ClearInvariant, PTL

-----------------------------------------------------------------------------
\* As long as no commands overlapped, the one at work is alone.
AloneAtWork == ~overlap => \A p \in Procs : Busy(p) => alone[p]

\* What a step does to the histories of who was alone and of overlaps.
LEMMA Marks ==
    ASSUME TypeInv, NEW p \in Procs, Steps(p)
    PROVE  /\ Moves(p) /\ (overlap => overlap')
           /\ \/ UNCHANGED <<alone, overlap>> /\ (Busy(p) \/ pc'[p] \in Resting)
              \/ Changes(p) /\ Busy(p) /\ UNCHANGED overlap
              \/ Begin(p, pc'[p])
<1>0. pc \in [Procs -> Labels]
    BY Zenon DEF TypeInv, TypeOK, Labels
<1>1. Moves(p)
    BY QuietSteps, TextSteps DEF Steps, Quiet
<1>2. ASSUME NEW label, Begin(p, label) PROVE Begin(p, pc'[p])
    BY <1>0, <1>2 DEF Begin, Goto
<1>3. CASE KeyStep(p) \/ TruncateStep(p) \/ WriteStep(p)
  <2>1. Changes(p) /\ UNCHANGED overlap
      BY <1>3, Zenon DEF KeyStep, TruncateStep, WriteStep, TruncateSecret, WriteSecret,
         TruncateCert, WriteCert, RemoveSecret, RemoveCert, TruncateSsh, TruncateConfig,
         LogoutTruncateConfig, WriteSsh, LoginWriteConfig, LogoutWriteConfig
  <2>2. Busy(p)
      BY <1>3, Zenon DEF KeyStep, TruncateStep, WriteStep, TruncateSecret, WriteSecret,
         TruncateCert, WriteCert, RemoveSecret, RemoveCert, TruncateSsh, TruncateConfig,
         LogoutTruncateConfig, WriteSsh, LoginWriteConfig, LogoutWriteConfig, Busy, Resting
  <2> QED
      BY <1>1, <2>1, <2>2
<1>4. CASE p \in Logins /\ (CheckInclude(p) \/ StatConfig(p))
  <2>1. UNCHANGED <<alone, overlap>>
      BY <1>4, Zenon DEF CheckInclude, StatConfig
  <2>2. pc'[p] \in Resting
      BY <1>0, <1>4 DEF CheckInclude, StatConfig, Goto, Resting
  <2> QED
      BY <1>1, <2>1, <2>2, Zenon
<1>5. CASE \/ p \in Logins /\ WriteBegin(p)
           \/ p \in Logouts /\ (LogoutBegin(p) \/ LogoutOneBegin(p))
           \/ CreateConfig(p)
  <2>1. Begin(p, pc'[p])
      BY <1>2, <1>5 DEF WriteBegin, LogoutBegin, LogoutOneBegin, CreateConfig
  <2> QED
      BY <1>1, <2>1, Zenon DEF Begin
<1>6. CASE \/ p \in Logouts /\ (NextName(p) \/ LogoutReadCert(p) \/ LogoutReadSecret(p))
           \/ ReadStep(p) \/ Crash(p)
  <2>1. UNCHANGED <<alone, overlap>>
      BY <1>6, Zenon DEF NextName, LogoutReadCert, ReadCert, LogoutReadSecret, ReadSecret,
         ReadStep, ReadSsh, LoginReadConfig, LogoutReadConfig, Crash
  <2>2. Busy(p)
      BY <1>6, Zenon DEF NextName, LogoutReadCert, ReadCert, LogoutReadSecret, ReadSecret,
         ReadStep, ReadSsh, LoginReadConfig, LogoutReadConfig, Crash, Busy, Resting
  <2> QED
      BY <1>1, <2>1, <2>2
<1> QED
    BY <1>3, <1>4, <1>5, <1>6, Zenon DEF Steps, LookStep

\* AloneAtWork holds in every state.
LEMMA AloneAtWorkInvariant == Spec => []AloneAtWork
<1>1. Init => AloneAtWork
    BY Zenon DEF Init, AloneAtWork, Busy, Resting
<1>2. TypeInv /\ OneAtWork /\ AloneAtWork /\ [Next]_vars => AloneAtWork'
  <2> SUFFICES ASSUME TypeInv, OneAtWork, AloneAtWork, [Next]_vars, ~overlap',
                      NEW q \in Procs, Busy(q)'
               PROVE  alone'[q]
      BY Zenon DEF AloneAtWork
  <2>0. pc \in [Procs -> Labels] /\ alone \in [Procs -> BOOLEAN]
      BY DEF TypeInv, TypeOK, Labels
  <2>1. ASSUME NEW p \in Procs, Steps(p) PROVE alone'[q]
    <3>1. /\ ~overlap
          /\ q # p => Busy(q)
          /\ Busy(q) => alone[q]
        BY <2>0, <2>1, Marks, Zenon DEF Moves, Busy, AloneAtWork
    <3>2. CASE UNCHANGED <<alone, overlap>> /\ (Busy(p) \/ pc'[p] \in Resting)
        BY <3>1, <3>2 DEF Busy
    <3>3. CASE Changes(p) /\ Busy(p)
        BY <2>0, <3>1, <3>3, Zenon DEF Changes, OneAtWork
    <3>4. CASE Begin(p, pc'[p])
        BY <2>0, <3>1, <3>4 DEF Begin, Busy
    <3> QED
        BY <2>1, <3>2, <3>3, <3>4, Marks, Zenon
  <2>2. CASE UserRemovesDir
      BY <2>2, Zenon DEF UserRemovesDir, AtRest, Busy
  <2>3. CASE UNCHANGED vars
      BY <2>3, Zenon DEF vars, AloneAtWork, Busy
  <2> QED
      BY <2>1, <2>2, <2>3, Sorted, NameTypes, Zenon DEF Steps
<1> QED
    BY <1>1, <1>2, TypeInvariant, OneAtWorkInvariant, PTL DEF Spec

\* A command that is alone has in its memory what it found in the config file,
\* and finds the file empty when it writes.
HoldInv ==
    \A p \in Procs : alone[p] =>
        /\ pc[p] \in {"truncConfig", "truncLines"} => read[p] = config.lines
        /\ pc[p] \in {"writeConfig", "writeLines"} => config.lines = {}

\* HoldInv holds in every state.
LEMMA HoldInvariant == Spec => []HoldInv
<1>1. Init => HoldInv
    BY Zenon DEF Init, HoldInv
<1>2. TypeInv /\ HoldInv /\ [Next]_vars => HoldInv'
  <2> SUFFICES ASSUME TypeInv, HoldInv, [Next]_vars, NEW q \in Procs, alone'[q]
               PROVE  /\ pc'[q] \in {"truncConfig", "truncLines"} => read'[q] = config'.lines
                      /\ pc'[q] \in {"writeConfig", "writeLines"} => config'.lines = {}
      BY Zenon DEF HoldInv
  <2>0. pc \in [Procs -> Labels] /\ read \in [Procs -> SUBSET Lines]
      BY DEF TypeInv, TypeOK, Labels
  <2>1. ASSUME NEW p \in Procs \ {q}, Steps(p)
        PROVE  pc'[q] = pc[q] /\ read'[q] = read[q] /\ config'.lines = config.lines /\ alone[q]
      BY <2>1, Aside, Zenon DEF Same
  <2>2. CASE \E p \in Procs \ {q} : Steps(p)
      BY <2>1, <2>2, Zenon DEF HoldInv
  <2>3. CASE KeyStep(q) \/ LookStep(q)
      BY <2>3, QuietSteps, Zenon DEF Quiet, TextLabels, WriteLabels
  <2>4. CASE ReadStep(q) \/ TruncateStep(q) \/ WriteStep(q)
    <3>1. CASE ReadStep(q)
        BY <2>0, <3>1 DEF ReadStep, ReadSsh, LoginReadConfig, LogoutReadConfig, Goto, files
    <3>2. CASE TruncateStep(q)
        BY <2>0, <3>2, TextLines, Zenon DEF TruncateStep, TruncateSsh, TruncateConfig,
           LogoutTruncateConfig, Goto
    <3>3. CASE WriteStep(q)
        BY <2>0, <3>3, Zenon DEF WriteStep, WriteSsh, LoginWriteConfig, LogoutWriteConfig, Goto
    <3> QED
        BY <2>4, <3>1, <3>2, <3>3, Zenon
  <2>5. CASE Crash(q) \/ CreateConfig(q)
      BY <2>0, <2>5, Zenon DEF Crash, CreateConfig, Begin, Goto
  <2>6. CASE UserRemovesDir
      BY <2>6, ZenonT(30) DEF UserRemovesDir
  <2>7. CASE UNCHANGED vars
      BY <2>7 DEF HoldInv, vars, files, local
  <2> QED
      BY <2>2, <2>3, <2>4, <2>5, <2>6, <2>7, Sorted, NameTypes, Zenon DEF Steps
<1> QED
    BY <1>1, <1>2, TypeInvariant, PTL DEF Spec

\* What a command that is alone writes is what the config file holds then.
LEMMA OwnText ==
    ASSUME HoldInv, NEW p \in Procs, alone[p]
    PROVE  /\ LoginWriteConfig(p) => config'.lines = Listing(p) /\ read' = read
           /\ LogoutWriteConfig(p) =>
                 config'.lines = read[p] \ {IdLine(at[p])} /\ read' = read
<1>1. ASSUME NEW new, NEW lines \in Written(new, {}) PROVE lines = new
    BY <1>1, WrittenLines, Zenon
<1>2. pc[p] \in {"writeConfig", "writeLines"} => config.lines = {}
    BY Zenon DEF HoldInv
<1>3. LoginWriteConfig(p) => config'.lines = Listing(p)
    BY <1>1, <1>2, TextLines, Zenon DEF LoginWriteConfig
<1>4. LogoutWriteConfig(p) => config'.lines = read[p] \ {IdLine(at[p])}
    BY <1>1, <1>2, TextLines DEF LogoutWriteConfig
<1> QED
    BY <1>3, <1>4, Zenon DEF LoginWriteConfig, LogoutWriteConfig, local

\* What the steps do to the config file of the directory and to what logins and
\* logouts remember of it.
LEMMA TextCases ==
    ASSUME TypeInv, NEW p \in Procs, Steps(p)
    PROVE  \/ /\ config'.lines = config.lines
              /\ \A q \in Logins \cup Logouts : read'[q] = read[q]
           \/ /\ config' = config /\ p \in Logins \cup Logouts
              /\ read' = [read EXCEPT ![p] = config.lines]
           \/ config'.lines = {} /\ read' = read
           \/ p \in Logins /\ LoginWriteConfig(p)
           \/ p \in Logouts /\ LogoutWriteConfig(p)
<1>1. CASE KeyStep(p) \/ LookStep(p)
    BY <1>1, QuietSteps, Zenon DEF Quiet
<1>2. CASE p \in Configurers /\ (CreateConfig(p) \/ ReadSsh(p) \/ TruncateSsh(p) \/ WriteSsh(p))
  <2>1. config'.lines = config.lines
      BY <1>2, TextLines, Zenon DEF CreateConfig, ReadSsh, TruncateSsh, WriteSsh, files
  <2>2. \A q \in Logins \cup Logouts : q # p
      BY <1>2, ProcsAssumption
  <2>3. \A q \in Logins \cup Logouts : read'[q] = read[q]
      BY <1>2, <2>2, NameTypes, Zenon DEF CreateConfig, ReadSsh, TruncateSsh, WriteSsh, local,
         TypeInv, TypeOK
  <2> QED
      BY <2>1, <2>3, Zenon
<1>3. CASE p \in Logins /\ (LoginReadConfig(p) \/ TruncateConfig(p))
    BY <1>3, TextLines, Zenon DEF LoginReadConfig, TruncateConfig, files, local
<1>4. CASE p \in Logouts /\ (LogoutReadConfig(p) \/ LogoutTruncateConfig(p))
    BY <1>4, TextLines, Zenon DEF LogoutReadConfig, LogoutTruncateConfig, files, local
<1>5. CASE Crash(p)
    BY <1>5 DEF Crash, files, local
<1> QED
    BY <1>1, <1>2, <1>3, <1>4, <1>5, Zenon DEF Steps, ReadStep, TruncateStep, WriteStep

-----------------------------------------------------------------------------
\* The config file lists the key of p, as far as strings.Contains can tell.
Named(p) == Listed(Name[p]) \/ Shadowed(Name[p])

KeySteps == {"truncSec", "writeSec", "truncCert", "writeCert"}

\* What a login has done, as long as it is alone.
Progress(p) ==
    /\ pc[p] \in {"writeSec", "writeCert"} => linked[p]
    /\ pc[p] \in {"truncCert", "writeCert", "done"} => sec[Name[p]] = SecOf(p)
    /\ pc[p] = "done" => cert[Name[p]] = CertOf(p, TRUE)
    /\ pc[p] \in KeySteps \cup {"done"} => Named(p)

UsableInv == \A p \in Logins : alone[p] => Progress(p)

\* A name stays listed as long as the lines stay.
LEMMA NamedKept ==
    ASSUME NEW p \in Logins, config'.lines = config.lines, Named(p)
    PROVE  Named(p)'
BY Zenon DEF Named, Listed, Shadowed

\* Text that mentions a name has its line, or one that shadows it.
LEMMA MentionsNames ==
    ASSUME NEW n, Mentions(config.lines, n)
    PROVE  Listed(n) \/ Shadowed(n)
BY Zenon DEF Mentions, Listed, Shadowed

\* The login lists its name.
LEMMA NamedWritten ==
    ASSUME TypeInv, HoldInv, NEW p \in Logins, alone[p], LoginWriteConfig(p)
    PROVE  Named(p)'
<1> DEFINE n == Name[p]
<1>1. config'.lines = Listing(p) /\ read[p] \subseteq config'.lines
  <2>1. config'.lines = Listing(p)
      BY OwnText, NameTypes, Zenon
  <2> QED
      BY <2>1 DEF Listing
<1>2. CASE ~ Mentions(read[p], n)
  <2>1. IdLine(n) \in config'.lines
      BY <1>1, <1>2, Zenon DEF Listing
  <2> QED
      BY <2>1, Zenon DEF Named, Listed
<1>3. CASE Mentions(read[p], n)
  <2>1. PICK l \in config'.lines \cap NameLines : IsPrefix(n, l.name)
      BY <1>1, <1>3, Zenon DEF Mentions
  <2> QED
      BY <2>1, Zenon DEF Named, Listed, Shadowed
<1> QED
    BY <1>2, <1>3, Zenon

\* The login keeps to Progress.
LEMMA ProgressKept ==
    ASSUME TypeInv, HoldInv, NEW p \in Logins, Steps(p), alone'[p],
           alone[p] => Progress(p)
    PROVE  Progress(p)'
<1> USE DEF KeySteps
<1>0. /\ p \in Procs /\ p \notin Logouts /\ p \notin Configurers
      /\ Name[p] \in Names
      /\ pc \in [Procs -> Labels] /\ linked \in [Logins -> BOOLEAN]
      /\ sec \in [Names -> SecFile] /\ cert \in [Names -> CertFile]
      /\ alone \in [Procs -> BOOLEAN]
    BY NameTypes, ProcsAssumption DEF TypeInv, TypeOK, Labels
<1>1. CASE CheckInclude(p) \/ StatConfig(p) \/ WriteBegin(p) \/ LoginReadConfig(p)
           \/ TruncateConfig(p) \/ Crash(p)
  <2>1. pc'[p] \in {"stat", "elsewhere", "auth", "readConfig", "truncConfig", "failed",
                    "writeConfig", "killed"}
      BY <1>0, <1>1, Zenon DEF CheckInclude, StatConfig, WriteBegin, LoginReadConfig,
         TruncateConfig, Crash, Begin, Goto
  <2> QED
      BY <2>1, ZenonT(30) DEF Progress
<1>2. CASE LoginWriteConfig(p)
  <2>1. alone[p] /\ pc'[p] = "truncSec"
      BY <1>0, <1>2, Zenon DEF LoginWriteConfig, Changes, Goto
  <2>2. Named(p)'
      BY <1>2, <2>1, NamedWritten, Zenon
  <2> QED
      BY <2>1, <2>2, Zenon DEF Progress
<1>3. CASE TruncateSecret(p) \/ WriteSecret(p) \/ TruncateCert(p) \/ WriteCert(p)
  <2>1. alone[p] /\ UNCHANGED <<config, overlap>> /\ pc[p] \in KeySteps
      BY <1>0, <1>3 DEF TruncateSecret, WriteSecret, TruncateCert, WriteCert, Changes
  <2>2. Named(p)'
      BY <2>1, NamedKept, Zenon DEF Progress
  <2>3. CASE TruncateSecret(p)
      BY <1>0, <2>2, <2>3, Zenon DEF TruncateSecret, Goto, Progress
  <2>4. CASE WriteSecret(p)
      BY <1>0, <2>1, <2>2, <2>4, Zenon DEF WriteSecret, Goto, Progress
  <2>5. CASE TruncateCert(p)
      BY <1>0, <2>1, <2>2, <2>5, ZenonT(30) DEF TruncateCert, Goto, Progress
  <2>6. CASE WriteCert(p)
      BY <1>0, <2>1, <2>2, <2>6, Zenon DEF WriteCert, Goto, Progress
  <2> QED
      BY <1>3, <2>3, <2>4, <2>5, <2>6, Zenon
<1> QED
    BY <1>0, <1>1, <1>2, <1>3, Zenon DEF Steps, KeyStep, LookStep, ReadStep, TruncateStep,
       WriteStep

\* UsableInv holds in every state.
LEMMA UsableInvariant == Spec => []UsableInv
<1>1. Init => UsableInv
    BY NameTypes, Zenon DEF Init, UsableInv
<1>2. TypeInv /\ HoldInv /\ UsableInv /\ [Next]_vars => UsableInv'
  <2> SUFFICES ASSUME TypeInv, HoldInv, UsableInv, [Next]_vars,
                      NEW q \in Logins, alone'[q]
               PROVE  Progress(q)'
      BY Zenon DEF UsableInv
  <2>0. q \in Procs
      BY NameTypes, Zenon
  <2>1. CASE Steps(q)
      BY <2>1, ProgressKept, Zenon DEF UsableInv
  <2>2. ASSUME NEW p \in Procs \ {q}, Steps(p) PROVE Progress(q)'
    <3>1. /\ Same(q) /\ alone[q] /\ sec' = sec /\ cert' = cert /\ config'.lines = config.lines
          /\ (overlap => overlap')
        BY <2>0, <2>2, Aside, Marks, Zenon
    <3>2. Progress(q) /\ (Named(q) => Named(q)')
        BY <3>1, NamedKept, Zenon DEF UsableInv
    <3>3. pc'[q] = pc[q] /\ (linked[q] => linked'[q])
        BY <3>1 DEF Same
    <3> QED
        BY <3>1, <3>2, <3>3, Zenon DEF Progress
  <2>3. CASE UserRemovesDir
      BY <2>0, <2>3 DEF UserRemovesDir
  <2>4. CASE UNCHANGED vars
    <3>1. /\ UNCHANGED <<pc, sec, cert, linked, config, overlap, alone>>
        BY <2>4 DEF vars, files, local
    <3>2. Named(q) => Named(q)'
        BY <3>1, NamedKept
    <3> QED
        BY <3>1, <3>2, Zenon DEF Progress, UsableInv
  <2> QED
      BY <2>0, <2>1, <2>2, <2>3, <2>4, Sorted, NameTypes, Zenon DEF Steps
<1> QED
    BY <1>1, <1>2, TypeInvariant, HoldInvariant, PTL DEF Spec

\* A login that nobody disturbs leaves its pair under its name, and the name in
\* the config file, unless another line holds its path, whatever overlapping and
\* killed commands did before.
THEOREM LoginLeavesUsableKey == Spec => []LoginIsUsable
<1>1. UsableInv => LoginIsUsable
    BY Zenon DEF UsableInv, LoginIsUsable, Progress, Named
<1> QED
    BY <1>1, UsableInvariant, PTL
=============================================================================
