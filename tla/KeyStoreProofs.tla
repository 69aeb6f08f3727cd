--------------------------- MODULE KeyStoreProofs ---------------------------
(***************************************************************************)
(* Theorems about KeyStore, for any number of names, processes and keys.   *)
(***************************************************************************)
EXTENDS KeyStore, FiniteSetTheorems, TLAPS

LoginLabels == {"find", "inspect", "truncSec", "writeSec", "truncCert", "writeCert"}
LogoutLabels == {"readCert", "readSec", "rmSec", "rmCert"}

\* The variables of KeyStore keep their types, and login and logout stay in
\* their own parts of the program.
TypeInv ==
    /\ TypeOK
    /\ \A p \in Logins : pc[p] \in Resting \cup LoginLabels
    /\ \A q \in Logouts : pc[q] \in Resting \cup LogoutLabels

\* The file contents the model names are file contents.
LEMMA FileTypes ==
    /\ NoSec \in SecFile /\ EmptySec \in SecFile
    /\ NoCert \in CertFile /\ EmptyCert \in CertFile
    /\ \A k \in Keys : SecOf(k) \in SecFile
    /\ \A k \in Keys, c \in {"openpubkey", "openpubkey..."} : CertOf(k, c) \in CertFile
<1>1. NoSec \in SecFile /\ EmptySec \in SecFile
    BY DEF SecFile, NoSec, EmptySec
<1>2. NoCert \in CertFile /\ EmptyCert \in CertFile
    BY DEF CertFile, NoCert, EmptyCert
<1>3. \A k \in Keys : SecOf(k) \in SecFile
    BY DEF SecFile, SecOf
<1>4. \A k \in Keys, c \in {"openpubkey", "openpubkey..."} : CertOf(k, c) \in CertFile
    BY DEF CertFile, CertOf
<1> QED
    BY <1>1, <1>2, <1>3, <1>4

\* Moving on to the next name stays within the names.
LEMMA SlotStays ==
    ASSUME at \in [Procs -> Slots], NEW p \in Procs, NextSlot(p, "find")
    PROVE  /\ at' \in [Procs -> Slots]
           /\ \A r \in Procs \ {p} : at'[r] = at[r]
           /\ \E l \in {"find", "failed"} : pc' = [pc EXCEPT ![p] = l]
BY SlotsAssumption DEF NextSlot, Slots, Goto

\* So does the loop of removeDefaultSSHDirKeys.
LEMMA NameStays ==
    ASSUME at \in [Procs -> Slots], NEW q \in Procs, NextName(q)
    PROVE  /\ at' \in [Procs -> Slots]
           /\ \A r \in Procs \ {q} : at'[r] = at[r]
           /\ \E l \in {"readCert", "done"} : pc' = [pc EXCEPT ![q] = l]
BY SlotsAssumption DEF NextName, Slots, Goto

\* The types, and which command is at which of the labels.
LEMMA TypeInvariant == Spec => []TypeInv
<1> USE SlotsAssumption, BoundsAssumption, NamesAssumption, FileTypes DEF hist
<1>1. Init => TypeInv
  <2> SUFFICES ASSUME Init PROVE TypeInv
      OBVIOUS
  <2>1. /\ at \in [Procs -> Slots] /\ writes \in 0..MaxWrites
        /\ crashes \in 0..MaxCrashes
      BY DEF Init, Slots
  <2>2. /\ linked \in [Logins -> BOOLEAN] /\ alone \in [Procs -> BOOLEAN]
        /\ overlap \in BOOLEAN /\ found \in [UserKeys -> {"free", "cert", "work"}]
      BY Zenon DEF Init
  <2> QED
      BY <2>1, <2>2 DEF Init, TypeInv, TypeOK, Resting, Procs
<1>2. TypeInv /\ [Next]_vars => TypeInv'
  <2> SUFFICES ASSUME TypeInv, [Next]_vars PROVE TypeInv'
      OBVIOUS
  <2>1. ASSUME NEW p \in Logins, LoginBegin(p) PROVE TypeInv'
      BY <2>1 DEF LoginBegin, Begin, Goto, TypeInv, TypeOK, Slots, Resting,
             LoginLabels, LogoutLabels, Procs, Keys
  <2>2. ASSUME NEW p \in Logins, FindSecret(p) PROVE TypeInv'
      BY <2>2 DEF FindSecret, Goto, TypeInv, TypeOK, Slots, Resting, LoginLabels,
             LogoutLabels, Procs, Keys
  <2>3. ASSUME NEW p \in Logins, InspectCert(p) PROVE TypeInv'
      BY <2>3, SlotStays DEF InspectCert, Goto, TypeInv, TypeOK, Resting,
             LoginLabels, LogoutLabels, Procs, Keys
  <2>4. ASSUME NEW p \in Logins, TruncateSecret(p) PROVE TypeInv'
      BY <2>4 DEF TruncateSecret, Goto, SetSec, TypeInv, TypeOK, Slots, Resting,
             LoginLabels, LogoutLabels, Procs, Keys
  <2>5. ASSUME NEW p \in Logins, WriteSecret(p) PROVE TypeInv'
      BY <2>5 DEF WriteSecret, Goto, SetSec, TypeInv, TypeOK, Slots, Resting,
             LoginLabels, LogoutLabels, Procs, Keys
  <2>6. ASSUME NEW p \in Logins, TruncateCert(p) PROVE TypeInv'
      BY <2>6 DEF TruncateCert, Goto, SetCert, TypeInv, TypeOK, Slots, Resting,
             LoginLabels, LogoutLabels, Procs, Keys
  <2>7. ASSUME NEW p \in Logins, WriteCert(p) PROVE TypeInv'
      BY <2>7 DEF WriteCert, Goto, SetCert, Comments, TypeInv, TypeOK, Slots,
             Resting, LoginLabels, LogoutLabels, Procs, Keys
  <2>8. ASSUME NEW q \in Logouts, LogoutBegin(q) PROVE TypeInv'
      BY <2>8 DEF LogoutBegin, Begin, Goto, TypeInv, TypeOK, Slots, Resting,
             LoginLabels, LogoutLabels, Procs, Keys
  <2>9. ASSUME NEW q \in Logouts, LogoutReadCert(q) PROVE TypeInv'
      BY <2>9, NameStays DEF LogoutReadCert, Goto, TypeInv, TypeOK, Resting,
             LoginLabels, LogoutLabels, Procs, Keys
  <2>10. ASSUME NEW q \in Logouts, LogoutReadSecret(q) PROVE TypeInv'
      BY <2>10, NameStays DEF LogoutReadSecret, Goto, TypeInv, TypeOK, Resting,
             LoginLabels, LogoutLabels, Procs, Keys
  <2>11. ASSUME NEW q \in Logouts, RemoveSecret(q) PROVE TypeInv'
      BY <2>11 DEF RemoveSecret, Goto, SetSec, Unlink, TypeInv, TypeOK, Slots,
             Resting, LoginLabels, LogoutLabels, Procs, Keys
  <2>12. ASSUME NEW q \in Logouts, RemoveCert(q) PROVE TypeInv'
      BY <2>12, NameStays DEF RemoveCert, Goto, SetCert, Unlink, TypeInv, TypeOK,
             Resting, LoginLabels, LogoutLabels, Procs, Keys
  <2>13. ASSUME NEW p \in Procs, Crash(p) PROVE TypeInv'
      BY <2>13 DEF Crash, Goto, TypeInv, TypeOK, Slots, Resting, LoginLabels,
             LogoutLabels, Procs, Keys
  <2>14. ASSUME NEW k \in UserKeys, UserKeygen(k) PROVE TypeInv'
      BY <2>14 DEF UserKeygen, TypeInv, TypeOK, Slots, Resting, LoginLabels,
             LogoutLabels, Procs, Keys
  <2>15. CASE UNCHANGED vars
      BY <2>15 DEF vars, TypeInv, TypeOK, Slots, Resting, LoginLabels, LogoutLabels, Procs, Keys
  <2> QED
      BY <2>1, <2>2, <2>3, <2>4, <2>5, <2>6, <2>7, <2>8, <2>9, <2>10, <2>11, <2>12,
         <2>13, <2>14, <2>15 DEF Next
<1> QED
    BY <1>1, <1>2, PTL DEF Spec

\* Type correctness of the key files and of every login and logout: each
\* process is at a step of writeKeysToSSHDir or removeDefaultSSHDirKeys and at
\* one of the default names, for any number of names and processes.
THEOREM KeyStoreTypes == Spec => []TypeOK
<1>1. TypeInv => TypeOK
    BY DEF TypeInv
<1> QED
    BY <1>1, TypeInvariant, PTL

-----------------------------------------------------------------------------
\* Certificates are made by login: no certificate file, and none that a logout
\* has read, is for a key of the user.  What a logout is about to remove is
\* the secret key that matched, or one the user has made since.
SparesInv ==
    /\ \A s \in Slots : cert[s].key \notin UserKeys
    /\ \A q \in Logouts : read[q].key \notin UserKeys
    /\ LogoutSparesUserKeys

\* A logout that is about to remove has read a pair that opkssh wrote.
LEMMA SparesInvariant == Spec => []SparesInv
<1> USE NamesAssumption DEF hist
<1>1. Init => SparesInv
    BY DEF Init, SparesInv, LogoutSparesUserKeys, Procs, NoCert, Nobody
<1>2. TypeInv /\ SparesInv /\ [Next]_vars => SparesInv'
  <2> SUFFICES ASSUME TypeInv, SparesInv, [Next]_vars PROVE SparesInv'
      OBVIOUS
  <2>1. ASSUME NEW p \in Logins, LoginBegin(p) PROVE SparesInv'
      BY <2>1 DEF LoginBegin, Begin, Goto, TypeInv, TypeOK, Resting, LoginLabels,
             LogoutLabels, Procs, SparesInv, LogoutSparesUserKeys, UserHolds
  <2>2. ASSUME NEW p \in Logins, FindSecret(p) PROVE SparesInv'
      BY <2>2 DEF FindSecret, Goto, TypeInv, TypeOK, Resting, LoginLabels,
             LogoutLabels, Procs, SparesInv, LogoutSparesUserKeys, UserHolds
  <2>3. ASSUME NEW p \in Logins, InspectCert(p) PROVE SparesInv'
      BY <2>3, SlotStays DEF InspectCert, Goto, TypeInv, TypeOK, Resting,
             LoginLabels, LogoutLabels, Procs, SparesInv, LogoutSparesUserKeys,
             UserHolds
  <2>4. ASSUME NEW p \in Logins, TruncateSecret(p) PROVE SparesInv'
      BY <2>4 DEF TruncateSecret, Goto, SetSec, TypeInv, TypeOK, Resting,
             LoginLabels, LogoutLabels, Procs, SparesInv, LogoutSparesUserKeys,
             UserHolds, EmptySec, Nobody
  <2>5. ASSUME NEW p \in Logins, WriteSecret(p) PROVE SparesInv'
      BY <2>5 DEF WriteSecret, Goto, SetSec, TypeInv, TypeOK, Resting, LoginLabels,
             LogoutLabels, Procs, SparesInv, LogoutSparesUserKeys, UserHolds, SecOf
  <2>6. ASSUME NEW p \in Logins, TruncateCert(p) PROVE SparesInv'
      BY <2>6 DEF TruncateCert, Goto, SetCert, TypeInv, TypeOK, Resting,
             LoginLabels, LogoutLabels, Procs, SparesInv, LogoutSparesUserKeys,
             UserHolds, EmptyCert, Nobody
  <2>7. ASSUME NEW p \in Logins, WriteCert(p) PROVE SparesInv'
      BY <2>7 DEF WriteCert, Goto, SetCert, Comments, TypeInv, TypeOK, Resting,
             LoginLabels, LogoutLabels, Procs, SparesInv, LogoutSparesUserKeys,
             UserHolds, CertOf
  <2>8. ASSUME NEW q \in Logouts, LogoutBegin(q) PROVE SparesInv'
      BY <2>8 DEF LogoutBegin, Begin, Goto, TypeInv, TypeOK, Resting, LoginLabels,
             LogoutLabels, Procs, SparesInv, LogoutSparesUserKeys, UserHolds
  <2>9. ASSUME NEW q \in Logouts, LogoutReadCert(q) PROVE SparesInv'
      BY <2>9, NameStays DEF LogoutReadCert, Goto, TypeInv, TypeOK, Resting,
             LoginLabels, LogoutLabels, Procs, SparesInv, LogoutSparesUserKeys,
             UserHolds
  <2>10. ASSUME NEW q \in Logouts, LogoutReadSecret(q) PROVE SparesInv'
      BY <2>10, NameStays DEF LogoutReadSecret, Goto, TypeInv, TypeOK, Resting,
             LoginLabels, LogoutLabels, Procs, SparesInv, LogoutSparesUserKeys,
             UserHolds, KeyPairMatch
  <2>11. ASSUME NEW q \in Logouts, RemoveSecret(q) PROVE SparesInv'
      BY <2>11 DEF RemoveSecret, Goto, SetSec, Unlink, TypeInv, TypeOK, Resting,
             LoginLabels, LogoutLabels, Procs, SparesInv, LogoutSparesUserKeys,
             UserHolds, NoSec, Nobody
  <2>12. ASSUME NEW q \in Logouts, RemoveCert(q) PROVE SparesInv'
      BY <2>12, NameStays DEF RemoveCert, Goto, SetCert, Unlink, TypeInv, TypeOK,
             Resting, LoginLabels, LogoutLabels, Procs, SparesInv,
             LogoutSparesUserKeys, UserHolds, NoCert, Nobody
  <2>13. ASSUME NEW p \in Procs, Crash(p) PROVE SparesInv'
      BY <2>13 DEF Crash, Goto, TypeInv, TypeOK, Resting, LoginLabels, LogoutLabels,
             Procs, SparesInv, LogoutSparesUserKeys, UserHolds
  <2>14. ASSUME NEW k \in UserKeys, UserKeygen(k) PROVE SparesInv'
    <3>1. UNCHANGED <<cert, pc, at, read>>
        BY <2>14, Zenon DEF UserKeygen
    <3>2. PICK t \in Slots :
             /\ sec' = [sec EXCEPT ![t] = SecOf(k)]
             /\ found' = [found EXCEPT ![k] = IF ~AtRest THEN "work"
                            ELSE IF cert[t].comment = "openpubkey" THEN "cert" ELSE "free"]
        BY <2>14, Zenon DEF UserKeygen
    <3>3. /\ \A s \in Slots \ {t} : sec'[s] = sec[s] /\ sec[s].key # k
          /\ sec'[t].key = k
          /\ \A j \in UserKeys \ {k} : found'[j] = found[j]
          /\ ~AtRest => found'[k] = "work"
        BY <2>14, <3>2, Zenon DEF UserKeygen, TypeInv, TypeOK, SecOf
    <3>4. ASSUME NEW q \in Logouts, pc[q] = "rmSec", UserHolds(at[q])'
          PROVE  found'[sec'[at[q]].key] = "work"
      <4>1. ~AtRest /\ at[q] \in Slots
          BY <3>4 DEF AtRest, Resting, Procs, TypeInv, TypeOK
      <4>2. CASE at[q] = t
          BY <3>3, <4>1, <4>2, Zenon
      <4>3. CASE at[q] # t
        <5>1. sec'[at[q]] = sec[at[q]] /\ sec[at[q]].key # k
            BY <3>3, <4>1, <4>3, Zenon
        <5>2. sec[at[q]].key \in UserKeys \ {k}
            BY <3>4, <5>1, <3>1 DEF UserHolds
        <5>3. found[sec[at[q]].key] = "work"
            BY <3>4, <5>2, Zenon DEF SparesInv, LogoutSparesUserKeys, UserHolds
        <5> QED
            BY <3>3, <5>1, <5>2, <5>3, Zenon
      <4> QED
          BY <4>2, <4>3, Zenon
    <3> QED
        BY <3>1, <3>4, Zenon DEF SparesInv, LogoutSparesUserKeys, UserHolds
  <2>15. CASE UNCHANGED vars
      BY <2>15 DEF vars, TypeInv, TypeOK, Resting, LoginLabels, LogoutLabels, Procs, SparesInv,
         LogoutSparesUserKeys, UserHolds
  <2> QED
      BY <2>1, <2>2, <2>3, <2>4, <2>5, <2>6, <2>7, <2>8, <2>9, <2>10, <2>11, <2>12,
         <2>13, <2>14, <2>15 DEF Next
<1> QED
    BY <1>1, <1>2, TypeInvariant, PTL DEF Spec

\* removeDefaultSSHDirKeys removes no secret key that the user made before or
\* after the commands at work, in any interleaving with logins and other
\* logouts and after any kills.
THEOREM LogoutSparesTheUser == Spec => []LogoutSparesUserKeys
<1>1. SparesInv => LogoutSparesUserKeys
    BY DEF SparesInv
<1> QED
    BY <1>1, SparesInvariant, PTL

-----------------------------------------------------------------------------
\* How far a login that nobody disturbed has got with its pair of files.
PairInv ==
    \A p \in Logins : alone[p] =>
        /\ pc[p] = "writeSec" => linked[p]
        /\ pc[p] \in {"truncCert", "writeCert"} => sec[at[p]] = SecOf(p)
        /\ pc[p] = "writeCert" => linked[p] /\ cert[at[p]].state = "empty"
        /\ pc[p] = "done" => /\ sec[at[p]] = SecOf(p)
                             /\ cert[at[p]] = CertOf(p, "openpubkey")

\* What a login that is alone has written so far is its own.
LEMMA PairInvariant == Spec => []PairInv
<1> USE NamesAssumption DEF hist
<1>1. Init => PairInv
    BY DEF Init, PairInv, Procs
<1>2. TypeInv /\ PairInv /\ [Next]_vars => PairInv'
  <2> SUFFICES ASSUME TypeInv, PairInv, [Next]_vars PROVE PairInv'
      OBVIOUS
  <2>1. ASSUME NEW p \in Logins, LoginBegin(p) PROVE PairInv'
      BY <2>1 DEF LoginBegin, Begin, Goto, TypeInv, TypeOK, Resting, LoginLabels,
             LogoutLabels, Procs, PairInv
  <2>2. ASSUME NEW p \in Logins, FindSecret(p) PROVE PairInv'
      BY <2>2 DEF FindSecret, Goto, TypeInv, TypeOK, Resting, LoginLabels,
             LogoutLabels, Procs, PairInv
  <2>3. ASSUME NEW p \in Logins, InspectCert(p) PROVE PairInv'
      BY <2>3, SlotStays DEF InspectCert, Goto, TypeInv, TypeOK, Resting,
             LoginLabels, LogoutLabels, Procs, PairInv
  <2>4. ASSUME NEW p \in Logins, TruncateSecret(p) PROVE PairInv'
      BY <2>4, Zenon DEF TruncateSecret, Goto, SetSec, TypeInv, TypeOK, Resting,
             LoginLabels, LogoutLabels, Procs, PairInv
  <2>5. ASSUME NEW p \in Logins, WriteSecret(p) PROVE PairInv'
    <3>1. \A r \in Logins : alone'[r] => r = p /\ alone[p]
        BY <2>5, Zenon DEF WriteSecret, SetSec, Procs
    <3>2. alone[p] => sec'[at'[p]] = SecOf(p) /\ pc'[p] = "truncCert"
        BY <2>5 DEF WriteSecret, SetSec, Goto, TypeInv, TypeOK, Procs, PairInv
    <3> QED
        BY <3>1, <3>2 DEF PairInv
  <2>6. ASSUME NEW p \in Logins, TruncateCert(p) PROVE PairInv'
      BY <2>6, Zenon DEF TruncateCert, Goto, SetCert, TypeInv, TypeOK, Resting,
             LoginLabels, LogoutLabels, Procs, PairInv, EmptyCert
  <2>7. ASSUME NEW p \in Logins, WriteCert(p) PROVE PairInv'
    <3>1. \A r \in Logins : alone'[r] => r = p /\ alone[p]
        BY <2>7, Zenon DEF WriteCert, SetCert, Procs
    <3>2. alone[p] => Comments(cert[at[p]]) = {"openpubkey"}
        BY <2>7 DEF WriteCert, Comments, PairInv
    <3>3. alone[p] => cert'[at'[p]] = CertOf(p, "openpubkey") /\ sec'[at'[p]] = SecOf(p)
        BY <2>7, <3>2 DEF WriteCert, SetCert, TypeInv, TypeOK, Procs, PairInv
    <3>4. pc'[p] = "done"
        BY <2>7 DEF WriteCert, Goto, TypeInv, TypeOK, Procs
    <3> QED
        BY <3>1, <3>3, <3>4 DEF PairInv
  <2>8. ASSUME NEW q \in Logouts, LogoutBegin(q) PROVE PairInv'
      BY <2>8 DEF LogoutBegin, Begin, Goto, TypeInv, TypeOK, Resting, LoginLabels,
             LogoutLabels, Procs, PairInv
  <2>9. ASSUME NEW q \in Logouts, LogoutReadCert(q) PROVE PairInv'
      BY <2>9, NameStays DEF LogoutReadCert, Goto, TypeInv, TypeOK, Resting,
             LoginLabels, LogoutLabels, Procs, PairInv
  <2>10. ASSUME NEW q \in Logouts, LogoutReadSecret(q) PROVE PairInv'
      BY <2>10, NameStays DEF LogoutReadSecret, Goto, TypeInv, TypeOK, Resting,
             LoginLabels, LogoutLabels, Procs, PairInv
  <2>11. ASSUME NEW q \in Logouts, RemoveSecret(q) PROVE PairInv'
      BY <2>11, Zenon DEF RemoveSecret, Goto, SetSec, Unlink, TypeInv, TypeOK, Resting,
             LoginLabels, LogoutLabels, Procs, PairInv
  <2>12. ASSUME NEW q \in Logouts, RemoveCert(q) PROVE PairInv'
      BY <2>12, NameStays, Zenon DEF RemoveCert, Goto, SetCert, Unlink, TypeInv, TypeOK,
             Resting, LoginLabels, LogoutLabels, Procs, PairInv
  <2>13. ASSUME NEW p \in Procs, Crash(p) PROVE PairInv'
      BY <2>13 DEF Crash, Goto, TypeInv, TypeOK, Resting, LoginLabels, LogoutLabels,
             Procs, PairInv
  <2>14. ASSUME NEW k \in UserKeys, UserKeygen(k) PROVE PairInv'
      BY <2>14 DEF UserKeygen, TypeInv, TypeOK, Resting, LoginLabels, LogoutLabels,
             Procs, PairInv
  <2>15. CASE UNCHANGED vars
      BY <2>15 DEF vars, TypeInv, TypeOK, Resting, LoginLabels, LogoutLabels, Procs, PairInv
  <2> QED
      BY <2>1, <2>2, <2>3, <2>4, <2>5, <2>6, <2>7, <2>8, <2>9, <2>10, <2>11, <2>12,
         <2>13, <2>14, <2>15 DEF Next
<1> QED
    BY <1>1, <1>2, TypeInvariant, PTL DEF Spec

\* An undisturbed login or refresh leaves its secret key and its certificate
\* under one name, whatever it found there.
THEOREM LoginLeavesItsPair == Spec => []LoginLeavesPair
<1>1. PairInv => LoginLeavesPair
    BY DEF PairInv, LoginLeavesPair
<1> QED
    BY <1>1, PairInvariant, PTL

-----------------------------------------------------------------------------
\* As long as commands did not overlap, one at most is at work, and a logout
\* that goes on to the certificate has removed the secret key, in whose place the
\* user may have put another.
SerialInv ==
    ~overlap =>
        /\ \A p, q \in Procs : p # q => pc[p] \in Resting \/ pc[q] \in Resting
        /\ \A q \in Logouts : pc[q] = "rmCert" => sec[at[q]] = NoSec \/ UserHolds(at[q])

\* Without overlap, a logout that removes a certificate has removed its key.
LEMMA SerialInvariant == Spec => []SerialInv
<1> USE NamesAssumption DEF hist
<1>1. Init => SerialInv
    BY DEF Init, SerialInv, Procs, Resting
<1>2. TypeInv /\ SerialInv /\ [Next]_vars => SerialInv'
  <2> SUFFICES ASSUME TypeInv, SerialInv, [Next]_vars PROVE SerialInv'
      OBVIOUS
  <2>1. ASSUME NEW p \in Logins, LoginBegin(p) PROVE SerialInv'
      BY <2>1, Zenon DEF LoginBegin, Begin, Goto, TypeInv, TypeOK, Resting, LoginLabels,
             LogoutLabels, Procs, SerialInv,
             UserHolds, NoSec, SecOf, EmptySec, Nobody
  <2>2. ASSUME NEW p \in Logins, FindSecret(p) PROVE SerialInv'
      BY <2>2 DEF FindSecret, Goto, TypeInv, TypeOK, Resting, LoginLabels,
             LogoutLabels, Procs, SerialInv,
             UserHolds, NoSec, SecOf, EmptySec, Nobody
  <2>3. ASSUME NEW p \in Logins, InspectCert(p) PROVE SerialInv'
      BY <2>3, SlotStays DEF InspectCert, Goto, TypeInv, TypeOK, Resting,
             LoginLabels, LogoutLabels, Procs, SerialInv,
             UserHolds, NoSec, SecOf, EmptySec, Nobody
  <2>4. ASSUME NEW p \in Logins, TruncateSecret(p) PROVE SerialInv'
      BY <2>4 DEF TruncateSecret, Goto, SetSec, TypeInv, TypeOK, Resting,
             LoginLabels, LogoutLabels, Procs, SerialInv,
             UserHolds, NoSec, SecOf, EmptySec, Nobody
  <2>5. ASSUME NEW p \in Logins, WriteSecret(p) PROVE SerialInv'
      BY <2>5 DEF WriteSecret, Goto, SetSec, TypeInv, TypeOK, Resting, LoginLabels,
             LogoutLabels, Procs, SerialInv,
             UserHolds, NoSec, SecOf, EmptySec, Nobody
  <2>6. ASSUME NEW p \in Logins, TruncateCert(p) PROVE SerialInv'
      BY <2>6 DEF TruncateCert, Goto, SetCert, TypeInv, TypeOK, Resting,
             LoginLabels, LogoutLabels, Procs, SerialInv,
             UserHolds, NoSec, SecOf, EmptySec, Nobody
  <2>7. ASSUME NEW p \in Logins, WriteCert(p) PROVE SerialInv'
      BY <2>7 DEF WriteCert, Goto, SetCert, Comments, TypeInv, TypeOK, Resting,
             LoginLabels, LogoutLabels, Procs, SerialInv,
             UserHolds, NoSec, SecOf, EmptySec, Nobody
  <2>8. ASSUME NEW q \in Logouts, LogoutBegin(q) PROVE SerialInv'
      BY <2>8, Zenon DEF LogoutBegin, Begin, Goto, TypeInv, TypeOK, Resting, LoginLabels,
             LogoutLabels, Procs, SerialInv,
             UserHolds, NoSec, SecOf, EmptySec, Nobody
  <2>9. ASSUME NEW q \in Logouts, LogoutReadCert(q) PROVE SerialInv'
      BY <2>9, NameStays DEF LogoutReadCert, Goto, TypeInv, TypeOK, Resting,
             LoginLabels, LogoutLabels, Procs, SerialInv,
             UserHolds, NoSec, SecOf, EmptySec, Nobody
  <2>10. ASSUME NEW q \in Logouts, LogoutReadSecret(q) PROVE SerialInv'
      BY <2>10, NameStays DEF LogoutReadSecret, Goto, TypeInv, TypeOK, Resting,
             LoginLabels, LogoutLabels, Procs, SerialInv,
             UserHolds, NoSec, SecOf, EmptySec, Nobody
  <2>11. ASSUME NEW q \in Logouts, RemoveSecret(q) PROVE SerialInv'
      BY <2>11, Zenon DEF RemoveSecret, Goto, SetSec, Unlink, TypeInv, TypeOK, Resting,
             LoginLabels, LogoutLabels, Procs, SerialInv,
             UserHolds, NoSec, SecOf, EmptySec, Nobody
  <2>12. ASSUME NEW q \in Logouts, RemoveCert(q) PROVE SerialInv'
      BY <2>12, NameStays, SMTT(30) DEF RemoveCert, Goto, SetCert, Unlink, TypeInv, TypeOK,
             Resting, LoginLabels, LogoutLabels, Procs, SerialInv,
             UserHolds, NoSec, SecOf, EmptySec, Nobody
  <2>13. ASSUME NEW p \in Procs, Crash(p) PROVE SerialInv'
      BY <2>13 DEF Crash, Goto, TypeInv, TypeOK, Resting, LoginLabels, LogoutLabels,
             Procs, SerialInv,
             UserHolds, NoSec, SecOf, EmptySec, Nobody
  <2>14. ASSUME NEW k \in UserKeys, UserKeygen(k) PROVE SerialInv'
    <3>1. UNCHANGED <<pc, at, overlap>>
        BY <2>14, Zenon DEF UserKeygen
    <3>2. PICK t \in Slots : sec' = [sec EXCEPT ![t] = SecOf(k)]
        BY <2>14, Zenon DEF UserKeygen
    <3>3. \A s \in Slots : sec'[s] = sec[s] \/ UserHolds(s)'
        BY <3>2, Zenon DEF UserHolds, SecOf, TypeInv, TypeOK
    <3>4. \A q \in Logouts : at[q] \in Slots
        BY DEF TypeInv, TypeOK, Procs
    <3> QED
        BY <3>1, <3>3, <3>4, Zenon DEF SerialInv, UserHolds
  <2>15. CASE UNCHANGED vars
      BY <2>15 DEF vars, TypeInv, TypeOK, Resting, LoginLabels, LogoutLabels, Procs, SerialInv,
             UserHolds, NoSec, SecOf, EmptySec, Nobody
  <2> QED
      BY <2>1, <2>2, <2>3, <2>4, <2>5, <2>6, <2>7, <2>8, <2>9, <2>10, <2>11, <2>12,
         <2>13, <2>14, <2>15 DEF Next
<1> QED
    BY <1>1, <1>2, TypeInvariant, PTL DEF Spec

\* removeKeyPair: as long as commands do not overlap, a certificate file is
\* removed only after its secret key, so no kill leaves the key behind alone; at
\* most the user has put another one there meanwhile.
THEOREM CertificatesGoLast == Spec => CertGoesLast
<1> USE DEF hist
<1> DEFINE GoesLast ==
        \A s \in Slots : cert[s] # NoCert /\ cert'[s] = NoCert /\ ~overlap =>
            sec[s] = NoSec \/ UserHolds(s)
<1>1. TypeInv /\ SerialInv /\ [Next]_vars => [GoesLast]_vars
  <2> SUFFICES ASSUME TypeInv, SerialInv, [Next]_vars PROVE GoesLast
      OBVIOUS
  <2>1. ASSUME NEW q \in Logouts, RemoveCert(q) PROVE GoesLast
      BY <2>1 DEF RemoveCert, SetCert, SerialInv, TypeInv, TypeOK, Procs
  <2>2. ASSUME NEW p \in Logins, TruncateCert(p) PROVE GoesLast
      BY <2>2, Zenon DEF TruncateCert, SetCert, TypeInv, TypeOK, Procs, EmptyCert, NoCert
  <2>3. ASSUME NEW p \in Logins, WriteCert(p) PROVE GoesLast
      BY <2>3 DEF WriteCert, SetCert, TypeInv, TypeOK, Procs, CertOf, NoCert
  <2>4. ASSUME cert' = cert PROVE GoesLast
      BY <2>4, Zenon
  <2>5. CASE \E p \in Logins : \/ LoginBegin(p) \/ FindSecret(p) \/ InspectCert(p)
                               \/ TruncateSecret(p) \/ WriteSecret(p)
      BY <2>4, <2>5 DEF LoginBegin, Begin, FindSecret, InspectCert, TruncateSecret,
                        WriteSecret, SetSec
  <2>6. CASE \E q \in Logouts : \/ LogoutBegin(q) \/ LogoutReadCert(q)
                                \/ LogoutReadSecret(q) \/ RemoveSecret(q)
      BY <2>4, <2>6 DEF LogoutBegin, Begin, LogoutReadCert, LogoutReadSecret,
                        RemoveSecret, SetSec
  <2>7. CASE \/ \E p \in Procs : Crash(p)
             \/ \E k \in UserKeys : UserKeygen(k)
             \/ UNCHANGED vars
      BY <2>4, <2>7 DEF Crash, UserKeygen, vars
  <2> QED
      BY <2>1, <2>2, <2>3, <2>5, <2>6, <2>7 DEF Next
<1> QED
    BY <1>1, TypeInvariant, SerialInvariant, PTL DEF Spec, CertGoesLast

-----------------------------------------------------------------------------
\* A secret key of opkssh beside its own certificate.
OwnPair(s) == cert[s].comment = "openpubkey" /\ KeyPairMatch(sec[s], cert[s])

\* How far a logout that nobody disturbed has got: there is no pair under the
\* names it has passed, and what it read of the current name is still so.
Cleared(q) ==
    /\ pc[q] \in LogoutLabels \cup {"done"} =>
          \A s \in Slots : s < at[q] => ~OwnPair(s)
    /\ pc[q] = "readSec" => read[q] = cert[at[q]]
    /\ pc[q] = "rmCert" => sec[at[q]] = NoSec
    /\ pc[q] = "done" => at[q] = N /\ ~OwnPair(at[q])

ClearedInv == \A q \in Logouts : alone[q] => Cleared(q)

\* A logout moves on from a name without a pair.
LEMMA MovesOn ==
    ASSUME TypeInv, NEW q \in Logouts, NextName(q), UNCHANGED <<sec, cert>>,
           \A s \in Slots : s <= at[q] => ~OwnPair(s)
    PROVE  Cleared(q)'
<1>1. \A s \in Slots : s <= at[q] => ~OwnPair(s)'
    BY DEF OwnPair
<1>2. at[q] \in Slots /\ q \in Procs /\ N \in Nat
    BY SlotsAssumption DEF TypeInv, TypeOK, Procs
<1>3. CASE at[q] < N
  <2>1. at'[q] = at[q] + 1 /\ pc'[q] = "readCert"
      BY <1>2, <1>3, Zenon DEF NextName, Goto, TypeInv, TypeOK
  <2> QED
      BY <1>1, <1>2, <2>1 DEF Cleared, Slots
<1>4. CASE ~(at[q] < N)
  <2>1. at'[q] = at[q] /\ pc'[q] = "done" /\ at[q] = N
      BY <1>2, <1>4 DEF NextName, Goto, TypeInv, TypeOK, Slots
  <2> QED
      BY <1>1, <1>2, <2>1 DEF Cleared, Slots
<1> QED
    BY <1>3, <1>4

\* ClearedInv holds in every state.
LEMMA ClearedInvariant == Spec => []ClearedInv
<1> USE NamesAssumption DEF hist
<1>1. Init => ClearedInv
    BY DEF Init, ClearedInv, Procs
<1>2. TypeInv /\ ClearedInv /\ [Next]_vars => ClearedInv'
  <2> SUFFICES ASSUME TypeInv, ClearedInv, [Next]_vars, NEW q \in Logouts, alone'[q]
               PROVE  Cleared(q)'
      BY DEF ClearedInv
  <2>0. q \in Procs /\ q \notin Logins /\ at[q] \in Slots
      BY Zenon DEF Procs, TypeInv, TypeOK
  <2>1. CASE alone[q] /\ UNCHANGED <<sec, cert, pc[q], at[q], read[q]>>
    <3>1. Cleared(q)
        BY <2>1 DEF ClearedInv
    <3>2. \A s \in Slots : OwnPair(s)' <=> OwnPair(s)
        BY <2>1, Zenon DEF OwnPair
    <3> QED
        BY <2>1, <3>1, <3>2, <2>0 DEF Cleared
  <2>2. ASSUME NEW p \in Logins, TruncateSecret(p) \/ WriteSecret(p) \/ TruncateCert(p) \/ WriteCert(p)
        PROVE  FALSE
      BY <2>0, <2>2 DEF TruncateSecret, WriteSecret, TruncateCert, WriteCert, SetSec, SetCert
  <2>3. ASSUME NEW p \in Logins, LoginBegin(p) \/ FindSecret(p)
        PROVE  Cleared(q)'
      BY <2>0, <2>1, <2>3 DEF LoginBegin, Begin, FindSecret, Goto, TypeInv, TypeOK, Procs
  <2>4. ASSUME NEW p \in Logins, InspectCert(p) PROVE Cleared(q)'
    <3>1. at'[q] = at[q] /\ pc'[q] = pc[q]
        BY <2>0, <2>4, SlotStays DEF InspectCert, Goto, TypeInv, TypeOK, Procs
    <3> QED
        BY <2>1, <2>4, <3>1 DEF InspectCert
  <2>5. ASSUME NEW r \in Logouts, r # q, LogoutBegin(r) PROVE Cleared(q)'
      BY <2>0, <2>1, <2>5 DEF LogoutBegin, Begin, Goto, TypeInv, TypeOK, Procs
  <2>6. ASSUME NEW r \in Logouts, r # q, LogoutReadCert(r) \/ LogoutReadSecret(r)
        PROVE  Cleared(q)'
    <3>1. at'[q] = at[q] /\ pc'[q] = pc[q] /\ read'[q] = read[q] /\ UNCHANGED <<sec, cert, alone>>
        BY <2>0, <2>6, NameStays DEF LogoutReadCert, LogoutReadSecret, Goto, TypeInv, TypeOK,
           Procs
    <3> QED
        BY <2>1, <3>1, Zenon
  <2>7. ASSUME NEW r \in Logouts, r # q, RemoveSecret(r) \/ RemoveCert(r) PROVE FALSE
      BY <2>0, <2>7 DEF RemoveSecret, RemoveCert, SetSec, SetCert
  <2>8. CASE LogoutBegin(q)
    <3>1. at'[q] = 1 /\ pc'[q] = "readCert"
        BY <2>0, <2>8 DEF LogoutBegin, Begin, Goto, TypeInv, TypeOK
    <3> QED
        BY <3>1 DEF Cleared, Slots
  <2>9. CASE LogoutReadCert(q)
    <3>1. Cleared(q) /\ UNCHANGED <<sec, cert>> /\ pc[q] = "readCert"
        BY <2>9 DEF LogoutReadCert, ClearedInv
    <3>2. \A s \in Slots : OwnPair(s)' <=> OwnPair(s)
        BY <3>1 DEF OwnPair
    <3>3. CASE IsOpenpubkeyComment(cert[at[q]])
      <4>1. at'[q] = at[q] /\ pc'[q] = "readSec" /\ read'[q] = cert[at[q]]
          BY <2>0, <2>9, <3>3 DEF LogoutReadCert, Goto, TypeInv, TypeOK
      <4> QED
          BY <2>0, <3>1, <3>2, <4>1 DEF Cleared, LogoutLabels
    <3>4. CASE ~IsOpenpubkeyComment(cert[at[q]])
      <4>1. ~OwnPair(at[q])
          BY <3>4, Zenon DEF IsOpenpubkeyComment, OwnPair
      <4>2. \A s \in Slots : s <= at[q] => ~OwnPair(s)
          BY <2>0, <3>1, <4>1, SlotsAssumption DEF Cleared, LogoutLabels, Slots
      <4> QED
          BY <2>9, <3>1, <3>4, <4>2, MovesOn DEF LogoutReadCert
    <3> QED
        BY <3>3, <3>4
  <2>10. CASE LogoutReadSecret(q)
    <3>1. Cleared(q) /\ UNCHANGED <<sec, cert>> /\ pc[q] = "readSec" /\ read[q] = cert[at[q]]
        BY <2>10 DEF LogoutReadSecret, ClearedInv, Cleared
    <3>2. \A s \in Slots : OwnPair(s)' <=> OwnPair(s)
        BY <3>1, Zenon DEF OwnPair
    <3>3. CASE KeyPairMatch(sec[at[q]], read[q])
      <4>1. at'[q] = at[q] /\ pc'[q] = "rmSec"
          BY <2>0, <2>10, <3>3, Zenon DEF LogoutReadSecret, Goto, TypeInv, TypeOK
      <4> QED
          BY <2>0, <3>1, <3>2, <4>1 DEF Cleared, LogoutLabels
    <3>4. CASE ~KeyPairMatch(sec[at[q]], read[q])
      <4>1. ~OwnPair(at[q])
          BY <3>1, <3>4, Zenon DEF OwnPair
      <4>2. \A s \in Slots : s <= at[q] => ~OwnPair(s)
          BY <2>0, <3>1, <4>1, SlotsAssumption DEF Cleared, LogoutLabels, Slots
      <4> QED
          BY <2>10, <3>1, <3>4, <4>2, MovesOn, Zenon DEF LogoutReadSecret
    <3> QED
        BY <3>3, <3>4, Zenon
  <2>11. CASE RemoveSecret(q)
    <3>1. /\ alone[q] /\ pc[q] = "rmSec" /\ pc'[q] = "rmCert" /\ at' = at /\ cert' = cert
          /\ sec' = [sec EXCEPT ![at[q]] = NoSec]
        BY <2>0, <2>11 DEF RemoveSecret, SetSec, Goto, TypeInv, TypeOK
    <3>2. Cleared(q)
        BY <3>1 DEF ClearedInv
    <3>3. sec'[at[q]] = NoSec /\ \A s \in Slots : s < at[q] => sec'[s] = sec[s]
        BY <2>0, <3>1, SlotsAssumption DEF TypeInv, TypeOK, Slots
    <3>4. \A s \in Slots : s < at[q] => ~OwnPair(s)'
        BY <3>1, <3>2, <3>3 DEF Cleared, OwnPair, LogoutLabels
    <3> QED
        BY <3>1, <3>3, <3>4 DEF Cleared
  <2>12. CASE RemoveCert(q)
    <3>1. /\ alone[q] /\ pc[q] = "rmCert" /\ sec' = sec /\ NextName(q)
          /\ cert' = [cert EXCEPT ![at[q]] = NoCert]
        BY <2>0, <2>12, Zenon DEF RemoveCert, SetCert
    <3>2. Cleared(q) /\ sec[at[q]] = NoSec
        BY <3>1 DEF ClearedInv, Cleared
    <3>3. \A s \in Slots : s <= at[q] => ~OwnPair(s)'
      <4>1. \A s \in Slots : s < at[q] => cert'[s] = cert[s]
          BY <2>0, <3>1, SlotsAssumption DEF TypeInv, TypeOK, Slots
      <4>2. \A s \in Slots : s = at[q] => ~OwnPair(s)'
          BY <3>1, <3>2 DEF OwnPair, KeyPairMatch, NoSec
      <4>3. \A s \in Slots : s < at[q] => ~OwnPair(s)'
          BY <3>1, <3>2, <4>1, Zenon DEF Cleared, OwnPair, LogoutLabels
      <4> QED
          BY <2>0, <4>2, <4>3, SlotsAssumption DEF Slots
    <3>4. CASE at[q] < N
      <4>1. at'[q] = at[q] + 1 /\ pc'[q] = "readCert"
          BY <2>0, <3>1, <3>4, Zenon DEF NextName, Goto, TypeInv, TypeOK
      <4> QED
          BY <2>0, <3>3, <4>1, SlotsAssumption DEF Cleared, Slots
    <3>5. CASE ~(at[q] < N)
      <4>1. at'[q] = at[q] /\ pc'[q] = "done" /\ at[q] = N
          BY <2>0, <3>1, <3>5, SlotsAssumption DEF NextName, Goto, TypeInv, TypeOK, Slots
      <4> QED
          BY <2>0, <3>3, <4>1, SlotsAssumption DEF Cleared, Slots
    <3> QED
        BY <3>4, <3>5
  <2>13. ASSUME NEW p \in Procs, Crash(p) PROVE Cleared(q)'
    <3>1. CASE p = q
      <4>1. pc'[q] = "killed"
          BY <2>0, <2>13, <3>1 DEF Crash, Goto, TypeInv, TypeOK
      <4> QED
          BY <4>1, Zenon DEF Cleared, LogoutLabels
    <3>2. CASE p # q
        BY <2>0, <2>1, <2>13, <3>2 DEF Crash, Goto, TypeInv, TypeOK
    <3> QED
        BY <3>1, <3>2, Zenon
  <2>14. ASSUME NEW k \in UserKeys, UserKeygen(k) PROVE FALSE
      BY <2>0, <2>14 DEF UserKeygen
  <2>15. CASE UNCHANGED vars
      BY <2>1, <2>15 DEF vars
  <2> QED
      BY <2>2, <2>3, <2>4, <2>5, <2>6, <2>7, <2>8, <2>9, <2>10, <2>11, <2>12, <2>13, <2>14,
         <2>15 DEF Next
<1> QED
    BY <1>1, <1>2, TypeInvariant, PTL DEF Spec

\* For any number of names, a logout that nobody disturbed leaves no secret key
\* of opkssh that has its own certificate.
THEOREM LogoutRemovesAllPairs == Spec => []LogoutRemovesPairs
<1>1. TypeInv /\ ClearedInv => LogoutRemovesPairs
  <2> SUFFICES ASSUME TypeInv, ClearedInv, NEW q \in Logouts, pc[q] = "done", alone[q],
                      NEW s \in Slots, sec[s].state # "missing"
               PROVE  UserHolds(s) \/ Broken(s)
      BY DEF LogoutRemovesPairs
  <2>1. ~OwnPair(s)
      BY SlotsAssumption DEF ClearedInv, Cleared, Slots
  <2> QED
      BY <2>1 DEF OwnPair, Broken
<1> QED
    BY <1>1, TypeInvariant, ClearedInvariant, PTL

-----------------------------------------------------------------------------
\* Counting the names that accidents cost.  The name a login is writing under
\* is broken for the moment; every other broken name is lost.
Writing == {"writeSec", "truncCert", "writeCert"}
Busy(s) == \E p \in Logins : pc[p] \in Writing /\ at[p] = s
Lost == {s \in Slots : Broken(s) /\ ~Busy(s)}

\* A login that writes is as far with its pair as its step says, unless the user
\* has overwritten the secret key meanwhile.
Wrote(p) ==
    /\ pc[p] = "writeSec" => linked[p]
    /\ pc[p] \in {"truncCert", "writeCert"} => sec[at[p]] = SecOf(p) \/ UserHolds(at[p])
    /\ pc[p] = "writeCert" => linked[p] /\ cert[at[p]].state = "empty"

\* As long as commands did not overlap, logins write as they mean to, and there
\* is a killed command for every lost name.
AccidentInv ==
    ~overlap => (\A p \in Logins : Wrote(p)) /\ Cardinality(Lost) <= crashes

\* There are finitely many names, so sets of names are counted as usual.
LEMMA CountNames ==
    ASSUME NEW S \in SUBSET Slots, NEW T \in SUBSET Slots
    PROVE  /\ Cardinality(S) \in Nat
           /\ T \subseteq S => Cardinality(T) <= Cardinality(S)
           /\ \A x : T \subseteq S \cup {x} => Cardinality(T) <= Cardinality(S) + 1
           /\ Cardinality(S \cup T) <= Cardinality(S) + Cardinality(T)
<1>1. IsFiniteSet(Slots)
    BY SlotsAssumption, FS_Interval DEF Slots
<1>2. IsFiniteSet(S) /\ IsFiniteSet(T)
    BY <1>1, FS_Subset
<1>3. Cardinality(S) \in Nat /\ Cardinality(T) \in Nat
    BY <1>2, FS_CardinalityType
<1>4. T \subseteq S => Cardinality(T) <= Cardinality(S)
    BY <1>2, FS_Subset
<1>5. ASSUME NEW x, T \subseteq S \cup {x} PROVE Cardinality(T) <= Cardinality(S) + 1
  <2>0. /\ IsFiniteSet(S \cup {x})
        /\ Cardinality(S \cup {x}) = IF x \in S THEN Cardinality(S) ELSE Cardinality(S) + 1
      BY <1>2, FS_AddElement, Zenon
  <2>1. IsFiniteSet(S \cup {x}) /\ Cardinality(S \cup {x}) <= Cardinality(S) + 1
      BY <1>3, <2>0
  <2>2. Cardinality(T) <= Cardinality(S \cup {x}) /\ Cardinality(S \cup {x}) \in Nat
      BY <1>5, <2>1, FS_Subset, FS_CardinalityType
  <2> QED
      BY <1>3, <2>1, <2>2
<1>6. Cardinality(S \cup T) <= Cardinality(S) + Cardinality(T)
  <2>1. Cardinality(S \cap T) \in Nat
      BY <1>2, FS_Intersection, FS_CardinalityType
  <2>2. Cardinality(S \cup T) = Cardinality(S) + Cardinality(T) - Cardinality(S \cap T)
      BY <1>2, FS_Union, Zenon
  <2> QED
      BY <1>3, <2>1, <2>2
<1> QED
    BY <1>3, <1>4, <1>5, <1>6

\* A step that changes no file, and nobody's place in the middle of writing.
LEMMA LostStays ==
    ASSUME UNCHANGED <<sec, cert>>,
           \A p \in Logins : pc[p] \in Writing => pc'[p] \in Writing /\ at'[p] = at[p]
    PROVE  Lost' \subseteq Lost
<1>1. \A s \in Slots : Broken(s)' <=> Broken(s)
    BY DEF Broken, UserHolds
<1>2. \A s \in Slots : Busy(s) => Busy(s)'
    BY DEF Busy
<1> QED
    BY <1>1, <1>2 DEF Lost, Slots

\* While commands do not overlap, names are lost to killed commands only.
LEMMA AccidentInvariant == Spec => []AccidentInv
<1> USE NamesAssumption DEF hist
<1>1. Init => AccidentInv
  <2> SUFFICES ASSUME Init PROVE AccidentInv
      OBVIOUS
  <2>1. Lost = {}
      BY DEF Init, Lost, Broken, NoSec
  <2>2. Cardinality(Lost) = 0
      BY <2>1, FS_EmptySet, Zenon
  <2> QED
      BY <2>2 DEF Init, AccidentInv, Wrote, Procs
<1>2. TypeInv /\ SerialInv /\ AccidentInv /\ [Next]_vars => AccidentInv'
  <2> SUFFICES ASSUME TypeInv, SerialInv, AccidentInv, [Next]_vars, ~overlap'
               PROVE  (\A p \in Logins : Wrote(p)') /\ Cardinality(Lost') <= crashes'
      BY DEF AccidentInv
  <2>1. ~overlap
      BY Zenon DEF Next, LoginBegin, FindSecret, InspectCert, TruncateSecret, WriteSecret,
             TruncateCert, WriteCert, LogoutBegin, LogoutReadCert, LogoutReadSecret,
             RemoveSecret, RemoveCert, Crash, UserKeygen, Begin, vars
  <2>2. /\ \A p \in Logins : Wrote(p)
        /\ Cardinality(Lost) <= crashes /\ crashes \in Nat
        /\ \A p, q \in Procs : p # q => pc[p] \in Resting \/ pc[q] \in Resting
        /\ \A q \in Logouts : pc[q] = "rmCert" => sec[at[q]] = NoSec \/ UserHolds(at[q])
      BY <2>1, BoundsAssumption DEF AccidentInv, SerialInv, TypeInv, TypeOK
  <2>3. Lost \subseteq Slots /\ Lost' \subseteq Slots
      BY Zenon DEF Lost, Slots
  <2>4. ASSUME Lost' \subseteq Lost, crashes' = crashes PROVE Cardinality(Lost') <= crashes'
    <3>1. /\ Cardinality(Lost') <= Cardinality(Lost)
          /\ Cardinality(Lost') \in Nat /\ Cardinality(Lost) \in Nat
        BY <2>3, <2>4, CountNames, Zenon
    <3> QED
        BY <2>2, <2>4, <3>1
  <2>5. ASSUME NEW p \in Logins, LoginBegin(p) \/ FindSecret(p) \/ InspectCert(p)
        PROVE  (\A r \in Logins : Wrote(r)') /\ Cardinality(Lost') <= crashes'
    <3>1. /\ UNCHANGED <<sec, cert, linked, crashes>> /\ pc[p] \notin Writing
          /\ pc'[p] \notin Writing
          /\ \A r \in Logins \ {p} : pc'[r] = pc[r] /\ at'[r] = at[r]
        BY <2>5, SlotStays DEF LoginBegin, Begin, FindSecret, InspectCert, Goto, TypeInv,
           TypeOK, Procs, Writing
    <3>2. Lost' \subseteq Lost
        BY <3>1, LostStays
    <3> QED
        BY <2>2, <2>4, <3>1, <3>2, Zenon DEF Wrote, Writing, UserHolds
  <2>6. ASSUME NEW p \in Logins,
               TruncateSecret(p) \/ WriteSecret(p) \/ TruncateCert(p) \/ WriteCert(p)
        PROVE  (\A r \in Logins : Wrote(r)') /\ Cardinality(Lost') <= crashes'
    <3>1. /\ crashes' = crashes /\ at' = at
          /\ \A r \in Procs \ {p} : pc'[r] = pc[r] /\ pc[r] \in Resting
        BY <2>2, <2>6, Zenon DEF TruncateSecret, WriteSecret, TruncateCert, WriteCert, Goto,
           TypeInv, TypeOK, Procs, Resting
    <3>2. \A r \in Logins \ {p} : Wrote(r)'
        BY <3>1, Zenon DEF Wrote, Procs, Resting
    <3>3. /\ at[p] \in Slots /\ p \in Procs
          /\ \A s \in Slots \ {at[p]} : sec'[s] = sec[s] /\ cert'[s] = cert[s]
        BY <2>6 DEF TruncateSecret, WriteSecret, TruncateCert, WriteCert, SetSec, SetCert,
           TypeInv, TypeOK, Procs
    <3>4. \A s \in Slots \ {at[p]} : s \in Lost' => s \in Lost
      <4> SUFFICES ASSUME NEW s \in Slots \ {at[p]}, Broken(s)', ~Busy(s)' PROVE s \in Lost
          BY Zenon DEF Lost
      <4>1. Broken(s)
          BY <3>3 DEF Broken, UserHolds
      <4>2. ~Busy(s)
          BY <3>1, Zenon DEF Busy, Procs
      <4> QED
          BY <4>1, <4>2 DEF Lost
    <3>5. CASE TruncateSecret(p)
      <4>1. pc'[p] = "writeSec" /\ linked'[p]
          BY <3>3, <3>5, Zenon DEF TruncateSecret, Goto, TypeInv, TypeOK
      <4>2. Wrote(p)' /\ Busy(at[p])'
          BY <3>1, <4>1, Zenon DEF Wrote, Busy, Writing
      <4> QED
          BY <2>3, <2>4, <3>1, <3>2, <3>4, <4>2, Zenon DEF Lost
    <3>6. CASE WriteSecret(p)
      <4>1. pc'[p] = "truncCert" /\ sec'[at[p]] = SecOf(p)
          BY <2>2, <3>3, <3>6 DEF WriteSecret, SetSec, Goto, Wrote, TypeInv, TypeOK
      <4>2. Wrote(p)' /\ Busy(at[p])'
          BY <3>1, <4>1, Zenon DEF Wrote, Busy, Writing
      <4> QED
          BY <2>3, <2>4, <3>1, <3>2, <3>4, <4>2 DEF Lost
    <3>7. CASE TruncateCert(p)
      <4>1. /\ pc'[p] = "writeCert" /\ linked'[p] /\ cert'[at[p]].state = "empty"
            /\ sec' = sec /\ (sec[at[p]] = SecOf(p) \/ UserHolds(at[p]))
          BY <2>2, <3>3, <3>7 DEF TruncateCert, SetCert, Goto, Wrote, TypeInv, TypeOK, EmptyCert
      <4>2. Wrote(p)' /\ Busy(at[p])'
          BY <3>1, <4>1, Zenon DEF Wrote, Busy, Writing, UserHolds
      <4> QED
          BY <2>3, <2>4, <3>1, <3>2, <3>4, <4>2 DEF Lost
    <3>8. CASE WriteCert(p)
      <4>1. /\ linked[p] /\ Comments(cert[at[p]]) = {"openpubkey"}
            /\ sec[at[p]] = SecOf(p) \/ UserHolds(at[p])
          BY <2>2, <3>8, Zenon DEF WriteCert, Wrote, Comments
      <4>2. /\ pc'[p] = "done" /\ sec' = sec
            /\ cert'[at[p]] = CertOf(p, "openpubkey")
          BY <3>3, <3>8, <4>1 DEF WriteCert, SetCert, Goto, TypeInv, TypeOK
      <4>3. Wrote(p)' /\ ~Broken(at[p])'
          BY <3>1, <4>1, <4>2 DEF Wrote, Broken, UserHolds, KeyPairMatch, SecOf, CertOf
      <4> QED
          BY <2>3, <2>4, <3>1, <3>2, <3>4, <4>3, Zenon DEF Lost
    <3> QED
        BY <2>6, <3>5, <3>6, <3>7, <3>8, Zenon
  <2>7. ASSUME NEW q \in Logouts, LogoutBegin(q) \/ LogoutReadCert(q) \/ LogoutReadSecret(q)
        PROVE  (\A r \in Logins : Wrote(r)') /\ Cardinality(Lost') <= crashes'
    <3>1. /\ UNCHANGED <<sec, cert, linked, crashes>>
          /\ \A r \in Logins : pc'[r] = pc[r] /\ at'[r] = at[r]
        BY <2>7, NameStays DEF LogoutBegin, Begin, LogoutReadCert, LogoutReadSecret, Goto,
           TypeInv, TypeOK, Procs
    <3>2. Lost' \subseteq Lost
        BY <3>1, LostStays, Zenon
    <3> QED
        BY <2>2, <2>4, <3>1, <3>2, Zenon DEF Wrote, UserHolds
  <2>8. ASSUME NEW q \in Logouts, RemoveSecret(q) \/ RemoveCert(q)
        PROVE  (\A r \in Logins : Wrote(r)') /\ Cardinality(Lost') <= crashes'
    <3>1. /\ crashes' = crashes
          /\ \A r \in Logins : pc'[r] = pc[r] /\ at'[r] = at[r] /\ pc[r] \in Resting
        BY <2>2, <2>8, NameStays DEF RemoveSecret, RemoveCert, Goto, TypeInv, TypeOK, Procs,
           Resting
    <3>2. \A r \in Logins : Wrote(r)'
        BY <3>1, Zenon DEF Wrote, Resting
    <3>3. /\ at[q] \in Slots /\ (sec'[at[q]] = NoSec \/ sec'[at[q]].key \in UserKeys)
          /\ \A s \in Slots \ {at[q]} : sec'[s] = sec[s] /\ cert'[s] = cert[s]
      <4>1. CASE RemoveSecret(q)
          BY <4>1, Zenon DEF RemoveSecret, SetSec, TypeInv, TypeOK, Procs
      <4>2. CASE RemoveCert(q)
        <5>1. /\ sec' = sec /\ at[q] \in Slots /\ pc[q] = "rmCert"
              /\ \A s \in Slots \ {at[q]} : cert'[s] = cert[s]
            BY <4>2, Zenon DEF RemoveCert, SetCert, TypeInv, TypeOK, Procs
        <5>2. sec[at[q]] = NoSec \/ UserHolds(at[q])
            BY <2>2, <5>1, Zenon
        <5>3. sec'[at[q]] = NoSec \/ sec'[at[q]].key \in UserKeys
            BY <5>1, <5>2, Zenon DEF UserHolds
        <5> QED
            BY <5>1, <5>3, Zenon DEF UserHolds
      <4> QED
          BY <2>8, <4>1, <4>2, Zenon
    <3>4. \A s \in Slots : s = at[q] => ~Broken(s)'
      <4> SUFFICES ASSUME NEW s \in Slots, s = at[q], Broken(s)' PROVE FALSE
          OBVIOUS
      <4>1. sec'[s].state # "missing" /\ ~UserHolds(s)'
          BY Zenon DEF Broken
      <4>2. sec'[s] = NoSec
          BY <3>3, <4>1, Zenon DEF UserHolds
      <4> QED
          BY <4>1, <4>2 DEF NoSec
    <3>5. Lost' \subseteq Lost
      <4> SUFFICES ASSUME NEW s \in Slots, Broken(s)' PROVE s \in Lost
          BY DEF Lost, Slots
      <4>1. s # at[q]
          BY <3>4, Zenon
      <4>2. Broken(s)
          BY <3>3, <4>1 DEF Broken, UserHolds
      <4>3. ~Busy(s)
          BY <3>1, Zenon DEF Busy, Writing, Resting
      <4> QED
          BY <4>2, <4>3 DEF Lost
    <3> QED
        BY <2>4, <3>1, <3>2, <3>5, Zenon
  <2>9. ASSUME NEW p \in Procs, Crash(p)
        PROVE  (\A r \in Logins : Wrote(r)') /\ Cardinality(Lost') <= crashes'
    <3>1. /\ UNCHANGED <<sec, cert, at, linked>> /\ crashes' = crashes + 1
          /\ pc'[p] = "killed" /\ \A r \in Procs \ {p} : pc'[r] = pc[r]
        BY <2>9, Zenon DEF Crash, Goto, TypeInv, TypeOK
    <3>2. \A r \in Logins : Wrote(r)'
        BY <2>2, <3>1, Zenon DEF Wrote, UserHolds, Procs
    <3>3. \A s \in Slots : Broken(s)' <=> Broken(s)
        BY <3>1 DEF Broken, UserHolds
    <3>4. \A s \in Slots : Busy(s) /\ ~Busy(s)' => s = at[p]
        BY <3>1 DEF Busy, Procs
    <3>5. Lost' \subseteq Lost \cup {at[p]}
        BY <3>3, <3>4 DEF Lost, Slots
    <3>6. Cardinality(Lost) \in Nat /\ Cardinality(Lost') <= Cardinality(Lost) + 1
        BY <2>3, <3>5, CountNames, Zenon
    <3>7. Cardinality(Lost') \in Nat
        BY <2>3, CountNames, Zenon
    <3> QED
        BY <2>2, <3>1, <3>2, <3>6, <3>7
  <2>10. ASSUME NEW k \in UserKeys, UserKeygen(k)
         PROVE  (\A r \in Logins : Wrote(r)') /\ Cardinality(Lost') <= crashes'
    <3>1. /\ UNCHANGED <<cert, pc, at, linked, crashes>>
        BY <2>10, Zenon DEF UserKeygen
    <3>2. PICK t \in Slots : sec' = [sec EXCEPT ![t] = SecOf(k)]
        BY <2>10, Zenon DEF UserKeygen
    <3>3. UserHolds(t)' /\ \A s \in Slots \ {t} : sec'[s] = sec[s]
        BY <3>2, Zenon DEF UserHolds, SecOf, TypeInv, TypeOK
    <3>4. \A r \in Logins : Wrote(r)'
      <4> SUFFICES ASSUME NEW r \in Logins PROVE Wrote(r)'
          OBVIOUS
      <4>1. Wrote(r) /\ at[r] \in Slots
          BY <2>2 DEF TypeInv, TypeOK, Procs
      <4> QED
          BY <3>1, <3>3, <4>1, Zenon DEF Wrote, UserHolds
    <3>5. Lost' \subseteq Lost
      <4>3. \A s \in Slots : Broken(s)' => Broken(s)
          BY <3>1, <3>3 DEF Broken, UserHolds
      <4>4. \A s \in Slots : Busy(s)' <=> Busy(s)
          BY <3>1, Zenon DEF Busy
      <4> QED
          BY <4>3, <4>4, Zenon DEF Lost, Slots
    <3> QED
        BY <2>4, <3>1, <3>4, <3>5
  <2>11. CASE UNCHANGED vars
    <3>1. Lost' \subseteq Lost
        BY <2>11, LostStays DEF vars
    <3> QED
        BY <2>2, <2>4, <2>11, <3>1 DEF Wrote, UserHolds, vars
  <2> QED
      BY <2>5, <2>6, <2>7, <2>8, <2>9, <2>10, <2>11 DEF Next
<1> QED
    BY <1>1, <1>2, TypeInvariant, SerialInvariant, PTL DEF Spec

\* Whatever logins, logouts and the user do one after the other, each killed
\* command costs one of the default names at most, for any number of names.
THEOREM NamesLostToAccidentsOnly == Spec => []BrokenByAccident
<1>1. AccidentInv => BrokenByAccident
  <2> SUFFICES ASSUME AccidentInv, AtRest, ~overlap
               PROVE  Cardinality({s \in Slots : Broken(s)}) <= crashes
      BY DEF BrokenByAccident
  <2>1. \A s \in Slots : ~Busy(s)
      BY DEF AtRest, Busy, Writing, Resting, Procs
  <2>2. Lost = {s \in Slots : Broken(s)}
      BY <2>1, Zenon DEF Lost
  <2> QED
      BY <2>2 DEF AccidentInv
<1> QED
    BY <1>1, AccidentInvariant, PTL

-----------------------------------------------------------------------------
\* A key that the user made where opkssh had no certificate, at rest.
Free(s) == UserHolds(s) /\ found[sec[s].key] = "free"

\* It is complete, opkssh has put no certificate beside it, and no login has
\* claimed its name.
FreeInv ==
    \A s \in Slots : Free(s) =>
        /\ sec[s].state = "full" /\ cert[s].comment # "openpubkey"
        /\ \A p \in Logins : pc[p] \in Writing \cup {"truncSec"} => at[p] # s

\* A step that changes no file and by which no login claims a name.
LEMMA FreeStays ==
    ASSUME FreeInv, UNCHANGED <<sec, cert, found>>,
           \A p \in Logins : pc'[p] \in Writing \cup {"truncSec"} =>
               pc[p] \in Writing \cup {"truncSec"} /\ at'[p] = at[p]
    PROVE  FreeInv'
<1> SUFFICES ASSUME NEW s \in Slots, Free(s)'
             PROVE  /\ sec'[s].state = "full" /\ cert'[s].comment # "openpubkey"
                    /\ \A r \in Logins : pc'[r] \in Writing \cup {"truncSec"} => at'[r] # s
    BY Zenon DEF FreeInv
<1>1. sec'[s] = sec[s] /\ cert'[s] = cert[s] /\ Free(s)
    BY Zenon DEF Free, UserHolds
<1> QED
    BY <1>1, Zenon DEF FreeInv

\* A step of a login, at a name it has claimed, leaves every other name alone and
\* makes no key of the user.
LEMMA FreeElsewhere ==
    ASSUME TypeInv, FreeInv, NEW p \in Logins, pc[p] \in Writing \cup {"truncSec"},
           UNCHANGED <<at, found>>,
           \A r \in Logins \ {p} : pc'[r] = pc[r],
           \A s \in Slots \ {at[p]} : sec'[s] = sec[s] /\ cert'[s] = cert[s],
           UserHolds(at[p])' => sec'[at[p]] = sec[at[p]]
    PROVE  FreeInv'
<1> SUFFICES ASSUME NEW s \in Slots, Free(s)'
             PROVE  /\ sec'[s].state = "full" /\ cert'[s].comment # "openpubkey"
                    /\ \A r \in Logins : pc'[r] \in Writing \cup {"truncSec"} => at'[r] # s
    BY Zenon DEF FreeInv
<1>1. sec'[s] = sec[s] /\ Free(s)
    BY Zenon DEF Free, UserHolds
<1>2. s # at[p]
    BY <1>1, Zenon DEF FreeInv
<1>3. cert'[s] = cert[s]
    BY <1>2, Zenon
<1> QED
    BY <1>1, <1>2, <1>3, Zenon DEF FreeInv

\* Commands that overlap or are killed included, opkssh leaves such keys alone.
LEMMA FreeInvariant == Spec => []FreeInv
<1> USE NamesAssumption DEF hist
<1>1. Init => FreeInv
    BY DEF Init, FreeInv, Free, UserHolds, NoSec, Nobody
<1>2. TypeInv /\ FreeInv /\ [Next]_vars => FreeInv'
  <2> SUFFICES ASSUME TypeInv, FreeInv, [Next]_vars PROVE FreeInv'
      OBVIOUS
  <2>1. ASSUME NEW p \in Logins, LoginBegin(p) PROVE FreeInv'
    <3>1. /\ UNCHANGED <<sec, cert, found>> /\ pc'[p] = "find"
          /\ \A r \in Logins \ {p} : pc'[r] = pc[r] /\ at'[r] = at[r]
        BY <2>1, Zenon DEF LoginBegin, Begin, Goto, TypeInv, TypeOK, Procs
    <3>2. pc'[p] \notin Writing \cup {"truncSec"}
        BY <3>1 DEF Writing
    <3> QED
        BY <3>1, <3>2, FreeStays, Zenon
  <2>2. ASSUME NEW p \in Logins, FindSecret(p) \/ InspectCert(p) PROVE FreeInv'
    <3>1. /\ UNCHANGED <<sec, cert, found>> /\ p \in Procs /\ at[p] \in Slots
          /\ pc'[p] = "truncSec" =>
                at' = at /\ (sec[at[p]].state = "missing" \/ cert[at[p]].comment = "openpubkey")
          /\ pc'[p] \notin Writing
          /\ \A r \in Logins \ {p} : pc'[r] = pc[r] /\ at'[r] = at[r]
        BY <2>2, SlotStays DEF FindSecret, InspectCert, Goto, TypeInv, TypeOK, Procs, Writing
    <3>2. pc'[p] = "truncSec" => ~Free(at[p])
        BY <3>1 DEF FreeInv
    <3> SUFFICES ASSUME NEW s \in Slots, Free(s)'
                 PROVE  /\ sec'[s].state = "full" /\ cert'[s].comment # "openpubkey"
                        /\ \A r \in Logins : pc'[r] \in Writing \cup {"truncSec"} => at'[r] # s
        BY Zenon DEF FreeInv
    <3>3. Free(s)
        BY <3>1, Zenon DEF Free, UserHolds
    <3> QED
        BY <3>1, <3>2, <3>3, Zenon DEF FreeInv
  <2>3. ASSUME NEW p \in Logins, TruncateSecret(p) \/ WriteSecret(p) PROVE FreeInv'
    <3>1. /\ pc[p] \in Writing \cup {"truncSec"} /\ UNCHANGED <<at, found, cert>>
          /\ p \in Procs /\ at[p] \in Slots
        BY <2>3 DEF TruncateSecret, WriteSecret, SetSec, Writing, TypeInv, TypeOK, Procs
    <3>2. \A r \in Logins \ {p} : pc'[r] = pc[r]
        BY <2>3, Zenon DEF TruncateSecret, WriteSecret, Goto, TypeInv, TypeOK, Procs
    <3>3. PICK file \in {EmptySec, SecOf(p), sec[at[p]]} : sec' = [sec EXCEPT ![at[p]] = file]
        BY <2>3, Zenon DEF TruncateSecret, WriteSecret, SetSec
    <3>4. sec'[at[p]] = file /\ \A s \in Slots \ {at[p]} : sec'[s] = sec[s]
        BY <3>1, <3>3, Zenon DEF TypeInv, TypeOK
    <3>5. UserHolds(at[p])' => sec'[at[p]] = sec[at[p]]
        BY <3>1, <3>3, <3>4 DEF UserHolds, EmptySec, SecOf, Nobody
    <3> QED
        BY <3>1, <3>2, <3>4, <3>5, FreeElsewhere, Zenon
  <2>4. ASSUME NEW p \in Logins, TruncateCert(p) \/ WriteCert(p) PROVE FreeInv'
    <3>1. /\ pc[p] \in Writing \cup {"truncSec"} /\ UNCHANGED <<at, found, sec>>
          /\ p \in Procs /\ at[p] \in Slots
        BY <2>4 DEF TruncateCert, WriteCert, SetCert, Writing, TypeInv, TypeOK, Procs
    <3>2. \A r \in Logins \ {p} : pc'[r] = pc[r]
        BY <2>4, Zenon DEF TruncateCert, WriteCert, Goto, TypeInv, TypeOK, Procs
    <3>3. \A s \in Slots \ {at[p]} : cert'[s] = cert[s]
        BY <2>4, Zenon DEF TruncateCert, WriteCert, SetCert, TypeInv, TypeOK
    <3> QED
        BY <3>1, <3>2, <3>3, FreeElsewhere, Zenon
  <2>5. ASSUME NEW q \in Logouts, LogoutBegin(q) \/ LogoutReadCert(q) \/ LogoutReadSecret(q)
        PROVE  FreeInv'
    <3>1. /\ UNCHANGED <<sec, cert, found>>
          /\ \A r \in Logins : pc'[r] = pc[r] /\ at'[r] = at[r]
        BY <2>5, NameStays DEF LogoutBegin, Begin, LogoutReadCert, LogoutReadSecret, Goto,
           TypeInv, TypeOK, Procs
    <3> QED
        BY <3>1, FreeStays, Zenon
  <2>6. ASSUME NEW q \in Logouts, RemoveSecret(q) \/ RemoveCert(q) PROVE FreeInv'
    <3>1. /\ found' = found /\ at[q] \in Slots
          /\ \A r \in Logins : pc'[r] = pc[r] /\ at'[r] = at[r]
        BY <2>6, NameStays DEF RemoveSecret, RemoveCert, Goto, TypeInv, TypeOK, Procs
    <3>2. \A s \in Slots : /\ sec'[s] \in {sec[s], NoSec}
                           /\ cert'[s] \in {cert[s], NoCert}
        BY <2>6, Zenon DEF RemoveSecret, RemoveCert, SetSec, SetCert, TypeInv, TypeOK
    <3> SUFFICES ASSUME NEW s \in Slots, Free(s)'
                 PROVE  /\ sec'[s].state = "full" /\ cert'[s].comment # "openpubkey"
                        /\ \A r \in Logins : pc'[r] \in Writing \cup {"truncSec"} => at'[r] # s
        BY Zenon DEF FreeInv
    <3>3. sec'[s] = sec[s]
        BY <3>2 DEF Free, UserHolds, NoSec, Nobody
    <3>4. Free(s)
        BY <3>1, <3>3, Zenon DEF Free, UserHolds
    <3>5. cert'[s].comment # "openpubkey"
        BY <3>2, <3>4 DEF FreeInv, NoCert
    <3> QED
        BY <3>1, <3>3, <3>4, <3>5, Zenon DEF FreeInv
  <2>7. ASSUME NEW p \in Procs, Crash(p) PROVE FreeInv'
    <3>1. /\ UNCHANGED <<sec, cert, at, found>> /\ pc'[p] = "killed"
          /\ \A r \in Procs \ {p} : pc'[r] = pc[r]
        BY <2>7, Zenon DEF Crash, Goto, TypeInv, TypeOK
    <3>2. pc'[p] \notin Writing \cup {"truncSec"}
        BY <3>1 DEF Writing
    <3> QED
        BY <3>1, <3>2, FreeStays, Zenon DEF Procs
  <2>8. ASSUME NEW k \in UserKeys, UserKeygen(k) PROVE FreeInv'
    <3>1. UNCHANGED <<cert, pc, at>>
        BY <2>8, Zenon DEF UserKeygen
    <3>2. PICK t \in Slots :
             /\ sec' = [sec EXCEPT ![t] = SecOf(k)]
             /\ found' = [found EXCEPT ![k] = IF ~AtRest THEN "work"
                            ELSE IF cert[t].comment = "openpubkey" THEN "cert" ELSE "free"]
        BY <2>8, Zenon DEF UserKeygen
    <3>3. /\ \A s \in Slots \ {t} : sec'[s] = sec[s] /\ sec[s].key # k
          /\ sec'[t].key = k /\ sec'[t].state = "full"
          /\ \A j \in UserKeys \ {k} : found'[j] = found[j]
          /\ found'[k] = "free" => AtRest /\ cert[t].comment # "openpubkey"
        BY <2>8, <3>2 DEF UserKeygen, TypeInv, TypeOK, SecOf
    <3>4. AtRest => \A r \in Logins : pc[r] \notin Writing \cup {"truncSec"}
        BY DEF AtRest, Resting, Writing, Procs
    <3> SUFFICES ASSUME NEW s \in Slots, Free(s)'
                 PROVE  /\ sec'[s].state = "full" /\ cert'[s].comment # "openpubkey"
                        /\ \A r \in Logins : pc'[r] \in Writing \cup {"truncSec"} => at'[r] # s
        BY Zenon DEF FreeInv
    <3>5. CASE s = t
        BY <3>1, <3>3, <3>4, <3>5, Zenon DEF Free
    <3>6. CASE s # t
      <4>1. sec'[s] = sec[s] /\ Free(s)
          BY <3>3, <3>6, Zenon DEF Free, UserHolds
      <4> QED
          BY <3>1, <4>1, Zenon DEF FreeInv
    <3> QED
        BY <3>5, <3>6, Zenon
  <2>9. CASE UNCHANGED vars
      BY <2>9, FreeStays DEF vars
  <2> QED
      BY <2>1, <2>2, <2>3, <2>4, <2>5, <2>6, <2>7, <2>8, <2>9 DEF Next
<1> QED
    BY <1>1, <1>2, TypeInvariant, PTL DEF Spec

\* writeKeysToSSHDir replaces a key of the user only if the user made it beside a
\* certificate of opkssh or while a command was at work, for any number of names
\* and commands, overlapping and killed ones included.
THEOREM LoginSparesTheUser == Spec => []LoginSparesUserKeys
<1>1. TypeInv /\ FreeInv => LoginSparesUserKeys
    BY Zenon DEF FreeInv, Free, LoginSparesUserKeys, TypeInv, TypeOK, Procs
<1> QED
    BY <1>1, TypeInvariant, FreeInvariant, PTL

-----------------------------------------------------------------------------
\* How far a login that nobody disturbed has looked for a name: those it has
\* passed belong to the user or are broken.
Passed(s) == UserHolds(s) \/ Broken(s)

\* What a login that is alone has seen: nobody else is writing, and the names
\* behind it are taken.
Scanned(p) ==
    /\ \A r \in Logins \ {p} : pc[r] \notin Writing
    /\ pc[p] \in {"find", "inspect"} => \A s \in Slots : s < at[p] => Passed(s)
    /\ pc[p] = "inspect" => sec[at[p]].state # "missing"
    /\ pc[p] = "failed" => \A s \in Slots : Passed(s)

ScanInv == ~overlap => \A p \in Logins : alone[p] => Scanned(p)

\* A login that gave up undisturbed has found every name taken.
LEMMA ScanInvariant == Spec => []ScanInv
<1> USE NamesAssumption DEF hist
<1>1. Init => ScanInv
    BY Zenon DEF Init, ScanInv, Procs
<1>2. TypeInv /\ SerialInv /\ ScanInv /\ [Next]_vars => ScanInv'
  <2> SUFFICES ASSUME TypeInv, SerialInv, ScanInv, [Next]_vars, ~overlap',
                      NEW p \in Logins, alone'[p]
               PROVE  Scanned(p)'
      BY DEF ScanInv
  <2>0. ~overlap
      BY Zenon DEF Next, LoginBegin, FindSecret, InspectCert, TruncateSecret, WriteSecret,
             TruncateCert, WriteCert, LogoutBegin, LogoutReadCert, LogoutReadSecret,
             RemoveSecret, RemoveCert, Crash, UserKeygen, Begin, vars
  <2>1. p \in Procs /\ p \notin Logouts /\ at[p] \in Slots /\ Slots \subseteq Nat
      BY SlotsAssumption DEF Procs, TypeInv, TypeOK, Slots
  <2>2. alone[p] => Scanned(p)
      BY <2>0, Zenon DEF ScanInv
  <2>3. ASSUME UNCHANGED <<sec, cert>> PROVE \A s \in Slots : Passed(s)' <=> Passed(s)
      BY <2>3, Zenon DEF Passed, UserHolds, Broken
  <2>4. ASSUME alone[p], UNCHANGED <<sec, cert, pc[p], at[p]>>,
               \A r \in Logins \ {p} : pc'[r] \in Writing => pc[r] \in Writing
        PROVE  Scanned(p)'
      BY <2>1, <2>2, <2>3, <2>4, Zenon DEF Scanned
  <2>5. CASE LoginBegin(p)
    <3>1. pc'[p] = "find" /\ at'[p] = 1 /\ \A r \in Procs \ {p} : pc'[r] = pc[r]
        BY <2>1, <2>5, Zenon DEF LoginBegin, Begin, Goto, TypeInv, TypeOK
    <3>2. \A r \in Procs \ {p} : pc[r] \in Resting
        BY <2>5, Zenon DEF LoginBegin, Begin
    <3>3. \A r \in Logins \ {p} : pc'[r] \notin Writing
        BY <3>1, <3>2 DEF Procs, Resting, Writing
    <3> QED
        BY <2>1, <3>1, <3>3 DEF Scanned, Slots
  <2>6. CASE FindSecret(p)
    <3>1. /\ UNCHANGED <<sec, cert, at, alone>> /\ pc[p] = "find"
          /\ pc'[p] = IF sec[at[p]].state = "missing" THEN "truncSec" ELSE "inspect"
          /\ \A r \in Procs \ {p} : pc'[r] = pc[r]
        BY <2>1, <2>6 DEF FindSecret, Goto, TypeInv, TypeOK
    <3> QED
        BY <2>2, <2>3, <3>1, Zenon DEF Scanned, Procs
  <2>7. CASE InspectCert(p)
    <3>1. /\ UNCHANGED <<sec, cert, alone>> /\ pc[p] = "inspect" /\ Scanned(p)
          /\ \A r \in Procs \ {p} : pc'[r] = pc[r]
        BY <2>1, <2>2, <2>7, SlotStays DEF InspectCert, Goto, TypeInv, TypeOK
    <3>2. \A r \in Logins \ {p} : pc'[r] \notin Writing
        BY <3>1, Zenon DEF Scanned, Procs
    <3>3. CASE cert[at[p]].comment = "openpubkey"
      <4>1. pc'[p] = "truncSec"
          BY <2>1, <2>7, <3>3 DEF InspectCert, Goto, TypeInv, TypeOK
      <4> QED
          BY <3>2, <4>1, Zenon DEF Scanned
    <3>4. CASE cert[at[p]].comment # "openpubkey"
      <4>1. Passed(at[p])
          BY <3>1, <3>4, Zenon DEF Passed, Broken, Scanned
      <4>0. \A s \in Slots : s < at[p] => Passed(s)
          BY <3>1, Zenon DEF Scanned
      <4>2. \A s \in Slots : s <= at[p] => Passed(s)'
        <5>1. \A s \in Slots : s <= at[p] => s < at[p] \/ s = at[p]
            BY <2>1, SlotsAssumption DEF Slots
        <5> QED
            BY <2>3, <3>1, <4>0, <4>1, <5>1
      <4>3. CASE at[p] < N
        <5>1. at'[p] = at[p] + 1 /\ pc'[p] = "find"
            BY <2>1, <2>7, <3>4, <4>3 DEF InspectCert, NextSlot, Goto, TypeInv, TypeOK
        <5>2. \A s \in Slots : s < at'[p] => s <= at[p]
            BY <2>1, <5>1, SlotsAssumption DEF Slots
        <5> QED
            BY <3>2, <4>2, <5>1, <5>2, Zenon DEF Scanned
      <4>4. CASE ~(at[p] < N)
        <5>1. pc'[p] = "failed"
            BY <2>1, <2>7, <3>4, <4>4 DEF InspectCert, NextSlot, Goto, TypeInv, TypeOK
        <5>2. \A s \in Slots : s <= at[p]
            BY <2>1, <4>4, SlotsAssumption DEF Slots
        <5> QED
            BY <3>2, <4>2, <5>1, <5>2, Zenon DEF Scanned
      <4> QED
          BY <4>3, <4>4, Zenon
    <3> QED
        BY <3>3, <3>4
  <2>8. CASE TruncateSecret(p) \/ WriteSecret(p) \/ TruncateCert(p) \/ WriteCert(p)
    <3>1. /\ alone[p] /\ \A r \in Procs \ {p} : pc'[r] = pc[r]
          /\ pc'[p] \notin {"find", "inspect", "failed"}
        BY <2>1, <2>8, Zenon DEF TruncateSecret, WriteSecret, TruncateCert, WriteCert, SetSec,
           SetCert, Goto, TypeInv, TypeOK
    <3> QED
        BY <2>2, <3>1, Zenon DEF Scanned, Procs
  <2>9. ASSUME NEW r \in Logins, r # p,
               TruncateSecret(r) \/ WriteSecret(r) \/ TruncateCert(r) \/ WriteCert(r)
        PROVE  FALSE
      BY <2>1, <2>9, Zenon DEF TruncateSecret, WriteSecret, TruncateCert, WriteCert, SetSec,
         SetCert
  <2>10. ASSUME NEW r \in Logins, r # p, LoginBegin(r) \/ FindSecret(r) \/ InspectCert(r)
         PROVE  Scanned(p)'
    <3>1. /\ UNCHANGED <<sec, cert>> /\ alone[p] /\ pc'[r] \notin Writing
          /\ \A t \in Procs \ {r} : pc'[t] = pc[t] /\ at'[t] = at[t]
        BY <2>1, <2>10, SlotStays DEF LoginBegin, Begin, FindSecret, InspectCert, Goto,
           TypeInv, TypeOK, Procs, Writing
    <3> QED
        BY <2>1, <2>4, <2>10, <3>1 DEF Procs
  <2>11. ASSUME NEW q \in Logouts, LogoutBegin(q) \/ LogoutReadCert(q) \/ LogoutReadSecret(q)
         PROVE  Scanned(p)'
    <3>1. /\ UNCHANGED <<sec, cert>> /\ alone[p]
          /\ \A r \in Logins : pc'[r] = pc[r] /\ at'[r] = at[r]
        BY <2>1, <2>11, NameStays DEF LogoutBegin, Begin, LogoutReadCert, LogoutReadSecret,
           Goto, TypeInv, TypeOK, Procs
    <3> QED
        BY <2>4, <3>1, Zenon
  <2>12. ASSUME NEW q \in Logouts, RemoveSecret(q) \/ RemoveCert(q) PROVE FALSE
      BY <2>1, <2>12, Zenon DEF RemoveSecret, RemoveCert, SetSec, SetCert
  <2>13. ASSUME NEW r \in Procs, Crash(r) PROVE Scanned(p)'
    <3>1. /\ UNCHANGED <<sec, cert, at, alone>> /\ pc'[r] = "killed"
          /\ \A t \in Procs \ {r} : pc'[t] = pc[t]
        BY <2>13 DEF Crash, Goto, TypeInv, TypeOK
    <3>2. \A t \in Logins \ {p} : pc'[t] \notin Writing
        BY <2>2, <3>1, Zenon DEF Scanned, Procs, Writing
    <3> QED
        BY <2>1, <2>2, <2>3, <3>1, <3>2 DEF Scanned
  <2>14. ASSUME NEW k \in UserKeys, UserKeygen(k) PROVE FALSE
      BY <2>1, <2>14, Zenon DEF UserKeygen
  <2>15. CASE UNCHANGED vars
      BY <2>4, <2>15 DEF vars
  <2> QED
      BY <2>5, <2>6, <2>7, <2>8, <2>9, <2>10, <2>11, <2>12, <2>13, <2>14, <2>15 DEF Next
<1> QED
    BY <1>1, <1>2, TypeInvariant, SerialInvariant, PTL DEF Spec

\* writeKeysToSSHDir says that no default name is free only where it is so: the
\* user's keys and the killed commands together account for every name.
THEOREM FailureMeansFull == Spec => []FailsOnlyWhenFull
<1>1. TypeInv /\ AccidentInv /\ ScanInv => FailsOnlyWhenFull
  <2> DEFINE Held == {s \in Slots : UserHolds(s)}
  <2> SUFFICES ASSUME TypeInv, AccidentInv, ScanInv, NEW p \in Logins, pc[p] = "failed",
                      alone[p], ~overlap
               PROVE  Cardinality(Held) + crashes >= N
      BY DEF FailsOnlyWhenFull
  <2>1. Scanned(p)
      BY Zenon DEF ScanInv
  <2>2. \A s \in Slots : ~Busy(s)
      BY <2>1, Zenon DEF Busy, Scanned, Writing
  <2>3. Slots = Held \cup Lost
      BY <2>1, <2>2 DEF Scanned, Passed, Lost
  <2>4. Cardinality(Slots) = N
      BY SlotsAssumption, FS_Interval DEF Slots
  <2>5. Held \in SUBSET Slots /\ Lost \in SUBSET Slots
      BY Zenon DEF Lost
  <2>6. Cardinality(Held) \in Nat /\ Cardinality(Lost) \in Nat
      BY <2>5, CountNames, Zenon
  <2>7. N <= Cardinality(Held) + Cardinality(Lost)
      BY <2>3, <2>4, <2>5, CountNames, Zenon
  <2>8. Cardinality(Lost) <= crashes /\ crashes \in Nat
      BY BoundsAssumption DEF AccidentInv, TypeInv, TypeOK
  <2> QED
      BY <2>6, <2>7, <2>8, SlotsAssumption
<1> QED
    BY <1>1, TypeInvariant, AccidentInvariant, ScanInvariant, PTL
=============================================================================
