------------------------------ MODULE KeyStore ------------------------------
(***************************************************************************)
(* The default key files of ~/.ssh, shared by opkssh login, its refresh    *)
(* loop, opkssh logout and the user: commands/login.go (writeKeysToSSHDir, *)
(* writeKeys) and commands/logout.go (removeDefaultSSHDirKeys).  A slot is *)
(* a file name such as id_ecdsa with its certificate id_ecdsa-cert.pub.    *)
(* Every system call is a step, processes interleave and may be killed     *)
(* between two steps; a file is truncated before it is written.            *)
(***************************************************************************)
EXTENDS Integers, FiniteSets

CONSTANTS N,            \* the number of default file names of a key type
          Logins,       \* login processes; each has one key pair
          Logouts,      \* logout processes
          UserKeys,     \* keys the user makes without opkssh
          MaxWrites,    \* bound on the certificates that logins write
          MaxCrashes    \* bound on the processes killed

ASSUME SlotsAssumption == N \in Nat \ {0}
ASSUME BoundsAssumption == MaxWrites \in Nat /\ MaxCrashes \in Nat
ASSUME NamesAssumption ==
    /\ Logins \cap UserKeys = {} /\ Logins \cap Logouts = {}
    /\ "nobody" \notin Logins \cup UserKeys

VARIABLES
    sec,        \* [Slots -> the secret key file]
    cert,       \* [Slots -> the certificate file]
    pc,         \* [processes -> the next step]
    at,         \* [processes -> the slot it works on]
    linked,     \* [Logins -> the file it has open still has its name]
    read,       \* [Logouts -> the certificate file it read]
    writes,     \* the certificates that logins began to write
    alone,      \* history: no other opkssh process changed a file since it began
    overlap,    \* history: two opkssh processes were at work at once
    found,      \* history: [UserKeys -> what the user found when making the key]
    crashes

hist == <<overlap, found, crashes>>
vars == <<sec, cert, pc, at, linked, read, writes, alone, hist>>

Slots == 1..N
Procs == Logins \cup Logouts
Keys == Logins \cup UserKeys

\* Files: missing, empty (truncated and not yet written) or complete.
Nobody == "nobody"
NoSec == [state |-> "missing", key |-> Nobody]
NoCert == [state |-> "missing", key |-> Nobody, comment |-> "none"]
EmptySec == [state |-> "empty", key |-> Nobody]
EmptyCert == [state |-> "empty", key |-> Nobody, comment |-> "none"]
SecOf(k) == [state |-> "full", key |-> k]
CertOf(k, comment) == [state |-> "full", key |-> k, comment |-> comment]

Resting == {"new", "done", "failed", "killed"}

Init ==
    /\ sec = [s \in Slots |-> NoSec]
    /\ cert = [s \in Slots |-> NoCert]
    /\ pc = [p \in Procs |-> "new"]
    /\ at = [p \in Procs |-> 1]
    /\ linked = [p \in Logins |-> FALSE]
    /\ read = [q \in Logouts |-> NoCert]
    /\ writes = 0
    /\ alone = [p \in Procs |-> FALSE]
    /\ overlap = FALSE
    /\ found = [k \in UserKeys |-> "free"]
    /\ crashes = 0

Goto(p, label) == pc' = [pc EXCEPT ![p] = label]

SetSec(p, s, file) ==
    /\ sec' = [sec EXCEPT ![s] = file]
    /\ alone' = [q \in Procs |-> alone[q] /\ q = p]
    /\ UNCHANGED cert

SetCert(p, s, file) ==
    /\ cert' = [cert EXCEPT ![s] = file]
    /\ alone' = [q \in Procs |-> alone[q] /\ q = p]
    /\ UNCHANGED sec

Begin(p, label) ==
    /\ Goto(p, label)
    /\ at' = [at EXCEPT ![p] = 1]
    /\ alone' = [alone EXCEPT ![p] = TRUE]
    /\ overlap' = (overlap \/ \E q \in Procs \ {p} : pc[q] \notin Resting)
    /\ UNCHANGED <<sec, cert, linked, read, found, crashes>>

-----------------------------------------------------------------------------
\* login, or one round of LoginWithRefresh, has a certificate to write.
LoginBegin(p) ==
    /\ pc[p] \in {"new", "done"}
    /\ writes < MaxWrites
    /\ writes' = writes + 1
    /\ Begin(p, "find")

NextSlot(p, here) ==
    IF at[p] < N
    THEN at' = [at EXCEPT ![p] = @ + 1] /\ Goto(p, here)
    ELSE UNCHANGED at /\ Goto(p, "failed")

\* Variant of FindSecret with a mistake: a name without certificate is free.
FindCert(p) ==
    /\ pc[p] = "find"
    /\ Goto(p, IF cert[at[p]].state = "missing" THEN "truncSec" ELSE "inspect")
    /\ UNCHANGED <<sec, cert, at, linked, read, writes, alone, hist>>

\* writeKeysToSSHDir: a name without a secret key file is free.
FindSecret(p) ==
    /\ pc[p] = "find"
    /\ Goto(p, IF sec[at[p]].state = "missing" THEN "truncSec" ELSE "inspect")
    /\ UNCHANGED <<sec, cert, at, linked, read, writes, alone, hist>>

\* Variant of InspectCert with a mistake: names in use are never used again.
SkipTaken(p) ==
    /\ pc[p] = "inspect"
    /\ NextSlot(p, "find")
    /\ UNCHANGED <<sec, cert, linked, read, writes, alone, hist>>

\* Otherwise its certificate has to say that opkssh made it.
InspectCert(p) ==
    /\ pc[p] = "inspect"
    /\ IF cert[at[p]].comment = "openpubkey"
       THEN Goto(p, "truncSec") /\ UNCHANGED at
       ELSE NextSlot(p, "find")
    /\ UNCHANGED <<sec, cert, linked, read, writes, alone, hist>>

\* Variant of TruncateSecret with a mistake: a secret key in place is kept.
KeepSecret(p) ==
    /\ pc[p] = "truncSec"
    /\ IF sec[at[p]].state = "full"
       THEN Goto(p, "truncCert") /\ UNCHANGED <<sec, cert, alone, linked>>
       ELSE /\ SetSec(p, at[p], EmptySec)
            /\ linked' = [linked EXCEPT ![p] = TRUE]
            /\ Goto(p, "writeSec")
    /\ UNCHANGED <<at, read, writes, hist>>

\* writeKeys: two WriteFile calls, each of which opens and truncates the file
\* and then writes it, unseen when the name was removed in between.
TruncateSecret(p) ==
    /\ pc[p] = "truncSec"
    /\ SetSec(p, at[p], EmptySec)
    /\ linked' = [linked EXCEPT ![p] = TRUE]
    /\ Goto(p, "writeSec")
    /\ UNCHANGED <<at, read, writes, hist>>

WriteSecret(p) ==
    /\ pc[p] = "writeSec"
    /\ SetSec(p, at[p], IF linked[p] THEN SecOf(p) ELSE sec[at[p]])
    /\ Goto(p, "truncCert")
    /\ UNCHANGED <<at, linked, read, writes, hist>>

TruncateCert(p) ==
    /\ pc[p] = "truncCert"
    /\ SetCert(p, at[p], EmptyCert)
    /\ linked' = [linked EXCEPT ![p] = TRUE]
    /\ Goto(p, "writeCert")
    /\ UNCHANGED <<at, read, writes, hist>>

\* Written over a longer certificate that another process wrote after the
\* truncation, the rest of the longer one becomes part of the comment.
Comments(file) ==
    {"openpubkey"} \cup IF file.state = "full" THEN {"openpubkey..."} ELSE {}

WriteCert(p) ==
    /\ pc[p] = "writeCert"
    /\ \E comment \in Comments(cert[at[p]]) :
          SetCert(p, at[p], IF linked[p] THEN CertOf(p, comment) ELSE cert[at[p]])
    /\ Goto(p, "done")
    /\ UNCHANGED <<at, linked, read, writes, hist>>

-----------------------------------------------------------------------------
LogoutBegin(q) ==
    /\ pc[q] = "new"
    /\ Begin(q, "readCert")
    /\ UNCHANGED writes

\* Variant of NextName with a mistake: the last name is left out.
NextNameButLast(q) ==
    IF at[q] < N - 1
    THEN at' = [at EXCEPT ![q] = @ + 1] /\ Goto(q, "readCert")
    ELSE UNCHANGED at /\ Goto(q, "done")

\* The loop of removeDefaultSSHDirKeys moves on, or ends.
NextName(q) ==
    IF at[q] < N
    THEN at' = [at EXCEPT ![q] = @ + 1] /\ Goto(q, "readCert")
    ELSE UNCHANGED at /\ Goto(q, "done")

\* isOpenpubkeyComment: the comment starts with openpubkey.
IsOpenpubkeyComment(file) == file.comment # "none"

\* Read the certificate; skip the name unless opkssh made it ...
LogoutReadCert(q) ==
    /\ pc[q] = "readCert"
    /\ read' = [read EXCEPT ![q] = cert[at[q]]]
    /\ IF IsOpenpubkeyComment(cert[at[q]])
       THEN Goto(q, "readSec") /\ UNCHANGED at
       ELSE NextName(q)
    /\ UNCHANGED <<sec, cert, linked, writes, alone, hist>>

\* ... read the secret key; skip it unless verifyKeyPairMatch accepts ...
KeyPairMatch(s, c) == s.state = "full" /\ s.key = c.key

\* Variant of LogoutReadSecret with a mistake: any secret key is taken for ours.
LogoutReadAnySecret(q) ==
    /\ pc[q] = "readSec"
    /\ IF sec[at[q]].state = "full"
       THEN Goto(q, "rmSec") /\ UNCHANGED at
       ELSE NextName(q)
    /\ UNCHANGED <<sec, cert, linked, read, writes, alone, hist>>

LogoutReadSecret(q) ==
    /\ pc[q] = "readSec"
    /\ IF KeyPairMatch(sec[at[q]], read[q])
       THEN Goto(q, "rmSec") /\ UNCHANGED at
       ELSE NextName(q)
    /\ UNCHANGED <<sec, cert, linked, read, writes, alone, hist>>

\* Whoever has the removed file open goes on writing to a file without name.
Unlink(s, label) ==
    linked' = [p \in Logins |-> linked[p] /\ ~(at[p] = s /\ pc[p] = label)]

\* Variants of RemoveSecret with a mistake: the certificate goes first, or the
\* secret key stays.
RemoveCertFirst(q) ==
    /\ pc[q] = "rmSec"
    /\ SetCert(q, at[q], NoCert)
    /\ Unlink(at[q], "writeCert")
    /\ Goto(q, "rmCert")
    /\ UNCHANGED <<at, read, writes, hist>>

RemoveNoSecret(q) ==
    /\ pc[q] = "rmSec"
    /\ Goto(q, "rmCert")
    /\ UNCHANGED <<sec, cert, at, linked, read, writes, alone, hist>>

\* ... and remove the secret key first.  A file that is already gone is fine.
RemoveSecret(q) ==
    /\ pc[q] = "rmSec"
    /\ SetSec(q, at[q], NoSec)
    /\ Unlink(at[q], "writeSec")
    /\ Goto(q, "rmCert")
    /\ UNCHANGED <<at, read, writes, hist>>

RemoveCert(q) ==
    /\ pc[q] = "rmCert"
    /\ SetCert(q, at[q], NoCert)
    /\ Unlink(at[q], "writeCert")
    /\ NextName(q)
    /\ UNCHANGED <<read, writes, hist>>

-----------------------------------------------------------------------------
\* The process is killed, or a system call fails and it gives up: both leave
\* what was done so far.
Crash(p) ==
    /\ crashes < MaxCrashes
    /\ pc[p] \notin Resting
    /\ crashes' = crashes + 1
    /\ Goto(p, "killed")
    /\ UNCHANGED <<sec, cert, at, linked, read, writes, alone, overlap, found>>

AtRest == \A p \in Procs : pc[p] \in Resting

\* The user runs ssh-keygen at any moment and under any name; it asks before it
\* overwrites a secret key, and leaves the certificate beside it alone.
UserKeygen(k) ==
    /\ \A s \in Slots : sec[s].key # k
    /\ \E s \in Slots :
          /\ sec' = [sec EXCEPT ![s] = SecOf(k)]
          /\ found' = [found EXCEPT ![k] =
                          IF ~AtRest THEN "work"
                          ELSE IF cert[s].comment = "openpubkey" THEN "cert" ELSE "free"]
    /\ alone' = [p \in Procs |-> FALSE]
    /\ UNCHANGED <<cert, pc, at, linked, read, writes, overlap, crashes>>

Next ==
    \/ \E p \in Logins :
          \/ LoginBegin(p) \/ FindSecret(p) \/ InspectCert(p) \/ TruncateSecret(p)
          \/ WriteSecret(p) \/ TruncateCert(p) \/ WriteCert(p)
    \/ \E q \in Logouts :
          \/ LogoutBegin(q) \/ LogoutReadCert(q) \/ LogoutReadSecret(q)
          \/ RemoveSecret(q) \/ RemoveCert(q)
    \/ \E p \in Procs : Crash(p)
    \/ \E k \in UserKeys : UserKeygen(k)

Spec == Init /\ [][Next]_vars

-----------------------------------------------------------------------------
SecFile == [state : {"missing", "empty", "full"}, key : Keys \cup {Nobody}]
CertFile == [state : {"missing", "empty", "full"}, key : Keys \cup {Nobody},
             comment : {"none", "openpubkey", "openpubkey..."}]

\* The state of the two files of every name, the processes and the histories.
TypeOK ==
    /\ sec \in [Slots -> SecFile]
    /\ cert \in [Slots -> CertFile]
    /\ pc \in [Procs -> Resting \cup {"find", "inspect", "truncSec", "writeSec",
                           "truncCert", "writeCert", "readCert", "readSec",
                           "rmSec", "rmCert"}]
    /\ at \in [Procs -> Slots]
    /\ linked \in [Logins -> BOOLEAN]
    /\ read \in [Logouts -> CertFile]
    /\ writes \in 0..MaxWrites
    /\ alone \in [Procs -> BOOLEAN]
    /\ overlap \in BOOLEAN
    /\ found \in [UserKeys -> {"free", "cert", "work"}]
    /\ crashes \in 0..MaxCrashes

UserHolds(s) == sec[s].key \in UserKeys

\* A secret key file that is not the user's and has no certificate of its own.
Broken(s) ==
    /\ sec[s].state # "missing"
    /\ ~ UserHolds(s)
    /\ ~ (cert[s].comment = "openpubkey" /\ KeyPairMatch(sec[s], cert[s]))

\* When login or a refresh has returned and no other opkssh command has
\* changed a file since it began, the name it chose holds its secret key and
\* the certificate of that key, whatever earlier commands left in the files.
LoginLeavesPair ==
    \A p \in Logins :
        pc[p] = "done" /\ alone[p] =>
            sec[at[p]] = SecOf(p) /\ cert[at[p]] = CertOf(p, "openpubkey")

\* Names are lost only to accidents: if commands never overlapped, at most one
\* name per killed command holds a secret key without its certificate, which
\* the next login passes over and the next logout skips.
BrokenByAccident ==
    AtRest /\ ~overlap => Cardinality({s \in Slots : Broken(s)}) <= crashes

\* "no default ssh key file free for openpubkey" is true: a login that nobody
\* disturbed and that found no name did find every name taken, by a key of
\* the user or by the remains of a command that was killed.
FailsOnlyWhenFull ==
    \A p \in Logins :
        pc[p] = "failed" /\ alone[p] /\ ~overlap =>
            Cardinality({s \in Slots : UserHolds(s)}) + crashes >= N

\* An undisturbed logout leaves no secret key that has its own certificate:
\* only broken names and keys of the user remain.
LogoutRemovesPairs ==
    \A q \in Logouts :
        pc[q] = "done" /\ alone[q] =>
            \A s \in Slots : sec[s].state # "missing" => UserHolds(s) \/ Broken(s)

\* logout removes a key the user made only if the user made it while an opkssh
\* command was at work: otherwise verifyKeyPairMatch tells it apart, also beside
\* a certificate that opkssh left behind, in every interleaving with logins and
\* other logouts and after any kills.
LogoutSparesUserKeys ==
    \A q \in Logouts :
        pc[q] = "rmSec" /\ UserHolds(at[q]) => found[sec[at[q]].key] = "work"

\* login replaces a key the user made only if the user made it while an opkssh
\* command was at work, or beside a certificate of opkssh: opkssh itself never
\* puts a certificate beside a key of the user that had none, not with commands
\* that overlap and not with commands that are killed.
LoginSparesUserKeys ==
    \A p \in Logins :
        pc[p] = "truncSec" /\ UserHolds(at[p]) => found[sec[at[p]].key] # "free"

\* removeKeyPair: "The secret key is removed first so that if an error occurs
\* removing the certificate, the secret key will not be left orphaned on disk."
\* A certificate file disappears only when its secret key is gone, or replaced
\* by the user, as long as commands do not overlap.
CertGoesLast ==
    [][\A s \in Slots :
          cert[s] # NoCert /\ cert'[s] = NoCert /\ ~overlap =>
              sec[s] = NoSec \/ UserHolds(s)]_vars

\* writeKeysToSSHDir: "If the ssh key file does exist, check if it was generated
\* by openpubkey, if it was then it is safe to overwrite".  It looks at the
\* certificate only, which ssh-keygen and a killed logout leave behind.  (A key
\* that the user makes while opkssh is at work is not meant.)
OverwritesOnlyItsOwn ==
    \A p \in Logins :
        pc[p] = "truncSec" /\ UserHolds(at[p]) => found[sec[at[p]].key] = "work"
=============================================================================
