---------------------------- MODULE IdentityDir -----------------------------
(***************************************************************************)
(* The identity directory ~/.ssh/opkssh: opkssh login --configure makes it *)
(* and includes its config file from ~/.ssh/config, later logins write one *)
(* key pair per identity there and list it in the config file, logout      *)
(* removes both.  commands/login.go (configureSSH, checkSSHConfigured,     *)
(* writeKeysToOpkSSHDir, makeSSHKeyFileName) and commands/logout.go        *)
(* (removeSpecificKey, removeOpkSSHDirKeys, removeFromOpkSSHConfig).       *)
(* A config file is a set of lines; every system call is a step.           *)
(***************************************************************************)
EXTENDS Integers, Sequences, FiniteSets

CONSTANTS Logins,       \* login processes; each has one key pair
          Logouts,      \* logout processes
          Configurers,  \* login --configure processes
          Issuer,       \* [Logins -> the issuer of its ID token, without https://]
          Audience,     \* [Logins -> the audience of its ID token]
          Chars,        \* the characters of issuers and audiences
          Safe,         \* those a file name may hold
          Cut,          \* characters of the audience that go into a file name
          UserFile,     \* a file of the directory that holds a key of the user
          Noted,        \* names whose path occurs in what the user wrote
          MaxCommands,  \* bound on the commands begun and refreshes made
          MaxCrashes    \* bound on the processes killed

Procs == Logins \cup Logouts \cup Configurers

ASSUME BoundsAssumption == MaxCommands \in Nat /\ MaxCrashes \in Nat /\ Cut \in Nat
ASSUME TextAssumption == \A p \in Logins : Issuer[p] \in Seq(Chars) /\ Audience[p] \in Seq(Chars)
ASSUME ProcsAssumption ==
    /\ Logins \cap Logouts = {} /\ (Logins \cup Logouts) \cap Configurers = {}
    /\ "user" \notin Logins /\ "nobody" \notin Logins

VARIABLES
    ssh,        \* ~/.ssh/config: does it exist, and its lines
    config,     \* ~/.ssh/opkssh/config: does it exist, and its lines
    sec,        \* [Names -> the secret key file]
    cert,       \* [Names -> the certificate file]
    pc,         \* [processes -> the next step]
    at,         \* [Logouts -> the name it works on]
    todo,       \* [Logouts -> names left to look at]
    read,       \* [processes -> the lines it read]
    readKey,    \* [Logouts -> the certificate file it read]
    linked,     \* [Logins -> the file it has open still has its name]
    commands,   \* commands begun and refreshes made so far
    single,     \* history: logouts of one key with -i that removed it
    removed,    \* history: [Logouts -> names a full logout removed]
    alone,      \* history: no other opkssh process wrote or removed a file since it began
    overlap,    \* history: two opkssh processes were at work at once
    had,        \* history: the config files that have lines of the user
    crashes

files == <<ssh, config, sec, cert>>
local == <<at, todo, read, readKey, linked>>
past == <<single, removed, had, crashes>>
hist == <<commands, past>>
vars == <<files, local, hist, pc, alone, overlap>>

\* makeSSHKeyFileName: issuer, dash, the start of the audience; every run of
\* other characters becomes one underscore, after the cut.
Cleaned(s) ==
    LET kept == {i \in 1..Len(s) : s[i] \in Safe \/ i = 1 \/ s[i - 1] \in Safe}
        nth(j) == CHOOSE i \in kept : Cardinality({k \in kept : k <= i}) = j
    IN  [j \in 1..Cardinality(kept) |-> IF s[nth(j)] \in Safe THEN s[nth(j)] ELSE "_"]

KeyFileName(p) ==
    LET aud == Audience[p]
    IN  Cleaned(Issuer[p] \o <<"-">> \o IF Len(aud) > Cut THEN SubSeq(aud, 1, Cut) ELSE aud)

Name == [p \in Logins |-> KeyFileName(p)]
KeyNames == {Name[p] : p \in Logins}
Names == KeyNames \cup {UserFile}

\* Lines: IdentityFile with a path, the rest of a line after a garbled write,
\* the Include directive, and what the user wrote, which may hold a path too,
\* say in a comment.
IdLine(n) == [kind |-> "IdentityFile", name |-> n]
Rest(l) == [kind |-> "rest", name |-> l.name]
Include == [kind |-> "Include", name |-> <<>>]
Own == [kind |-> "own", name |-> <<>>]
Note(n) == [kind |-> "own", name |-> n]
NameLines == [kind : {"IdentityFile", "rest", "own"}, name : KeyNames]
Lines == NameLines \cup {Include, Own}

\* The text of the path s starts the text of the path t.
IsPrefix(s, t) == s = t \/ (Len(s) < Len(t) /\ SubSeq(t, 1, Len(s)) = s)

\* Variant of Mentions with a mistake: a shorter path is enough.
MentionsStart(lines, n) == \E l \in lines \cap NameLines : IsPrefix(l.name, n)

\* strings.Contains: the path of n occurs anywhere in the text, as a path of its
\* own or as the start of a longer one.
Mentions(lines, n) == \E l \in lines \cap NameLines : IsPrefix(n, l.name)

NoFile == [exists |-> FALSE, lines |-> {}]
Text(lines) == [exists |-> TRUE, lines |-> lines]

Nobody == "nobody"
User == "user"
NoSec == [state |-> "missing", key |-> Nobody]
NoCert == [state |-> "missing", key |-> Nobody, ours |-> FALSE]
EmptySec == [state |-> "empty", key |-> Nobody]
EmptyCert == [state |-> "empty", key |-> Nobody, ours |-> FALSE]
SecOf(k) == [state |-> "full", key |-> k]
CertOf(k, ours) == [state |-> "full", key |-> k, ours |-> ours]

\* new, or over; auth waits for the provider or for the next refresh.
Resting == {"new", "stat", "auth", "done", "failed", "elsewhere", "killed"}
AtRest == \A p \in Procs : pc[p] \in Resting

\* The directory may be configured already, with lines of the user, and a key of
\* the user that has no certificate or a copy of an opkssh certificate beside it.
Init ==
    /\ \/ ssh \in {NoFile, Text({Own})} /\ config = NoFile
       \/ /\ ssh = Text({Own, Include})
          /\ \E names \in SUBSET (Noted \cap KeyNames) :
                config = Text({Own} \cup {Note(n) : n \in names})
    /\ sec = [n \in Names |-> IF n = UserFile /\ config.exists THEN SecOf(User) ELSE NoSec]
    /\ \E c \in {NoCert, CertOf(Nobody, TRUE)} :
          cert = [n \in Names |-> IF n = UserFile /\ config.exists THEN c ELSE NoCert]
    /\ pc = [p \in Procs |-> "new"]
    /\ at = [q \in Logouts |-> UserFile]
    /\ todo = [q \in Logouts |-> {}]
    /\ read = [p \in Procs |-> {}]
    /\ readKey = [q \in Logouts |-> NoCert]
    /\ linked = [p \in Logins |-> FALSE]
    /\ commands = 0
    /\ single = {}
    /\ removed = [q \in Logouts |-> {}]
    /\ alone = [p \in Procs |-> FALSE]
    /\ overlap = FALSE
    /\ had = [ssh |-> Own \in ssh.lines, config |-> Own \in config.lines]
    /\ crashes = 0

Goto(p, label) == pc' = [pc EXCEPT ![p] = label]

\* The process changes a file: nobody else has been alone since.
Changes(p) == alone' = [q \in Procs |-> alone[q] /\ q = p]

\* One more command, or round of the refresh loop.
Counted == commands < MaxCommands /\ commands' = commands + 1

\* A process starts to work on the files.
Begin(p, label) ==
    /\ Goto(p, label)
    /\ alone' = [alone EXCEPT ![p] = TRUE]
    /\ overlap' = (overlap \/ \E q \in Procs \ {p} : pc[q] \notin Resting)

-----------------------------------------------------------------------------
\* Variant of CreateConfig with a mistake: the file is truncated.
CreateConfigEmpty(p) ==
    /\ pc[p] = "new"
    /\ Begin(p, "readSsh")
    /\ Counted
    /\ config' = Text({})
    /\ UNCHANGED <<ssh, sec, cert, local, past>>

\* configureSSH: make the directory and the config file, without truncating it ...
CreateConfig(p) ==
    /\ pc[p] = "new"
    /\ Begin(p, "readSsh")
    /\ Counted
    /\ config' = Text(config.lines)
    /\ UNCHANGED <<ssh, sec, cert, local, past>>

\* ... read ~/.ssh/config, where a missing file is an empty one ...
ReadSsh(p) ==
    /\ pc[p] = "readSsh"
    /\ read' = [read EXCEPT ![p] = ssh.lines]
    /\ Goto(p, IF Include \in ssh.lines THEN "done" ELSE "truncSsh")
    /\ UNCHANGED <<files, at, todo, readKey, linked, hist, alone, overlap>>

TruncateSsh(p) ==
    /\ pc[p] = "truncSsh"
    /\ ssh' = Text({})
    /\ Changes(p)
    /\ Goto(p, "writeSsh")
    /\ UNCHANGED <<config, sec, cert, local, hist, overlap>>

\* Written over a longer text that another process wrote after the truncation,
\* the end of the longer one stays, and may begin in the middle of a line.
Written(new, old) ==
    {new \cup tail : tail \in SUBSET old}
        \cup {new \cup tail \cup {Rest(l)} : tail \in SUBSET old, l \in old \cap NameLines}

\* ... and write it again behind the directive.  The command ends here: it
\* does not log in.
WriteSsh(p) ==
    /\ pc[p] = "writeSsh"
    /\ \E lines \in Written(read[p] \cup {Include}, ssh.lines) : ssh' = Text(lines)
    /\ Changes(p)
    /\ Goto(p, "done")
    /\ UNCHANGED <<config, sec, cert, local, hist, overlap>>

-----------------------------------------------------------------------------
\* checkSSHConfigured: the directory is used when ~/.ssh/config includes it and
\* its config file is there; otherwise the keys go to a default name.
CheckInclude(p) ==
    /\ pc[p] = "new"
    /\ Counted
    /\ Goto(p, IF Include \in ssh.lines THEN "stat" ELSE "elsewhere")
    /\ UNCHANGED <<files, local, past, alone, overlap>>

StatConfig(p) ==
    /\ pc[p] = "stat"
    /\ Goto(p, IF config.exists THEN "auth" ELSE "elsewhere")
    /\ UNCHANGED <<files, local, hist, alone, overlap>>

\* login, or one round of LoginWithRefresh, has a certificate to write; the
\* check above is not made again.
WriteBegin(p) ==
    /\ \/ pc[p] = "auth" /\ UNCHANGED commands
       \/ pc[p] = "done" /\ Counted
    /\ Begin(p, "readConfig")
    /\ UNCHANGED <<files, local, past>>

\* Variant of LoginReadConfig with a mistake: without config file, only the keys
\* are written.
LoginSkipsConfig(p) ==
    /\ pc[p] = "readConfig"
    /\ read' = [read EXCEPT ![p] = config.lines]
    /\ Goto(p, IF config.exists THEN "truncConfig" ELSE "truncSec")
    /\ UNCHANGED <<files, at, todo, readKey, linked, hist, alone, overlap>>

\* writeKeysToOpkSSHDir: read the config file, or fail ...
LoginReadConfig(p) ==
    /\ pc[p] = "readConfig"
    /\ read' = [read EXCEPT ![p] = config.lines]
    /\ Goto(p, IF config.exists THEN "truncConfig" ELSE "failed")
    /\ UNCHANGED <<files, at, todo, readKey, linked, hist, alone, overlap>>

TruncateConfig(p) ==
    /\ pc[p] = "truncConfig"
    /\ config' = Text({})
    /\ Changes(p)
    /\ Goto(p, "writeConfig")
    /\ UNCHANGED <<ssh, sec, cert, local, hist, overlap>>

\* ... write it again, with a line for the key unless its path occurs already ...
Listing(p) ==
    read[p] \cup IF Mentions(read[p], Name[p]) THEN {} ELSE {IdLine(Name[p])}

LoginWriteConfig(p) ==
    /\ pc[p] = "writeConfig"
    /\ \E lines \in Written(Listing(p), config.lines) : config' = Text(lines)
    /\ Changes(p)
    /\ Goto(p, "truncSec")
    /\ UNCHANGED <<ssh, sec, cert, local, hist, overlap>>

\* ... and the two key files (writeKeysComment), whatever lies under the name:
\* each is truncated and then written, unseen when the name was removed.
TruncateSecret(p) ==
    /\ pc[p] = "truncSec"
    /\ sec' = [sec EXCEPT ![Name[p]] = EmptySec]
    /\ linked' = [linked EXCEPT ![p] = TRUE]
    /\ Changes(p)
    /\ Goto(p, "writeSec")
    /\ UNCHANGED <<ssh, config, cert, at, todo, read, readKey, hist, overlap>>

WriteSecret(p) ==
    /\ pc[p] = "writeSec"
    /\ sec' = [sec EXCEPT ![Name[p]] = IF linked[p] THEN SecOf(p) ELSE @]
    /\ Changes(p)
    /\ Goto(p, "truncCert")
    /\ UNCHANGED <<ssh, config, cert, local, hist, overlap>>

TruncateCert(p) ==
    /\ pc[p] = "truncCert"
    /\ cert' = [cert EXCEPT ![Name[p]] = EmptyCert]
    /\ linked' = [linked EXCEPT ![p] = TRUE]
    /\ Changes(p)
    /\ Goto(p, "writeCert")
    /\ UNCHANGED <<ssh, config, sec, at, todo, read, readKey, hist, overlap>>

\* Its comment begins with openpubkey.
WriteCert(p) ==
    /\ pc[p] = "writeCert"
    /\ cert' = [cert EXCEPT ![Name[p]] = IF linked[p] THEN CertOf(p, TRUE) ELSE @]
    /\ Changes(p)
    /\ Goto(p, "done")
    /\ UNCHANGED <<ssh, config, sec, local, hist, overlap>>

-----------------------------------------------------------------------------
\* removeOpkSSHDirKeys: the names that have a secret key file when it starts, in
\* any order (the other files of the directory are passed over) ...
LogoutBegin(q) ==
    /\ pc[q] = "new"
    /\ Counted
    /\ Begin(q, "next")
    /\ todo' = [todo EXCEPT ![q] = {n \in Names : sec[n].state # "missing"}]
    /\ UNCHANGED <<files, at, read, readKey, linked, past>>

NextName(q) ==
    /\ pc[q] = "next"
    /\ \/ /\ todo[q] = {}
          /\ Goto(q, "done")
          /\ UNCHANGED <<at, todo>>
       \/ \E n \in todo[q] :
             /\ at' = [at EXCEPT ![q] = n]
             /\ todo' = [todo EXCEPT ![q] = @ \ {n}]
             /\ Goto(q, "readCert")
    /\ UNCHANGED <<files, read, readKey, linked, hist, alone, overlap>>

\* removeSpecificKey: logout -i looks at one name.
LogoutOneBegin(q) ==
    /\ pc[q] = "new"
    /\ Counted
    /\ Begin(q, "readCertOne")
    /\ \E n \in Names : at' = [at EXCEPT ![q] = n]
    /\ UNCHANGED <<files, todo, read, readKey, linked, past>>

\* ... passes over a name, or fails with -i, unless the certificate can be read
\* and its comment begins with openpubkey ...
ReadCert(q, here, next, otherwise) ==
    /\ pc[q] = here
    /\ readKey' = [readKey EXCEPT ![q] = cert[at[q]]]
    /\ Goto(q, IF cert[at[q]].ours THEN next ELSE otherwise)
    /\ UNCHANGED <<files, at, todo, read, linked, hist, alone, overlap>>

\* ... and verifyKeyPairMatch finds it made for the secret key ...
KeyPairMatch(s, c) == s.state = "full" /\ s.key = c.key

ReadSecret(q, here, next, otherwise) ==
    /\ pc[q] = here
    /\ Goto(q, IF KeyPairMatch(sec[at[q]], readKey[q]) THEN next ELSE otherwise)
    /\ UNCHANGED <<files, local, hist, alone, overlap>>

LogoutReadCert(q) ==
    \/ ReadCert(q, "readCert", "readSec", "next")
    \/ ReadCert(q, "readCertOne", "readSecOne", "failed")

LogoutReadSecret(q) ==
    \/ ReadSecret(q, "readSec", "rmSec", "next")
    \/ ReadSecret(q, "readSecOne", "rmSecOne", "failed")

\* Whoever has the removed file open goes on writing to a file without name.
Unlink(n, label) ==
    linked' = [p \in Logins |-> linked[p] /\ ~(Name[p] = n /\ pc[p] = label)]

\* removeKeyPair: ... removes the secret key, then the certificate ...
RemoveSecret(q) ==
    /\ \/ pc[q] = "rmSec" /\ Goto(q, "rmCert")
       \/ pc[q] = "rmSecOne" /\ Goto(q, "rmCertOne")
    /\ sec' = [sec EXCEPT ![at[q]] = NoSec]
    /\ Unlink(at[q], "writeSec")
    /\ Changes(q)
    /\ UNCHANGED <<ssh, config, cert, at, todo, read, readKey, hist, overlap>>

RemoveCert(q) ==
    /\ \/ /\ pc[q] = "rmCert" /\ Goto(q, "readLines")
          /\ removed' = [removed EXCEPT ![q] = @ \cup {at[q]}]
          /\ UNCHANGED single
       \/ /\ pc[q] = "rmCertOne" /\ Goto(q, "done")
          /\ single' = single \cup {q}
          /\ UNCHANGED removed
    /\ cert' = [cert EXCEPT ![at[q]] = NoCert]
    /\ Unlink(at[q], "writeCert")
    /\ Changes(q)
    /\ UNCHANGED <<ssh, config, sec, at, todo, read, readKey, commands, had, crashes, overlap>>

\* Variant of LogoutReadConfig with a mistake: the line stays.
LogoutKeepsLine(q) ==
    /\ pc[q] = "readLines"
    /\ Goto(q, "next")
    /\ UNCHANGED <<files, local, hist, alone, overlap>>

\* removeFromOpkSSHConfig, which only the full logout calls: ... and the line of
\* the key; without a config file there is nothing to clean up.
LogoutReadConfig(q) ==
    /\ pc[q] = "readLines"
    /\ read' = [read EXCEPT ![q] = config.lines]
    /\ Goto(q, IF config.exists THEN "truncLines" ELSE "next")
    /\ UNCHANGED <<files, at, todo, readKey, linked, hist, alone, overlap>>

LogoutTruncateConfig(q) ==
    /\ pc[q] = "truncLines"
    /\ config' = Text({})
    /\ Changes(q)
    /\ Goto(q, "writeLines")
    /\ UNCHANGED <<ssh, sec, cert, local, hist, overlap>>

LogoutWriteConfig(q) ==
    /\ pc[q] = "writeLines"
    /\ \E lines \in Written(read[q] \ {IdLine(at[q])}, config.lines) : config' = Text(lines)
    /\ Changes(q)
    /\ Goto(q, "next")
    /\ UNCHANGED <<ssh, sec, cert, local, hist, overlap>>

-----------------------------------------------------------------------------
\* The process is killed, or a system call fails and it gives up: both leave
\* what was done so far.
Crash(p) ==
    /\ crashes < MaxCrashes
    /\ pc[p] \notin Resting
    /\ crashes' = crashes + 1
    /\ Goto(p, "killed")
    /\ UNCHANGED <<files, local, commands, single, removed, had, alone, overlap>>

\* The user removes the directory while no opkssh command is at work; one may
\* wait for the provider.
UserRemovesDir ==
    /\ AtRest
    /\ config.exists
    /\ config' = NoFile
    /\ sec' = [n \in Names |-> NoSec]
    /\ cert' = [n \in Names |-> NoCert]
    /\ had' = [had EXCEPT !.config = FALSE]
    /\ alone' = [p \in Procs |-> FALSE]
    /\ UNCHANGED <<ssh, local, commands, single, removed, crashes, pc, overlap>>

Next ==
    \/ \E p \in Configurers :
          CreateConfig(p) \/ ReadSsh(p) \/ TruncateSsh(p) \/ WriteSsh(p)
    \/ \E p \in Logins :
          \/ CheckInclude(p) \/ StatConfig(p) \/ WriteBegin(p) \/ LoginReadConfig(p)
          \/ TruncateConfig(p) \/ LoginWriteConfig(p) \/ TruncateSecret(p)
          \/ WriteSecret(p) \/ TruncateCert(p) \/ WriteCert(p)
    \/ \E q \in Logouts :
          \/ LogoutBegin(q) \/ NextName(q) \/ LogoutOneBegin(q) \/ LogoutReadCert(q)
          \/ LogoutReadSecret(q) \/ RemoveSecret(q) \/ RemoveCert(q)
          \/ LogoutReadConfig(q) \/ LogoutTruncateConfig(q) \/ LogoutWriteConfig(q)
    \/ \E p \in Procs : Crash(p)
    \/ UserRemovesDir

Spec == Init /\ [][Next]_vars

-----------------------------------------------------------------------------
TextFile == [exists : BOOLEAN, lines : SUBSET Lines]
Holders == Logins \cup {Nobody, User}
SecFile == [state : {"missing", "empty", "full"}, key : Holders]
CertFile == [state : {"missing", "empty", "full"}, key : Holders, ours : BOOLEAN]
LoginSteps == {"readConfig", "truncConfig", "writeConfig", "truncSec", "writeSec",
               "truncCert", "writeCert"}
LogoutSteps == {"next", "readCert", "readSec", "rmSec", "rmCert", "readLines",
                "truncLines", "writeLines"}
OneSteps == {"readCertOne", "readSecOne", "rmSecOne", "rmCertOne"}
ConfigureSteps == {"readSsh", "truncSsh", "writeSsh"}

\* The state of the files, of the processes and of the histories.
TypeOK ==
    /\ ssh \in TextFile /\ config \in TextFile
    /\ sec \in [Names -> SecFile] /\ cert \in [Names -> CertFile]
    /\ pc \in [Procs -> Resting \cup LoginSteps \cup LogoutSteps \cup OneSteps
                            \cup ConfigureSteps]
    /\ at \in [Logouts -> Names] /\ todo \in [Logouts -> SUBSET Names]
    /\ read \in [Procs -> SUBSET Lines] /\ readKey \in [Logouts -> CertFile]
    /\ linked \in [Logins -> BOOLEAN] /\ commands \in 0..MaxCommands
    /\ single \in SUBSET Logouts /\ removed \in [Logouts -> SUBSET Names]
    /\ alone \in [Procs -> BOOLEAN] /\ overlap \in BOOLEAN
    /\ had \in [ssh : BOOLEAN, config : BOOLEAN] /\ crashes \in 0..MaxCrashes

Listed(n) == IdLine(n) \in config.lines

\* A secret key of opkssh with its certificate.
Pair(n) == sec[n].key \in Logins /\ cert[n].ours /\ KeyPairMatch(sec[n], cert[n])

\* Another line than its own holds the path of n: a longer name, a line of the
\* user, or the rest of a line.  strings.Contains takes it for the line of n, and
\* ssh does not.
Shadowed(n) ==
    \E l \in config.lines \cap NameLines : l # IdLine(n) /\ IsPrefix(n, l.name)

\* When login or a refresh has returned and no other opkssh command touched
\* the files since it began, its pair lies under its name and the config file
\* lists the name, whatever lay there before and whatever overlapping or killed
\* commands did to the lines.  The one exception is a name that login took for
\* listed because another line holds its path.
LoginIsUsable ==
    \A p \in Logins :
        LET n == Name[p] IN
        pc[p] = "done" /\ alone[p] =>
            /\ sec[n] = SecOf(p) /\ cert[n] = CertOf(p, TRUE)
            /\ Listed(n) \/ Shadowed(n)

\* An undisturbed full logout leaves no opkssh pair in the directory, and no
\* line for the pairs it removed.
LogoutClears ==
    \A q \in Logouts :
        pc[q] = "done" /\ alone[q] /\ q \notin single =>
            /\ \A n \in Names : ~ Pair(n)
            /\ \A n \in removed[q] : ~ Listed(n)

\* Lines that name no key are only left by commands that were killed and by
\* logout -i, which does not touch the config file: one line each.
DanglingCounted ==
    AtRest /\ ~overlap =>
        Cardinality({n \in KeyNames : Listed(n) /\ sec[n].state = "missing"})
            <= crashes + Cardinality(single)

\* Unless commands overlapped or were killed, the config file, which is written
\* before the pair and cleaned after it, has the IdentityFile line of every pair.
\* A pair without that line, which ssh does not find, has its path in another
\* line still: that of a longer name, also when logout -i has removed the longer
\* name's pair, or a line of the user.
PairsAreListed ==
    AtRest /\ ~overlap /\ crashes = 0 =>
        \A n \in Names : Pair(n) => Listed(n) \/ Shadowed(n)

\* Rewriting the two config files loses no line of the user, unless a command
\* is killed between truncating a file and writing it, or two overlap.
UserLinesKept ==
    AtRest /\ ~overlap /\ crashes = 0 =>
        /\ had.ssh => Own \in ssh.lines
        /\ had.config => Own \in config.lines
=============================================================================
