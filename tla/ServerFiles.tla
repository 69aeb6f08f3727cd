---------------------------- MODULE ServerFiles ----------------------------
(***************************************************************************)
(* The administrator's side of the server: the files under /etc/opk, the   *)
(* command "opkssh permissions fix" (and install) that repairs their       *)
(* permissions one system call after the other, "opkssh permissions        *)
(* check" that lists what is wrong, and "opkssh audit" that reads the      *)
(* policy files and validates every line against the providers.            *)
(*                                                                         *)
(* Files.  policy, providers and config are the three files of /etc/opk,   *)
(* dir is /etc/opk/policy.d, plugin a .yml file in it and home the         *)
(* ~/.opk/auth_id of one account.  attr gives each its existence, mode,    *)
(* owner and group; text gives the lines of the three files audit reads,   *)
(* as sets of the records of PolicyRules.  An issuer is a URL [host,       *)
(* https, slash]: slash says that it ends with "/", and NoIssuer is "".    *)
(*                                                                         *)
(* Other programs and people change the files between the system calls of  *)
(* a command (Retouch, Rewrite); fixSolo and auditSolo remember whether    *)
(* that happened.  A behaviour has at most one fix and, after it, one      *)
(* audit: audit changes no file, and what a fix running beside it would do *)
(* is a Retouch.  Any system call may fail (Accident), a look at a file    *)
(* that is there included; the code takes most failing looks for a missing *)
(* file, and misplanned, blind and missed remember which.  The looks of    *)
(* the planning phase are one step, and so are those of audit at one       *)
(* file.  Windows ACLs are left out.                                       *)
(***************************************************************************)
EXTENDS PolicyRules, FiniteSets

CONSTANTS
    Found,        \* for each file, the attributes it may be found with
    Texts,        \* for each file of lines, the contents it may be given
    Starts,       \* the contents a behaviour may start from
    MaxTouches,   \* bound: changes from outside in one behaviour
    MaxFailures   \* bound: failing system calls in one behaviour

Files == {"policy", "providers", "config", "dir", "plugin", "home"}
TextFiles == {"policy", "providers", "home"}
Modes == {"600", "640", "644", "700", "750", "755", "777"}
Owners == {"root", "opksshuser", "alice"}
Groups == {"root", "opksshuser", "alice"}
Missing == [exists |-> FALSE, mode |-> "600", owner |-> "root", group |-> "root"]
Attrs == {Missing} \cup
         [exists : {TRUE}, mode : Modes, owner : Owners, group : Groups]

ASSUME FoundAssumption == \A f \in Files : Found[f] \subseteq Attrs
ASSUME StartsAssumption == \A t \in Starts : t = [f \in TextFiles |-> t[f]]
ASSUME BoundsAssumption == MaxTouches \in Nat /\ MaxFailures \in Nat

VARIABLES
    attr,       \* attr[f]: existence, mode, owner, group
    text,       \* text[f]: the lines of f, {} when it does not exist
    pc,         \* where the fix command is
    cur,        \* the file its chmod and chown are working on
    opt,        \* its options and who runs it
    planned,    \* the operations it has shown to the administrator
    tried,      \* the operations it has carried out or failed to
    errs,       \* the operations that failed (errorsFound)
    exit,       \* its result: "none" while it runs, then "ok" or "error"
    misplanned, \* files that were there when a look of the planning failed
    blind,      \* files that were there when a look of the execution failed
    fixSolo,    \* nobody else has changed a file since it planned
    apc,        \* where the audit command is
    issuers,    \* the issuers of the providers file as audit read it
    rows,       \* the statuses of the lines validated so far
    badFile,    \* audit noticed a file it could not read, or wrong permissions
    homes,      \* audit has looked for the home policy
    missed,     \* files that were there when audit's look at them failed
    auditExit,  \* audit's result, as exit
    auditSolo,  \* no file has changed since audit began
    touches, failures

disk == <<attr, text>>
fixing == <<pc, cur, opt, planned, tried, errs, exit, misplanned, blind>>
auditing == <<apc, issuers, rows, badFile, homes, missed,
              auditExit>>
vars == <<disk, fixing, fixSolo, auditing, auditSolo, touches, failures>>

-----------------------------------------------------------------------------
(***************************************************************************)
(* What the code requires of a file (files.RequiredPerms), what the checks *)
(* accept, and what the loaders of opkssh verify, running as opksshuser,   *)
(* accept and can read.                                                    *)
(***************************************************************************)
EtcFiles == {"policy", "providers", "config"}

RequiredMode(f) ==
    IF f = "home" THEN "600" ELSE IF f = "dir" THEN "750" ELSE "640"

\* "" stands for no requirement.
RequiredOwner(f) == IF f = "home" THEN "" ELSE "root"
RequiredGroupLikePlugins(f) == IF f = "policy" THEN "opksshuser" ELSE ""
RequiredGroup(f) == IF f \in EtcFiles THEN "opksshuser" ELSE ""

\* PermsChecker.CheckPerm
CheckPerm(a, modes, owner, group) ==
    /\ a.exists
    /\ a.mode \in modes
    /\ owner \in {"", a.owner}
    /\ group \in {"", a.group}

\* commands.CheckFilePermissions of an existing file reports no PermsErr; Check
\* accepts for policy.d every mode that loadPlugins accepts.
PolicyDirPerms == {"700", "750", "755"}

PermsRight(f) ==
    CheckPerm(attr[f], IF f = "dir" THEN PolicyDirPerms ELSE {RequiredMode(f)},
              RequiredOwner(f), RequiredGroup(f))

\* PermissionsCmd.Check: the problems it lists.  A missing config.yml is fine;
\* plugin files are not looked at.
CheckProblems ==
    {<<f, "missing">> : f \in {g \in {"policy", "providers", "dir"} : ~attr[g].exists}}
    \cup {<<f, "perms">> : f \in {g \in EtcFiles \cup {"dir"} :
                                attr[g].exists /\ ~PermsRight(g)}}

\* The kernel lets opksshuser, whose group is opksshuser, read the file.
ReadableByUser(a) ==
    \/ a.owner = "opksshuser"
    \/ a.group = "opksshuser" /\ a.mode \in {"640", "644", "750", "755", "777"}
    \/ a.mode \in {"644", "755", "777"}

\* The loaders of the policy and the providers file ask for mode 640 only,
\* ReadFromServerConfig for owner and group too, loadPlugins for the owner.
LoadedByVerify(f, a) ==
    /\ f # "config" => CheckPerm(a, {"640"}, "", "")
    /\ f = "config" => CheckPerm(a, {"640"}, "root", "opksshuser")
    /\ f = "plugin" => CheckPerm(a, {"640"}, "root", "")
    /\ ReadableByUser(a)

-----------------------------------------------------------------------------
(***************************************************************************)
(* opkssh permissions fix.  An operation is <<what, file, to>>: to is the  *)
(* mode or the owner as the plan prints it, "" for the creations.          *)
(***************************************************************************)
Options == [dry : BOOLEAN, json : BOOLEAN, elevated : BOOLEAN]

\* For a plugin the plan prints the owner only, and Chown is called without a
\* group (what that does to the group is ChownedTo below).
PrintedOwner(f) == IF RequiredGroup(f) = "" THEN "root" ELSE "root:opksshuser"

Op(what, f) ==
    <<what, f, IF what = "chmod" THEN RequiredMode(f)
               ELSE IF what = "chown" THEN PrintedOwner(f) ELSE "">>

Repair(f) == {Op("chmod", f), Op("chown", f)}

Ops == Repair("policy") \cup Repair("providers") \cup Repair("config")
       \cup Repair("plugin") \cup {Op("create", "policy"), Op("mkdir", "dir")}

PlanWithoutConfig(seen) ==
    {op \in Ops \ Repair("config") :
        IF op[1] \in {"create", "mkdir"} THEN op[2] \notin seen
        ELSE op[2] \in {"policy"} \cup seen}

\* The planning phase, when the files of seen are found: what is missing is
\* created, and the permissions of the policy and of whatever else is there
\* are set.
Plan(seen) ==
    {op \in Ops : IF op[1] \in {"create", "mkdir"} THEN op[2] \notin seen
                  ELSE op[2] \in {"policy"} \cup seen}

\* A finished system call on the file in hand; a failure is remembered and
\* the command goes on.
Succeeds(op, f, a) ==
    /\ attr' = [attr EXCEPT ![f] = a]
    /\ tried' = tried \cup {Op(op, f)}
    /\ UNCHANGED <<errs, failures>>

Fails(op, f) ==
    /\ tried' = tried \cup {Op(op, f)}
    /\ errs' = errs \cup {Op(op, f)}
    /\ UNCHANGED attr

\* An existing file or directory can be operated on unless the call fails for
\* a reason of its own (a read-only file system, a group that is not there).
Accident == failures < MaxFailures /\ failures' = failures + 1

\* What looks at the files tell: the calls that look at the files of lost
\* fail, and the code takes these files for missing ones.
There == {f \in Files : attr[f].exists}
Overlooks(lost) ==
    /\ lost \subseteq There
    /\ failures + Cardinality(lost) <= MaxFailures
    /\ failures' = failures + Cardinality(lost)

Goto(where, f) == pc' = where /\ cur' = f
FixStays == UNCHANGED <<opt, planned, exit, misplanned, fixSolo>>
AuditStays == UNCHANGED <<auditing, auditSolo, touches>>

\* The planning phase, --dry-run and the question of elevation.  install is fix
\* with yes.
FixBegin(o, yes) ==
    /\ pc = "idle" /\ apc = "idle"
    /\ opt' = o
    /\ \E lost \in SUBSET (Files \ {"home"}) :
          /\ Overlooks(lost)
          /\ misplanned' = lost
          /\ planned' = Plan(There \ lost)
    /\ fixSolo' = TRUE
    /\ \/ o.dry /\ exit' = "ok" /\ Goto("done", cur)
       \/ ~o.dry /\ ~o.elevated /\ exit' = "error" /\ Goto("done", cur)
       \/ /\ ~o.dry /\ o.elevated
          /\ UNCHANGED exit
          /\ Goto(IF yes THEN "stat" ELSE "ask", "policy")
    /\ UNCHANGED <<disk, tried, errs, blind>>
    /\ AuditStays

Answer(yes) ==
    /\ pc = "ask"
    /\ Goto(IF yes THEN "stat" ELSE "done", cur)
    /\ exit' = IF yes THEN exit ELSE "error"
    /\ UNCHANGED <<disk, opt, planned, misplanned, blind, fixSolo, tried, errs, failures>>
    /\ AuditStays

\* Where Fix goes after a Stat that found no file: a missing policy file or
\* directory is created, a missing providers file or config.yml skipped.
NotFound ==
    \/ cur \in {"policy", "dir"} /\ Goto("create", cur)
    \/ cur = "providers" /\ Goto("stat", "config")
    \/ cur = "config" /\ Goto("stat", "dir")

StatNever ==
    /\ pc = "stat"
    /\ IF attr[cur].exists /\ cur # "policy"
       THEN Goto(IF cur = "dir" THEN "list" ELSE "chmod", cur)
       ELSE NotFound
    /\ UNCHANGED <<disk, tried, errs, blind, failures>>
    /\ FixStays /\ AuditStays

\* The Stat in front of each part; every error of it counts as a missing file.
Stat ==
    /\ pc = "stat"
    /\ \E lost \in SUBSET {cur} :
          /\ Overlooks(lost)
          /\ blind' = blind \cup lost
          /\ IF attr[cur].exists /\ lost = {}
             THEN Goto(IF cur = "dir" THEN "list" ELSE "chmod", cur)
             ELSE NotFound
    /\ UNCHANGED <<disk, tried, errs>>
    /\ FixStays /\ AuditStays

\* os.Create opens with O_TRUNC: a file that appeared since Stat, or whose Stat
\* failed, is emptied and keeps its attributes.  A new one gets 0666 less the umask of root.
NewFile == [exists |-> TRUE, mode |-> "644", owner |-> "root", group |-> "root"]
AfterCreate == IF attr["policy"].exists THEN attr["policy"] ELSE NewFile

CreatePolicy ==
    /\ pc = "create" /\ cur = "policy"
    /\ \/ /\ Succeeds("create", "policy", AfterCreate)
          /\ text' = [text EXCEPT !["policy"] = {}]
       \/ Accident /\ Fails("create", "policy") /\ UNCHANGED text
    /\ Goto("chmod", cur)
    /\ UNCHANGED blind
    /\ FixStays /\ AuditStays

\* MkdirAll of a directory that exists does nothing.
NewDir == [NewFile EXCEPT !.mode = RequiredMode("dir")]
AfterMkdir == IF attr["dir"].exists THEN attr["dir"] ELSE NewDir

MakeDir ==
    /\ pc = "create" /\ cur = "dir"
    /\ \/ Succeeds("mkdir", "dir", AfterMkdir)
       \/ Accident /\ Fails("mkdir", "dir")
    /\ Goto("list", cur)
    /\ UNCHANGED <<text, blind>>
    /\ FixStays /\ AuditStays

\* Chmod and Chown of a file that is gone fail, of any other may fail.
Chmod ==
    /\ pc = "chmod"
    /\ \/ /\ attr[cur].exists
          /\ Succeeds("chmod", cur, [attr[cur] EXCEPT !.mode = RequiredMode(cur)])
       \/ attr[cur].exists /\ Accident /\ Fails("chmod", cur)
       \/ ~attr[cur].exists /\ Fails("chmod", cur) /\ UNCHANGED failures
    /\ Goto("chown", cur)
    /\ UNCHANGED <<text, blind>>
    /\ FixStays /\ AuditStays

\* OsFilePermsOps.Chown: with no group asked for, gid stays 0.
ChownedTo(f) ==
    [attr[f] EXCEPT !.owner = RequiredOwner(f),
                    !.group = IF RequiredGroup(f) = "" THEN "root"
                              ELSE RequiredGroup(f)]

\* The part of Fix that comes after a file has been chowned.
GoOn ==
    \/ cur = "policy" /\ Goto("stat", "providers")
    \/ cur = "providers" /\ Goto("stat", "config")
    \/ cur = "config" /\ Goto("stat", "dir")
    \/ cur = "plugin" /\ Goto("report", cur)

Chown ==
    /\ pc = "chown"
    /\ \/ attr[cur].exists /\ Succeeds("chown", cur, ChownedTo(cur))
       \/ attr[cur].exists /\ Accident /\ Fails("chown", cur)
       \/ ~attr[cur].exists /\ Fails("chown", cur) /\ UNCHANGED failures
    /\ GoOn
    /\ UNCHANGED <<text, blind>>
    /\ FixStays /\ AuditStays

\* Open and Readdir of policy.d; when one of them fails there are no plugins.
ListPlugins ==
    /\ pc = "list"
    /\ \E lost \in SUBSET {"plugin"} :
          /\ Overlooks(lost)
          /\ blind' = blind \cup lost
          /\ IF attr["plugin"].exists /\ lost = {}
             THEN Goto("chmod", "plugin") ELSE Goto("report", cur)
    /\ UNCHANGED <<disk, tried, errs>>
    /\ FixStays /\ AuditStays

ReportIgnores ==
    /\ pc = "report"
    /\ exit' = "ok"
    /\ Goto("done", cur)
    /\ UNCHANGED <<disk, opt, planned, misplanned, blind, fixSolo, tried, errs, failures>>
    /\ AuditStays

\* With --json the errors are part of the output and the exit code is 0.
Report ==
    /\ pc = "report"
    /\ exit' = IF errs = {} \/ opt.json THEN "ok" ELSE "error"
    /\ Goto("done", cur)
    /\ UNCHANGED <<disk, opt, planned, misplanned, blind, fixSolo, tried, errs, failures>>
    /\ AuditStays

-----------------------------------------------------------------------------
(***************************************************************************)
(* opkssh audit.                                                           *)
(***************************************************************************)
NoIssuer == [host |-> "", https |-> FALSE, slash |-> FALSE]

ValidateSpelling(issuer) ==
    IF issuer = NoIssuer \/ issuer.slash THEN "ERROR"
    ELSE IF issuer.https THEN "SUCCESS" ELSE "WARNING"

\* PolicyValidator.ValidateEntry, the hints left out.
ValidateEntry(issuer) ==
    IF issuer = NoIssuer \/ issuer \notin issuers \/ issuer.slash
    THEN "ERROR"
    ELSE IF issuer.https THEN "SUCCESS" ELSE "WARNING"

\* auditPolicyFileWithStatus: a line that the table reader or FromTable
\* rejects is an error, any other is validated.
LineStatus(l) ==
    IF l \in PolicyFromTable({l}) THEN ValidateEntry(l.issuer) ELSE "ERROR"

FixAside == UNCHANGED <<disk, fixing, fixSolo, touches>>

AuditEnds(result) == apc' = "done" /\ auditExit' = result

\* LoadProviderPolicy, for root: the file exists and has mode 640.  For anyone
\* else (not elevated) /etc/opk/providers is not readable.
AuditProviders(elevated) ==
    /\ apc = "idle" /\ pc \in {"idle", "done"}
    /\ auditSolo' = TRUE
    /\ IF elevated /\ CheckPerm(attr["providers"], {"640"}, "", "")
       THEN /\ issuers' = {l.issuer : l \in ProvidersFromTable(text["providers"])}
            /\ apc' = "system"
            /\ UNCHANGED auditExit
       ELSE AuditEnds("error") /\ UNCHANGED issuers
    /\ UNCHANGED <<rows, badFile, homes, missed, failures>>
    /\ FixAside

\* What one policy file adds to the results: nothing when it does not exist, or
\* when Exists fails (CheckFilePermissions then answers that it does not).
AuditFile(f) ==
    \E lost \in SUBSET {f} :
        /\ Overlooks(lost)
        /\ missed' = missed \cup lost
        /\ IF attr[f].exists /\ lost = {}
           THEN /\ rows' = rows \cup {LineStatus(l) : l \in text[f]}
                /\ badFile' = (badFile \/ ~PermsRight(f))
           ELSE UNCHANGED <<rows, badFile>>

\* The system policy: a file that cannot be read ends the audit.
AuditSystem ==
    /\ apc = "system"
    /\ \/ AuditFile("policy") /\ apc' = "homes" /\ UNCHANGED auditExit
       \/ /\ attr["policy"].exists /\ Accident
          /\ AuditEnds("error") /\ UNCHANGED <<rows, badFile, missed>>
    /\ UNCHANGED <<issuers, homes, auditSolo>>
    /\ FixAside

\* HasErrors of the summary of all rows.
Summary(statuses) == IF statuses \subseteq {"SUCCESS"} THEN "ok" ELSE "error"

\* The home policies and the end of Run.  With --skip-user-policy, and when
\* the accounts cannot be enumerated, the homes are passed over; one that
\* cannot be read is recorded and has no rows.
AuditHomes ==
    /\ apc = "homes"
    /\ \/ AuditFile("home") /\ homes' = TRUE
       \/ UNCHANGED <<rows, badFile, homes, missed, failures>>
       \/ /\ attr["home"].exists /\ Accident
          /\ badFile' = TRUE /\ UNCHANGED <<rows, homes, missed>>
    /\ AuditEnds(Summary(rows'))
    /\ UNCHANGED <<issuers, auditSolo>>
    /\ FixAside

\* TotalResults.EvaluateOk, the "ok" of the JSON output.
AuditOk == apc = "done" /\ ~badFile /\ rows \subseteq {"SUCCESS"}

-----------------------------------------------------------------------------
(***************************************************************************)
(* Everybody else: an administrator, an installer, another opkssh command. *)
(***************************************************************************)
Touch ==
    /\ touches < MaxTouches
    /\ touches' = touches + 1
    /\ fixSolo' = FALSE
    /\ auditSolo' = FALSE
    /\ UNCHANGED <<fixing, auditing, failures>>

\* chmod, chown, creation or removal of a file; policy.d goes with its plugin,
\* and a plugin needs policy.d.  A file that is created brings its lines.
Retouch(f, a) ==
    /\ Touch
    /\ a # attr[f]
    /\ f = "plugin" => attr["dir"].exists
    /\ attr' = IF f = "dir" /\ ~a.exists
               THEN [attr EXCEPT !["dir"] = a, !["plugin"] = Missing]
               ELSE [attr EXCEPT ![f] = a]
    /\ \/ f \in TextFiles /\ ~a.exists /\ text' = [text EXCEPT ![f] = {}]
       \/ /\ f \in TextFiles /\ ~attr[f].exists
          /\ \E lines \in Texts[f] : text' = [text EXCEPT ![f] = lines]
       \/ (f \in TextFiles => a.exists /\ attr[f].exists) /\ UNCHANGED text

Rewrite(f, lines) ==
    /\ Touch
    /\ attr[f].exists /\ lines # text[f]
    /\ text' = [text EXCEPT ![f] = lines]
    /\ UNCHANGED attr

Right(f) ==
    IF f = "home"
    THEN [exists |-> TRUE, mode |-> "600", owner |-> "alice", group |-> "alice"]
    ELSE [exists |-> TRUE, mode |-> RequiredMode(f), owner |-> "root",
          group |-> "opksshuser"]

\* A server set up by the installer, with one plugin and one home policy.
Init ==
    /\ attr = [f \in Files |-> Right(f)]
    /\ text \in Starts
    /\ pc = "idle" /\ cur = "policy" /\ exit = "none"
    /\ opt = [dry |-> FALSE, json |-> FALSE, elevated |-> FALSE]
    /\ planned = {} /\ tried = {} /\ errs = {}
    /\ misplanned = {} /\ blind = {}
    /\ fixSolo = TRUE /\ auditSolo = TRUE
    /\ apc = "idle" /\ issuers = {} /\ rows = {} /\ badFile = FALSE
    /\ homes = FALSE /\ missed = {} /\ auditExit = "none"
    /\ touches = 0 /\ failures = 0

FixStep ==
    \/ \E o \in Options, yes \in BOOLEAN : FixBegin(o, yes)
    \/ \E yes \in BOOLEAN : Answer(yes)
    \/ Stat \/ CreatePolicy \/ MakeDir \/ Chmod \/ Chown
    \/ ListPlugins \/ Report

AuditStep ==
    \/ \E elevated \in BOOLEAN : AuditProviders(elevated)
    \/ AuditSystem
    \/ AuditHomes

Others ==
    \/ \E f \in Files : \E a \in Found[f] : Retouch(f, a)
    \/ \E f \in TextFiles : \E lines \in Texts[f] : Rewrite(f, lines)

Next == FixStep \/ AuditStep \/ Others

Spec == Init /\ [][Next]_vars

-----------------------------------------------------------------------------
(***************************************************************************)
(* Properties.                                                             *)
(***************************************************************************)
\* The type invariant of the administrator's commands and the files.
TypeOK ==
    /\ attr \in [Files -> Attrs]
    /\ text = [f \in TextFiles |-> text[f]]
    /\ pc \in {"idle", "ask", "stat", "create", "chmod", "chown", "list",
               "report", "done"}
    /\ cur \in Files \ {"home"}
    /\ opt \in Options
    /\ planned \subseteq Ops /\ tried \subseteq Ops /\ errs \subseteq tried
    /\ exit \in {"none", "ok", "error"}
    /\ apc \in {"idle", "system", "homes", "done"}
    /\ rows \subseteq {"SUCCESS", "WARNING", "ERROR"}
    /\ auditExit \in {"none", "ok", "error"}
    /\ misplanned \subseteq Files /\ blind \subseteq Files /\ missed \subseteq TextFiles
    /\ {fixSolo, auditSolo, badFile, homes} \subseteq BOOLEAN
    /\ touches \in 0 .. MaxTouches /\ failures \in 0 .. MaxFailures

\* What "fix completed successfully" means: when Fix ends without --json and
\* --dry-run with exit code 0, and nobody else changed a file meanwhile, the
\* system policy and policy.d exist, the policy has the required mode, owner and
\* group, whatever happened on the way, and so have the providers file and
\* config.yml if they exist, unless the Stat in front of their repair failed.
FixRepairs ==
    exit = "ok" /\ ~opt.dry /\ ~opt.json /\ fixSolo =>
        /\ attr["policy"].exists /\ attr["dir"].exists
        /\ PermsRight("policy")
        /\ \A f \in EtcFiles \ blind : attr[f].exists => PermsRight(f)

\* The administrator gets what was announced: Fix only carries out operations
\* it listed before asking for confirmation, and all of them when it gets to
\* the end, as long as nobody changes a file between the two phases (each
\* looks at the files for itself).  Only on a file at which a look of one of
\* the phases failed can the two differ.
DoesWhatItPlanned ==
    fixSolo =>
        /\ \A op \in tried : op[2] \notin misplanned \cup blind => op \in planned
        /\ pc = "report" =>
              \A op \in planned : op[2] \notin misplanned \cup blind => op \in tried

\* However far Fix gets, and whatever fails on the way, a policy, providers or
\* config file that opkssh verify could load before a step can be loaded after
\* it: a killed or failing fix locks nobody out.
FixKeepsAccess ==
    [][FixStep => \A f \in EtcFiles : LoadedByVerify(f, attr[f]) =>
                                       LoadedByVerify(f, attr'[f])]_vars

\* Fix changes permissions, not policies: it empties no policy file, except one
\* whose Stat failed with whatever error, and one that somebody else created
\* after Fix had begun (permissions.go:350).
FixKeepsLines ==
    [][FixStep /\ fixSolo /\ "policy" \notin blind => text' = text]_vars

\* The lines of a policy that opkssh verify keeps and that no provider backs.
DeadLines(f) ==
    {l \in PolicyFromTable(text[f]) :
        \A p \in ProvidersFromTable(text["providers"]) : p.issuer # l.issuer}

\* Exit code 0 of an undisturbed audit means that no line of the system policy
\* names an issuer opkssh verify would not know, nor, if the homes were read,
\* a line of a home policy; only a file whose Exists failed, which audit takes
\* for a missing one, may hold such lines.
AuditFindsDeadLines ==
    auditExit = "ok" /\ auditSolo =>
        /\ "policy" \notin missed => DeadLines("policy") = {}
        /\ homes /\ "home" \notin missed => DeadLines("home") = {}

\* Check and audit together vouch for the server: when an undisturbed audit
\* says ok and check lists no problem, opkssh verify, running as opksshuser,
\* loads the three files of /etc/opk, and if it keeps a line of the policy the
\* verifier can be built from the providers file.  The one thing neither
\* command looks at is the expiration policy of a providers line, and audit
\* says nothing of a policy whose Exists failed.
CleanServerWorks ==
    AuditOk /\ auditExit # "error" /\ auditSolo /\ CheckProblems = {} =>
        /\ \A f \in EtcFiles : attr[f].exists => LoadedByVerify(f, attr[f])
        /\ "policy" \notin missed /\ PolicyFromTable(text["policy"]) # {} =>
              \/ CreateVerifierOK(ProvidersFromTable(text["providers"]))
              \/ \E p \in ProvidersFromTable(text["providers"]) :
                     ~ValidExpiration(p)

\* The ownership docs/policyplugins.md asks of a plugin configuration is what a
\* successful fix leaves behind: root:opksshuser with mode 640.
FixedPluginsAsDocumented ==
    exit = "ok" /\ ~opt.dry /\ ~opt.json /\ fixSolo /\ attr["plugin"].exists =>
        CheckPerm(attr["plugin"], {"640"}, "root", "opksshuser")

=============================================================================
