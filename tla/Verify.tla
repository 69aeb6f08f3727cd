------------------------------- MODULE Verify -------------------------------
(***************************************************************************)
(* opkssh verify, the AuthorizedKeysCommand of sshd: main.go's verify      *)
(* command, commands/verify.go and policy/enforcer.go.  Each look at a     *)
(* file, network call and plugin run is an action, with the administrator  *)
(* replacing files in between; policy.d is a file here, listed and read in *)
(* one look after the check of its permissions.  One behaviour is one      *)
(* process, as in the code: sshd starts a process per request and nothing  *)
(* is kept in memory between two requests.                                 *)
(***************************************************************************)
EXTENDS AccessRule, FiniteSets

CONSTANTS Begins,       \* the situations sshd may start the process in:
                        \* [world, req, edits], edits bounding what follows
          Versions,     \* [Files -> the versions an administrator may install]
          Sudo          \* opksshuser may run "sudo -n opkssh readhome"

ASSUME BeginsAssumption ==
    \A b \in Begins : /\ b.edits \in Nat
                      /\ b.world = [f \in Files |-> b.world[f]]

ASSUME SudoAssumption == Sudo \in BOOLEAN

\* Every version a file can ever have, and every request there can be.
AllVersions == [f \in Files |-> Versions[f] \cup {b.world[f] : b \in Begins}]
AllRequests == {b.req : b \in Begins}
Starts == {<<b.world, b.req>> : b \in Begins}

\* The contents of policy.d is a finite list.
ASSUME PluginsAssumption ==
    \A dir \in AllVersions["plugins"] : Len(dir.entries) \in Nat

VARIABLES
    world,      \* [Files -> the current version of the file]
    edits,      \* the edits the administrator may still make
    req,        \* the arguments of the process: user, certificate
    pc,         \* the next thing the process does
    rows,       \* providerPolicy: the rows of the providers file
    config,     \* configBytes: the version of config.yml that was read
    denyList,   \* VerifyCmd.denyList
    userInfo,   \* userInfo in AuthorizedKeysCommand
    loaded,     \* pluginResults: what loadPlugins returned
    next,       \* index of the next plugin to run
    allowed,    \* PluginResults.Allowed() of the results so far
    sysPol,     \* rootPolicy: [ok, rows], ok = FALSE for nil
    homePol,    \* userPolicy, likewise
    view,       \* history: what each look saw (the world at the start, until then)
    seen        \* history: [Files -> the versions current since the start]

local == <<rows, config, denyList, userInfo, loaded, next, allowed, sysPol, homePol>>
vars == <<world, edits, req, pc, local, view, seen>>

Final == {"granted", "refused", "crashed"}
Labels == Final \cup
    {"start", "providersStat", "providersRead", "configRead", "configStat",
     "cert", "userinfo", "deny", "pluginsStat", "pluginsRead", "pluginRun",
     "systemStat", "systemRead", "homeStat", "homeRead", "homeSudo", "rows",
     "principals", "hung"}

Nil == [ok |-> FALSE, rows |-> {}]
NoFile == [access |-> "none", perm |-> FALSE, parses |-> FALSE,
           denyList |-> NoDenyList]

ViewOf(w) == [look \in Looks |-> w[FileOf(look)]]

Init ==
    /\ \E b \in Begins : /\ world = b.world
                         /\ req = b.req
                         /\ edits = b.edits
    /\ pc = "start"
    /\ rows = {} /\ config = NoFile /\ denyList = NoDenyList
    /\ userInfo = NoUserInfo
    /\ loaded = <<>> /\ next = 1 /\ allowed = FALSE
    /\ sysPol = Nil /\ homePol = Nil
    /\ view = ViewOf(world)
    /\ seen = [f \in Files |-> {world[f]}]

-----------------------------------------------------------------------------
\* One look of the process at a file, and where it goes from there.
See(look, label) ==
    /\ pc' = label
    /\ view' = [view EXCEPT ![look] = world[FileOf(look)]]
    /\ UNCHANGED <<world, edits, req, seen>>

\* A step that looks at no file.
Go(label) ==
    /\ pc' = label
    /\ UNCHANGED <<world, edits, req, view, seen>>

\* The administrator replaces a file: contents, permissions or both.
Edit ==
    /\ edits > 0
    /\ pc \notin Final \cup {"start", "hung"}
    /\ \E f \in Files : \E v \in Versions[f] \ {world[f]} :
            /\ world' = [world EXCEPT ![f] = v]
            /\ seen' = [seen EXCEPT ![f] = @ \cup {v}]
    /\ edits' = edits - 1
    /\ UNCHANGED <<req, pc, local, view>>

\* sshd starts the process.
Start ==
    /\ pc = "start"
    /\ Go("providersStat")
    /\ UNCHANGED local

\* LoadProviderPolicy: Stat and CheckPerm of /etc/opk/providers ...
ProvidersStat ==
    /\ pc = "providersStat"
    /\ See("providersStat", IF StatOK(world["providers"]) THEN "providersRead"
                                                          ELSE "refused")
    /\ UNCHANGED local

\* ... then ReadFile, FromTable and, without another system call, CreateVerifier.
ProvidersRead ==
    /\ pc = "providersRead"
    /\ rows' = IF ReadOK(world["providers"])
               THEN ProvidersFromTable(world["providers"].lines) ELSE {}
    /\ See("providersRead", IF CreateVerifierOK(rows') THEN "configRead"
                                                       ELSE "refused")
    /\ UNCHANGED <<config, denyList, userInfo, loaded, next, allowed, sysPol, homePol>>

\* ReadFromServerConfig: ReadFile comes first; an error is only logged.
ConfigRead ==
    /\ pc = "configRead"
    /\ config' = IF ReadOK(world["config"]) THEN world["config"] ELSE NoFile
    /\ See("configRead", IF ReadOK(world["config"]) THEN "configStat" ELSE "cert")
    /\ UNCHANGED <<rows, denyList, userInfo, loaded, next, allowed, sysPol, homePol>>

\* Variant of ConfigStat with a mistake: the file is read a second time.
ConfigStatRereads ==
    /\ pc = "configStat"
    /\ denyList' = IF StatOK(world["config"]) /\ world["config"].parses
                   THEN world["config"].denyList ELSE NoDenyList
    /\ See("configStat", "cert")
    /\ UNCHANGED <<rows, config, userInfo, loaded, next, allowed, sysPol, homePol>>

\* CheckPerm on the path, then the bytes read before are parsed.
ConfigStat ==
    /\ pc = "configStat"
    /\ denyList' = IF StatOK(world["config"]) /\ config.parses
                   THEN config.denyList ELSE NoDenyList
    /\ See("configStat", "cert")
    /\ UNCHANGED <<rows, config, userInfo, loaded, next, allowed, sysPol, homePol>>

\* NewFromAuthorizedKey and VerifySshPktCert.
VerifyCert ==
    /\ pc = "cert"
    /\ Go(IF req.cert.parses /\ VerifySshPktCert(rows, req.cert)
          THEN "userinfo" ELSE "refused")
    /\ UNCHANGED local

\* UserInfoLookup; userinfo is optional, an error leaves it empty.
UserInfoLookup ==
    /\ pc = "userinfo"
    /\ userInfo' = IF req.cert.accessToken /\ req.cert.userInfo.kind # "error"
                   THEN req.cert.userInfo ELSE NoUserInfo
    /\ Go("deny")
    /\ UNCHANGED <<rows, config, denyList, loaded, next, allowed, sysPol, homePol>>

\* Variant of EnforceDenyList with a mistake: deny_emails is forgotten.
EnforceDenyUsers ==
    /\ pc = "deny"
    /\ Go(IF \/ ~req.cert.payload
             \/ Denied([denyList EXCEPT !.emails = {}], req.cert.claims, req.user.name)
          THEN "refused"
          ELSE IF req.cert.envVars THEN "pluginsStat" ELSE "systemStat")
    /\ UNCHANGED local

\* CheckPolicy: the payload is parsed, then the deny lists come first; the
\* environment for the plugins is prepared before policy.d is looked at.
EnforceDenyList ==
    /\ pc = "deny"
    /\ Go(IF ~req.cert.payload \/ Denied(denyList, req.cert.claims, req.user.name)
          THEN "refused"
          ELSE IF req.cert.envVars THEN "pluginsStat" ELSE "systemStat")
    /\ UNCHANGED local

\* loadPlugins: CheckPerm of the directory ...
PluginsStat ==
    /\ pc = "pluginsStat"
    /\ See("pluginsStat", IF PluginDirOK(world["plugins"]) THEN "pluginsRead"
                                                           ELSE "systemStat")
    /\ UNCHANGED local

\* ... then the entries.  One entry that cannot be described drops them all.
PluginsRead ==
    /\ pc = "pluginsRead"
    /\ loaded' = IF PluginsLoad(world["plugins"]) THEN world["plugins"].entries
                                                  ELSE <<>>
    /\ See("pluginsRead", IF PluginsLoad(world["plugins"]) THEN "pluginRun"
                                                           ELSE "systemStat")
    /\ UNCHANGED <<rows, config, denyList, userInfo, next, allowed, sysPol, homePol>>

\* Variant of RunPlugin with a mistake: the index stays.
RunPluginAgain ==
    /\ pc = "pluginRun"
    /\ next <= Len(loaded)
    /\ allowed' = (allowed \/ PluginAllows(loaded[next]))
    /\ Go(IF Panics(loaded[next]) THEN "crashed"
          ELSE IF Hangs(loaded[next]) THEN "hung" ELSE "pluginRun")
    /\ UNCHANGED <<next, rows, config, denyList, userInfo, loaded, sysPol, homePol>>

\* checkPolicies: run the next plugin.  An earlier "allow" does not stop the
\* loop; a blank command ends the process with a panic.
RunPlugin ==
    /\ pc = "pluginRun"
    /\ next <= Len(loaded)
    /\ allowed' = (allowed \/ PluginAllows(loaded[next]))
    /\ next' = next + 1
    /\ Go(IF Panics(loaded[next]) THEN "crashed"
          ELSE IF Hangs(loaded[next]) THEN "hung" ELSE "pluginRun")
    /\ UNCHANGED <<rows, config, denyList, userInfo, loaded, sysPol, homePol>>

\* results.Allowed(): the standard policy is not read when a plugin allows.
PluginsDone ==
    /\ pc = "pluginRun"
    /\ next > Len(loaded)
    /\ Go(IF allowed THEN "principals" ELSE "systemStat")
    /\ UNCHANGED local

\* MultiPolicyLoader.Load: the system policy ...
SystemStat ==
    /\ pc = "systemStat"
    /\ See("systemStat", IF StatOK(world["system"]) THEN "systemRead" ELSE "homeStat")
    /\ UNCHANGED local

SystemRead ==
    /\ pc = "systemRead"
    /\ sysPol' = IF ReadOK(world["system"])
                 THEN [ok |-> TRUE, rows |-> PolicyFromTable(world["system"].lines)]
                 ELSE Nil
    /\ See("systemRead", "homeStat")
    /\ UNCHANGED <<rows, config, denyList, userInfo, loaded, next, allowed, homePol>>

\* ... then the user's own: LoadHomePolicy with skipInvalidEntries.
HomeStat ==
    /\ pc = "homeStat"
    /\ IF req.user.lookup
       THEN See("homeStat", IF StatOK(world["home"]) THEN "homeRead" ELSE "homeSudo")
       ELSE Go("rows")
    /\ UNCHANGED local

HomePolicy(file) ==
    [ok |-> TRUE, rows |-> ForUser(PolicyFromTable(file.lines), req.user.name)]

HomeRead ==
    /\ pc = "homeRead"
    /\ homePol' = IF ReadOK(world["home"]) THEN HomePolicy(world["home"]) ELSE Nil
    /\ See("homeRead", IF ReadOK(world["home"]) THEN "rows" ELSE "homeSudo")
    /\ UNCHANGED <<rows, config, denyList, userInfo, loaded, next, allowed, sysPol>>

\* ReadWithSudoScript: a second opkssh process, running as root, reads it.
HomeSudo ==
    /\ pc = "homeSudo"
    /\ homePol' = IF Sudo /\ ReadHomeOK(req.user, world["home"])
                  THEN HomePolicy(world["home"]) ELSE Nil
    /\ See("homeSudo", "rows")
    /\ UNCHANGED <<rows, config, denyList, userInfo, loaded, next, allowed, sysPol>>

\* Variants of CheckRows with a mistake: the subjects are not compared, only
\* the principal is, or both policies have to be there.
CheckRowsBy(Matches(_), policies) ==
    /\ pc = "rows"
    /\ Go(IF policies /\ userInfo.kind # "malformed"
             /\ \E row \in sysPol.rows \cup homePol.rows : Matches(row)
          THEN "principals" ELSE "refused")
    /\ UNCHANGED local

CheckRowsAnySub ==
    LET Matches(row) == RowGrants(row, req.cert, userInfo, req.user.name)
    IN  CheckRowsBy(Matches, sysPol.ok \/ homePol.ok)
CheckRowsPrincipalOnly ==
    LET Matches(row) == row.principal = req.user.name
    IN  CheckRowsBy(Matches, sysPol.ok \/ homePol.ok)
CheckRowsBoth ==
    LET Matches(row) == RowGrants(row, req.cert, userInfo, req.user.name)
    IN  CheckRowsBy(Matches, sysPol.ok /\ homePol.ok)

\* The loop over policy.Users.
CheckRows ==
    /\ pc = "rows"
    /\ Go(IF /\ sysPol.ok \/ homePol.ok
             /\ userInfo.kind # "malformed"
             /\ userInfo.kind = "claims" => userInfo.claims.sub = req.cert.claims.sub
             /\ \E row \in sysPol.rows \cup homePol.rows :
                    RowGrants(row, req.cert, userInfo, req.user.name)
          THEN "principals" ELSE "refused")
    /\ UNCHANGED local

\* errorOnUnsafePrincipal, then the authorized_keys line is printed.
CheckPrincipals ==
    /\ pc = "principals"
    /\ Go(IF req.cert.principals = "unsafe" THEN "refused" ELSE "granted")
    /\ UNCHANGED local

\* The process has ended, or waits for a plugin that never returns.
Over ==
    /\ pc \in Final \cup {"hung"}
    /\ UNCHANGED vars

Step ==
    \/ ProvidersStat \/ ProvidersRead \/ ConfigRead \/ ConfigStat
    \/ VerifyCert \/ UserInfoLookup \/ EnforceDenyList
    \/ PluginsStat \/ PluginsRead \/ RunPlugin \/ PluginsDone
    \/ SystemStat \/ SystemRead \/ HomeStat \/ HomeRead \/ HomeSudo
    \/ CheckRows \/ CheckPrincipals

Next == Edit \/ Start \/ Step \/ Over

\* The process waits, without a timeout, for somebody else: the issuer, whose
\* keys and whose userinfo it fetches, the sudo child that reads the home policy,
\* or a plugin that does not return.
Waits ==
    \/ pc \in {"cert", "homeSudo", "hung"}
    \/ pc = "userinfo" /\ req.cert.accessToken

\* The process runs its own steps; the issuer, the sudo child and the
\* administrator need not do anything.
Spec == Init /\ [][Next]_vars /\ WF_vars(~Waits /\ (Start \/ Step))

-----------------------------------------------------------------------------
(***************************************************************************)
(* Properties.                                                             *)
(***************************************************************************)

\* Types: the process is at a label of the program and every look it made saw
\* a version that existed while the process ran.
TypeOK ==
    /\ DOMAIN world = Files /\ DOMAIN seen = Files
    /\ \A f \in Files : world[f] \in seen[f] /\ seen[f] \subseteq AllVersions[f]
    /\ edits \in Nat
    /\ req \in AllRequests
    /\ pc \in Labels
    /\ DOMAIN view = Looks
    /\ \A look \in Looks : view[look] \in seen[FileOf(look)]
    /\ next \in Nat \ {0} /\ allowed \in BOOLEAN

\* The verdict of AuthorizedKeysCommand is the access rule applied to what the
\* process saw: no path through the error handling of verify.go, enforcer.go
\* and the loaders lets a request in that the rule refuses, or the reverse.
VerdictJustified ==
    pc \in Final => (pc = "granted" <=> Authorized(view, req, Sudo))

\* Deny lists beat every other policy (enforcer.go, "Enforce deny list
\* first"): a request that config.yml has denied ever since it began is not
\* let in, not by a plugin and not by an edit of any file made meanwhile.
Denies(c) == ReadOK(c) /\ StatOK(c) /\ c.parses
                /\ Denied(c.denyList, req.cert.claims, req.user.name)

DenyListEnforced == pc = "granted" => \E c \in seen["config"] : ~Denies(c)

\* A request is let in only on the word of a plugin or of a line of auth_id
\* that was in place at some moment of the request: a grant that was removed
\* before the process started cannot come back through the loaders.
NamesUser(file) ==
    \E row \in PolicyFromTable(file.lines) :
        RowGrants(row, req.cert, UserInfoOf(req.cert), req.user.name)

GrantHasSource ==
    pc = "granted" =>
        \/ \E dir \in seen["plugins"] :
              PluginsLoad(dir) /\ \E i \in 1..Len(dir.entries) : PluginAllows(dir.entries[i])
        \/ \E file \in seen["system"] \cup seen["home"] : NamesUser(file)

\* A standing grant is honoured: while providers, config.yml and auth_id are
\* edited in ways that keep accepting this token, deny nobody involved, and
\* keep the granting line readable, a request cannot fall between two
\* versions.  (No plugin may panic: see PluginsOnlyExpand.)
StandingGrant ==
    /\ \A s \in seen["providers"], t \in seen["providers"] :
            LET rs == ProvidersFromTable(t.lines)
            IN  StatOK(s) /\ ReadOK(t) /\ CreateVerifierOK(rs)
                  /\ VerifySshPktCert(rs, req.cert)
    /\ req.cert.parses /\ req.cert.payload /\ req.cert.principals # "unsafe"
    /\ UserInfoUsable(req.cert)
    /\ \A c \in seen["config"] : ~Denied(c.denyList, req.cert.claims, req.user.name)
    /\ \A dir \in seen["plugins"] :
            \A i \in 1..Len(dir.entries) : ~Panics(dir.entries[i])
    /\ \A file \in seen["system"] : StatOK(file) /\ ReadOK(file) /\ NamesUser(file)

StandingGrantHonoured == pc \in {"refused", "crashed"} => ~StandingGrant

\* Why the verdict is justified: what the process holds in its variables is,
\* at each label, what the rule says about the looks made so far.  (This is
\* the inductive invariant that VerifyProofs.tla rests on.)
PolicyPhase ==
    {"systemStat", "systemRead", "homeStat", "homeRead", "homeSudo", "rows"}
PluginPhase == {"pluginsStat", "pluginsRead", "pluginRun", "hung", "crashed"}
AfterDeny == PolicyPhase \cup PluginPhase \cup {"principals", "granted"}
AfterInfo == AfterDeny \cup {"deny"}
AfterCert == AfterInfo \cup {"userinfo"}
AfterConfig == AfterCert \cup {"cert"}
AfterProviders == AfterConfig \cup {"configRead", "configStat"}

ProvidersKnown ==
    /\ pc \in AfterProviders \cup {"providersRead"} => StatOK(view["providersStat"])
    /\ pc \in AfterProviders =>
            /\ ReadOK(view["providersRead"])
            /\ rows = ProvidersFromTable(view["providersRead"].lines)
            /\ CreateVerifierOK(rows)

DenyListKnown ==
    /\ pc \notin AfterConfig \cup {"refused"} => denyList = NoDenyList
    /\ pc = "configStat" => ReadOK(view["configRead"]) /\ config = view["configRead"]
    /\ pc \in AfterConfig =>
            denyList = DenyListOf(view["configRead"], view["configStat"])

TokenKnown ==
    /\ pc \in AfterCert => req.cert.parses /\ VerifySshPktCert(rows, req.cert)
    /\ pc \in AfterInfo => userInfo = UserInfoOf(req.cert)
    /\ pc \in AfterDeny => /\ req.cert.payload
                            /\ ~Denied(denyList, req.cert.claims, req.user.name)

PluginsKnown ==
    /\ pc \notin AfterDeny \cup {"refused"} \/ pc \in {"pluginsStat", "pluginsRead"}
            => next = 1 /\ ~allowed
    /\ pc \in PluginPhase => req.cert.envVars
    /\ pc \in PluginPhase \ {"pluginsStat"} => PluginDirOK(view["pluginsStat"])
    /\ pc = "pluginRun" =>
            /\ PluginsLoad(view["pluginsRead"]) /\ loaded = view["pluginsRead"].entries
            /\ next \in 1..(Len(loaded) + 1)
            /\ \A k \in 1..(next - 1) : ~Panics(loaded[k])
            /\ allowed <=> \E k \in 1..(next - 1) : PluginAllows(loaded[k])
    /\ pc \in PolicyPhase => ~GrantedByPlugin(view, req)
    /\ pc \in PolicyPhase \cup {"principals"} => ~StoppedByPlugin(view, req)

PolicyKnown ==
    /\ pc \notin PolicyPhase \cup {"principals", "granted", "refused"}
            => sysPol = Nil /\ homePol = Nil
    /\ pc = "systemStat" => sysPol = Nil
    /\ pc = "systemRead" => StatOK(view["systemStat"])
    /\ pc \in PolicyPhase \ {"rows"} => homePol = Nil
    /\ pc \in {"homeStat", "homeRead", "homeSudo", "rows"} =>
            sysPol.rows = SystemRows(view) /\ (sysPol.ok \/ sysPol.rows = {})
    /\ pc \in {"homeRead", "homeSudo"} => req.user.lookup
    /\ pc = "homeRead" => StatOK(view["homeStat"])
    /\ pc = "homeSudo" => ~(StatOK(view["homeStat"]) /\ ReadOK(view["homeRead"]))
    /\ pc = "rows" => /\ homePol.rows = HomeRows(view, req, Sudo)
                      /\ homePol.ok \/ homePol.rows = {}

SourceKnown ==
    pc = "principals" => GrantedByPlugin(view, req) \/ GrantedByPolicy(view, req, Sudo)

StateFollowsLooks ==
    /\ ProvidersKnown /\ DenyListKnown /\ TokenKnown
    /\ PluginsKnown /\ PolicyKnown /\ SourceKnown /\ VerdictJustified

\* The comment in CheckPolicy: "Policy plugins can only expand the set of
\* allow set, not shrink it", and docs/policyplugins.md's disjunction: what
\* the standard policy grants is granted, whatever is in policy.d.
PluginsOnlyExpand ==
    (/\ pc \in Final
     /\ Authentic(view, req) /\ ~OnDenyList(view, req)
     /\ GrantedByPolicy(view, req, Sudo) /\ req.cert.principals # "unsafe")
        => pc = "granted"

\* sshd gets an answer, unless the issuer, the sudo child or a plugin keeps the
\* process waiting for ever: no loop over plugins, files or rows goes on without
\* end, and no edit of the administrator sends the process back.
Answers == <>(pc \in Final) \/ <>[]Waits

\* The process implements PolicyDecision: its looks at the files are the
\* abstract looks, its end is the abstract decision.
Verdict ==
    CASE pc = "start" -> "none"
      [] pc = "granted" -> "granted"
      [] pc \in {"refused", "crashed"} -> "refused"
      [] OTHER -> "pending"

PD == INSTANCE PolicyDecision WITH verdict <- Verdict

DecidesByTheRule == PD!Spec
=============================================================================
