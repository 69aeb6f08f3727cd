--------------------------- MODULE ProviderChoice ---------------------------
(***************************************************************************)
(* opkssh login up to the moment it talks to an OpenID Provider: the       *)
(* client configuration is found, read or created, the CI/CD providers of  *)
(* the environment are registered, and a provider is chosen from the       *)
(* command line, the environment variables OPKSSH_DEFAULT and              *)
(* OPKSSH_PROVIDERS, the configuration or the web chooser.                 *)
(*                                                                         *)
(* An alias is [word, caps], caps saying that it is not spelled in lower   *)
(* case; an issuer is one of Issuers, "plain" being any value that does    *)
(* not start with https://.  An entry of a provider list is [names,        *)
(* issuer, client, send]; the string form of an entry has the number of    *)
(* its comma-separated parts after the alias, and secret says that the     *)
(* third of them is there and not empty.  env is the environment of        *)
(* the process: actions is the runner that set ACTIONS_ID_TOKEN_REQUEST_*, *)
(* pipeline the server of a GitLab CI/CD job ("" outside of one).          *)
(***************************************************************************)
EXTENDS Integers, Sequences, FiniteSets

CONSTANTS
    Args,       \* the command lines a login may be started with
    Envs,       \* the environments it may be started in
    Configs,    \* the client configurations the user may write
    Default     \* the built-in client configuration

Issuers == {"google", "azure", "gitlab", "hello", "github", "forgejo", "forgejo2",
            "other", "plain"}
Alias(word) == [word |-> word, caps |-> FALSE]
NoAlias == Alias("")
IsAlias(a) == a = [word |-> a.word, caps |-> a.caps] /\ a.caps \in BOOLEAN

NoFile == [kind |-> "none"]
Broken == [kind |-> "broken"]

VARIABLES
    file,       \* ~/.opk/config.yml: NoFile, Broken or a configuration
    stage,      \* how far the login command has come
    args,       \* its command line
    env,        \* its environment
    conf,       \* the configuration it works with (LoginCmd.Config)
    found,      \* what determineProvider returned
    op,         \* the provider it logs in with
    send,       \* the access token goes into the certificate
    stale       \* config.yml has been changed since the command looked for it

command == <<args, env>>
vars == <<file, stage, command, conf, found, op, send, stale>>

-----------------------------------------------------------------------------
(***************************************************************************)
(* Provider entries.                                                       *)
(***************************************************************************)
Entry(names, issuer, client) ==
    [names |-> {Alias(n) : n \in names}, issuer |-> issuer, client |-> client,
     send |-> FALSE]

GitHubProviderConfig == Entry({"github"}, "github", "unused")
ForgejoProviderConfig == Entry({"forgejo", "codeberg"}, "forgejo", "unused")
GitlabCiProviderConfig(issuer) == Entry({"gitlab-ci"}, issuer, "unused")

IsForgejo(p) == p.issuer \in {"forgejo", "forgejo2"} /\ p.client = "unused"

IsCICDByIssuer(p) == p.issuer = "github" \/ IsForgejo(p)

IsCICDProvider(p) ==
    p.issuer = "github" \/ IsForgejo(p) \/ Alias("gitlab-ci") \in p.names

\* detectActionsEnvironment: a third runner sets the same variables and is
\* neither.
ActionsKind(e) == IF e.actions = "third" THEN "none" ELSE e.actions

\* providers.NewGithubOpFromEnvironment and NewForgejoOpFromEnvironment: both
\* variables must be set, and for Forgejo the URL must be one of its own.  The
\* instance of the environment is "forgejo"; "forgejo2" is another.
GithubOpOK(e) == e.actions # "none"
ForgejoOpOK(e) == e.actions = "forgejo"

NoOp == [kind |-> "none"]
Op(kind, p) == [kind |-> kind, from |-> p]

\* ProviderConfig.ToProvider: the checks, then the first case that applies.
ToProvider(p, e) ==
    IF p.issuer = "plain" \/ p.client = "" THEN NoOp
    ELSE IF p.issuer \in {"google", "azure"} THEN Op(p.issuer, p)
    ELSE IF Alias("gitlab-ci") \in p.names
         THEN IF e.pipeline # "" THEN Op("gitlabci", p) ELSE NoOp
    ELSE IF p.issuer \in {"gitlab", "hello"} THEN Op(p.issuer, p)
    ELSE IF p.issuer = "github"
         THEN IF GithubOpOK(e) THEN Op("github", p) ELSE NoOp
    ELSE IF IsForgejo(p)
         THEN IF ForgejoOpOK(e) /\ p.issuer = "forgejo" THEN Op("forgejo", p) ELSE NoOp
    ELSE Op("generic", p)

\* The CI/CD providers of the library implement neither the browser flow nor
\* the refresh.
Browser(o) == o.kind \notin {"none", "gitlabci", "github", "forgejo"}

\* NewProviderConfigFromString
ParseOK(s) == s.parts >= 2 /\ s.client # "" /\ (s.issuer = "google" => s.secret)
Parsed(s) == [names |-> {s.alias}, issuer |-> s.issuer, client |-> s.client,
              send |-> FALSE]

\* CreateProvidersMap fails when an alias occurs twice in the list.
Duplicated(list) ==
    \E i, j \in DOMAIN list : i # j /\ list[i].names \cap list[j].names # {}

Named(list, alias) == {i \in DOMAIN list : alias \in list[i].names}

-----------------------------------------------------------------------------
(***************************************************************************)
(* determineProvider, as a function of the command line, the environment   *)
(* and the configuration.  e.list is OPKSSH_PROVIDERS as the sequence of   *)
(* its strings, empty when it is unset.                                    *)
(***************************************************************************)
Error(why) == [kind |-> "error", why |-> why]
Built(o) == IF o = NoOp THEN Error("build") ELSE [kind |-> "op", op |-> o]

WantedConfigFirst(a, e, c) ==
    IF a.alias # NoAlias THEN a.alias
    ELSE IF c.default # NoAlias THEN c.default
    ELSE IF e.default # NoAlias THEN e.default
    ELSE Alias("webchooser")

WantedAlias(a, e, c) ==
    IF a.alias # NoAlias THEN a.alias
    ELSE IF e.default # NoAlias THEN e.default
    ELSE IF c.default # NoAlias THEN c.default
    ELSE Alias("webchooser")

ListInForce(e, c) ==
    IF e.list = <<>> THEN c.providers ELSE [i \in DOMAIN e.list |-> Parsed(e.list[i])]

NotFoundHasty(alias, e) ==
    IF /\ alias.word \in {"github", "forgejo", "codeberg", "gitlab-ci"}
       /\ e.list # <<>>
    THEN Error("unset the list")
    ELSE Error("no such alias")

\* Why an alias is not in the list.  (ToLower: the case is ignored here.)
NotFound(alias, e) ==
    IF alias.word = "github" /\ ActionsKind(e) # "github" THEN Error("not here")
    ELSE IF alias.word \in {"forgejo", "codeberg"} /\ ActionsKind(e) # "forgejo"
    THEN Error("not here")
    ELSE IF alias.word = "gitlab-ci" /\ e.pipeline = "" THEN Error("not here")
    ELSE IF /\ alias.word \in {"github", "forgejo", "codeberg", "gitlab-ci"}
            /\ e.list # <<>>
    THEN Error("unset the list")
    ELSE Error("no such alias")

ByAlias(alias, list, e) ==
    IF Duplicated(list) THEN Error("duplicate")
    ELSE IF Named(list, alias) = {} THEN NotFound(alias, e)
    ELSE Built(ToProvider(list[CHOOSE i \in Named(list, alias) : TRUE], e))

\* The list of the web chooser: every entry that is not for CI/CD.
Chooser(list, e) ==
    LET offered == {i \in DOMAIN list : ~IsCICDProvider(list[i])}
        ops == {ToProvider(list[i], e) : i \in offered}
    IN  IF NoOp \in ops THEN Error("build")
        ELSE IF \E o \in ops : ~Browser(o) THEN Error("not browser")
        ELSE IF ops = {} THEN Error("nothing to choose")
        ELSE [kind |-> "chooser", ops |-> ops]

DetermineProvider(a, e, c) ==
    LET list == ListInForce(e, c)
        alias == WantedAlias(a, e, c)
    IN  IF a.provider # <<>>
        THEN IF ParseOK(a.provider[1]) THEN Built(ToProvider(Parsed(a.provider[1]), e))
             ELSE Error("parse")
        ELSE IF \E i \in DOMAIN e.list : ~ParseOK(e.list[i]) THEN Error("parse")
        ELSE IF list = <<>> THEN Error("no providers")
        ELSE IF alias.word # "webchooser" THEN ByAlias(alias, list, e)
        ELSE Chooser(list, e)

SendAny(c, issuer) == \E i \in DOMAIN c.providers : c.providers[i].send

\* ClientConfig.GetByIssuer returns the first entry with the issuer.
SendConfigured(c, issuer) ==
    LET of == {i \in DOMAIN c.providers : c.providers[i].issuer = issuer}
    IN  \E i \in of : (\A j \in of : i <= j) /\ c.providers[i].send

-----------------------------------------------------------------------------
(***************************************************************************)
(* LoginCmd.Run.                                                           *)
(***************************************************************************)
ASSUME InputsAssumption ==
    /\ Args # {} /\ Envs # {}
    /\ \A a \in Args : a.send \in BOOLEAN
    /\ \A c \in Configs \cup {Default} :
          /\ c.kind = "config" /\ DOMAIN c = {"kind", "default", "providers"}
          /\ c.providers \in Seq({c.providers[i] : i \in DOMAIN c.providers})
          /\ \A i \in DOMAIN c.providers : c.providers[i].send \in BOOLEAN

\* An alias, wherever it comes from, has a word and its spelling; the variables
\* of the environment are there, set or not; and the server of a GitLab CI/CD
\* job is a GitLab instance, neither Google nor Azure.
ASSUME ShapeAssumption ==
    /\ \A a \in Args : IsAlias(a.alias)
    /\ \A c \in Configs \cup {Default} : IsAlias(c.default)
    /\ \A e \in Envs : /\ IsAlias(e.default)
                        /\ {"default", "list", "actions", "pipeline"} \subseteq DOMAIN e
                        /\ e.pipeline \notin {"google", "azure"}

NoArgs == CHOOSE a \in Args : TRUE
NoEnv == CHOOSE e \in Envs : TRUE

Ends(how) == stage' = how

\* A command is started; config.yml is as earlier commands and the user left it.
Begin(a, e) ==
    /\ stage = "idle"
    /\ args' = a /\ env' = e /\ send' = a.send
    /\ stage' = "start"
    /\ UNCHANGED <<file, conf, found, op, stale>>

\* The process ends and with it everything but config.yml.
Exit ==
    /\ stage \in {"failed", "created", "configured", "login"}
    /\ stage' = "idle" /\ args' = NoArgs /\ env' = NoEnv
    /\ conf' = Default /\ found' = Error("none") /\ op' = NoOp
    /\ send' = FALSE /\ stale' = FALSE
    /\ UNCHANGED file

StatConfigCreates ==
    /\ stage = "start"
    /\ stage' = IF args.create THEN "create"
                ELSE IF file # NoFile THEN "read" ELSE "loaded"
    /\ UNCHANGED <<file, command, conf, found, op, send, stale>>

\* Stat of config.yml.
StatConfig ==
    /\ stage = "start"
    /\ stage' = IF file # NoFile THEN "read"
                ELSE IF args.create THEN "create" ELSE "loaded"
    /\ UNCHANGED <<file, command, conf, found, op, send, stale>>

\* GetClientConfigFromFile: the file may have gone or changed since Stat.
ReadConfig ==
    /\ stage = "read"
    /\ IF file \in {NoFile, Broken}
       THEN Ends("failed") /\ UNCHANGED conf
       ELSE stage' = "loaded" /\ conf' = file
    /\ UNCHANGED <<file, command, found, op, send, stale>>

\* What a write of the built-in configuration that fails after the file has been
\* truncated may leave: an empty file, which is a configuration without
\* entries, one with the first entries, or something that is not YAML.
Empty == [kind |-> "config", default |-> NoAlias, providers |-> <<>>]
WrittenInPart ==
    {Broken, Empty} \cup
    {[Default EXCEPT !.providers = SubSeq(@, 1, n)] : n \in 0 .. Len(Default.providers)}

\* CreateDefaultClientConfig writes over whatever is there by now; MkdirAll or
\* WriteFile may fail.
CreateConfig ==
    /\ stage = "create"
    /\ \/ file' = Default /\ Ends("created")
       \/ file' \in {file} \cup WrittenInPart /\ Ends("failed")
    /\ UNCHANGED <<command, conf, found, op, send, stale>>

\* --configure ends the command, with success or not; otherwise the lifetime
\* is checked and the CI/CD providers of the environment are appended.
RegisterCI ==
    /\ stage = "loaded"
    /\ \/ args.configure /\ stage' \in {"configured", "failed"} /\ UNCHANGED conf
       \/ ~args.configure /\ ~args.lifetimeOK /\ Ends("failed") /\ UNCHANGED conf
       \/ /\ ~args.configure /\ args.lifetimeOK
          /\ stage' = "registered"
          /\ LET actions == IF ActionsKind(env) = "forgejo"
                            THEN <<ForgejoProviderConfig>>
                            ELSE IF ActionsKind(env) = "github"
                            THEN <<GitHubProviderConfig>> ELSE <<>>
                 gitlab == IF env.pipeline = "" THEN <<>>
                           ELSE <<GitlabCiProviderConfig(env.pipeline)>>
             IN  conf' = [conf EXCEPT !.providers = @ \o actions \o gitlab]
    /\ UNCHANGED <<file, command, found, op, send, stale>>

Determine ==
    /\ stage = "registered"
    /\ found' = DetermineProvider(args, env, conf)
    /\ \/ found'.kind = "error" /\ Ends("failed") /\ UNCHANGED op
       \/ found'.kind = "op" /\ stage' = "chosen" /\ op' = found'.op
       \/ found'.kind = "chooser" /\ stage' = "asking" /\ UNCHANGED op
    /\ UNCHANGED <<file, command, conf, send, stale>>

\* WebChooser.ChooseOp: the user picks a provider, or the command is stopped.
ChooseOp ==
    /\ stage = "asking"
    /\ \/ \E o \in found.ops : op' = o /\ stage' = "chosen"
       \/ Ends("failed") /\ UNCHANGED op
    /\ UNCHANGED <<file, command, conf, found, send, stale>>

\* The access token, then Login or LoginWithRefresh.
StartLogin ==
    /\ stage = "chosen"
    /\ send' = (send \/ SendConfigured(conf, op.from.issuer))
    /\ Ends(IF args.auto /\ ~Browser(op) THEN "failed" ELSE "login")
    /\ UNCHANGED <<file, command, conf, found, op, stale>>

\* The user, or another program, writes or removes config.yml, before a command
\* looks for it or between its Stat and its use of the file.
EditConfig(f) ==
    /\ stage \in {"start", "read", "create"}
    /\ f # file
    /\ file' = f /\ stale' = (stage # "start")
    /\ UNCHANGED <<stage, command, conf, found, op, send>>

Init ==
    /\ file = NoFile /\ stage = "idle"
    /\ args = NoArgs /\ env = NoEnv
    /\ conf = Default /\ found = Error("none") /\ op = NoOp
    /\ send = FALSE /\ stale = FALSE

Next ==
    \/ \E a \in Args, e \in Envs : Begin(a, e)
    \/ Exit
    \/ StatConfig \/ ReadConfig \/ CreateConfig \/ RegisterCI
    \/ Determine \/ ChooseOp \/ StartLogin
    \/ \E f \in Configs \cup {NoFile, Broken} : EditConfig(f)

Spec == Init /\ [][Next]_vars

-----------------------------------------------------------------------------
(***************************************************************************)
(* Properties.                                                             *)
(***************************************************************************)
\* The type invariant of the login command up to the choice of a provider.
TypeOK ==
    /\ file \in Configs \cup WrittenInPart \cup {NoFile, Broken, Default}
    /\ stage \in {"idle", "start", "read", "create", "loaded", "registered",
                  "asking", "chosen", "login", "failed", "created", "configured"}
    /\ args \in Args /\ env \in Envs
    /\ found.kind \in {"error", "op", "chooser"}
    /\ op.kind \in {"none", "google", "azure", "gitlabci", "gitlab", "hello",
                    "github", "forgejo", "generic"}
    /\ {send, stale} \subseteq BOOLEAN

\* The entries a login may use when --provider is not given: those of
\* OPKSSH_PROVIDERS, or of the configuration with the CI/CD providers.
Candidates ==
    IF env.list # <<>> THEN {Parsed(env.list[i]) : i \in DOMAIN env.list}
    ELSE {conf.providers[i] : i \in DOMAIN conf.providers}

\* The chosen provider is the one candidate with the alias, or, when the alias
\* is webchooser, one that can be offered by the chooser.
Serves(alias) ==
    IF alias.word = "webchooser" THEN Browser(op)
    ELSE \A p \in Candidates : (alias \in p.names) = (p = op.from)

\* A login goes to a provider the user asked for.  What --provider gives wins
\* over everything.  Else the entry is one of OPKSSH_PROVIDERS if that is set,
\* even in a CI/CD environment, and of the configuration if not; it serves the
\* alias of the command line, without one that of OPKSSH_DEFAULT, without both
\* that of default_provider, and without any the web chooser.
ChoiceIsAsked ==
    stage \in {"chosen", "login"} =>
        /\ args.provider # <<>> => op.from = Parsed(args.provider[1])
        /\ args.provider = <<>> =>
              /\ op.from \in Candidates
              /\ args.alias # NoAlias => Serves(args.alias)
              /\ args.alias = NoAlias /\ env.default # NoAlias => Serves(env.default)
              /\ {args.alias, env.default} = {NoAlias} /\ conf.default # NoAlias =>
                    Serves(conf.default)
              /\ {args.alias, env.default, conf.default} = {NoAlias} => Browser(op)

\* The web chooser never shows an empty page or a provider that needs a CI/CD
\* runner, and the error for a provider without browser support cannot occur:
\* IsCICDProvider has sorted out every entry ToProvider builds for CI/CD.
ChooserIsUsable ==
    /\ found # Error("not browser")
    /\ found.kind = "chooser" => /\ found.ops # {}
                                 /\ \A o \in found.ops : Browser(o)

\* The advice to unset OPKSSH_PROVIDERS is good: the same command without the
\* variable finds the provider, unless the alias is not in lower case, the
\* configuration uses an alias twice (its own "github" entry beside the one
\* registered by the environment), or the GitLab server is not https.
AdviceHelps ==
    found = Error("unset the list") =>
        LET again == DetermineProvider(args, [env EXCEPT !.list = <<>>], conf)
        IN  \/ again.kind = "op" /\ ~Browser(again.op)
            \/ WantedAlias(args, env, conf).caps
            \/ again = Error("duplicate")
            \/ again = Error("build") /\ env.pipeline = "plain"

\* send_access_token is scoped to a provider as long as the issuer tells the
\* providers apart: when one entry of the configuration has the issuer of the
\* provider logged in to, wherever that provider was configured, the token goes
\* into the certificate exactly if the command line or that entry asks for it,
\* and when none has it, if the command line does.  Between two clients of one
\* issuer the code cannot choose (it takes the first entry for both); all that
\* holds then is that one of them asked.
TokenAsConfigured ==
    stage = "login" =>
        LET same == {i \in DOMAIN conf.providers :
                        conf.providers[i].issuer = op.from.issuer}
        IN  /\ \A i \in same : same = {i} =>
                  (send <=> args.send \/ conf.providers[i].send)
            /\ send => args.send \/ \E i \in same : conf.providers[i].send

\* An existing configuration survives login --create-config, except when it was
\* written after the command had found none (client_config.go:100).
CreateSparesConfig ==
    [][CreateConfig /\ ~stale => file = NoFile]_vars

=============================================================================
