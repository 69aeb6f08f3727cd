# A verification project for opkssh

opkssh lets people log in to SSH servers with an OpenID Connect identity. The
client obtains an ID token, wraps it in an SSH certificate and stores the key
pair; the server, called by sshd as its `AuthorizedKeysCommand`, checks the
certificate and decides by policy files. The modules here model those parts in
TLA+. TLC checks them on small instances, and TLAPS proves the central
properties for all values of the constants.

Source paths below are relative to `src/`. `PROJECT.json` maps every definition
to the lines it stands for.

## 1. Inventory

### Server

| Part | State | Operations | What is hard about it |
|---|---|---|---|
| `opkssh verify` (`main.go`, `commands/verify.go`, `policy/enforcer.go`) | one process per request; the certificate, the deny lists, the userinfo answer | load providers, load config, verify the certificate, ask userinfo, deny lists, plugins, policy, principals | every file is looked at by several system calls and may be replaced between them; a failure of one step mostly lets the next go on |
| Policy plugins (`policy/plugins`) | `/etc/opk/policy.d` and its entries | check directory, list, load, run in order | no timeout; one bad entry affects all; a blank command panics |
| Policy loaders (`policy/policyloader.go`, `multipolicyloader*.go`, `commands/readhome.go`) | `/etc/opk/auth_id`, `~/.opk/auth_id` | stat, permission check, read, second attempt through sudo | two files read one after the other, three looks at the home file |
| Providers (`policy/providerloader.go`, `sshcert/sshcert.go`) | `/etc/opk/providers` | build a verifier, verify a PK token | rows with invalid columns, audiences, expiration policies |
| `opkssh add` (`commands/add.go`, `policy/policy.go`, `policy/files`) | the two `auth_id` files | choose file, create, chmod, load, change, truncate, write | no lock, not atomic, killed anywhere; the text format loses information |
| `opkssh permissions` (`commands/permissions.go`, `policy/files`) | existence, mode, owner and group of the files under `/etc/opk` | plan, ask, then create, mkdir, chmod and chown file by file; check | looks at every file twice; each system call may fail and the next goes on; others change the files meanwhile |
| `opkssh audit` (`commands/audit.go`, `policy/validator.go`) | what it has read so far | read the providers, the system policy, the home policies | three reads at three times; files it cannot read; an exit code and a JSON verdict |
| `opkssh inspect` | none | print a certificate | |

### Client

| Part | State | Operations | What is hard about it |
|---|---|---|---|
| Default key names (`writeKeysToSSHDir`, `removeDefaultSSHDirKeys`) | two files for each of a few names in `~/.ssh`, shared with the user's own keys | look for a name, write secret, write certificate; read, compare, remove secret, remove certificate | several commands at once; killed between any two system calls |
| Agent (`addCertToAgent`, `resolveAgentLifetimeSecs`) | the agent's certificates with their remaining lifetimes; `agentCert` | remove the superseded, add the new | replies may be lost; widths of integers; a later command knows nothing of an earlier one |
| Auto-refresh (`LoginWithRefresh`) | token lifetime, timer | wait, refresh, rewrite files, update the agent | time; options of the first round that later rounds ignore |
| Identity directory `~/.ssh/opkssh` | key files named after issuer and audience, and a config file | read-modify-write of config; write and remove keys | no lock; substring search; shortened names |
| Choosing a provider (`determineProvider`, `commands/config`) | flags, environment, `~/.opk/config.yml` | find, read or create the config, register the CI/CD providers, choose | many rules of precedence; entries classified in two places; a file that appears after it was looked for |

### How the parts interact

`add` and the administrator write the files that `verify` reads; `permissions
fix` changes who may read them, and `audit` judges by the same rules as `verify`
(both use `PolicyRules`). `login` chooses a provider, authenticates and
writes the key files, which `logout` removes and the user may also use. A
running auto-refresh and `logout` meet in the same files.

## 2. Modules

| Module | Models |
|---|---|
| `PolicyRules` | pure rules: policy rows and identity attributes, provider rows, token verification, deny lists, plugin results |
| `AccessRule` | the promise as one formula: `Authorized(view, request, sudo)` |
| `PolicyDecision` | abstract specification: look at the files in any order while they change, then decide by `Authorized` |
| `Verify` | `opkssh verify`, one action per look at a file or call to another part (listing `policy.d` and reading its entries is one look), and the administrator's `Edit` |
| `PolicyAdd` | concurrent `opkssh add` processes on the two policy files |
| `KeyStore` | concurrent logins and logouts, and `ssh-keygen`, on the default key names |
| `AgentLifetime` | how `--lifetime` and `agent_lifetime` become seconds, in bounded integers |
| `LoginRefresh` | one login command after another: authentication, output, agent exchange, refresh loop, time |
| `IdentityDir` | concurrent logins, refreshes, logouts and `login --configure` on `~/.ssh/opkssh` and `~/.ssh/config` |
| `ServerFiles` | `permissions fix`, `permissions check` and `audit` on the server's files, while others change them |
| `ProviderChoice` | `login` from its command line to the provider it talks to |
| `VerifyProofs`, `PolicyAddProofs`, `KeyStoreProofs`, `LoginProofs`, `IdentityDirProofs`, `IdentityLinesProofs`, `ServerFilesProofs`, `ProviderChoiceProofs` | theorems |
| `MCVerify`, `MCPolicyAdd`, `MCKeyStore`, `MCLoginRefresh`, `MCIdentityDir`, `MCServerFiles`, `MCProviderChoice` | instances for TLC |

### How state and actions correspond to the code

**Verify.** `pc` is the point in the program. `world` holds the current version
of each of the five files. `view` is a history variable: for each look
(`Looks`) it has the version that was seen. The directory `policy.d` counts as
one file: its entries are listed and read in one step. `seen` collects all versions that
were current during the request. The other variables are the locals of the Go
functions. A file's contents are its parsed lines. Its `access` and `perm` say
which system calls succeed. A text is a body, a domain and a flag for capitals,
enough for `EqualFold`, suffix matching and exact comparison to differ. A
certificate is a record of what its parsing and verification yield; the
cryptography belongs to the openpubkey library and is external.

**PolicyAdd.** Each process goes through `GetPolicyPath`, `Exists`, `Create`,
`Chmod`, `LoadPolicy`, `CheckPerm`, `ReadPolicy`, `OpenTruncate` and `Write`.
`access` is what the process may do with the system file: a file with the right
bits that it may not read, and any file at all below an `/etc/opk` it may not
enter, sends it to the home policy. That file may be created, given its bits and
emptied by other processes between the calls of a load, so these are separate
steps; the system file is never created and keeps its bits, and a load of it is
one step and the read. `ReadBack` is what a written line reads back as: a
value with `#` is cut there, because `CleanRow` splits at `#` and the quoting
in `ToString` leaves it alone. `Tail` is what stays behind when two writes at
offset 0 overlap. `alone`, `before` and `overlap` are history variables for the
properties. A killed process and a system call that fails are one action, `Crash`.

**KeyStore.** `sec[s]` and `cert[s]` are the two files of name `s`. Opening
with truncation and writing are separate steps, so kills and other processes
come in between. `linked` tells whether the file a login holds open is still the one
under the name. `Comments` gives the trailing comment a certificate may end up
with when two writes overlap. A login may write again, as a refresh does.
`UserKeygen` may happen at any time and over any name; `found` remembers where a
key of the user was made: beside a certificate of opkssh, while an opkssh command
was at work, or neither.

**LoginRefresh.** `ver` numbers the certificates; `disk` and `agent` say where
they are. `AgentRemove` and `AgentAdd` can fail before or after the agent acted, and the
agent may refuse a removal; the connection has a deadline, `io`, within which
time passes. `faults` and `lost` count the failures. `before` separates the certificates of
the current command from those of earlier ones. `Tick` is one unit of time for
token, timer and agent together; it does not outrun a timer that is due, and it
passes while the command waits for the agent, the provider or the user.

**IdentityDir.** `ssh` and `config` are the two config files as sets of lines,
`sec` and `cert` the key files. Truncating and writing a file are separate
steps. A name is a sequence of characters that `Cleaned` and the cut compute
from issuer and audience (`makeSSHKeyFileName`), because names that collide and
names that begin alike matter: `Mentions` is `strings.Contains`. A line of the
user may hold the path of a key, too (`Note`); `Shadowed` says that a line other
than its own holds the path of a name. Two writes that
overlap may leave the rest of a line behind. A login that has returned may write
again, as a refresh does, whatever a logout did in between; it looks for the
identity directory only once. `alone`, `overlap`, `removed`, `single` and `had`
are history variables.

**ServerFiles.** `attr` has existence, mode, owner and group of each file,
`text` the lines of the files `audit` reads. `fix` goes from `FixBegin` (plan)
over `Answer` through `Stat`, `CreatePolicy`, `Chmod`, `Chown`, `MakeDir` and
`ListPlugins` to `Report`; every system call may fail (`Accident`, `Overlooks`).
A look that fails is taken for a missing file: `misplanned`, `blind` and `missed`
collect the files at which a look of the plan, of the repair and of the audit
failed. An operation names what the plan prints: for a plugin the owner alone,
although `Chown` without a group sets group root. `Retouch`
and `Rewrite` are other people and programs. `CheckProblems` is what
`permissions check` lists. `audit` reads in three steps. One home stands for
all of them, and one plugin file for all plugins. Initially the files are as
`scripts/install-linux.sh` leaves them, or partly as found.

**ProviderChoice.** `stage` is how far `LoginCmd.Run` has come, `file` the
config on disk, `conf` the one in memory. `DetermineProvider` and `ToProvider`
are operators, case for case as in the code. An alias has a flag for capitals,
because some comparisons ignore the case and some do not. `EditConfig` changes
the file under a running command. `CreateConfig` may fail after it has truncated
the file and written a part (`WrittenInPart`). What the openpubkey library builds is a kind
of provider and the entry it was built from.

## 3. Runs

Passing runs:

| Run | Instance | Distinct states | Properties |
|---|---|---|---|
| `Verify` | many requests and lines, every state of every file, and 2 edits of 2-3 versions per file | 292,758 | `VerdictJustified`, `StateFollowsLooks`, `DenyListEnforced`, `GrantHasSource`, `StandingGrantHonoured`, `DecidesByTheRule`, `Answers` |
| `PolicyAdd` | 2 processes, 1 kill, 3 rules, 3 system and 2 home files, 4 kinds of access | 19,256 | `CompleteAdd`, `NoInventedGrant`, `UnreadableIsEmpty` |
| `KeyStore` | 2 names, 2 logins with 3 writes in all, 2 logouts, 1 user key, 2 kills | 2,336,077 | `LoginLeavesPair`, `BrokenByAccident`, `FailsOnlyWhenFull`, `LogoutRemovesPairs`, `LogoutSparesUserKeys`, `LoginSparesUserKeys`, `CertGoesLast` |
| `LoginRefresh` | 2 commands, 3 certificates, 3 token lifetimes, settings at and past each bound, an agent that takes up to 2 units | 699,512 | `LifetimeAsAsked`, `AgentTracksDisk`, `LeftoversCounted`, `RefreshedInTime`, `LeftoversExpire` |
| `IdentityDir` | 3 identities (one name a prefix of another, two the same), 2 logouts, 1 configuring login, 3 commands, 1 kill, a comment of the user with the path of a key | 4,409,161 | `LoginIsUsable`, `LogoutClears`, `DanglingCounted`, `PairsAreListed`, `UserLinesKept` |
| `ServerFiles` | files missing or with 1 to 3 other attributes, 5 starting contents, 2 changes from outside, 1 failing call | 3,982,356 | `FixRepairs`, `DoesWhatItPlanned`, `AuditFindsDeadLines`, `CleanServerWorks`, `FixKeepsAccess`, `FixKeepsLines` |
| `ProviderChoice` | 26 command lines, 144 environments, 5 configurations beside the default, edits at any time before the file is read | 334,856 | `ChoiceIsAsked`, `ChooserIsUsable`, `AdviceHelps`, `TokenAsConfigured`, `CreateSparesConfig` |

The type invariant `TypeOK` of each module is proved for all instances
(section 5); the runs do not repeat it.

Runs that end in a violation, each a disagreement between the code and a
statement in the repository:

| Run | Property | The code | The statement |
|---|---|---|---|
| `VerifyBlankPlugin` | `PluginsOnlyExpand` | a plugin whose command is blank panics and ends the whole decision (`policy/plugins/plugins.go:246`) | "Policy plugins can only expand the set of allow set, not shrink it" (`policy/enforcer.go:264`) |
| `PolicyAddHash` | `AddedIsGranted` | a value with `#` is cut when read back | "Successfully added new policy" (`main.go:122`) |
| `KeyStoreOverwrite` | `OverwritesOnlyItsOwn` | only the certificate beside a secret key is examined; `ssh-keygen` over the name leaves it there | "check if it was generated by openpubkey" (`commands/login.go:1011`) |
| `LoginRefreshPrint` | `PrintsInsteadOfWriting` | the first refresh writes the keys to disk | "instead of writing them to the filesystem" (`main.go:223`) |
| `ServerFilesPlugin` | `FixedPluginsAsDocumented` | `permissions fix` gives plugin configs to group root (`policy/files/fileperms_ops.go:94`) | the ownership `docs/policyplugins.md:59` asks for |

The comment of `GetPolicyPath` (`commands/add.go:70`, "True means home policy")
is the reverse of what the function returns; the model follows the function.
`add` rewrites the policy file from the parsed policy, so comments and lines
that do not parse are gone afterwards (`ToTable`), although its help speaks of
appending. Its fallback to the home policy depends on whether the system file
can be read, not on whether it can be written (`main.go:84`, `commands/add.go:73`).

Exceptions that properties spell out, because the code makes them:

- `FixRepairs` claims nothing of a missing providers file, which `fix` does not
  create, nor of a `policy.d` that exists with wrong permissions, which it does
  not touch: `check` goes on reporting both after a successful fix, although
  `docs/audit.md:58` sends people to `fix` for repairs.
- `FixRepairs`, `DoesWhatItPlanned`, `FixKeepsLines`: a Stat that fails with any
  error is taken for a missing file, so a providers file or `config.yml` is
  passed over, and the policy is created anew, that is, emptied.
- With `--json`, `fix` exits with 0 whatever failed; `FixRepairs` excepts it.
- `AuditFindsDeadLines`, `CleanServerWorks`: a policy file whose Exists fails is
  taken for a missing one, and its lines are not audited.
- `CleanServerWorks`: neither `audit` nor `check` looks at the expiration policy
  of a providers line, and an invalid one makes `verify` refuse everybody.
- `AuditFindsDeadLines`: homes that could not be listed are only a warning.
- `TokenAsConfigured`: `send_access_token` is looked up by issuer; of two
  clients of one issuer the first decides for both (`docs/config.md:31` calls it
  scoped to a provider). With several entries the property only says that one
  of them, or the command line, asked.
- `AdviceHelps`: the advice to unset `OPKSSH_PROVIDERS` does not help with an
  alias in capitals, or when the configuration has an entry with the same alias.
- `CreateSparesConfig`, `FixKeepsLines`: a file written between the Stat that
  found none and the write is overwritten.
- `LoginIsUsable`, `PairsAreListed`: a name whose path another line holds, that of
  a longer name or a comment of the user, is taken for listed and never added.
- `LogoutSparesUserKeys`, `LoginSparesUserKeys`: a key that the user makes while
  an opkssh command is at work may be removed or replaced, because the commands
  look first and act by name later; login also replaces one that was made beside
  a certificate of opkssh (`KeyStoreOverwrite`).

### Why the bounds are enough

- *Verify*: one process decides alone, so what matters is which version each
  look sees. A file is looked at by at most three calls. Two edits produce every
  mixed pair of versions of a file, and one change in each of two files. The
  theorems of section 5 cover any number of edits.
- *PolicyAdd*: two processes show every race between two steps of different
  processes; the kill hits either. The theorems cover any number of both.
- *KeyStore*: the code has two names per key type; three writes let one login
  write again beside the other. Two logins and two logouts
  give every pair of overlapping commands. Two kills are needed for two broken
  names, that is, for a login that finds no name.
- *LoginRefresh*: three certificates give an added, a replaced and a leftover
  certificate; two commands give a command that knows nothing of the earlier.
  A second has 4 units, lifetimes end at 3 seconds and integers at 15, so that
  each conversion has values that are too small, too large and wrapping. The
  agent's deadline, 2 units, is longer than one token lives and shorter than
  another.
- *IdentityDir*: three commands are a login, a logout and one that overlaps
  either, or three after each other; the kill hits any of them. The names give
  a collision and a prefix, the only relations of two names the code can notice;
  the user's comment holds the longer path, and so both.
- *ServerFiles*: two changes from outside suffice to change a file between the
  plan and the second look and again before an audit; one failing call
  separates every chmod from its chown, or hides one file from one look. The theorems cover any number of both.
- *ProviderChoice*: a command is sequential; every rule of precedence has a
  command line, an environment and a configuration on either side of it.

Deadlock is checked in `Verify`, `PolicyAdd` and `ProviderChoice`, which have an
explicit end step. The others may stop when their bounds are used up.

### Fairness

- `Verify`: weak fairness of the process's own steps while it does not wait for
  somebody else (`Waits`). No timeout ends its waiting for the issuer's keys and
  userinfo, for the sudo child or for a plugin, so `Answers` excepts a process
  that waits for ever.
- `LoginRefresh`: weak fairness of the command's own steps between two waits
  and of time. None is assumed of the provider or the user; the agent's replies
  end at the latest with the deadline of the connection.
- The other modules assume none and claim no liveness: their processes may be
  killed, and a fix or a login waits for an answer of the user.

## 4. Hard behaviours and the properties about them

- *A decision over files that change.* `DecidesByTheRule`: the process
  implements `PolicyDecision`. `DenyListEnforced`, `GrantHasSource` and
  `StandingGrantHonoured` say what an administrator can rely on while editing.
  A rule that is moved between the system and the home file during a request
  can be missed by both reads; `StandingGrantHonoured` therefore asks for the
  line to stay in the system file.
- *Partial failure.* A config that fails to load means empty deny lists, a
  plugin directory that fails to load means no plugins, a policy file that
  fails to load means the other one decides: `StateFollowsLooks`.
- *Lost updates and kills in `add`.* Nothing protects two overlapping adds, and
  `CompleteAdd` does not claim so: it is about a process nobody disturbed.
  `NoInventedGrant` holds in every interleaving in which no two writes overlap.
- *Interrupted logins and logouts.* `BrokenByAccident` counts what kills cost;
  `LogoutSparesUserKeys` and `LoginSparesUserKeys` hold with any kills and overlaps
  of opkssh commands, for keys the user made while none was at work.
- *An unreliable agent.* `LeftoversCounted` bounds what accumulates and
  `LeftoversExpire` says that all of it goes.
- *A config file shared without a lock.* Logins, refreshes and logouts read,
  truncate and rewrite the identity directory's config. `LoginIsUsable` and
  `LogoutClears` are about a command that nothing disturbed, whatever state
  earlier ones left; `PairsAreListed` and `UserLinesKept` hold until commands
  overlap or are killed; `DanglingCounted` says what kills and `logout -i` cost.
- *A repair that fails half way.* `FixKeepsAccess` holds after every system
  call of `fix`, failing ones included: the order of chmod and chown never
  takes a file from `verify` that it could load. `DoesWhatItPlanned` needs that
  nobody changes a file between the announced plan and the second look.
- *Two tools that vouch for a third.* `AuditFindsDeadLines` and
  `CleanServerWorks` relate what `audit` and `check` say to the rules by which
  `verify` loads the same files.
- *Rules of precedence.* `ChoiceIsAsked` states them once, declaratively,
  against the code's order of cases. `ChooserIsUsable` relates the two places
  that classify an entry as CI/CD. `AdviceHelps` runs the choice again with the
  variable unset.

## 5. Proofs

All proofs are checked by `tlapm`. The assumptions are the named `ASSUME`s
of the modules, which TLC evaluates in every run. Each module has its type
invariant proved (`TypeCorrect`, `AddTypes`, `KeyStoreTypes`, `LoginTypes`,
`IdentityDirTypes`, `ServerFilesTypes`, `ProviderChoiceTypes`).

- `VerifyProofs`. The inductive invariant is `StateFollowsLooks`: at each label
  the locals are what `AccessRule` computes from the looks made so far. The
  verdict alone is not inductive, because it says nothing before the end.
  `TypeCorrect` (every look saw a version that was current during the request)
  and this invariant (`AgreementInvariant`) give `VerdictIsJustified`,
  `DenyListIsEnforced`, `GrantsHaveSources`, `StandingGrantsAreHonoured`. In
  `Implements` every step is a look, the decision or a stutter of
  `PolicyDecision`.
- `PolicyAddProofs`. `AddIsUnion` is about the pure function: the grants after
  are the grants before and the new one. `AddTypes` shows that files stay well
  formed (`FilesInv`). `AddsAreComplete` rests on `AloneInv`: what a
  process that is alone with its file has read is what the file still grants.
  `UnreadableHomeIsEmpty` rests on `PermInv`. `NothingIsInvented` rests on
  `KnownInv`: without overlapping dumps a file is empty from its truncation to
  its write, so nothing is left behind the new text to be read as a line, and
  what is in a file or in memory was in some file before or asked for.
- `KeyStoreProofs`. `KeyStoreTypes`; `LogoutSparesTheUser` from `SparesInv` (no
  certificate is for a key of the user, so what a logout is about to remove is
  the key that matched, or one the user has made since); `LoginLeavesItsPair` from `PairInv`; `CertificatesGoLast`
  from `SerialInv`. `LogoutRemovesAllPairs` rests on `ClearedInv`: a logout
  that is alone has left no pair among the names it has passed.
  `NamesLostToAccidentsOnly` rests on `AccidentInv`, which counts a name as lost
  from the step that breaks it unless the command that broke it is still at
  work, so that the count grows only with a kill. `LoginSparesTheUser` rests on
  `FreeInv`: beside a key that the user made at rest where opkssh had no
  certificate there still is none, and no login has claimed its name.
  `FailureMeansFull` rests on `ScanInv` (the names a login has passed are taken)
  and on that count.
- `LoginProofs`. `LifetimeIsAsAsked`, for every width of integers: an
  accepted setting is neither wrapped nor truncated to zero. `LoginTypes` and
  `LifetimesAreAsAsked` carry it to every state. `RefreshesInTime` rests on
  `TimeInv`: from the making of a certificate to the wait no more time passes
  than the deadline of the agent's connection allows, and the wait counts down
  with the token. `AgentFollowsDisk` rests on
  `TrackInv`, which says at each label which of its own certificates the command
  has in the agent. `LeftoversAreCounted` rests on `LeftInv`: a command that is
  about to add a certificate has removed the one it added before.
- `IdentityDirProofs`. `OneAtWork` says that without overlap one process is at
  work. `UserLinesSurvive` rests on `OwnInv`: a line of the user that is not in a
  file is in the memory of the one process that truncated it.
  `LogoutIsComplete` rests on `ClearInv`: a full logout that is alone has left
  no pair among the names it has passed and no line for those it removed. The
  lemmas `QuietSteps`, `TextSteps` and `Aside` sort the actions by what they
  touch, so that an invariant is argued for the few that can disturb it.
  `LoginLeavesUsableKey` rests on `UsableInv`, which says how far a login that is
  alone has come: its line before its keys, its secret key before its
  certificate. That its line is in the file needs `HoldInv`: what it writes
  back is what it found, and the file is empty then.
- `IdentityLinesProofs` builds on these: it relates the lines to the key files.
  `EveryPairIsListed` rests on `MentionInv`: the name of a pair is in the
  file, or in the memory of the login that truncated it, or a logout is at work.
  `DanglingLinesAreCounted` rests on `DangleInv`, which counts in every state the
  names that are listed, have no key and that no command at work will still
  write or strike out; a step adds one to them only by a kill or as the last
  step of `logout -i`.
- `ServerFilesProofs`. `CourseInv`: before a repair nothing has been tried, and its
  result is known only at the end. `RepairsKeepLines` comes from `LinesInv` (a file that does not exist has no lines, and only others can
  bring the policy into being between its Stat and its creation);
  `RepairsAsPlanned` from `PlanInv` (while nobody interferes the second look
  sees what the plan saw, but for the files at which one of the looks failed); `RepairsAreComplete` from `RepairInv` (the files
  behind the current one are right, or an error has been noted);
  `AuditIsComplete` and `CleanMeansWorking` from `AuditInv` (until a file
  changes, the issuers and statuses in memory are those of the files).
  `RepairsKeepAccess` needs the types only: it is a fact about each step.
- `ProviderChoiceProofs`. Lemmas about the operators carry the weight:
  `NotForCICD` (what the chooser keeps has a browser flow, for every entry and
  environment), `ByAliasFits`, `ChooserFits` and `DetermineFits` (what
  `determineProvider` returns fits what was asked). `ChooserAlwaysUsable` and
  `ChoiceAlwaysAsked` carry them to every state, by the invariants `ResultInv`
  and `ChoiceInv`. `TokenAlwaysAsConfigured` rests on `TokenInv` (at login, `send` is
  what the command line and the first entry of the issuer say); `ConfigsSurvive` on
  `CreateInv`. `AdviceAlwaysHelps` rests on `AdviceInv` (the CI/CD providers of
  the environment are in the configuration when the advice is given) and on
  three lemmas: the advice is only given for a provider of the environment
  (`AdviceMeansHere`), its entry is found by its alias unless an alias occurs
  twice (`ByAliasFinds`), and it is built there, not for the browser
  (`EntryIsBuilt`). It needs `ShapeAssumption`: `CI_SERVER_URL` is the URL of a
  GitLab instance ("holding the instance URL",
  `commands/config/providerconfig.go:47`), never Google's or Azure's issuer, for
  which `ToProvider` would build a browser provider.

Every safety invariant and action property of the passing runs is proved, for
all values of the constants. Only model-checked are the two liveness
properties, `Answers` and `LeftoversExpire`: fairness is outside the prover's
reach.

## 6. What is not modelled

- Cryptography, token signatures and the providers' protocols: the openpubkey
  library's, external to the models.
- The Windows build (access control lists, profiles, elevation): the models
  follow the Unix build.
- Formatting, logging, version detection, `inspect`: they change no state that
  another part reads.
- The installation scripts, except for the owners and modes they leave, which
  are the initial state of `ServerFiles`: sequential calls of package managers
  and sshd.
- An identity attribute or a claim is not built character by character. A
  subject claim that itself spells an `oidc-match-end:` attribute is left out.
- Scopes, redirect URIs, the text of client secrets and the other fields of a provider entry
  that only the openpubkey library reads; the web page of the chooser.
- `audit` of more than one home, and of plugin configurations (it reads none);
  more than one plugin file in `permissions fix`, which treats them alike.
- The environment `verify` gives to a plugin: only whether building it fails.
- `add` and `verify` composed: `Edit` of `Verify` already replaces a file by any
  version at any time, a truncated or half-written one included, which is all
  that `verify` can see of an `add`.
