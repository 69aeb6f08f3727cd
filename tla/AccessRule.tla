----------------------------- MODULE AccessRule -----------------------------
(***************************************************************************)
(* What the server promises, as one formula.  Authorized(v, r) says when   *)
(* request r is let in if the files it depends on are as in the view v.    *)
(*                                                                         *)
(* Files.  The five inputs of a decision are /etc/opk/providers,           *)
(* /etc/opk/config.yml, /etc/opk/policy.d, /etc/opk/auth_id and the        *)
(* target user's ~/.opk/auth_id.  A version of an ordinary file is         *)
(*   access   what the verify process may do with it: "none" (missing or   *)
(*            out of reach), "stat" or "read"                              *)
(*   perm     the permission bits (and the owner, where the code asks for  *)
(*            one) are the required ones                                   *)
(* and the parsed contents.  A view holds one version per system call that *)
(* looks at a file, because the code looks at a file more than once and    *)
(* the administrator may replace it in between.                            *)
(***************************************************************************)
EXTENDS PolicyRules

Files == {"providers", "config", "plugins", "system", "home"}

\* The system calls of one decision, and the file each of them looks at.
Looks == {"providersStat", "providersRead", "configRead", "configStat",
          "pluginsStat", "pluginsRead", "systemStat", "systemRead",
          "homeStat", "homeRead", "homeSudo"}

FileOf(look) ==
    CASE look \in {"providersStat", "providersRead"} -> "providers"
      [] look \in {"configRead", "configStat"} -> "config"
      [] look \in {"pluginsStat", "pluginsRead"} -> "plugins"
      [] look \in {"systemStat", "systemRead"} -> "system"
      [] OTHER -> "home"

\* FileLoader.LoadFileAtPath: Stat and CheckPerm, then ReadFile.
StatOK(file) == file.access # "none" /\ file.perm
ReadOK(file) == file.access = "read"

\* commands.ReadHome, run as root through sudo.  It opens the file once and
\* checks that very file, so one version decides.
ReadHomeOK(user, file) ==
    /\ user.regex
    /\ file.exists /\ ~file.symlink
    /\ file.owned /\ file.perm

\* loadPlugins returns a list, not an error.
PluginDirOK(dir) == dir.exists /\ dir.perm
PluginsLoad(dir) ==
    dir.exists /\ dir.listable
        /\ \A i \in 1..Len(dir.entries) : dir.entries[i].stat

\* The deny lists in force, given the contents that were read and the file
\* whose permissions were checked.
DenyListOf(read, stat) ==
    IF ReadOK(read) /\ StatOK(stat) /\ read.parses
    THEN read.denyList ELSE NoDenyList

NoUserInfo == [kind |-> "none", claims |-> [email |-> NoText, wild |-> FALSE,
                                            sub |-> NoText, extra |-> {}]]

\* What AuthorizedKeysCommand learns from the userinfo endpoint.
UserInfoOf(cert) ==
    IF cert.accessToken /\ cert.userInfo.kind # "error"
    THEN cert.userInfo ELSE NoUserInfo

-----------------------------------------------------------------------------
(***************************************************************************)
(* The rule.                                                               *)
(***************************************************************************)

\* The certificate carries a PK token that a configured provider vouches for.
Authentic(v, r) ==
    /\ StatOK(v["providersStat"]) /\ ReadOK(v["providersRead"])
    /\ CreateVerifierOK(ProvidersFromTable(v["providersRead"].lines))
    /\ r.cert.parses
    /\ VerifySshPktCert(ProvidersFromTable(v["providersRead"].lines), r.cert)
    /\ r.cert.payload

OnDenyList(v, r) ==
    Denied(DenyListOf(v["configRead"], v["configStat"]), r.cert.claims,
           r.user.name)

\* The plugins take part in the decision.
PluginsConsulted(v, r) ==
    /\ r.cert.envVars
    /\ PluginDirOK(v["pluginsStat"]) /\ PluginsLoad(v["pluginsRead"])

SomePlugin(v, Test(_)) ==
    \E i \in 1..Len(v["pluginsRead"].entries) : Test(v["pluginsRead"].entries[i])

GrantedByPlugin(v, r) == PluginsConsulted(v, r) /\ SomePlugin(v, PluginAllows)

\* A plugin whose command is blank ends the process before it decides.
StoppedByPlugin(v, r) == PluginsConsulted(v, r) /\ SomePlugin(v, Panics)

SystemRows(v) ==
    IF StatOK(v["systemStat"]) /\ ReadOK(v["systemRead"])
    THEN PolicyFromTable(v["systemRead"].lines) ELSE {}

HomeRows(v, r, sudo) ==
    IF ~r.user.lookup
    THEN {}
    ELSE IF StatOK(v["homeStat"]) /\ ReadOK(v["homeRead"])
         THEN ForUser(PolicyFromTable(v["homeRead"].lines), r.user.name)
         ELSE IF sudo /\ ReadHomeOK(r.user, v["homeSudo"])
              THEN ForUser(PolicyFromTable(v["homeSudo"].lines), r.user.name)
              ELSE {}

\* An answer of the userinfo endpoint that cannot be used makes the standard
\* policy refuse.
UserInfoUsable(cert) ==
    /\ UserInfoOf(cert).kind # "malformed"
    /\ UserInfoOf(cert).kind = "claims"
            => UserInfoOf(cert).claims.sub = cert.claims.sub

GrantedByPolicy(v, r, sudo) ==
    /\ UserInfoUsable(r.cert)
    /\ \E row \in SystemRows(v) \cup HomeRows(v, r, sudo) :
            RowGrants(row, r.cert, UserInfoOf(r.cert), r.user.name)

Authorized(v, r, sudo) ==
    /\ Authentic(v, r)
    /\ ~OnDenyList(v, r)
    /\ ~StoppedByPlugin(v, r)
    /\ GrantedByPlugin(v, r) \/ GrantedByPolicy(v, r, sudo)
    /\ r.cert.principals # "unsafe"
=============================================================================
