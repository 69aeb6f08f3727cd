-------------------------- MODULE MCProviderChoice --------------------------
(***************************************************************************)
(* Command lines, environments and configurations for TLC.                 *)
(***************************************************************************)
EXTENDS ProviderChoice

Str(alias, parts, issuer, client) ==
    [alias |-> Alias(alias), parts |-> parts, issuer |-> issuer, client |-> client,
     secret |-> parts >= 3]

Plain == [provider |-> <<>>, alias |-> NoAlias, send |-> FALSE, auto |-> FALSE,
          create |-> FALSE, configure |-> FALSE, lifetimeOK |-> TRUE]

Aliases == {NoAlias, Alias("work"), Alias("google"), Alias("github"),
            [word |-> "github", caps |-> TRUE], Alias("codeberg"),
            Alias("gitlab-ci"), [word |-> "webchooser", caps |-> TRUE]}

MCArgs ==
    {[Plain EXCEPT !.alias = a, !.auto = b] : a \in Aliases, b \in BOOLEAN}
    \cup {[Plain EXCEPT !.create = TRUE], [Plain EXCEPT !.configure = TRUE],
          [Plain EXCEPT !.lifetimeOK = FALSE], [Plain EXCEPT !.send = TRUE]}
    \cup {[Plain EXCEPT !.provider = <<s>>] :
             s \in {Str("", 1, "other", "id"), Str("", 2, "google", "id"),
                    Str("", 3, "google", "id"), Str("", 2, "plain", "id"),
                    [Str("", 3, "google", "id") EXCEPT !.secret = FALSE],
                    Str("", 2, "forgejo", "id")}}

Lists == {<<>>, <<Str("work", 1, "other", "id")>>,
          <<Str("google", 3, "google", "id"), Str("work", 2, "other", "id")>>,
          <<Str("github", 2, "github", "unused")>>}

MCEnvs == [default : {NoAlias, Alias("work"), Alias("webchooser")}, list : Lists,
           actions : {"none", "github", "forgejo", "third"},
           pipeline : {"", "gitlab", "plain"}]

MCDefault == [kind |-> "config", default |-> Alias("webchooser"),
              providers |-> <<Entry({"google"}, "google", "id"),
                              Entry({"azure", "microsoft"}, "azure", "id"),
                              Entry({"gitlab"}, "gitlab", "id"),
                              Entry({"hello"}, "hello", "id")>>]

Conf(default, providers) ==
    [kind |-> "config", default |-> Alias(default), providers |-> providers]

\* No entries at all; two clients of one issuer that differ in
\* send_access_token; an own entry for GitHub and one that cannot be built; an
\* OP whose issuer looks like that of Forgejo, and another instance of Forgejo;
\* the GitLab OP under the alias of the CI/CD provider.
MCConfigs == {
    Conf("", <<>>),
    Conf("work", <<[Entry({"work"}, "other", "id") EXCEPT !.send = TRUE],
                   Entry({"play"}, "other", "id2"), Entry({"google"}, "google", "id")>>),
    Conf("work", <<Entry({"github"}, "github", "unused"), Entry({"work"}, "plain", "id")>>),
    Conf("webchooser", <<Entry({"work"}, "forgejo", "id"),
                         Entry({"google", "gitlab-ci"}, "google", "id")>>),
    Conf("play", <<Entry({"play"}, "forgejo2", "unused"), Entry({"gitlab-ci"}, "gitlab", "")>>) }
=============================================================================
