------------------------------ MODULE MCVerify ------------------------------
(***************************************************************************)
(* Instances of Verify for TLC.  ManyRequests and ManyLines vary the       *)
(* certificate, the user and the lines of the files; ManyFiles varies the  *)
(* state of the files; both hold still.  EditedVersions has few versions   *)
(* of each file, and an administrator who makes up to MaxEdits edits.      *)
(***************************************************************************)
EXTENDS Verify

Text(b, d) == [body |-> b, dom |-> d, caps |-> FALSE]
Caps(t) == [t EXCEPT !.caps = TRUE]

root == Text("root", "")
ann == Text("ann", "@acme")
bob == Text("bob", "@acme")
annSub == Text("1234", "")
acme == "https://acme"
other == "https://other"

Attr(kind, text) == [kind |-> kind, text |-> text, sections |-> <<>>, globs |-> {}]
Plain(text) == Attr("plain", text)
Line(principal, attr, issuer) ==
    [cols |-> 3, principal |-> principal, attr |-> attr, issuer |-> issuer]

AnnLine == Line(root, Plain(ann), acme)
Group == [Attr("oidc", NoText) EXCEPT !.sections = <<"oidc", "groups", "dev">>]
Short == [Attr("oidc", NoText) EXCEPT !.sections = <<"oidc", "groups">>]
Repo == [Attr("repo", Text("repo:x", "")) EXCEPT !.globs = {annSub}]

Provider(op, client, expiry) ==
    [cols |-> 3, issuer |-> acme, clientID |-> client, expiry |-> expiry, op |-> op]

File(lines) == [access |-> "read", perm |-> TRUE, lines |-> lines]
Gone(file) == [file EXCEPT !.access = "none"]
NoRead(file) == [file EXCEPT !.access = "stat"]
BadPerm(file) == [file EXCEPT !.perm = FALSE]

Home(lines) ==
    [exists |-> TRUE, access |-> "none", perm |-> TRUE, symlink |-> FALSE,
     owned |-> TRUE, lines |-> lines]

Config(emails, users) ==
    [access |-> "read", perm |-> TRUE, parses |-> TRUE,
     denyList |-> [emails |-> emails, users |-> users]]

Entry(command, answer) ==
    [stat |-> TRUE, yml |-> TRUE, loads |-> TRUE, command |-> command, answer |-> answer]
Dir(entries) ==
    [exists |-> TRUE, perm |-> TRUE, listable |-> TRUE, entries |-> entries]
Allow == Entry("ok", "allow")
Other == Entry("ok", "other")
NoDir == [Dir(<<>>) EXCEPT !.exists = FALSE]

-----------------------------------------------------------------------------
AnnClaims == [email |-> ann, wild |-> FALSE, sub |-> annSub,
              extra |-> {<<"groups", "dev">>}]
BareClaims == [email |-> NoText, wild |-> FALSE, sub |-> NoText, extra |-> {}]
Answer(kind, claims) == [kind |-> kind, claims |-> claims]

Cert ==
    [parses |-> TRUE, hasPkt |-> TRUE, signed |-> TRUE, issuer |-> acme,
     aud |-> "client", ciClaims |-> FALSE, fresh |-> {"24h", "never"},
     keyMatches |-> TRUE, payload |-> TRUE, claims |-> AnnClaims,
     accessToken |-> FALSE, userInfo |-> Answer("error", BareClaims),
     envVars |-> TRUE, principals |-> "safe"]

\* The holder of an access token whose ID token has only the sub.
InfoCert(answer) ==
    [Cert EXCEPT !.accessToken = TRUE, !.userInfo = answer,
                 !.claims = [BareClaims EXCEPT !.sub = annSub]]

User(name) == [name |-> name, lookup |-> TRUE, regex |-> TRUE]
Request(cert) == [user |-> User(root), cert |-> cert]

Certs ==
    {Cert,
     [Cert EXCEPT !.parses = FALSE], [Cert EXCEPT !.hasPkt = FALSE],
     [Cert EXCEPT !.signed = FALSE], [Cert EXCEPT !.issuer = other],
     [Cert EXCEPT !.aud = "ci"], [Cert EXCEPT !.aud = "ci", !.ciClaims = TRUE],
     [Cert EXCEPT !.fresh = {"never"}], [Cert EXCEPT !.keyMatches = FALSE],
     [Cert EXCEPT !.payload = FALSE], [Cert EXCEPT !.envVars = FALSE],
     [Cert EXCEPT !.principals = "unsafe"], [Cert EXCEPT !.principals = "none"],
     [Cert EXCEPT !.claims.wild = TRUE], [Cert EXCEPT !.claims = BareClaims],
     [Cert EXCEPT !.claims.email = Caps(ann)],
     InfoCert(Answer("claims", AnnClaims)), InfoCert(Answer("malformed", BareClaims)),
     InfoCert(Answer("error", BareClaims)), InfoCert(Answer("claims", BareClaims))}

ManyRequests ==
    {Request(c) : c \in Certs}
        \cup {[user |-> u, cert |-> Cert] :
                u \in {User(Caps(root)), [User(root) EXCEPT !.lookup = FALSE],
                       [User(root) EXCEPT !.regex = FALSE]}}

\* Every kind of line, in files that can be read.
ManyLines ==
    [providers |->
        {File({Provider("oidc", "client", "24h"), Provider("gitlabci", "ci", "never")}),
         File({Provider("github", "", "24h"), [Provider("oidc", "", "") EXCEPT !.cols = 2]})},
     config |-> {Config({}, {}), Config({Caps(ann)}, {}), Config({bob}, {root})},
     plugins |-> {NoDir, Dir(<<Other, Allow>>)},
     system |->
        {File({AnnLine}), File({Line(Caps(root), Plain(ann), acme), Line(root, Plain(ann), other)}),
         File({Line(root, Group, acme), Line(root, Short, acme)}),
         File({Line(root, Attr("suffix", Text("", "@acme")), acme)}),
         File({Line(root, Repo, acme), [AnnLine EXCEPT !.cols = 2]}),
         File({Line(root, Attr("empty", NoText), acme),
               Line(root, Attr("bare", NoText), acme)})},
     home |-> {[Home({}) EXCEPT !.exists = FALSE],
               Home({AnnLine, Line(bob, Plain(ann), acme)})}]

-----------------------------------------------------------------------------
FewRequests ==
    {Request(Cert), Request([Cert EXCEPT !.envVars = FALSE]),
     Request(InfoCert(Answer("claims", AnnClaims)))}

\* Every state a file can be in.
ManyFiles ==
    [providers |->
        {File({Provider("oidc", "client", "24h")}), File({}), NoRead(File({})),
         File({Provider("oidc", "client", "24h"), Provider("oidc", "client", "1 day")}),
         BadPerm(File({Provider("oidc", "client", "24h")}))},
     config |->
        {Config({}, {}), Config({ann}, {}), [Config({ann}, {}) EXCEPT !.parses = FALSE],
         BadPerm(Config({ann}, {})), Gone(Config({}, {}))},
     plugins |->
        {NoDir, Dir(<<Other, Allow>>),
         Dir(<<Entry("refused", "allow"), Entry("ok", "error")>>),
         Dir(<<[Allow EXCEPT !.loads = FALSE], [Allow EXCEPT !.yml = FALSE]>>),
         Dir(<<Allow, [Other EXCEPT !.stat = FALSE]>>),
         Dir(<<Allow, Entry("blank", "other")>>),
         Dir(<<Entry("ok", "hang")>>), BadPerm(Dir(<<Allow>>))},
     system |->
        {File({AnnLine}), File({}), NoRead(File({AnnLine})), BadPerm(File({AnnLine}))},
     home |->
        {[Home({}) EXCEPT !.exists = FALSE], Home({AnnLine}),
         [Home({AnnLine}) EXCEPT !.symlink = TRUE], [Home({AnnLine}) EXCEPT !.owned = FALSE],
         [Home({AnnLine}) EXCEPT !.access = "read"], BadPerm(Home({AnnLine}))}]

-----------------------------------------------------------------------------
EditedRequests == {Request(Cert), Request(InfoCert(Answer("claims", AnnClaims)))}

EditedVersions ==
    [providers |-> {File({Provider("oidc", "client", "24h")}), BadPerm(File({}))},
     config |-> {Config({ann}, {}), BadPerm(Config({}, {})), Config({}, {})},
     plugins |-> {NoDir, Dir(<<Allow, Other>>)},
     system |-> {File({AnnLine}), File({Line(root, Plain(bob), acme)}), BadPerm(File({AnnLine}))},
     home |-> {Home({AnnLine}), [Home({}) EXCEPT !.access = "read"],
               [Home({}) EXCEPT !.exists = FALSE]}]

Situations(versions, requests, n) ==
    [world : [providers : versions["providers"], config : versions["config"],
              plugins : versions["plugins"], system : versions["system"],
              home : versions["home"]],
     req : requests, edits : {n}]

MaxEdits == 2

MCBegins ==
    Situations(ManyLines, ManyRequests, 0)
        \cup Situations(ManyFiles, FewRequests, 0)
        \cup Situations(EditedVersions, EditedRequests, MaxEdits)

\* A package that ships a plugin config with a command still to be filled in.
BlankVersions ==
    [EditedVersions EXCEPT !["plugins"] = {NoDir, Dir(<<Entry("blank", "other")>>)}]
BlankBegins == Situations(BlankVersions, EditedRequests, 0)
=============================================================================
