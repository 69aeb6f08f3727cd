---------------------------- MODULE PolicyRules ----------------------------
(***************************************************************************)
(* The pure part of the server side of opkssh: how a line of the           *)
(* providers file is matched against a PK token, how a line of an auth_id  *)
(* policy file is matched against the claims of a token, when the deny     *)
(* lists apply, and what a policy plugin contributes.  No state: every     *)
(* operator is a function of records that stand for the parsed data.       *)
(*                                                                         *)
(* Text.  A string that the code compares is [body, dom, caps]: the part   *)
(* up to the "@", the part from the "@" on, and whether it is spelled with *)
(* capitals.  Equality of records is the code's ==; EqualFold forgets      *)
(* caps; a suffix match looks at the end of the string only.               *)
(***************************************************************************)
EXTENDS Integers, Sequences

NoText == [body |-> "", dom |-> "", caps |-> FALSE]

EqualFold(a, b) == a.body = b.body /\ a.dom = b.dom

\* strings.HasSuffix(ToLower(email), ToLower(suffix)); a suffix that starts at
\* the "@" or later has an empty body
HasSuffixFold(email, suffix) ==
    email.dom = suffix.dom /\ suffix.body \in {"", email.body}

-----------------------------------------------------------------------------
(***************************************************************************)
(* Identity attributes.  An attribute of a policy line is a record         *)
(*   kind      "empty"  the column is ""                                   *)
(*             "bare"   exactly oidc:, repo: or oidc-match-end:email:      *)
(*             "oidc"   oidc:<claim>:<value>, with the fields EscapedSplit *)
(*                      returns in sections                                *)
(*             "suffix" oidc-match-end:email:<suffix>, the suffix in text  *)
(*             "repo"   repo:<glob>, the subs path.Match accepts in globs  *)
(*             "plain"  anything else, the whole of it in text             *)
(* (A subject claim that itself spells oidc-match-end: is left out.)       *)
(* Claims are [email, wild, sub, extra]: wild says that the email itself   *)
(* starts with the wildcard prefix, extra is the set of <<claim, value>>   *)
(* pairs that checkedClaims.UnmarshalJSON collects.                        *)
(***************************************************************************)

\* An identity attribute that can never match, whoever asks.
Unsafe(attr) == attr.kind \in {"empty", "bare"}

ValidateOidc(claims, sections) ==
    /\ Len(sections) >= 3
    /\ <<sections[2], sections[Len(sections)]>> \in claims.extra

ValidateClaim(claims, attr) ==
    /\ ~Unsafe(attr)
    /\ ~claims.wild
    /\ IF attr.kind = "oidc"
       THEN ValidateOidc(claims, attr.sections)
       ELSE \/ attr.kind = "suffix" /\ HasSuffixFold(claims.email, attr.text)
            \/ attr.kind = "repo" /\ claims.sub \in attr.globs
            \/ attr.kind # "suffix" /\ EqualFold(claims.email, attr.text)
            \/ attr.kind # "suffix" /\ claims.sub = attr.text

\* policy.FromTable: the lines that become entries of the policy.  cols is the
\* number of columns shellquote.Split returns for the line.
PolicyFromTable(lines) ==
    {l \in lines : l.cols = 3 /\ l.attr.kind # "empty"}

\* The entries of ~user/.opk/auth_id that LoadHomePolicy keeps.
ForUser(rows, user) == {l \in rows : l.principal = user}

\* Does this entry let the token's holder in as user?  The claims of the ID
\* token are tried first, then those of the userinfo endpoint.
RowGrants(row, cert, userInfo, user) ==
    /\ cert.issuer = row.issuer
    /\ row.principal = user
    /\ \/ ValidateClaim(cert.claims, row.attr)
       \/ userInfo.kind = "claims" /\ ValidateClaim(userInfo.claims, row.attr)

-----------------------------------------------------------------------------
(***************************************************************************)
(* Providers.  A line is [cols, issuer, clientID, expiry, op], op being    *)
(* the kind of verifier providerVerifierFromRow selects for the issuer and *)
(* client ID: "github" and "forgejo" ignore the client ID, "gitlabci" asks *)
(* for the audience and the CI claims, "oidc" compares the client ID with  *)
(* the audience.                                                           *)
(***************************************************************************)
ExpirationPolicies ==
    {"12h", "24h", "48h", "1week", "oidc", "oidc_refreshed", "never"}

ProvidersFromTable(lines) == {l \in lines : l.cols = 3}

\* GetExpirationPolicy returns no error.
ValidExpiration(row) == row.expiry \in ExpirationPolicies

\* CreateVerifier fails when one row has an unknown expiration policy and when
\* there is no row at all.
CreateVerifierOK(rows) == rows # {} /\ \A row \in rows : ValidExpiration(row)

\* The audience part of VerifyIDToken of the verifier selected for the row.
AudienceOK(row, cert) ==
    \/ row.op \in {"github", "forgejo"}
    \/ row.op = "oidc" /\ cert.aud = row.clientID
    \/ row.op = "gitlabci" /\ cert.aud = row.clientID /\ cert.ciClaims

\* Verifier.VerifyPKToken: each row carries its own expiration policy;
\* cert.fresh is the set of policies under which the token has not expired.
VerifyPKToken(rows, cert) ==
    /\ cert.signed
    /\ \E row \in rows : /\ row.issuer = cert.issuer
                         /\ AudienceOK(row, cert)
                         /\ row.expiry \in cert.fresh

\* SshCertSmuggler.VerifySshPktCert, after the verifier was built.
VerifySshPktCert(rows, cert) ==
    /\ cert.hasPkt
    /\ VerifyPKToken(rows, cert)
    /\ cert.keyMatches

-----------------------------------------------------------------------------
(***************************************************************************)
(* The deny lists of the server config, and policy plugins.  A directory   *)
(* entry of policy.d is [stat, yml, loads, command, answer]: os.Stat works *)
(* on it, it is a regular *.yml file, it passes every check of             *)
(* loadPlugins, its command is "blank" (only white space), "refused"       *)
(* (unbalanced quotes, or the program is missing or has wrong              *)
(* permissions) or "ok", and the program would print "allow", print        *)
(* something else ("other"), exit with an error ("error") or never return  *)
(* ("hang").                                                               *)
(***************************************************************************)
NoDenyList == [emails |-> {}, users |-> {}]

Denied(denyList, claims, user) ==
    \/ \E e \in denyList.emails : EqualFold(claims.email, e)
    \/ \E u \in denyList.users : EqualFold(user, u)

\* checkPolicies runs the command of this entry.
Runs(entry) == entry.yml /\ entry.loads

\* executePolicyCommand indexes the empty result of shellquote.Split.
Panics(entry) == Runs(entry) /\ entry.command = "blank"

Hangs(entry) == Runs(entry) /\ entry.command = "ok" /\ entry.answer = "hang"

\* The result of this entry has Allowed set.
PluginAllows(entry) ==
    Runs(entry) /\ entry.command = "ok" /\ entry.answer = "allow"
=============================================================================
