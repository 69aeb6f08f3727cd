--------------------------- MODULE MCServerFiles ---------------------------
(***************************************************************************)
(* A small server for TLC: every file may be found missing or with one of  *)
(* a few wrong modes, owners and groups; the policies hold a good line, a  *)
(* line with a slash, one with http, one for an unknown issuer or a        *)
(* malformed one.                                                          *)
(***************************************************************************)
EXTENDS ServerFiles

Is(mode, owner, group) ==
    [exists |-> TRUE, mode |-> mode, owner |-> owner, group |-> group]

MCFound == [f \in Files |->
    IF f = "dir"
    THEN {Missing, Is("777", "root", "root"), Is("755", "root", "root")}
    ELSE IF f = "home"
    THEN {Missing, Is("644", "alice", "alice")}
    ELSE IF f = "plugin"
    THEN {Missing, Is("640", "root", "opksshuser")}
    ELSE {Missing, Is("640", "root", "opksshuser"), Is("644", "root", "root"),
          Is("640", IF f = "policy" THEN "opksshuser" ELSE "root", "root")}]

Url(host, https, slash) == [host |-> host, https |-> https, slash |-> slash]
Idp == Url("idp", TRUE, FALSE)

Line(cols, kind, issuer) ==
    [cols |-> cols, attr |-> [kind |-> kind], issuer |-> issuer]
Provider(issuer, expiry) == [cols |-> 3, issuer |-> issuer, expiry |-> expiry]

Good == Line(3, "plain", Idp)

MCTexts == [f \in TextFiles |->
    IF f = "providers"
    THEN {{}, {Provider(Idp, "24h")}, {Provider(Idp, "soon")},
          {Provider(Idp, "24h"), Provider(Url("old", FALSE, FALSE), "12h"),
           Provider(Url("idp", TRUE, TRUE), "24h")}}
    ELSE IF f = "home" THEN {{}, {Good}, {Line(3, "plain", Url("gone", TRUE, FALSE))}}
    ELSE {{}, {Good, Line(2, "plain", Idp)},
          {Good, Line(3, "plain", Url("old", FALSE, FALSE))},
          {Line(3, "plain", Url("idp", TRUE, TRUE)), Line(3, "plain", NoIssuer)}}]

With(policy, providers, home) ==
    [f \in TextFiles |-> IF f = "policy" THEN policy
                        ELSE IF f = "home" THEN home ELSE providers]

MCStarts ==
    {With({Good}, {Provider(Idp, "24h")}, {Good})}
    \cup {With(p, {Provider(Idp, "24h"), Provider(Url("old", FALSE, FALSE), "12h"),
                   Provider(Url("idp", TRUE, TRUE), "24h")}, {}) :
              p \in MCTexts["policy"]}
=============================================================================
