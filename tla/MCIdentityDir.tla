--------------------------- MODULE MCIdentityDir ----------------------------
(***************************************************************************)
(* An instance of IdentityDir for TLC: three identities of one issuer.     *)
(* The name of a is the start of the name of b; c gets the name of b,      *)
(* because its audience differs only behind the cut and in characters that *)
(* become underscores.  The user may have written the path of b, which     *)
(* holds that of a, in a comment.                                          *)
(***************************************************************************)
EXTENDS IdentityDir, TLC

CONSTANTS a, b, c, x, y, s

MCLogins == {a, b, c}
MCLogouts == {x, y}
MCConfigurers == {s}
MCIssuer == [p \in MCLogins |-> <<"i">>]
MCAudience == (a :> <<"k">>) @@ (b :> <<"k", "_", "m">>)
                             @@ (c :> <<"k", "/", "m", "n">>)
MCChars == {"i", "k", "m", "n", "-", "_", "/"}
MCSafe == MCChars \ {"/"}
MCUserFile == <<"u">>
MCNoted == {<<"i", "-", "k", "_", "m">>}

Alike == Permutations(MCLogouts)
=============================================================================
