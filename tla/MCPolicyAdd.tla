---------------------------- MODULE MCPolicyAdd -----------------------------
(***************************************************************************)
(* Instances of PolicyAdd for TLC.                                         *)
(***************************************************************************)
EXTENDS PolicyAdd, TLC

CONSTANTS p1, p2

Plain(name) == [name |-> name, hash |-> FALSE]
Hash(name) == [name |-> name, hash |-> TRUE]
Row(principal, attr) ==
    [principal |-> Plain(principal), attr |-> attr, issuer |-> Plain("acme")]
RuleLine(principal, attr) ==
    [cols |-> 3, principal |-> Plain(principal), attr |-> Plain(attr),
     issuer |-> Plain("acme")]
Comment == [RuleLine("note", "") EXCEPT !.cols = 0]

Good(lines) == [exists |-> TRUE, perm |-> TRUE, lines |-> lines]
Missing == [exists |-> FALSE, perm |-> FALSE, lines |-> {}]

MCNames == {"", "alice", "root", "ghost", "other", "note", "ann", "bob", "carl", "team",
            "acme", "cut"}
MCUsers == {"alice"}
MCArgs == {Row("alice", Plain("ann")), Row("root", Plain("ann")), Row("ghost", Plain("bob"))}
HashArgs == {Row("alice", Hash("team"))}
MCSystem == {Good({RuleLine("alice", "carl"), RuleLine("other", "ann")}), Missing,
             [Good({RuleLine("alice", "carl")}) EXCEPT !.perm = FALSE]}
MCHome == {Missing, Good({RuleLine("alice", "ann"), Comment})}
SmallSystem == {Good({RuleLine("alice", "carl"), Comment})}

Symmetric == Permutations({p1, p2})
=============================================================================
