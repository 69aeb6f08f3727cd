--------------------------- MODULE MCLoginRefresh ---------------------------
(***************************************************************************)
(* Instances of LoginRefresh for TLC, with a second of four units,         *)
(* lifetimes up to 3 seconds and durations up to 15 units.                 *)
(***************************************************************************)
EXTENDS LoginRefresh

Is(kind, n) == [kind |-> kind, n |-> n]

\* Nothing, a fraction of a second, the smallest and the largest lifetimes,
\* and values past each end: 9 seconds wrap around to one second.
Extreme ==
    {Unset, Is("junk", 0)}
    \cup {Is("duration", n) : n \in {-4, 3, 4, 12, 13}}
    \cup {Is("number", n) : n \in {-1, 0, 3, 4, 9}}

\* An extreme value in one place, with nothing or a good value in the other.
MCSettings ==
    [flag : Extreme, conf : {Unset}]
        \cup [flag : {Is("junk", 0), Is("duration", 3)}, conf : {Is("number", 1)}]
        \cup [flag : {Unset}, conf : {Is("number", 9), Is("duration", 12)}]
Default == [flag : {Unset}, conf : {Unset}]

Lives == {1, 2, 3}
=============================================================================
