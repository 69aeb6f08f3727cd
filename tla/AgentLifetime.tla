--------------------------- MODULE AgentLifetime ---------------------------
(***************************************************************************)
(* How long ssh-agent keeps a certificate: resolveAgentLifetimeSecs and    *)
(* parseDurationOrSeconds of commands/login.go.  A Go duration is an int64 *)
(* of nanoseconds and the agent protocol carries a uint32 of seconds, so   *)
(* both widths are kept: the constants are the real numbers in the code    *)
(* and small ones in TLC.                                                  *)
(***************************************************************************)
EXTENDS Integers

CONSTANTS Second,       \* time.Second: the units of a duration in a second
          MaxUint32,    \* the largest lifetime the agent protocol carries
          MaxInt64,     \* the largest duration
          DefaultSecs   \* defaultAgentLifetime / time.Second

\* (2^32 - 1) * 10^9 < 2^63
ASSUME WidthsAssumption ==
    /\ Second \in Nat \ {0} /\ MaxUint32 \in Nat \ {0} /\ MaxInt64 \in Nat
    /\ MaxUint32 * Second <= MaxInt64
    /\ DefaultSecs \in 1..MaxUint32

Int64 == (-MaxInt64 - 1)..MaxInt64

\* A setting is unset (""), a duration ("8h"), a number ("28800") or neither.
Setting == [kind : {"unset", "duration", "number", "junk"}, n : Int64]
Unset == [kind |-> "unset", n |-> 0]

\* Machine arithmetic: int64 wraps around, uint32(x) drops the high bits.
WrapInt64(x) == ((x + MaxInt64 + 1) % (2 * MaxInt64 + 2)) - MaxInt64 - 1
ToUint32(x) == x % (MaxUint32 + 1)

Invalid == -1

\* Variant of Parses with a mistake: the number is not bounded before it is
\* multiplied.
ParsesAny(s) == s.kind \in {"duration", "number"}

\* parseDurationOrSeconds fails on junk and on numbers out of range.
Parses(s) ==
    \/ s.kind = "duration"
    \/ s.kind = "number" /\ ~(s.n < 0 \/ s.n > MaxUint32)

ParseDurationOrSeconds(s) ==
    IF s.kind = "duration" THEN s.n ELSE WrapInt64(s.n * Second)

\* Variant of CheckedSecs with a mistake: a fraction of a second passes.
CheckedAboveOnly(s) ==
    IF \/ ~ Parses(s)
       \/ ParseDurationOrSeconds(s) < 0
       \/ ParseDurationOrSeconds(s) > MaxUint32 * Second
    THEN Invalid
    ELSE ToUint32(ParseDurationOrSeconds(s) \div Second)

CheckedSecs(s) ==
    IF \/ ~ Parses(s)
       \/ ParseDurationOrSeconds(s) < Second
       \/ ParseDurationOrSeconds(s) > MaxUint32 * Second
    THEN Invalid
    ELSE ToUint32(ParseDurationOrSeconds(s) \div Second)

\* The --lifetime flag, else agent_lifetime of the client config, else 24h.
ResolveAgentLifetimeSecs(flag, conf) ==
    IF flag # Unset THEN CheckedSecs(flag)
    ELSE IF conf # Unset THEN CheckedSecs(conf)
    ELSE DefaultSecs
=============================================================================
