----------------------------- MODULE RateLimiter -----------------------------
(***************************************************************************)
(* The in-memory rate limiters of the plugins: one bucket of time stamps   *)
(* over a rolling window.  plugin-magic-link and plugin-2fa keep a stamp   *)
(* that is exactly one window old, plugin-idp and plugin-passkey drop it.  *)
(***************************************************************************)
EXTENDS Naturals, Sequences, Slots

CONSTANTS
    Limit,          \* max
    Window,         \* windowSeconds, in ticks of the clock
    Second,         \* ticks per second: Date.now() is finer than Retry-After
    MaxTime         \* bound: the clock

ASSUME LimiterAssumption ==
    Limit \in Nat \ {0} /\ Second \in Nat \ {0} /\ Window \in Nat \ {0} /\ MaxTime \in Nat

VARIABLES
    keepsEdge,      \* which of the two, chosen at the start
    clock,
    bucket,         \* the stamps, oldest first
    accepted,       \* history: when checks were accepted since the last reset
    promised        \* history: when the last refusal said to come back

limiterVars == <<keepsEdge, clock, bucket, accepted, promised>>

LimiterTypeOK ==
    /\ keepsEdge \in BOOLEAN /\ clock \in 0..MaxTime
    /\ accepted \in Seq(0..clock) /\ bucket \in Seq(0..clock)
    /\ Len(bucket) <= Len(accepted) /\ Len(bucket) <= Limit
    /\ \A i \in 1..Len(bucket) : bucket[i] = accepted[Len(accepted) - Len(bucket) + i]
    /\ promised \in Nat \cup {Nil}

LimiterInit ==
    /\ keepsEdge \in BOOLEAN
    /\ clock = 0 /\ bucket = <<>> /\ accepted = <<>> /\ promised = Nil

\* A stamp that still counts.
Within(stamp) == IF keepsEdge THEN stamp + Window >= clock ELSE stamp + Window > clock

\* Those before the first that counts: the stamps are in order of time.
Outdated ==
    CHOOSE n \in 0..Len(bucket) :
        /\ \A i \in 1..n : ~Within(bucket[i])
        /\ n < Len(bucket) => Within(bucket[n + 1])

Pruned == SubSeq(bucket, Outdated + 1, Len(bucket))

\* Mutant: one more than the limit.
FullLate(stamps) == Len(stamps) > Limit

Full(stamps) == Len(stamps) >= Limit

\* Mutant: the seconds are rounded down.
RetryAfterFloor(stamps) == (stamps[1] + Window - clock) \div Second

\* Math.max(1, Math.ceil(...)).
RetryAfter(stamps) ==
    LET seconds == (stamps[1] + Window - clock + Second - 1) \div Second
    IN IF seconds < 1 THEN 1 ELSE seconds

Accept ==
    /\ ~Full(Pruned)
    /\ bucket' = Append(Pruned, clock)
    /\ accepted' = Append(accepted, clock)
    /\ promised' = Nil
    /\ UNCHANGED <<keepsEdge, clock>>

\* A refused attempt is not recorded.
Refuse ==
    /\ Full(Pruned)
    /\ bucket' = Pruned
    /\ promised' = clock + RetryAfter(Pruned) * Second
    /\ UNCHANGED <<keepsEdge, clock, accepted>>

\* After a success of what is limited.
Reset ==
    /\ bucket' = <<>> /\ accepted' = <<>> /\ promised' = Nil
    /\ UNCHANGED <<keepsEdge, clock>>

Tick ==
    /\ clock < MaxTime
    /\ clock' = clock + 1
    /\ UNCHANGED <<keepsEdge, bucket, accepted, promised>>

LimiterNext == Accept \/ Refuse \/ Reset \/ Tick

LimiterSpec == LimiterInit /\ [][LimiterNext]_limiterVars

-----------------------------------------------------------------------------
(* Properties.                                                             *)

\* No more than Limit checks are accepted in any window since the last reset,
\* wherever the window begins (rate-limit.ts:31-51).
AtMostLimitPerWindow ==
    \A i, j \in DOMAIN accepted :
        i < j /\ accepted[j] - accepted[i] < Window => j - i < Limit

\* Who waits as long as Retry-After said, and then at least one tick longer, is let
\* in.  The tick matters to the limiters that keep the edge: at exactly the time
\* announced they may refuse once more.
RetryAfterSuffices ==
    promised # Nil /\ clock >= promised + (IF keepsEdge THEN 1 ELSE 0) => ~Full(Pruned)

=============================================================================
