----------------------------- MODULE JobBackoff -----------------------------
(***************************************************************************)
(* nextBackoff of src/jobs/retry.go: how long a failed job waits before it *)
(* is tried again.  The arithmetic is that of Go's int64 (time.Duration)   *)
(* and uint, with Bits for their 64 bits and ShiftCap for the exponent 20  *)
(* at which the code stops doubling.  A behaviour is one job failing again *)
(* and again under one Backoff setting.                                    *)
(***************************************************************************)
EXTENDS Integers

CONSTANTS
    Bits,         \* width of int64 and uint
    ShiftCap,     \* the largest power of two that multiplies the base
    Bases,        \* Backoff.Base; 0 when unset
    Maxes,        \* Backoff.Max; 0 when unset
    DefaultBase,  \* 5 seconds
    DefaultMax,   \* 1 hour
    MaxAttempts   \* bound of the model

ASSUME BackoffAssumption ==
    /\ Bits \in Nat \ {0} /\ ShiftCap \in 0..(Bits - 1)
    /\ Bases \subseteq Int /\ Maxes \subseteq Int
    /\ DefaultBase \in Nat \ {0} /\ DefaultMax \in Nat \ {0}
    /\ MaxAttempts \in Nat

VARIABLES base, max, attempt

backoffVars == <<base, max, attempt>>

\* 1 shifted by n bits, with as many bits as it takes.
Pow2[n \in Nat] == IF n = 0 THEN 1 ELSE 2 * Pow2[n - 1]

\* Two's complement: what is left of x in Bits bits.
Wrap(x) == ((x + Pow2[Bits - 1]) % Pow2[Bits]) - Pow2[Bits - 1]

\* The settings after the defaults.
Base == IF base <= 0 THEN DefaultBase ELSE base
Max  == IF max <= 0 THEN DefaultMax ELSE max

\* (mutant) The doubling is not stopped.
MultUncapped(a) == IF a - 1 < Bits THEN Pow2[a - 1] ELSE 0

\* uint(1) << uint(a - 1), which is 0 once the bit is shifted out, and its cap.
Mult(a) ==
    LET shifted == IF a - 1 < Bits THEN Pow2[a - 1] ELSE 0
    IN  IF shifted = 0 \/ shifted > Pow2[ShiftCap] THEN Pow2[ShiftCap] ELSE shifted

\* d before the jitter.
Ceiling(a) ==
    LET d == Wrap(Mult(a) * Base) IN IF d > Max THEN Max ELSE d

\* The delays that nextBackoff may return: full jitter between the base and d.
NextBackoff(a) ==
    LET d == Ceiling(IF a < 1 THEN 1 ELSE a)
    IN  IF d > Base THEN Base..d ELSE {d}

-----------------------------------------------------------------------------

BackoffInit == base \in Bases /\ max \in Maxes /\ attempt = 0

\* The next attempt has failed.
Fail ==
    /\ attempt < MaxAttempts
    /\ attempt' = attempt + 1
    /\ UNCHANGED <<base, max>>

BackoffSpec == BackoffInit /\ [][Fail]_backoffVars

-----------------------------------------------------------------------------
(* Properties *)

Smaller(x, y) == IF x < y THEN x ELSE y

\* retry.go: "base*2^(attempt-1) with full jitter, capped at b.Max", computed
\* "without overflowing".  Every delay lies between the base (or the cap, if
\* that is lower) and the exact power, up to the cap; and the longest of them
\* is that power or the cap.
DelayIsExact ==
    LET exponent == IF attempt < 1 THEN 0 ELSE Smaller(attempt - 1, ShiftCap)
        longest  == Smaller(Max, Base * Pow2[exponent])
    IN  /\ \A d \in NextBackoff(attempt) : Smaller(Base, Max) <= d /\ d <= longest
        /\ longest \in NextBackoff(attempt)
=============================================================================
