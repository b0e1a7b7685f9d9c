------------------------------- MODULE Timer -------------------------------
(***************************************************************************)
(* The conversions between counter ticks and nanoseconds of                *)
(* hal/src/timer.rs.  The products are computed in 128 bits in the code    *)
(* and cannot overflow there; the results saturate at MaxWord.             *)
(***************************************************************************)
EXTENDS Integers

CONSTANTS
  Nanos,     \* NANOS_PER_SECOND
  MaxWord    \* u64::MAX

ASSUME TimerAssumption == Nanos \in Nat \ {0} /\ MaxWord \in Nat \ {0}

Saturate(x) == IF x > MaxWord THEN MaxWord ELSE x

\* Mutated forms of the definitions that follow.
TicksToNs_Wrapping(count, freq) == ((count * Nanos) \div freq) % (MaxWord + 1)
NsToTicks_Floor(ns, freq) == Saturate((ns * freq) \div Nanos)
ResolutionNs_Floor(freq) == LET raw == Nanos \div freq IN IF raw = 0 THEN 1 ELSE raw

TicksToNs(count, freq) == Saturate((count * Nanos) \div freq)

\* Ceiling division: a deadline between two ticks is armed at the later one.
NsToTicks(ns, freq) == Saturate((ns * freq + Nanos - 1) \div Nanos)

\* Rounded to the nearest nanosecond, and at least one.
ResolutionNs(freq) ==
  LET raw == (Nanos + freq \div 2) \div freq IN IF raw = 0 THEN 1 ELSE raw
=============================================================================
