------------------------------- MODULE Clock -------------------------------
(***************************************************************************)
(* A free-running counter of unknown frequency read through now_ns, and a  *)
(* comparator that may be armed for any deadline at any moment: what the   *)
(* conversions of Timer promise to the callers of the Timer trait          *)
(* (hal/src/timer.rs, QemuVirtCpu in bsp-qemu-virt/src/cpu.rs).            *)
(***************************************************************************)
EXTENDS Timer

CONSTANT MaxFreq     \* bound on the frequencies

ASSUME MaxFreqAssumption == MaxFreq \in Nat

VARIABLES
  freq,    \* frequency_hz, read once from CNTFRQ_EL0 and asserted positive
  ticks,   \* CNTVCT_EL0
  now      \* what now_ns returns

clock_vars == <<freq, ticks, now>>

ClockInit == freq \in 1 .. MaxFreq /\ ticks = 0 /\ now = TicksToNs(0, freq)

\* The counter advances; the bound stands for the end of its range.
ClockTick ==
  /\ ticks < MaxWord
  /\ ticks' = ticks + 1
  /\ now' = TicksToNs(ticks + 1, freq)
  /\ UNCHANGED freq

ClockNext == ClockTick
ClockSpec == ClockInit /\ [][ClockNext]_clock_vars

-----------------------------------------------------------------------------
ClockTypeOK == freq \in 1 .. MaxFreq /\ ticks \in 0 .. MaxWord /\ now \in 0 .. MaxWord

\* now_ns never goes back, also where the nanoseconds leave the u64 range:
\* it stays at the maximum instead of wrapping to zero.
NowMonotone == [][now' >= now]_clock_vars

\* arm_deadline programs the first tick at which now_ns has reached the
\* deadline: the comparator has matched exactly when now_ns is at or past it,
\* so the interrupt is neither early nor a tick late.  Where ns_to_ticks
\* saturates (beyond 1 GHz, close to the end of the range) nothing is said.
DeadlineExact ==
  \A ns \in 0 .. MaxWord :
    ns * freq =< MaxWord * Nanos /\ ticks * Nanos =< MaxWord * freq =>
      (NsToTicks(ns, freq) =< ticks <=> ns =< now)

\* The reported resolution is within half a nanosecond of the true period,
\* except below half a nanosecond, where it is 1.
ResolutionNearest ==
  LET r == ResolutionNs(freq) IN
  /\ r >= 1
  /\ 2 * (Nanos - r * freq) =< freq
  /\ r > 1 => 2 * (r * freq - Nanos) =< freq
=============================================================================
