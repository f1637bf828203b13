------------------------------ MODULE Temporal ------------------------------
(***************************************************************************)
(* The temporal primitives of src/src/fusion/temporal.rs as pure           *)
(* operators: each takes the primitive's state and one observation and     *)
(* returns its next state.  Times are ticks (naturals, u64 milliseconds in *)
(* the code); magnitudes and scores are integers (degrees, and hundredths  *)
(* of a score unit), where the code has f64.                               *)
(***************************************************************************)
EXTENDS Integers

\* Option<u64>::None for a time stamp.
Never == -1

Smaller(a, b) == IF a < b THEN a ELSE b
Larger(a, b) == IF a > b THEN a ELSE b

\* t_ms.saturating_sub(since): a clock that steps back reads as "no gap".
Elapsed(t, since) == IF t > since THEN t - since ELSE 0

\* Option::get_or_insert on a time stamp.
SinceOr(since, t) == IF since = Never THEN t ELSE since

-----------------------------------------------------------------------------
(* HoldTimer: a condition must hold before it counts and be absent before  *)
(* it stops counting.                                                      *)

NewTimer == [fired |-> FALSE, trueSince |-> Never, falseSince |-> Never]

\* Mutant: a moment of truth does not restart the clear hold.
HoldUpdateNoRestart(timer, hold, clear, condition, t) ==
  IF condition
  THEN LET since == SinceOr(timer.trueSince, t)
       IN  [timer EXCEPT !.fired = @ \/ Elapsed(t, since) >= hold, !.trueSince = since]
  ELSE LET since == SinceOr(timer.falseSince, t)
       IN  [fired      |-> timer.fired /\ Elapsed(t, since) < clear,
            trueSince  |-> Never,
            falseSince |-> since]

\* Mutant: a flicker of absence does not restart the hold.
HoldUpdateBridges(timer, hold, clear, condition, t) ==
  IF condition
  THEN LET since == SinceOr(timer.trueSince, t)
       IN  [fired      |-> timer.fired \/ Elapsed(t, since) >= hold,
            trueSince  |-> since,
            falseSince |-> Never]
  ELSE LET since == SinceOr(timer.falseSince, t)
       IN  [timer EXCEPT !.fired = @ /\ Elapsed(t, since) < clear, !.falseSince = since]

HoldUpdate(timer, hold, clear, condition, t) ==
  IF condition
  THEN LET since == SinceOr(timer.trueSince, t)
       IN  [fired      |-> timer.fired \/ Elapsed(t, since) >= hold,
            trueSince  |-> since,
            falseSince |-> Never]
  ELSE LET since == SinceOr(timer.falseSince, t)
       IN  [fired      |-> timer.fired /\ Elapsed(t, since) < clear,
            trueSince  |-> Never,
            falseSince |-> since]

\* What a latch did on one step, from its value before and after.
Edge(was, isNow) ==
  IF was = isNow THEN "Steady" ELSE IF isNow THEN "Rose" ELSE "Fell"

-----------------------------------------------------------------------------
(* Hysteresis: enter high, leave low.                                      *)

Latch(active, value, enter, exit) ==
  IF active THEN value >= exit ELSE value >= enter

\* How far past the enter threshold a value sits, in percent.
Intensity(value, enter) ==
  IF value < enter \/ enter <= 0
  THEN 0
  ELSE Smaller(100, ((value - enter) * 100) \div enter)

-----------------------------------------------------------------------------
(* Ema: exponential smoothing that starts over after a gap.  alpha is in   *)
(* percent, and the blend is rounded down to a whole degree.               *)

NewEma == [value |-> 0, lastT |-> Never]

EmaUpdate(ema, sample, t, alpha, resetAfter) ==
  LET stale == ema.lastT = Never \/ Elapsed(t, ema.lastT) > resetAfter
  IN  [value |-> IF stale THEN sample
                 ELSE (alpha * sample + (100 - alpha) * ema.value) \div 100,
       lastT |-> t]

-----------------------------------------------------------------------------
(* DecayingScore: a sum of evidence with a half-life.  retained is the     *)
(* percentage of the score that survives the time since the last decay.    *)

NewScore == [value |-> 0, lastT |-> Never]

\* Mutant: decaying does not move the time stamp on, so a gap is charged twice.
DecayToUnstamped(score, retained, t) ==
  [value |-> IF score.lastT = Never THEN score.value
             ELSE (score.value * retained) \div 100,
   lastT |-> IF score.lastT = Never THEN t ELSE score.lastT]

DecayTo(score, retained, t) ==
  [value |-> IF score.lastT = Never THEN score.value
             ELSE (score.value * retained) \div 100,
   lastT |-> t]

AddEvidence(score, amount, retained, t) ==
  [DecayTo(score, retained, t) EXCEPT !.value = @ + amount]
=============================================================================
