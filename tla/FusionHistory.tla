---------------------------- MODULE FusionHistory ----------------------------
(***************************************************************************)
(* The fusion engine together with everything it was ever shown.  The      *)
(* engine keeps a few time stamps, latches and counters; the properties    *)
(* here compare its verdicts with what the whole recording of signals      *)
(* says.  history is an auxiliary variable: no rule reads it.              *)
(***************************************************************************)
EXTENDS Fusion, Sequences, Functions

VARIABLE history    \* sequence of [t, s]: the frames stepped through

hvars == <<vars, history>>

HInit == Init /\ history = <<>>

HNext ==
  \/ \E s \in Signals, gap \in Gaps :
       /\ Step(s, gap)
       /\ history' = Append(history, [t |-> now', s |-> s])
  \/ \E gap \in Gaps : Finish(gap) /\ UNCHANGED history

HSpec == HInit /\ [][HNext]_hvars

-----------------------------------------------------------------------------
(* What a recording says, without any of the engine's state.               *)

Frames == DOMAIN history

\* C(i) held on every frame from i to j, and for at least d ticks.
Sustained(C(_), i, j, d) ==
  /\ i <= j
  /\ \A m \in i..j : C(m)
  /\ history[j].t - history[i].t >= d

\* C was sustained for `hold` at some frame and its absence never since for `clear`.
HeldSince(C(_), hold, clear) ==
  LET Absent(i) == ~C(i)
  IN  \E j \in Frames :
        /\ \E i \in Frames : Sustained(C, i, j, hold)
        /\ ~\E p, q \in (j + 1)..Len(history) : Sustained(Absent, p, q, clear)

FaceSeenBy(i) == \E m \in 1..i : history[m].s.faces > 0

\* The conditions of the rules, read off the recording.
Shown(key, i) ==
  LET s == history[i].s
  IN  \/ key = NeverSeen /\ ~FaceSeenBy(i)
      \/ key = NoFace /\ FaceSeenBy(i) /\ s.faces = 0
      \/ key = MultipleFaces /\ s.faces >= cfg.multiFaceCount
      \/ key \in LossKeys /\ Reading(s, key[2]).state \in {"gated", "failed"}

Excessive(slot, i) ==
  /\ Produced(Reading(history[i].s, slot))
  /\ \E axis \in Axes :
       Magnitude(Measured(history[i].s, slot, axis)) >= cfg.enter[slot][axis]

-----------------------------------------------------------------------------
\* Each presence and signal-loss violation is open exactly when the recording
\* shows its condition sustained for the hold and not since absent for the
\* clear hold: no sequence of flickers, gaps and returns makes the two-stamp
\* HoldTimer (temporal.rs:180-197) disagree with that definition.
TimersMatchRecording ==
  ~finished => \A key \in FaceKeys \union LossKeys :
    LET C(i) == Shown(key, i)
    IN  IsOpen(key) <=> HeldSince(C, HoldMs(key), ClearMs(key))

\* A turn is claimed only of someone who was measured, frame after frame, for
\* the whole hold, and was measured past the enter threshold at some point:
\* smoothing and hysteresis (step_head, step_gaze, mod.rs:326-453) never invent
\* an angle nobody showed, nor bridge frames that measured nothing.
TurnsWereMeasured ==
  \A slot \in Slots :
    LET key == IF slot = "pose" THEN HeadTurnedAway ELSE GazeOffScreen
        Measurable(i) == Produced(Reading(history[i].s, slot))
    IN  IsOpen(key) =>
          \E i, j \in Frames :
            /\ Sustained(Measurable, i, j, HoldMs(key))
            /\ \E m \in 1..j : Excessive(slot, m)

\* The evidence a bucket was shown, each piece decayed once over the whole time
\* since: what the score would be if nothing were ever rounded.
ExactScore(bucket) ==
  LET looked == {i \in Frames : Produced(history[i].s.objects)}
      last == Best({0} \union {history[i].t : i \in looked})
      piece == [i \in looked |->
                 (Best(Evidence(history[i].s, bucket)) * Retained(last - history[i].t)) \div 100]
  IN  SumFunction(piece)

\* Decaying in steps, at whatever moments the object worker happened to look,
\* comes to the same as decaying each sighting once (step_objects and
\* DecayingScore, mod.rs:472-497, temporal.rs:239-255): cadence skips and
\* failures neither bleed the score nor freeze it.  Rounding allows one
\* hundredth per frame and half a percent of each piece.
ScoreMatchesRecording ==
  \A bucket \in Buckets :
    Magnitude(score[bucket].value - ExactScore(bucket)) <= 2 * Len(history)

\* Frames on which the object model saw the bucket, above the floor.
Sightings(bucket) ==
  {i \in Frames : /\ Produced(history[i].s.objects)
                  /\ \E d \in history[i].s.objects.value :
                       d.score >= cfg.floor /\ cfg.bucketOf[d.label] = bucket}

\* temporal.rs:226, "Peaky-but-persistent crosses; one loud frame does not", and
\* mod.rs:484-486, "three boxes on one phone is still one phone": an accusation rests
\* on as many sightings, on frames of their own, as it takes to reach the bar when
\* each is worth one at most; boxes do not add up and nothing is counted twice.
AccusationNeedsSightings ==
  \A bucket \in Buckets :
    IsOpen(ProhibitedObject(bucket)) =>
      100 * Cardinality(Sightings(bucket)) >= cfg.enterScore

\* Frames whose identity was checked, and the checks that failed since one was last
\* at or above the exit bar.
Checked == {i \in Frames : Produced(history[i].s.identity)}
Match(i) == history[i].s.identity.value
FailedSinceRecovery ==
  {i \in Checked : /\ Match(i) < cfg.matchEnter
                   /\ \A k \in Checked : k > i => Match(k) < cfg.matchExit}

\* Between two checks at or above the exit bar the checks below the enter bar
\* are counted, however many frames and skipped, failed or gated checks lie
\* between (step_identity, mod.rs:579-590): the accusation stands exactly when
\* the checks since the last recovery contain enough of them.
IdentityMatchesRecording ==
  (~finished /\ cfg.consecutiveFailures > 0) =>
    (IsOpen(IdentityMismatch) <=>
       Cardinality(FailedSinceRecovery) >= cfg.consecutiveFailures)

\* Scores of the identity checks, oldest first.
Checks ==
  LET produced == SelectSeq(history, LAMBDA f : Produced(f.s.identity))
  IN  [i \in DOMAIN produced |-> produced[i].s.identity.value]

\* config.rs:512, "Consecutive failing checks required", and mod.rs:573-578,
\* "Requiring several consecutive failing checks": an accusation rests on that
\* many failing checks in a row.
AccusationIsConsecutive ==
  (IsOpen(IdentityMismatch) /\ ~finished) =>
    \E n \in DOMAIN Checks :
      \A i \in (n - cfg.consecutiveFailures + 1)..n :
        i \in DOMAIN Checks /\ Checks[i] < cfg.matchEnter

\* mod.rs:389-392, "A blink-gated frame contributes nothing ... reading it as
\* 'gaze was centred' would make blinking look like compliance": someone
\* measured looking away on every frame that could be measured, over at least
\* the hold, is reported however often the gaze model was gated in between.
BlinkingIsNotCompliance ==
  LET measured == {i \in Frames : Produced(history[i].s.gaze)}
      lookedAway == /\ \A i \in measured : Excessive("gaze", i)
                    /\ Cardinality({history[i].s.gaze.value : i \in measured}) = 1
      onlyBlinked == \A i \in Frames : history[i].s.gaze.state \in {"produced", "gated"}
      lasted == \E i \in measured :
                  /\ now - history[i].t >= HoldMs(GazeOffScreen)
                  /\ Len(history) \in measured
  IN  (~finished /\ lookedAway /\ onlyBlinked /\ lasted) => IsOpen(GazeOffScreen)
=============================================================================
