------------------------------- MODULE Fusion -------------------------------
(***************************************************************************)
(* FusionEngine (src/src/fusion/mod.rs): per-frame signals in, violation   *)
(* events out.  One Step action is one call of step(), every rule of it;   *)
(* Finish is the call that ends a session.  The signals a step may receive *)
(* are the ones detect_loop (src/src/pipeline/workers.rs) can assemble     *)
(* with the models in `configured`.                                        *)
(*                                                                         *)
(* Severity, contributions and wording are left out: no rule reads them.   *)
(***************************************************************************)
EXTENDS Temporal, FiniteSets

CONSTANTS
  Deployments,    \* the sets of optional models a session may have loaded
  Configs,        \* the configurations an engine may be built with
  Buckets,        \* names of the object buckets
  Labels,         \* the classes the object model can report
  FaceCounts,     \* how many faces a frame may show
  PoseAngles,     \* head poses, degrees, signed
  GazeAngles,     \* gazes, milliradians, signed
  DetectionSets,  \* what one object run may return
  MatchScores,    \* cosine similarities, percent
  Gaps,           \* ticks between two frames whose faces were read
  MaxTime,        \* bound on the clock
  Retained(_)     \* percentage of an object score left after a gap

Slots == {"pose", "gaze"}
Axes == {"yaw", "pitch"}

-----------------------------------------------------------------------------
(* Violation streams: (kind, subject).                                     *)

NeverSeen == <<"never_seen", "none">>
NoFace == <<"no_face", "none">>
MultipleFaces == <<"multiple_faces", "none">>
HeadTurnedAway == <<"head_turned_away", "none">>
GazeOffScreen == <<"gaze_off_screen", "none">>
SignalLost(slot) == <<"signal_lost", slot>>
ProhibitedObject(bucket) == <<"prohibited_object", bucket>>
IdentityMismatch == <<"identity_mismatch", "none">>

FaceKeys == {NeverSeen, NoFace, MultipleFaces}
TurnKeys == {HeadTurnedAway, GazeOffScreen}
LossKeys == {SignalLost(slot) : slot \in Slots}
BucketKeys == {ProhibitedObject(bucket) : bucket \in Buckets}

\* The streams a HoldTimer stands behind.
TimerKeys == FaceKeys \union TurnKeys \union LossKeys
Keys == TimerKeys \union BucketKeys \union {IdentityMismatch}

-----------------------------------------------------------------------------
(* Configuration: the thresholds fusion reads.                             *)

TimerKinds == {key[1] : key \in TimerKeys}

ConfigType ==
  [hold : [TimerKinds -> Nat],          \* *_hold_ms, never_seen_ms, signal_lost_ms
   clear : [TimerKinds -> Nat],         \* *_clear_ms
   multiFaceCount : Nat,
   enter : [Slots -> [Axes -> Int]],    \* pose and gaze {yaw,pitch}_enter_deg
   exit : [Slots -> [Axes -> Int]],
   alpha : [Slots -> Int],              \* ema_alpha, percent
   pitchOffset : Int,                   \* gaze.pitch_offset_deg
   bucketOf : [Labels -> Buckets \union {"none"}],
   floor : Int,                         \* objects.min_score
   enterScore : Int, clearScore : Int,
   matchEnter : Int, matchExit : Int,   \* identity.cosine_{enter,exit}
   consecutiveFailures : Nat]

\* What Config::validate checks of these thresholds.
Validated(c) ==
  /\ \A slot \in Slots :
       /\ \A axis \in Axes : c.exit[slot][axis] <= c.enter[slot][axis]
       /\ c.alpha[slot] \in 0..100
  /\ c.clearScore <= c.enterScore
  /\ c.matchExit >= c.matchEnter

\* enterScore > 0 is not validated; a zero divides the object confidence.
ASSUME ConfigAssumption ==
  \A c \in Configs : c \in ConfigType /\ Validated(c) /\ c.enterScore > 0

ASSUME InputAssumption ==
  /\ FaceCounts \subseteq Nat
  /\ PoseAngles \subseteq [Axes -> Int]
  /\ GazeAngles \subseteq [Axes -> Int]
  /\ \A D \in DetectionSets : \A d \in D : d.label \in Labels /\ d.score \in 0..100
  /\ MatchScores \subseteq Int
  /\ Gaps \subseteq Nat
  /\ MaxTime \in Nat

ASSUME DecayAssumption ==
  \A gap \in 0..MaxTime : Retained(gap) \in 0..100

-----------------------------------------------------------------------------
VARIABLES
  configured,      \* the optional models of this session
  cfg,             \* the engine's own copy of the configuration
  presence,        \* Presence
  timer,           \* the HoldTimers, by the stream they decide
  ema,             \* smoothed yaw and pitch of each slot
  gate,            \* hysteresis latches over them
  score,           \* accumulated evidence of each bucket
  bucketActive,
  failures,        \* identity_failures
  identityActive,
  open,            \* violations currently open
  now,             \* t_ms of the last step
  events,          \* what the last call returned
  finished         \* finish() has been called

engine == <<cfg, presence, timer, ema, gate, score, bucketActive, failures,
            identityActive, open>>
vars == <<configured, engine, now, events, finished>>

\* What `open` holds for a stream with no violation open.
Closed == [tStart |-> Never, confidence |-> 0]

IsOpen(key) == open[key] # Closed

\* The latch of the rule that decides a stream.
Latched(key) ==
  CASE key \in TimerKeys -> timer[key].fired
    [] key \in BucketKeys -> bucketActive[key[2]]
    [] OTHER -> identityActive

-----------------------------------------------------------------------------
(* Signals: the face model ran (a frame it failed on never reaches         *)
(* fusion), so the other slots depend on whether it found anyone.          *)

NoAngle == [axis \in Axes |-> 0]
Silent(state, value) == [state |-> state, value |-> value]

AngleReadings(slot, faces, angles) ==
  IF slot \notin configured
  THEN {Silent("not_configured", NoAngle)}
  ELSE IF faces = 0
  THEN {Silent("gated", NoAngle)}
  ELSE {[state |-> "produced", value |-> angle] : angle \in angles}
       \union {Silent("failed", NoAngle)}
       \* only the gaze model declines a face (GateReason)
       \union (IF slot = "gaze" THEN {Silent("gated", NoAngle)} ELSE {})

ObjectReadings ==
  IF "objects" \notin configured
  THEN {Silent("not_configured", {})}
  ELSE {[state |-> "produced", value |-> D] : D \in DetectionSets}
       \union {Silent("failed", {}), Silent("cadence", {})}

\* A configured identity slot reads "not_configured" until someone enrols.
IdentityReadings ==
  {Silent("not_configured", 0)}
  \union
  IF "identity" \notin configured
  THEN {}
  ELSE {[state |-> "produced", value |-> match] : match \in MatchScores}
       \union {Silent(state, 0) : state \in {"failed", "gated", "cadence"}}

Signals ==
  UNION {[faces    : {faces},
          pose     : AngleReadings("pose", faces, PoseAngles),
          gaze     : AngleReadings("gaze", faces, GazeAngles),
          objects  : ObjectReadings,
          identity : IdentityReadings] : faces \in FaceCounts}

-----------------------------------------------------------------------------
(* FusionEngine::new                                                       *)

\* Everything but the configuration starts from the same values.
NewTimers == [key \in TimerKeys |-> NewTimer]
NewFilters == [slot \in Slots |-> [axis \in Axes |-> NewEma]]
NewGates == [slot \in Slots |-> [axis \in Axes |-> FALSE]]
NewScores == [bucket \in Buckets |-> NewScore]
NoBuckets == [bucket \in Buckets |-> FALSE]
NothingOpen == [key \in Keys |-> Closed]

NewEngine(c) ==
  /\ cfg = c
  /\ presence = "never_seen"
  /\ timer = NewTimers
  /\ ema = NewFilters
  /\ gate = NewGates
  /\ score = NewScores
  /\ bucketActive = NoBuckets
  /\ failures = 0
  /\ identityActive = FALSE
  /\ open = NothingOpen

Init ==
  /\ configured \in Deployments
  /\ \E c \in Configs : NewEngine(c)
  /\ now = 0
  /\ events = {}
  /\ finished = FALSE

-----------------------------------------------------------------------------
(* step_face: presence.                                                    *)

TrackPresence(s) ==
  presence' = IF s.faces > 0 THEN "present"
              ELSE IF presence = "present" THEN "absent" ELSE presence

-----------------------------------------------------------------------------
(* step_head, step_gaze: smooth a measured angle, latch its magnitude.     *)

Produced(reading) == reading.state = "produced"

Reading(s, slot) == IF slot = "pose" THEN s.pose ELSE s.gaze

\* f32::to_degrees, rounded down to a whole degree.
Degrees(milliradians) == (milliradians * 180) \div 3142

Measured(s, slot, axis) ==
  IF slot = "pose"
  THEN s.pose.value[axis]
  ELSE Degrees(s.gaze.value[axis]) - (IF axis = "pitch" THEN cfg.pitchOffset ELSE 0)

Magnitude(angle) == IF angle < 0 THEN -angle ELSE angle

\* Without a measurement the filters and the latches keep what they have.
SmoothAngles(s, t) ==
  ema' = [slot \in Slots |->
           IF Produced(Reading(s, slot))
           THEN [axis \in Axes |->
                  EmaUpdate(ema[slot][axis], Measured(s, slot, axis), t,
                            cfg.alpha[slot], cfg.hold["signal_lost"])]
           ELSE ema[slot]]

LatchAngles(s) ==
  gate' = [slot \in Slots |->
            IF Produced(Reading(s, slot))
            THEN [axis \in Axes |->
                   Latch(gate[slot][axis], Magnitude(ema'[slot][axis].value),
                         cfg.enter[slot][axis], cfg.exit[slot][axis])]
            ELSE gate[slot]]

\* Mutant: the latch is carried over frames with no measurement.
TurnedCarried(s, slot) == \E axis \in Axes : gate'[slot][axis]

Turned(s, slot) ==
  Produced(Reading(s, slot)) /\ \E axis \in Axes : gate'[slot][axis]

TurnConfidence(s, slot) ==
  LET intensity(axis) ==
        Intensity(Magnitude(ema'[slot][axis].value), cfg.enter[slot][axis])
  IN  IF Produced(Reading(s, slot))
      THEN Larger(intensity("yaw"), intensity("pitch"))
      ELSE 0

-----------------------------------------------------------------------------
(* The condition each HoldTimer is advanced with, and the timers.          *)

\* Mutant: any absence counts as "no face", even before the first face.
ConditionAnyAbsence(s, key) ==
  CASE key = NeverSeen -> presence' = "never_seen"
    [] key = NoFace -> presence' # "present"
    [] key = MultipleFaces -> s.faces >= cfg.multiFaceCount
    [] key = HeadTurnedAway -> Turned(s, "pose")
    [] key = GazeOffScreen -> Turned(s, "gaze")
    [] OTHER -> Reading(s, key[2]).state \in {"gated", "failed"}

Condition(s, key) ==
  CASE key = NeverSeen -> presence' = "never_seen"
    [] key = NoFace -> presence' = "absent"
    [] key = MultipleFaces -> s.faces >= cfg.multiFaceCount
    [] key = HeadTurnedAway -> Turned(s, "pose")
    [] key = GazeOffScreen -> Turned(s, "gaze")
    [] OTHER -> Reading(s, key[2]).state \in {"gated", "failed"}

HoldMs(key) == cfg.hold[key[1]]

\* Once a face appears never_seen is over for good: nothing to debounce.
ClearMs(key) == IF key = NeverSeen THEN 0 ELSE cfg.clear[key[1]]

AdvanceTimers(s, t) ==
  timer' = [key \in TimerKeys |->
             HoldUpdate(timer[key], HoldMs(key), ClearMs(key), Condition(s, key), t)]

-----------------------------------------------------------------------------
(* step_objects: evidence accumulates per bucket and decays, but only on   *)
(* frames the object worker produced a result for.                         *)

\* Mutant: boxes of one bucket in one result add up.
EvidenceSummed(s, bucket) ==
  LET hits == {d \in s.objects.value : d.score >= cfg.floor /\ cfg.bucketOf[d.label] = bucket}
  IN  {0} \union {d.score : d \in hits}
          \union UNION {{d.score + e.score : e \in hits \ {d}} : d \in hits}

\* The confidences a result offers a bucket: best one counts, not their sum.
Evidence(s, bucket) ==
  {0} \union {d.score : d \in {d \in s.objects.value :
                 d.score >= cfg.floor /\ cfg.bucketOf[d.label] = bucket}}

Best(S) == CHOOSE x \in S : \A y \in S : y <= x

Accumulate(s, t) ==
  score' = IF Produced(s.objects)
           THEN [bucket \in Buckets |->
                  AddEvidence(score[bucket], Best(Evidence(s, bucket)),
                              Retained(Elapsed(t, score[bucket].lastT)), t)]
           ELSE score

JudgeBuckets ==
  bucketActive' = [bucket \in Buckets |->
                    Latch(bucketActive[bucket], score'[bucket].value,
                          cfg.enterScore, cfg.clearScore)]

ObjectConfidence(bucket) == Intensity(score'[bucket].value, cfg.enterScore)

-----------------------------------------------------------------------------
(* step_identity: a check below the enter bar counts, one at or above the  *)
(* exit bar resets, and one between them does neither.                     *)

\* Mutant: recovering past the lower bar resets the count.
CountFailuresLowBar(s) ==
  failures' = IF ~Produced(s.identity) THEN failures
              ELSE IF s.identity.value < cfg.matchEnter THEN failures + 1
              ELSE 0

\* Mutant: a recovery takes one failure back instead of all.
CountFailuresDown(s) ==
  failures' = IF ~Produced(s.identity) THEN failures
              ELSE IF s.identity.value < cfg.matchEnter THEN failures + 1
              ELSE IF s.identity.value >= cfg.matchExit THEN failures - 1
              ELSE failures

CountFailures(s) ==
  failures' = IF ~Produced(s.identity) THEN failures
              ELSE IF s.identity.value < cfg.matchEnter THEN failures + 1
              ELSE IF s.identity.value >= cfg.matchExit THEN 0
              ELSE failures

\* Mutant: a standing accusation is withdrawn once the count falls short of it.
JudgeIdentityOneBar(s) ==
  identityActive' = IF ~Produced(s.identity) THEN failures' > 0
                    ELSE failures' >= cfg.consecutiveFailures

JudgeIdentity(s) ==
  identityActive' = IF ~Produced(s.identity) THEN identityActive
                    ELSE IF identityActive THEN failures' > 0
                    ELSE failures' >= cfg.consecutiveFailures

-----------------------------------------------------------------------------
(* apply: one event per edge; a steady verdict refreshes the confidence.   *)

\* step_identity returns early, with no verdict, unless a check was produced.
Judged(s, key) == key = IdentityMismatch => Produced(s.identity)

Confidence(s, key) ==
  CASE key = HeadTurnedAway -> TurnConfidence(s, "pose")
    [] key = GazeOffScreen -> TurnConfidence(s, "gaze")
    [] key \in BucketKeys -> ObjectConfidence(key[2])
    [] OTHER -> 100

VerdictEdge(key) == Edge(Latched(key), Latched(key)')

Started(key, t) ==
  [what |-> "started", key |-> key, tStart |-> t, tEnd |-> Never]
Ended(key, t) ==
  [what |-> "ended", key |-> key, tStart |-> open[key].tStart, tEnd |-> t]

\* Mutant: an ended violation is reported but not removed from `open`.
ApplyKeepsOpen(s, t) ==
  /\ open' = [key \in Keys |->
       IF VerdictEdge(key) = "Rose"
       THEN [tStart |-> t, confidence |-> Confidence(s, key)]
       ELSE open[key]]
  /\ events' =
       {Started(key, t) : key \in {k \in Keys : VerdictEdge(k) = "Rose"}}
       \union
       {Ended(key, t) : key \in {k \in Keys : VerdictEdge(k) = "Fell" /\ IsOpen(k)}}

Apply(s, t) ==
  /\ open' = [key \in Keys |->
       CASE VerdictEdge(key) = "Rose" ->
              [tStart |-> t, confidence |-> Confidence(s, key)]
         [] VerdictEdge(key) = "Fell" -> Closed
         [] VerdictEdge(key) = "Steady" ->
              IF IsOpen(key) /\ Judged(s, key)
              THEN [open[key] EXCEPT !.confidence = Confidence(s, key)]
              ELSE open[key]]
  /\ events' =
       {Started(key, t) : key \in {k \in Keys : VerdictEdge(k) = "Rose"}}
       \union
       {Ended(key, t) : key \in {k \in Keys : VerdictEdge(k) = "Fell" /\ IsOpen(k)}}

-----------------------------------------------------------------------------
\* FusionEngine::step at time t.
StepAt(s, t) ==
  /\ TrackPresence(s)
  /\ SmoothAngles(s, t)
  /\ LatchAngles(s)
  /\ AdvanceTimers(s, t)
  /\ Accumulate(s, t)
  /\ JudgeBuckets
  /\ CountFailures(s)
  /\ JudgeIdentity(s)
  /\ Apply(s, t)
  /\ now' = t
  /\ UNCHANGED <<configured, cfg>>

Step(s, gap) ==
  /\ ~finished
  /\ now + gap <= MaxTime
  /\ StepAt(s, now + gap)
  /\ UNCHANGED finished

\* Mutant: the session ends at the time of its last frame.
FinishAtLastFrame(gap) ==
  /\ ~finished
  /\ open' = NothingOpen
  /\ events' = {Ended(key, now) : key \in {k \in Keys : IsOpen(k)}}
  /\ now' = now + gap
  /\ finished' = TRUE
  /\ UNCHANGED <<configured, cfg, presence, timer, ema, gate, score, bucketActive,
                 failures, identityActive>>

\* FusionEngine::finish: every open violation ends; the rules keep their state.
Finish(gap) ==
  /\ ~finished
  /\ now + gap <= MaxTime
  /\ open' = NothingOpen
  /\ events' = {Ended(key, now + gap) : key \in {k \in Keys : IsOpen(k)}}
  /\ now' = now + gap
  /\ finished' = TRUE
  /\ UNCHANGED <<configured, cfg, presence, timer, ema, gate, score, bucketActive,
                 failures, identityActive>>

Next ==
  \/ \E s \in Signals, gap \in Gaps : Step(s, gap)
  \/ \E gap \in Gaps : Finish(gap)

Spec == Init /\ [][Next]_vars

-----------------------------------------------------------------------------
(* Properties                                                              *)

Stamps == Nat \union {Never}
TimerType == [fired : BOOLEAN, trueSince : Stamps, falseSince : Stamps]
StampedType == [value : Int, lastT : Stamps]
OpenType == [tStart : Stamps, confidence : Int]

\* Types of the engine's fields (FusionEngine, mod.rs:71-108).
TypeOK ==
  /\ configured \in Deployments
  /\ cfg \in Configs
  /\ presence \in {"never_seen", "present", "absent"}
  /\ timer \in [TimerKeys -> TimerType]
  /\ ema \in [Slots -> [Axes -> StampedType]]
  /\ gate \in [Slots -> [Axes -> BOOLEAN]]
  /\ score \in [Buckets -> StampedType]
  /\ bucketActive \in [Buckets -> BOOLEAN]
  /\ failures \in Nat
  /\ identityActive \in BOOLEAN
  /\ open \in [Keys -> OpenType]
  /\ now \in 0..MaxTime
  /\ finished \in BOOLEAN

\* `open` and the latches of ten rules are separate state kept in step by
\* apply() alone (mod.rs:231-267): until finish(), a stream has an open
\* violation exactly when the rule behind it is latched.
OpenMatchesLatch ==
  ~finished => \A key \in Keys : IsOpen(key) <=> Latched(key)

\* "Nobody ever appeared" and "someone left" are never claimed of one silence
\* (mod.rs:280-281), although no_face stays open through its clear hold:
\* never_seen is open only in a session that has shown no face at all.
OneAbsenceVerdict ==
  IsOpen(NeverSeen) => presence = "never_seen" /\ ~IsOpen(NoFace)

\* No violation a HoldTimer decides is shorter than its clear hold, unless the
\* session ends: a start and its end are always clear_ms apart, whatever the
\* frame rate and however long the gaps (HoldTimer::update, temporal.rs:180-197).
MinimumDuration ==
  [][\A key \in TimerKeys :
       (IsOpen(key) /\ ~IsOpen(key)' /\ ~finished')
         => now' - open[key].tStart >= ClearMs(key)]_vars

\* A bucket's violation starts only on a frame that raised its score and ends
\* only on one that lowered it, so a frame the object worker never looked at
\* decides nothing (step_objects, mod.rs:472-511).
BucketFollowsEvidence ==
  [][\A bucket \in Buckets :
       LET edge == Edge(bucketActive[bucket], bucketActive'[bucket])
       IN  /\ edge = "Rose" => score'[bucket].value > score[bucket].value
           /\ edge = "Fell" => score'[bucket].value < score[bucket].value]_vars

\* Identity accuses only on a failing check that completes the count, and
\* withdraws only on a check past the higher bar (step_identity,
\* mod.rs:586-599): never on a frame that checked nothing.
IdentityEdges ==
  [][LET edge == Edge(identityActive, identityActive')
     IN  cfg.consecutiveFailures > 0 =>
           /\ edge = "Rose" => failures' = failures + 1 /\ failures' = cfg.consecutiveFailures
           /\ edge = "Fell" => failures > 0 /\ failures' = 0]_vars
=============================================================================
