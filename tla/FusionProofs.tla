---------------------------- MODULE FusionProofs ----------------------------
(***************************************************************************)
(* What the fusion engine keeps for every configuration, every set of      *)
(* inputs and every length of session.                                     *)
(***************************************************************************)
EXTENDS Fusion, WellFoundedInduction, TLAPS

-----------------------------------------------------------------------------
(* The primitives return what the engine stores.                           *)

\* A time since a stamp is a natural number.
LEMMA ElapsedNat ==
  ASSUME NEW t \in Nat, NEW since \in Stamps
  PROVE  Elapsed(t, since) \in Nat
BY DEF Elapsed, Stamps, Never

\* HoldTimer::update returns a timer.
LEMMA HoldUpdateType ==
  ASSUME NEW timerState \in TimerType, NEW hold \in Nat, NEW clear \in Nat,
         NEW condition, NEW t \in Nat
  PROVE  HoldUpdate(timerState, hold, clear, condition, t) \in TimerType
BY DEF HoldUpdate, TimerType, SinceOr, Stamps, Never

\* Ema::update returns a stamped integer.
LEMMA EmaUpdateType ==
  ASSUME NEW filter \in StampedType, NEW sample \in Int, NEW t \in Nat,
         NEW alpha \in Int, NEW resetAfter \in Nat
  PROVE  EmaUpdate(filter, sample, t, alpha, resetAfter) \in StampedType
<1> DEFINE blend == alpha * sample + (100 - alpha) * filter.value
<1>1. filter.value \in Int
  BY DEF StampedType
<1>2. blend \in Int
  BY <1>1
<1>3. blend \div 100 \in Int
  <2> HIDE DEF blend
  <2> QED  BY <1>2
<1> QED  BY <1>1, <1>3 DEF EmaUpdate, StampedType, Stamps

\* DecayingScore::add returns a stamped integer, provided the share retained is
\* one whenever there was something to retain.
LEMMA AddEvidenceType ==
  ASSUME NEW bucketScore \in StampedType, NEW amount \in Int, NEW t \in Nat,
         NEW retained,
         bucketScore.lastT # Never => retained \in Int
  PROVE  AddEvidence(bucketScore, amount, retained, t) \in StampedType
<1> DEFINE left == IF bucketScore.lastT = Never THEN bucketScore.value
                   ELSE (bucketScore.value * retained) \div 100
<1>1. bucketScore.value \in Int
  BY DEF StampedType
<1>2. left \in Int
  <2>1. CASE bucketScore.lastT = Never
    BY <2>1, <1>1
  <2>2. CASE bucketScore.lastT # Never
    <3>1. bucketScore.value * retained \in Int
      BY <2>2, <1>1
    <3> QED  BY <2>2, <3>1
  <2> QED  BY <2>1, <2>2
<1>3. AddEvidence(bucketScore, amount, retained, t) = [value |-> left + amount, lastT |-> t]
  BY DEF AddEvidence, DecayTo
<1> HIDE DEF left
<1> QED  BY <1>2, <1>3 DEF StampedType, Stamps

\* An intensity is an integer.
LEMMA IntensityType ==
  ASSUME NEW value \in Int, NEW enter \in Int
  PROVE  Intensity(value, enter) \in Int
<1>1. CASE value < enter \/ enter <= 0
  BY <1>1 DEF Intensity
<1>2. CASE ~(value < enter \/ enter <= 0)
  <2>1. (value - enter) * 100 \in Int /\ enter > 0
    BY <1>2
  <2>2. ((value - enter) * 100) \div enter \in Int
    BY <2>1
  <2> QED  BY <1>2, <2>2 DEF Intensity, Smaller
<1> QED  BY <1>1, <1>2

\* A latch is Boolean.
LEMMA LatchType ==
  ASSUME NEW active \in BOOLEAN, NEW value, NEW enter, NEW exit
  PROVE  Latch(active, value, enter, exit) \in BOOLEAN
<1>1. (value >= exit) \in BOOLEAN /\ (value >= enter) \in BOOLEAN
  OBVIOUS
<1>2. CASE active
  BY <1>1, <1>2, Zenon DEF Latch
<1>3. CASE ~active
  BY <1>1, <1>3, Zenon DEF Latch
<1> QED  BY <1>2, <1>3

\* A set of percentages with something in it has a greatest element, and Best
\* picks it.
LEMMA BestIsGreatest ==
  ASSUME NEW S \in SUBSET (0..100), S # {}
  PROVE  Best(S) \in S /\ \A y \in S : y <= Best(S)
<1> DEFINE T == {100 - x : x \in S}
           R == {pair \in Nat \X Nat : pair[1] < pair[2]}
<1>1. T \subseteq Nat
  OBVIOUS
<1>2. T # {}
  OBVIOUS
<1>3. IsWellFoundedOn(R, Nat)
  BY NatLessThanWellFounded DEF OpToRel
<1>4. PICK m \in T : \A n \in T : <<n, m>> \notin R
  <2> HIDE DEF T, R
  <2> QED  BY <1>1, <1>2, <1>3, WFMin, Zenon
<1>5. PICK x \in S : m = 100 - x
  OBVIOUS
<1>6. \A y \in S : y <= x
  <2> SUFFICES ASSUME NEW y \in S, y > x PROVE FALSE
    OBVIOUS
  <2>1. 100 - y \in T
    OBVIOUS
  <2>2. <<100 - y, m>> \in R
    BY <1>5
  <2> QED  BY <1>4, <2>1, <2>2
<1> QED  BY <1>5, <1>6 DEF Best
-----------------------------------------------------------------------------
(* What a step reads: the configuration and the signals.                   *)

\* The parts of a configuration the rules compute with.
LEMMA ConfigParts ==
  ASSUME NEW c \in Configs
  PROVE  /\ c.hold \in [TimerKinds -> Nat] /\ c.clear \in [TimerKinds -> Nat]
         /\ c.enter \in [Slots -> [Axes -> Int]]
         /\ c.alpha \in [Slots -> Int]
         /\ c.pitchOffset \in Int
         /\ c.enterScore \in Int
         /\ c.matchEnter \in Int /\ c.matchExit \in Int
BY ConfigAssumption DEF ConfigType

\* The streams behind a timer are configured streams.
LEMMA KeyParts ==
  /\ \A key \in TimerKeys : key[1] \in TimerKinds
  /\ "signal_lost" \in TimerKinds
  /\ \A key \in BucketKeys : key[2] \in Buckets
  /\ TimerKeys \intersect BucketKeys = {}
  /\ IdentityMismatch \notin TimerKeys \union BucketKeys
<1>1. \A key \in TimerKeys : key[1] \in TimerKinds
  BY DEF TimerKinds
<1>2. "signal_lost" \in TimerKinds
  <2>1. SignalLost("pose") \in TimerKeys /\ SignalLost("pose")[1] = "signal_lost"
    BY DEF TimerKeys, LossKeys, Slots, SignalLost
  <2> QED  BY <1>1, <2>1
<1>3. \A key \in BucketKeys : key[2] \in Buckets /\ key[1] = "prohibited_object"
  BY DEF BucketKeys, ProhibitedObject
<1>4. \A key \in TimerKeys :
        key[1] \in {"never_seen", "no_face", "multiple_faces", "head_turned_away",
                    "gaze_off_screen", "signal_lost"}
  BY DEF TimerKeys, FaceKeys, TurnKeys, LossKeys, NeverSeen, NoFace, MultipleFaces,
         HeadTurnedAway, GazeOffScreen, SignalLost
<1>5. IdentityMismatch[1] = "identity_mismatch"
  BY DEF IdentityMismatch
<1> QED  BY <1>1, <1>2, <1>3, <1>4, <1>5

\* A signal carries integers, and detections that are percentages.
LEMMA SignalParts ==
  ASSUME NEW s \in Signals
  PROVE  /\ s.faces \in Nat
         /\ \A slot \in Slots, axis \in Axes : Reading(s, slot).value[axis] \in Int
         /\ \A d \in s.objects.value : d.score \in 0..100
         /\ s.identity.value \in Int
<1>1. PICK faces \in FaceCounts :
        s \in [faces    : {faces},
              pose     : AngleReadings("pose", faces, PoseAngles),
              gaze     : AngleReadings("gaze", faces, GazeAngles),
              objects  : ObjectReadings,
              identity : IdentityReadings]
  BY DEF Signals
<1>2. s.faces \in Nat
  BY <1>1, InputAssumption
<1>3. ASSUME NEW slot, NEW angles, angles \subseteq [Axes -> Int],
             NEW reading \in AngleReadings(slot, faces, angles)
      PROVE  reading.value \in [Axes -> Int]
  BY <1>3 DEF AngleReadings, Silent, NoAngle
<1>4. s.pose.value \in [Axes -> Int] /\ s.gaze.value \in [Axes -> Int]
  BY <1>1, <1>3, InputAssumption
<1>5. \A d \in s.objects.value : d.score \in 0..100
  BY <1>1, InputAssumption DEF ObjectReadings, Silent
<1>6. s.identity.value \in Int
  BY <1>1, InputAssumption DEF IdentityReadings, Silent
<1> QED  BY <1>2, <1>4, <1>5, <1>6 DEF Reading

-----------------------------------------------------------------------------
(* Types.                                                                  *)

\* A measured angle is an integer.
LEMMA MeasuredType ==
  ASSUME cfg \in Configs, NEW s \in Signals, NEW slot \in Slots, NEW axis \in Axes
  PROVE  Measured(s, slot, axis) \in Int
<1>1. Reading(s, slot).value[axis] \in Int /\ cfg.pitchOffset \in Int
  BY SignalParts, ConfigParts
<1>2. CASE slot = "pose"
  BY <1>1, <1>2 DEF Measured, Reading
<1>3. CASE slot # "pose"
  <2>1. s.gaze.value[axis] * 180 \in Int
    BY <1>1, <1>3 DEF Reading
  <2>2. Degrees(s.gaze.value[axis]) \in Int
    BY <2>1 DEF Degrees
  <2> QED  BY <1>1, <1>3, <2>2 DEF Measured
<1> QED  BY <1>2, <1>3

\* What a step adds to a bucket is a percentage.
LEMMA EvidenceType ==
  ASSUME NEW s \in Signals, NEW bucket \in Buckets
  PROVE  Best(Evidence(s, bucket)) \in 0..100
<1>1. Evidence(s, bucket) \in SUBSET (0..100) /\ Evidence(s, bucket) # {}
  BY SignalParts DEF Evidence
<1> QED  BY <1>1, BestIsGreatest

\* Every rule leaves its state of the right type.
LEMMA StepAtType ==
  ASSUME TypeOK, NEW s \in Signals, NEW t \in 0..MaxTime, t >= now,
         StepAt(s, t), UNCHANGED finished
  PROVE  TypeOK'
<1> USE DEF TypeOK
<1>t. t \in Nat
  BY InputAssumption
<1>1. presence' \in {"never_seen", "present", "absent"}
  BY DEF StepAt, TrackPresence
<1>2. ema' \in [Slots -> [Axes -> StampedType]]
  <2>1. ASSUME NEW slot \in Slots, NEW axis \in Axes
        PROVE  EmaUpdate(ema[slot][axis], Measured(s, slot, axis), t,
                         cfg.alpha[slot], cfg.hold["signal_lost"]) \in StampedType
    <3>1. cfg.alpha[slot] \in Int /\ cfg.hold["signal_lost"] \in Nat
      BY ConfigParts, KeyParts
    <3>2. Measured(s, slot, axis) \in Int
      BY MeasuredType
    <3>3. ema[slot][axis] \in StampedType
      OBVIOUS
    <3> QED  BY <1>t, <3>1, <3>2, <3>3, EmaUpdateType
  <2> QED  BY <2>1 DEF StepAt, SmoothAngles
<1>3. gate' \in [Slots -> [Axes -> BOOLEAN]]
  <2>1. ASSUME NEW slot \in Slots, NEW axis \in Axes
        PROVE  Latch(gate[slot][axis], Magnitude(ema'[slot][axis].value),
                     cfg.enter[slot][axis], cfg.exit[slot][axis]) \in BOOLEAN
    <3>1. gate[slot][axis] \in BOOLEAN
      OBVIOUS
    <3> QED  BY <3>1, LatchType
  <2> QED  BY <2>1 DEF StepAt, LatchAngles
<1>4. timer' \in [TimerKeys -> TimerType]
  <2>1. ASSUME NEW key \in TimerKeys
        PROVE  HoldUpdate(timer[key], HoldMs(key), ClearMs(key), Condition(s, key), t)
                 \in TimerType
    <3>1. HoldMs(key) \in Nat /\ ClearMs(key) \in Nat
      BY ConfigParts, KeyParts DEF HoldMs, ClearMs
    <3> QED  BY <1>t, <3>1, HoldUpdateType
  <2> QED  BY <2>1 DEF StepAt, AdvanceTimers
<1>5. score' \in [Buckets -> StampedType]
  <2>1. ASSUME NEW bucket \in Buckets
        PROVE  AddEvidence(score[bucket], Best(Evidence(s, bucket)),
                           Retained(Elapsed(t, score[bucket].lastT)), t) \in StampedType
    <3>1. score[bucket] \in StampedType
      OBVIOUS
    <3>2. ASSUME score[bucket].lastT # Never
          PROVE  Retained(Elapsed(t, score[bucket].lastT)) \in Int
      <4>1. Elapsed(t, score[bucket].lastT) \in 0..MaxTime
        BY <1>t, <3>1, <3>2, InputAssumption DEF Elapsed, StampedType, Stamps, Never
      <4> QED  BY <4>1, DecayAssumption
    <3>3. Best(Evidence(s, bucket)) \in Int
      BY EvidenceType
    <3> QED  BY <1>t, <3>1, <3>2, <3>3, AddEvidenceType
  <2> QED  BY <2>1 DEF StepAt, Accumulate
<1>6. bucketActive' \in [Buckets -> BOOLEAN]
  BY LatchType, Zenon DEF StepAt, JudgeBuckets
<1>7. failures' \in Nat
  BY DEF StepAt, CountFailures
<1>8. identityActive' \in BOOLEAN
  <2>1. (failures' > 0) \in BOOLEAN /\ (failures' >= cfg.consecutiveFailures) \in BOOLEAN
    OBVIOUS
  <2> QED  BY <2>1, Zenon DEF StepAt, JudgeIdentity
<1>9. open' \in [Keys -> OpenType]
  <2>1. ASSUME NEW key \in Keys
        PROVE  Confidence(s, key) \in Int
    <3>1. ASSUME NEW slot \in Slots
          PROVE  TurnConfidence(s, slot) \in Int
      <4>1. ASSUME NEW axis \in Axes
            PROVE  Intensity(Magnitude(ema'[slot][axis].value), cfg.enter[slot][axis]) \in Int
        <5>1. ema'[slot][axis].value \in Int /\ cfg.enter[slot][axis] \in Int
          BY <1>2, ConfigParts DEF StampedType
        <5>2. Magnitude(ema'[slot][axis].value) \in Int
          BY <5>1 DEF Magnitude
        <5> QED  BY <5>1, <5>2, IntensityType
      <4> QED  BY <4>1 DEF TurnConfidence, Larger, Axes
    <3>2. ASSUME key \in BucketKeys
          PROVE  ObjectConfidence(key[2]) \in Int
      <4>1. score'[key[2]].value \in Int /\ cfg.enterScore \in Int
        BY <1>5, <3>2, KeyParts, ConfigParts DEF StampedType
      <4> QED  BY <4>1, IntensityType DEF ObjectConfidence
    <3> QED  BY <3>1, <3>2 DEF Confidence, Slots
  <2>2. ASSUME NEW key \in Keys
        PROVE  open'[key] \in OpenType
    <3>1. CASE VerdictEdge(key) = "Rose"
      BY <1>t, <2>1, <3>1 DEF StepAt, Apply, OpenType, Stamps
    <3>2. CASE VerdictEdge(key) = "Fell"
      BY <3>2 DEF StepAt, Apply, OpenType, Stamps, Closed
    <3>3. CASE VerdictEdge(key) = "Steady"
      BY <2>1, <3>3 DEF StepAt, Apply, OpenType
    <3> QED  BY <3>1, <3>2, <3>3 DEF VerdictEdge, Edge
  <2> QED  BY <2>2 DEF StepAt, Apply
<1>10. UNCHANGED <<configured, cfg>> /\ now' \in 0..MaxTime
  BY DEF StepAt
<1> QED  BY <1>1, <1>2, <1>3, <1>4, <1>5, <1>6, <1>7, <1>8, <1>9, <1>10

\* A new engine, at the start of a session or after a reload.
Fresh ==
  /\ configured \in Deployments
  /\ \E c \in Configs : NewEngine(c)
  /\ now \in 0..MaxTime
  /\ finished = FALSE

LEMMA InitFresh == Init => Fresh
BY InputAssumption DEF Init, Fresh

\* A new engine has the types of its fields.
LEMMA FreshType == Fresh => TypeOK
<1> SUFFICES ASSUME Fresh PROVE TypeOK
  OBVIOUS
<1> USE DEF Fresh, NewEngine
<1>1. timer \in [TimerKeys -> TimerType]
  BY DEF NewTimers, NewTimer, TimerType, Stamps
<1>2. ema \in [Slots -> [Axes -> StampedType]]
  BY DEF NewFilters, NewEma, StampedType, Stamps
<1>3. gate \in [Slots -> [Axes -> BOOLEAN]]
  BY DEF NewGates
<1>4. score \in [Buckets -> StampedType]
  BY DEF NewScores, NewScore, StampedType, Stamps
<1>5. bucketActive \in [Buckets -> BOOLEAN]
  BY DEF NoBuckets
<1>6. open \in [Keys -> OpenType]
  BY DEF NothingOpen, Closed, OpenType, Stamps
<1>7. cfg \in Configs /\ presence \in {"never_seen", "present", "absent"}
  OBVIOUS
<1>8. failures \in Nat /\ now \in 0..MaxTime
  BY InputAssumption
<1>9. configured \in Deployments /\ identityActive \in BOOLEAN /\ finished \in BOOLEAN
  OBVIOUS
<1> QED  BY <1>1, <1>2, <1>3, <1>4, <1>5, <1>6, <1>7, <1>8, <1>9 DEF TypeOK

\* A step or the end of the session is at a time within the bound.
LEMMA LaterTime ==
  ASSUME TypeOK, NEW gap \in Gaps, now + gap <= MaxTime
  PROVE  now + gap \in 0..MaxTime /\ now + gap >= now
BY InputAssumption DEF TypeOK

\* Types are preserved.
LEMMA NextType == TypeOK /\ [Next]_vars => TypeOK'
<1> SUFFICES ASSUME TypeOK, [Next]_vars PROVE TypeOK'
  OBVIOUS
<1>1. ASSUME NEW s \in Signals, NEW gap \in Gaps, Step(s, gap)
      PROVE  TypeOK'
  BY <1>1, LaterTime, StepAtType DEF Step
<1>2. ASSUME NEW gap \in Gaps, Finish(gap)
      PROVE  TypeOK'
  <2>1. NothingOpen \in [Keys -> OpenType]
    BY DEF NothingOpen, Closed, OpenType, Stamps
  <2> QED  BY <1>2, <2>1, LaterTime DEF Finish, TypeOK
<1>3. CASE UNCHANGED vars
  BY <1>3 DEF vars, engine, TypeOK
<1> QED  BY <1>1, <1>2, <1>3 DEF Next

\* The engine's fields keep their types in every session.
THEOREM TypeCorrect == Spec => []TypeOK
BY InitFresh, FreshType, NextType, PTL DEF Spec

-----------------------------------------------------------------------------
(* `open` agrees with the latches.                                         *)

\* Only a start opens a stream, and it stamps it.
OpenIsStamped == \A key \in Keys : IsOpen(key) => open[key].tStart # Never

\* After finish() the latches are history and nothing is open.
NothingOpenAtTheEnd == finished => open = NothingOpen

LatchInv == TypeOK /\ OpenIsStamped /\ NothingOpenAtTheEnd /\ OpenMatchesLatch

\* Every latch is Boolean, so its edge is one of the three.
LEMMA LatchedType ==
  ASSUME TypeOK, NEW key \in Keys
  PROVE  Latched(key) \in BOOLEAN
<1>1. CASE key \in TimerKeys
  <2>1. timer[key].fired \in BOOLEAN
    BY <1>1 DEF TypeOK, TimerType
  <2> QED  BY <1>1, <2>1, KeyParts, Zenon DEF Latched
<1>2. CASE key \in BucketKeys
  <2>1. bucketActive[key[2]] \in BOOLEAN /\ key \notin TimerKeys
    BY <1>2, KeyParts DEF TypeOK
  <2> QED  BY <1>2, <2>1, Zenon DEF Latched
<1>3. CASE key \notin TimerKeys \union BucketKeys
  <2>1. identityActive \in BOOLEAN
    BY DEF TypeOK
  <2> QED  BY <1>3, <2>1, Zenon DEF Latched
<1> QED  BY <1>1, <1>2, <1>3

\* The same of the state a step leads to.
LEMMA LatchedTypeNext ==
  TypeOK' => (\A key \in Keys : Latched(key) \in BOOLEAN)'
<1>1. TypeOK => \A key \in Keys : Latched(key) \in BOOLEAN
  BY LatchedType
<1> QED  BY <1>1, PTL

\* What apply() does to a stream, edge by edge.
LEMMA ApplyCases ==
  ASSUME TypeOK, NEW s, NEW t, Apply(s, t), NEW key \in Keys
  PROVE  /\ VerdictEdge(key) = "Rose" => open'[key].tStart = t
         /\ VerdictEdge(key) = "Fell" => open'[key] = Closed
         /\ VerdictEdge(key) = "Steady" =>
              \/ open'[key] = open[key]
              \/ IsOpen(key) /\ open'[key].tStart = open[key].tStart
<1>1. CASE VerdictEdge(key) = "Rose"
  <2>1. open'[key] = [tStart |-> t, confidence |-> Confidence(s, key)]
    BY <1>1, Zenon DEF Apply
  <2> QED  BY <1>1, <2>1
<1>2. CASE VerdictEdge(key) = "Fell"
  BY <1>2, Zenon DEF Apply
<1>3. CASE VerdictEdge(key) = "Steady"
  <2>1. \/ open'[key] = open[key]
        \/ IsOpen(key) /\ open'[key] = [open[key] EXCEPT !.confidence = Confidence(s, key)]
    BY <1>3, Zenon DEF Apply
  <2>2. open[key] \in OpenType
    BY DEF TypeOK
  <2> QED  BY <1>3, <2>1, <2>2 DEF OpenType
<1> QED  BY <1>1, <1>2, <1>3

\* A step keeps `open` and the latches in agreement.
LEMMA StepAtLatch ==
  ASSUME LatchInv, ~finished, TypeOK', NEW s \in Signals, NEW t \in Nat, Apply(s, t), UNCHANGED finished
  PROVE  OpenIsStamped' /\ OpenMatchesLatch'
<1>1. ASSUME NEW key \in Keys
      PROVE  /\ IsOpen(key)' <=> Latched(key)'
             /\ IsOpen(key)' => open'[key].tStart # Never
  <2>1. Latched(key) \in BOOLEAN /\ Latched(key)' \in BOOLEAN
    <3>1. Latched(key) \in BOOLEAN
      BY LatchedType DEF LatchInv
    <3>2. Latched(key)' \in BOOLEAN
      BY LatchedTypeNext
    <3> QED  BY <3>1, <3>2
  <2>2. /\ IsOpen(key) <=> Latched(key)
        /\ IsOpen(key) => open[key].tStart # Never
        /\ open[key] \in OpenType
    BY DEF LatchInv, OpenMatchesLatch, OpenIsStamped, TypeOK
  <2>3. CASE VerdictEdge(key) = "Rose"
    <3>1. Latched(key)'
      BY <2>1, <2>3 DEF VerdictEdge, Edge
    <3>2. open'[key].tStart = t /\ t # Never /\ Closed.tStart = Never
      BY <2>3, ApplyCases DEF Closed, Never, LatchInv
    <3> QED  BY <3>1, <3>2 DEF IsOpen
  <2>4. CASE VerdictEdge(key) = "Fell"
    <3>1. ~Latched(key)'
      BY <2>1, <2>4 DEF VerdictEdge, Edge
    <3>2. open'[key] = Closed
      BY <2>4, ApplyCases DEF LatchInv
    <3> QED  BY <3>1, <3>2 DEF IsOpen
  <2>5. CASE VerdictEdge(key) = "Steady"
    <3>1. Latched(key)' = Latched(key)
      BY <2>1, <2>5 DEF VerdictEdge, Edge
    <3>2. \/ open'[key] = open[key]
          \/ IsOpen(key) /\ open'[key].tStart = open[key].tStart
      BY <2>5, ApplyCases DEF LatchInv
    <3>3. IsOpen(key)' <=> IsOpen(key)
      BY <2>2, <3>2 DEF IsOpen, Closed
    <3> QED  BY <2>2, <3>1, <3>2, <3>3 DEF IsOpen
  <2> QED  BY <2>1, <2>3, <2>4, <2>5 DEF VerdictEdge, Edge
<1> QED  BY <1>1 DEF OpenIsStamped, OpenMatchesLatch

\* A new engine has nothing latched and nothing open.
LEMMA FreshLatch == Fresh => LatchInv
<1> SUFFICES ASSUME Fresh PROVE LatchInv
  OBVIOUS
<1>1. TypeOK
  BY FreshType
<1>2. open = NothingOpen /\ ~finished
  BY DEF Fresh, NewEngine
<1>3. \A key \in Keys : ~IsOpen(key)
  BY <1>2 DEF IsOpen, NothingOpen
<1>4. ASSUME NEW key \in Keys PROVE ~Latched(key)
  <2>1. CASE key \in TimerKeys
    <3>1. ~timer[key].fired /\ key \notin BucketKeys
      BY <2>1, KeyParts DEF Fresh, NewEngine, NewTimers, NewTimer
    <3> QED  BY <2>1, <3>1, Zenon DEF Latched
  <2>2. CASE key \in BucketKeys
    <3>1. ~bucketActive[key[2]] /\ key \notin TimerKeys
      BY <2>2, KeyParts DEF Fresh, NewEngine, NoBuckets
    <3> QED  BY <2>2, <3>1, Zenon DEF Latched
  <2>3. CASE key \notin TimerKeys \union BucketKeys
    <3>1. ~identityActive /\ key \notin TimerKeys /\ key \notin BucketKeys
      BY <2>3 DEF Fresh, NewEngine
    <3> QED  BY <2>3, <3>1, Zenon DEF Latched
  <2> QED  BY <2>1, <2>2, <2>3
<1> QED  BY <1>1, <1>2, <1>3, <1>4 DEF LatchInv, OpenIsStamped, NothingOpenAtTheEnd,
                                      OpenMatchesLatch

LEMMA InitLatch == Init => LatchInv
BY InitFresh, FreshLatch

LEMMA NextLatch == LatchInv /\ [Next]_vars => LatchInv'
<1> SUFFICES ASSUME LatchInv, [Next]_vars PROVE LatchInv'
  OBVIOUS
<1>1. TypeOK'
  BY NextType DEF LatchInv
<1>2. ASSUME NEW s \in Signals, NEW gap \in Gaps, Step(s, gap)
      PROVE  LatchInv'
  <2>1. /\ now + gap \in Nat /\ Apply(s, now + gap)
        /\ UNCHANGED finished /\ ~finished /\ ~finished'
    BY <1>2, LaterTime, InputAssumption DEF Step, StepAt, LatchInv
  <2>2. OpenIsStamped' /\ OpenMatchesLatch'
    BY <1>1, <2>1, StepAtLatch
  <2> QED  BY <1>1, <2>1, <2>2 DEF LatchInv, NothingOpenAtTheEnd
<1>3. ASSUME NEW gap \in Gaps, Finish(gap)
      PROVE  LatchInv'
  <2>1. open' = NothingOpen /\ finished'
    BY <1>3 DEF Finish
  <2> QED  BY <1>1, <2>1 DEF LatchInv, NothingOpenAtTheEnd, OpenMatchesLatch,
                             OpenIsStamped, IsOpen, NothingOpen
<1>4. CASE UNCHANGED vars
  BY <1>4 DEF vars, engine, LatchInv, TypeOK, OpenIsStamped, NothingOpenAtTheEnd,
              OpenMatchesLatch, IsOpen, Latched
<1> QED  BY <1>2, <1>3, <1>4 DEF Next

\* Until finish(), a stream has an open violation exactly when the rule behind
\* it is latched (apply, mod.rs:231-267), in every session.
THEOREM OpenFollowsLatch == Spec => []OpenMatchesLatch
<1>1. LatchInv => OpenMatchesLatch
  BY DEF LatchInv
<1> QED  BY <1>1, InitLatch, NextLatch, PTL DEF Spec

-----------------------------------------------------------------------------
(* "Nobody ever" and "someone left" exclude each other.                    *)

AbsenceInv ==
  /\ LatchInv
  /\ timer[NeverSeen].fired => presence = "never_seen"
  /\ presence = "never_seen" => ~timer[NoFace].fired

\* The streams the presence rules decide have timers behind them.
LEMMA PresenceKeys ==
  NeverSeen \in TimerKeys /\ NoFace \in TimerKeys /\ TimerKeys \subseteq Keys
BY DEF TimerKeys, FaceKeys, Keys

\* The latch of a timer's stream is its timer's.
LEMMA TimerLatch ==
  \A key \in TimerKeys : Latched(key) = timer[key].fired
<1> TAKE key \in TimerKeys
<1>1. key \notin BucketKeys
  BY KeyParts
<1> QED  BY <1>1, Zenon DEF Latched

LEMMA TimerLatchNext ==
  \A key \in TimerKeys : Latched(key)' = timer'[key].fired
<1> TAKE key \in TimerKeys
<1>1. key \notin BucketKeys
  BY KeyParts
<1> QED  BY <1>1, Zenon DEF Latched

\* What the presence rules ask of a frame.
LEMMA PresenceConditions ==
  ASSUME NEW s
  PROVE  /\ Condition(s, NeverSeen) <=> presence' = "never_seen"
         /\ Condition(s, NoFace) <=> presence' = "absent"
BY Zenon DEF Condition, NeverSeen, NoFace, MultipleFaces, HeadTurnedAway, GazeOffScreen

\* Without its condition a timer stays fired only through its clear hold.
LEMMA HoldUpdateAbsent ==
  ASSUME NEW timerState \in TimerType, NEW hold, NEW clear, NEW condition, ~condition,
         NEW t, NEW next, next = HoldUpdate(timerState, hold, clear, condition, t),
         next.fired
  PROVE  timerState.fired /\ Elapsed(t, SinceOr(timerState.falseSince, t)) < clear
BY DEF HoldUpdate, TimerType

LEMMA StepAtAbsence ==
  ASSUME AbsenceInv, NEW s \in Signals, NEW t \in Nat, StepAt(s, t)
  PROVE  /\ timer'[NeverSeen].fired => presence' = "never_seen"
         /\ presence' = "never_seen" => ~timer'[NoFace].fired
<1>1. /\ timer'[NeverSeen] =
           HoldUpdate(timer[NeverSeen], HoldMs(NeverSeen), ClearMs(NeverSeen),
                      Condition(s, NeverSeen), t)
      /\ timer'[NoFace] =
           HoldUpdate(timer[NoFace], HoldMs(NoFace), ClearMs(NoFace),
                      Condition(s, NoFace), t)
  BY PresenceKeys DEF StepAt, AdvanceTimers
<1>2. timer[NeverSeen] \in TimerType /\ timer[NoFace] \in TimerType
  BY PresenceKeys DEF AbsenceInv, LatchInv, TypeOK
<1>3. ASSUME presence' # "never_seen"
      PROVE  ~timer'[NeverSeen].fired
  <2>1. ~Condition(s, NeverSeen) /\ ClearMs(NeverSeen) = 0
    BY <1>3, PresenceConditions DEF ClearMs
  <2>2. SinceOr(timer[NeverSeen].falseSince, t) \in Stamps
    BY <1>2 DEF SinceOr, TimerType, Stamps
  <2>3. ~(Elapsed(t, SinceOr(timer[NeverSeen].falseSince, t)) < 0)
    BY <2>2, ElapsedNat
  <2> QED  BY <1>1, <1>2, <2>1, <2>3, HoldUpdateAbsent
<1>4. ASSUME presence' = "never_seen"
      PROVE  ~timer'[NoFace].fired
  <2>1. ~Condition(s, NoFace)
    BY <1>4, PresenceConditions
  <2>2. presence = "never_seen"
    BY <1>4 DEF StepAt, TrackPresence
  <2>3. ~timer[NoFace].fired
    BY <2>2 DEF AbsenceInv
  <2> QED  BY <1>1, <1>2, <2>1, <2>3, HoldUpdateAbsent
<1> QED  BY <1>3, <1>4

LEMMA InitAbsence == Init => AbsenceInv
<1> SUFFICES ASSUME Init PROVE AbsenceInv
  OBVIOUS
<1>1. LatchInv
  BY InitLatch
<1>2. ~timer[NeverSeen].fired /\ ~timer[NoFace].fired
  BY PresenceKeys DEF Init, NewEngine, NewTimers, NewTimer
<1> QED  BY <1>1, <1>2 DEF AbsenceInv

LEMMA NextAbsence == AbsenceInv /\ [Next]_vars => AbsenceInv'
<1> SUFFICES ASSUME AbsenceInv, [Next]_vars PROVE AbsenceInv'
  OBVIOUS
<1>1. LatchInv'
  BY NextLatch DEF AbsenceInv
<1>2. ASSUME NEW s \in Signals, NEW gap \in Gaps, Step(s, gap)
      PROVE  AbsenceInv'
  <2>1. now + gap \in Nat /\ StepAt(s, now + gap)
    BY <1>2, LaterTime, InputAssumption DEF Step, AbsenceInv, LatchInv
  <2> QED  BY <1>1, <2>1, StepAtAbsence DEF AbsenceInv
<1>3. ASSUME NEW gap \in Gaps, Finish(gap)
      PROVE  AbsenceInv'
  BY <1>1, <1>3 DEF Finish, AbsenceInv
<1>4. CASE UNCHANGED vars
  BY <1>1, <1>4 DEF vars, engine, AbsenceInv
<1> QED  BY <1>2, <1>3, <1>4 DEF Next

\* never_seen is open only in a session that has shown no face, and never beside
\* no_face (step_face, mod.rs:274-309), whatever the holds are.
THEOREM NeverSeenExcludesNoFace == Spec => []OneAbsenceVerdict
<1>1. AbsenceInv => OneAbsenceVerdict
  <2> SUFFICES ASSUME AbsenceInv, IsOpen(NeverSeen)
               PROVE  presence = "never_seen" /\ ~IsOpen(NoFace)
    BY DEF OneAbsenceVerdict
  <2>1. ~finished
    BY PresenceKeys DEF AbsenceInv, LatchInv, NothingOpenAtTheEnd, NothingOpen, IsOpen
  <2>2. timer[NeverSeen].fired
    BY <2>1, PresenceKeys, TimerLatch DEF AbsenceInv, LatchInv, OpenMatchesLatch
  <2>3. presence = "never_seen" /\ ~timer[NoFace].fired
    BY <2>2 DEF AbsenceInv
  <2> QED  BY <2>1, <2>3, PresenceKeys, TimerLatch DEF AbsenceInv, LatchInv, OpenMatchesLatch
<1> QED  BY <1>1, InitAbsence, NextAbsence, PTL DEF Spec

-----------------------------------------------------------------------------
(* No timed violation is shorter than its clear hold.                      *)

\* An open violation started by now, and whatever absence its timer is counting
\* began after it did.
AbsenceFollowsStart ==
  \A key \in TimerKeys :
    IsOpen(key) =>
      /\ open[key].tStart <= now
      /\ timer[key].falseSince # Never => open[key].tStart <= timer[key].falseSince

DurationInv == LatchInv /\ AbsenceFollowsStart

\* A timer fires only on a frame that meets its condition, and is released only
\* by an absence that has lasted for the clear hold.
LEMMA HoldUpdateEdges ==
  ASSUME NEW timerState \in TimerType, NEW hold, NEW clear, NEW condition, NEW t,
         NEW next, next = HoldUpdate(timerState, hold, clear, condition, t)
  PROVE  /\ ~timerState.fired /\ next.fired => next.falseSince = Never
         /\ timerState.fired /\ ~next.fired =>
              ~(Elapsed(t, SinceOr(timerState.falseSince, t)) < clear)
         /\ next.falseSince \in {Never, SinceOr(timerState.falseSince, t)}
BY DEF HoldUpdate, TimerType

\* What one frame does to a timer and to the violation it decides.
LEMMA StepAtTimer ==
  ASSUME DurationInv, ~finished, LatchInv', UNCHANGED finished,
         NEW s \in Signals, NEW t \in Nat, t >= now, StepAt(s, t), NEW key \in TimerKeys
  PROVE  /\ IsOpen(key)' =>
              /\ open'[key].tStart <= t
              /\ timer'[key].falseSince # Never => open'[key].tStart <= timer'[key].falseSince
         /\ IsOpen(key) /\ ~IsOpen(key)' => t - open[key].tStart >= ClearMs(key)
<1> DEFINE since == SinceOr(timer[key].falseSince, t)
<1>1. /\ key \in Keys
      /\ timer[key] \in TimerType
      /\ timer'[key] = HoldUpdate(timer[key], HoldMs(key), ClearMs(key), Condition(s, key), t)
  BY PresenceKeys DEF StepAt, AdvanceTimers, DurationInv, LatchInv, TypeOK
<1>2. /\ ~timer[key].fired /\ timer'[key].fired => timer'[key].falseSince = Never
      /\ timer[key].fired /\ ~timer'[key].fired => ~(Elapsed(t, since) < ClearMs(key))
      /\ timer'[key].falseSince \in {Never, since}
  BY <1>1, HoldUpdateEdges
<1>3. /\ IsOpen(key) <=> timer[key].fired
      /\ IsOpen(key)' <=> timer'[key].fired
  <2>1. IsOpen(key) <=> Latched(key)
    BY <1>1 DEF DurationInv, LatchInv, OpenMatchesLatch
  <2>2. IsOpen(key)' <=> Latched(key)'
    BY <1>1 DEF LatchInv, OpenMatchesLatch
  <2>3. Latched(key) = timer[key].fired /\ Latched(key)' = timer'[key].fired
    BY TimerLatch, TimerLatchNext
  <2> QED  BY <2>1, <2>2, <2>3
<1>4. /\ now \in Nat /\ ClearMs(key) \in Nat
      /\ timer[key].falseSince \in Stamps /\ since \in Nat
  BY <1>1, ConfigParts, KeyParts, InputAssumption
     DEF DurationInv, LatchInv, TypeOK, ClearMs, TimerType, Stamps, SinceOr
<1>5. ASSUME IsOpen(key)
      PROVE  open[key].tStart \in Nat /\ open[key].tStart <= now /\ open[key].tStart <= since
  <2>1. open[key].tStart \in Nat
    BY <1>1, <1>5 DEF DurationInv, LatchInv, OpenIsStamped, TypeOK, OpenType, Stamps
  <2> QED  BY <1>4, <1>5, <2>1 DEF DurationInv, AbsenceFollowsStart, SinceOr
<1>6. ASSUME IsOpen(key)'
      PROVE  /\ open'[key].tStart <= t
             /\ timer'[key].falseSince # Never => open'[key].tStart <= timer'[key].falseSince
  <2>1. CASE IsOpen(key)
    <3>1. open'[key].tStart = open[key].tStart
      <4>1. VerdictEdge(key) = "Steady"
        BY <1>3, <1>6, <2>1, TimerLatch, TimerLatchNext DEF VerdictEdge, Edge
      <4>2. TypeOK /\ Apply(s, t)
        BY DEF DurationInv, LatchInv, StepAt
      <4> QED  BY <1>1, <4>1, <4>2, ApplyCases
    <3> QED  BY <1>2, <1>4, <1>5, <2>1, <3>1
  <2>2. CASE ~IsOpen(key)
    <3>1. open'[key].tStart = t
      <4>1. VerdictEdge(key) = "Rose"
        BY <1>3, <1>6, <2>2, TimerLatch, TimerLatchNext DEF VerdictEdge, Edge
      <4>2. TypeOK /\ Apply(s, t)
        BY DEF DurationInv, LatchInv, StepAt
      <4> QED  BY <1>1, <4>1, <4>2, ApplyCases
    <3> QED  BY <1>2, <1>3, <1>6, <2>2, <3>1
  <2> QED  BY <2>1, <2>2
<1>7. ASSUME IsOpen(key), ~IsOpen(key)'
      PROVE  t - open[key].tStart >= ClearMs(key)
  <2>1. ~(Elapsed(t, since) < ClearMs(key))
    BY <1>2, <1>3, <1>7
  <2> HIDE DEF since
  <2> QED  BY <1>4, <1>5, <1>7, <2>1 DEF Elapsed
<1> QED  BY <1>6, <1>7

LEMMA InitDuration == Init => DurationInv
<1> SUFFICES ASSUME Init PROVE DurationInv
  OBVIOUS
<1>1. LatchInv
  BY InitLatch
<1>2. \A key \in Keys : ~IsOpen(key)
  BY DEF Init, NewEngine, NothingOpen, IsOpen
<1> QED  BY <1>1, <1>2, PresenceKeys DEF DurationInv, AbsenceFollowsStart

\* The invariant is kept, and no step shortens a violation.
LEMMA NextDuration ==
  ASSUME DurationInv, [Next]_vars
  PROVE  /\ DurationInv'
         /\ \A key \in TimerKeys :
              IsOpen(key) /\ ~IsOpen(key)' /\ ~finished' =>
                now' - open[key].tStart >= ClearMs(key)
<1> DEFINE LongEnough ==
      \A key \in TimerKeys :
        IsOpen(key) /\ ~IsOpen(key)' /\ ~finished' =>
          now' - open[key].tStart >= ClearMs(key)
<1>1. LatchInv'
  BY NextLatch DEF DurationInv
<1>2. ASSUME NEW s \in Signals, NEW gap \in Gaps, Step(s, gap)
      PROVE  DurationInv' /\ LongEnough
  <2> DEFINE t == now + gap
  <2>1. /\ t \in Nat /\ t >= now /\ StepAt(s, t) /\ now' = t
        /\ ~finished /\ UNCHANGED finished
    BY <1>2, LaterTime, InputAssumption DEF Step, StepAt, DurationInv, LatchInv
  <2> HIDE DEF t
  <2>2. \A key \in TimerKeys :
          /\ IsOpen(key)' =>
               /\ open'[key].tStart <= t
               /\ timer'[key].falseSince # Never =>
                    open'[key].tStart <= timer'[key].falseSince
          /\ IsOpen(key) /\ ~IsOpen(key)' => t - open[key].tStart >= ClearMs(key)
    BY <1>1, <2>1, StepAtTimer
  <2> QED  BY <1>1, <2>1, <2>2 DEF DurationInv, AbsenceFollowsStart
<1>3. ASSUME NEW gap \in Gaps, Finish(gap)
      PROVE  DurationInv' /\ LongEnough
  <2>1. finished' /\ \A key \in Keys : ~IsOpen(key)'
    BY <1>3 DEF Finish, NothingOpen, IsOpen
  <2> QED  BY <1>1, <2>1, PresenceKeys DEF DurationInv, AbsenceFollowsStart
<1>4. CASE UNCHANGED vars
  BY <1>1, <1>4 DEF vars, engine, DurationInv, AbsenceFollowsStart, IsOpen
<1> QED  BY <1>2, <1>3, <1>4 DEF Next

\* A violation a HoldTimer decides lasts at least its clear hold unless the
\* session ends (temporal.rs:180-197), for all holds, gaps and frame rates.
THEOREM ViolationsLastTheirClear == Spec => MinimumDuration
<1>1. DurationInv /\ [Next]_vars => DurationInv'
  BY NextDuration
<1>2. DurationInv /\ [Next]_vars =>
        [\A key \in TimerKeys :
          (IsOpen(key) /\ ~IsOpen(key)' /\ ~finished')
            => now' - open[key].tStart >= ClearMs(key)]_vars
  BY NextDuration
<1> QED  BY <1>1, <1>2, InitDuration, PTL DEF Spec, MinimumDuration

-----------------------------------------------------------------------------
(* Objects and identity: what the latches say of the scores and the count. *)

BucketsJudged ==
  \A bucket \in Buckets :
    IF bucketActive[bucket]
    THEN score[bucket].value >= cfg.clearScore
    ELSE score[bucket].value < cfg.enterScore

IdentityJudged ==
  cfg.consecutiveFailures > 0 =>
    IF identityActive THEN failures > 0 ELSE failures < cfg.consecutiveFailures

LEMMA ScoreParts ==
  ASSUME TypeOK, TypeOK', NEW bucket \in Buckets
  PROVE  /\ score[bucket].value \in Int /\ score'[bucket].value \in Int
         /\ bucketActive[bucket] \in BOOLEAN /\ bucketActive'[bucket] \in BOOLEAN
         /\ cfg.enterScore \in Int /\ cfg.clearScore \in Int
         /\ cfg.clearScore <= cfg.enterScore /\ 0 < cfg.enterScore
<1>1. score[bucket] \in StampedType /\ score'[bucket] \in StampedType
  BY DEF TypeOK
<1>2. cfg \in ConfigType /\ Validated(cfg) /\ cfg.enterScore > 0
  BY ConfigAssumption DEF TypeOK
<1> QED
  BY <1>1, <1>2 DEF TypeOK, StampedType, ConfigType, Validated

LEMMA StepAtBucket ==
  ASSUME TypeOK, TypeOK', BucketsJudged, NEW s, NEW t, StepAt(s, t), NEW bucket \in Buckets
  PROVE  /\ IF bucketActive'[bucket]
            THEN score'[bucket].value >= cfg'.clearScore
            ELSE score'[bucket].value < cfg'.enterScore
         /\ Edge(bucketActive[bucket], bucketActive'[bucket]) = "Rose" =>
              score'[bucket].value > score[bucket].value
         /\ Edge(bucketActive[bucket], bucketActive'[bucket]) = "Fell" =>
              score'[bucket].value < score[bucket].value
<1>1. /\ bucketActive'[bucket] = Latch(bucketActive[bucket], score'[bucket].value,
                                       cfg.enterScore, cfg.clearScore)
      /\ cfg' = cfg
  BY DEF StepAt, JudgeBuckets
<1>2. CASE bucketActive[bucket]
  <2>1. bucketActive'[bucket] <=> score'[bucket].value >= cfg.clearScore
    BY <1>1, <1>2, Zenon DEF Latch
  <2>2. score[bucket].value >= cfg.clearScore
    BY <1>2 DEF BucketsJudged
  <2>3. Edge(bucketActive[bucket], bucketActive'[bucket])
          = IF bucketActive'[bucket] THEN "Steady" ELSE "Fell"
    BY <1>2, ScoreParts DEF Edge
  <2> QED
    BY <1>1, <2>1, <2>2, <2>3, ScoreParts
<1>3. CASE ~bucketActive[bucket]
  <2>1. bucketActive'[bucket] <=> score'[bucket].value >= cfg.enterScore
    BY <1>1, <1>3, Zenon DEF Latch
  <2> QED
    BY <1>1, <1>3, <2>1, ScoreParts DEF BucketsJudged, Edge
<1> QED
  BY <1>2, <1>3

\* What one check does to the count and to the verdict.
LEMMA StepAtIdentity ==
  ASSUME TypeOK, TypeOK', IdentityJudged, NEW s, NEW t, StepAt(s, t),
         cfg.consecutiveFailures > 0
  PROVE  /\ IF identityActive' THEN failures' > 0 ELSE failures' < cfg.consecutiveFailures
         /\ Edge(identityActive, identityActive') = "Rose" =>
              failures' = failures + 1 /\ failures' = cfg.consecutiveFailures
         /\ Edge(identityActive, identityActive') = "Fell" =>
              failures > 0 /\ failures' = 0
<1>1. /\ failures \in Nat /\ failures' \in Nat /\ cfg.consecutiveFailures \in Nat
      /\ identityActive \in BOOLEAN /\ identityActive' \in BOOLEAN
  BY ConfigAssumption DEF TypeOK, ConfigType
<1>2. failures' \in {failures, failures + 1, 0}
  BY Zenon DEF StepAt, CountFailures
<1>3. CASE ~Produced(s.identity)
  <2>1. failures' = failures /\ identityActive' = identityActive
    BY <1>3, Zenon DEF StepAt, CountFailures, JudgeIdentity
  <2> QED
    BY <1>1, <2>1 DEF IdentityJudged, Edge
<1>4. CASE Produced(s.identity) /\ identityActive
  <2>1. identityActive' <=> failures' > 0
    BY <1>4, Zenon DEF StepAt, JudgeIdentity
  <2>2. failures > 0
    BY <1>4 DEF IdentityJudged
  <2>3. Edge(identityActive, identityActive')
          = IF identityActive' THEN "Steady" ELSE "Fell"
    BY <1>1, <1>4 DEF Edge
  <2> QED
    BY <1>1, <1>2, <2>1, <2>2, <2>3
<1>5. CASE Produced(s.identity) /\ ~identityActive
  <2>1. identityActive' <=> failures' >= cfg.consecutiveFailures
    BY <1>5, Zenon DEF StepAt, JudgeIdentity
  <2> QED
    BY <1>1, <1>2, <1>5, <2>1 DEF IdentityJudged, Edge
<1> QED
  BY <1>3, <1>4, <1>5

\* One step keeps both and moves a verdict only on what they allow.
LEMMA NextJudged ==
  ASSUME TypeOK, BucketsJudged, IdentityJudged, [Next]_vars
  PROVE  /\ BucketsJudged' /\ IdentityJudged'
         /\ \A bucket \in Buckets :
              /\ Edge(bucketActive[bucket], bucketActive'[bucket]) = "Rose" =>
                   score'[bucket].value > score[bucket].value
              /\ Edge(bucketActive[bucket], bucketActive'[bucket]) = "Fell" =>
                   score'[bucket].value < score[bucket].value
         /\ cfg.consecutiveFailures > 0 =>
              /\ Edge(identityActive, identityActive') = "Rose" =>
                   failures' = failures + 1 /\ failures' = cfg.consecutiveFailures
              /\ Edge(identityActive, identityActive') = "Fell" =>
                   failures > 0 /\ failures' = 0
<1>1. TypeOK'
  BY NextType
<1>2. CASE \E s \in Signals, gap \in Gaps : Step(s, gap)
  <2>1. PICK s \in Signals, gap \in Gaps : Step(s, gap)
    BY <1>2
  <2>2. StepAt(s, now + gap) /\ cfg' = cfg
    BY <2>1 DEF Step, StepAt
  <2>3. BucketsJudged'
    BY <1>1, <2>2, StepAtBucket DEF BucketsJudged
  <2>4. IdentityJudged'
    BY <1>1, <2>2, StepAtIdentity DEF IdentityJudged
  <2> QED
    BY <1>1, <2>2, <2>3, <2>4, StepAtBucket, StepAtIdentity
<1>3. CASE (\E gap \in Gaps : Finish(gap)) \/ UNCHANGED vars
  <2>1. UNCHANGED <<cfg, score, bucketActive, failures, identityActive>>
    BY <1>3 DEF Finish, vars, engine
  <2>2. \A bucket \in Buckets : bucketActive[bucket] \in BOOLEAN
    BY DEF TypeOK
  <2>3. identityActive \in BOOLEAN
    BY DEF TypeOK
  <2>4. /\ Edge(identityActive, identityActive') = "Steady"
        /\ \A bucket \in Buckets :
             Edge(bucketActive[bucket], bucketActive'[bucket]) = "Steady"
    BY <2>1, <2>2, <2>3 DEF Edge
  <2> QED
    BY <2>1, <2>4 DEF BucketsJudged, IdentityJudged
<1> QED
  BY <1>2, <1>3 DEF Next

LEMMA InitJudged ==
  ASSUME Init
  PROVE  BucketsJudged /\ IdentityJudged
<1>1. cfg \in Configs
  BY DEF Init, NewEngine
<1>2. cfg.enterScore > 0
  BY <1>1, ConfigAssumption
<1> QED
  BY <1>2 DEF Init, NewEngine, NewScores, NewScore, NoBuckets, BucketsJudged, IdentityJudged

LEMMA JudgedHolds == Spec => [](TypeOK /\ BucketsJudged /\ IdentityJudged)
<1>1. Init => TypeOK /\ BucketsJudged /\ IdentityJudged
  BY InitFresh, FreshType, InitJudged
<1>2. TypeOK /\ BucketsJudged /\ IdentityJudged /\ [Next]_vars
        => TypeOK' /\ BucketsJudged' /\ IdentityJudged'
  BY NextType, NextJudged
<1> QED
  BY <1>1, <1>2, PTL DEF Spec

\* A frame the object worker never looked at decides nothing: a bucket's violation
\* starts on a rising score and ends on a falling one (mod.rs:472-511).
THEOREM BucketsFollowEvidence == Spec => BucketFollowsEvidence
<1>1. TypeOK /\ BucketsJudged /\ IdentityJudged /\ [Next]_vars =>
        [\A bucket \in Buckets :
           LET edge == Edge(bucketActive[bucket], bucketActive'[bucket])
           IN  /\ edge = "Rose" => score'[bucket].value > score[bucket].value
               /\ edge = "Fell" => score'[bucket].value < score[bucket].value]_vars
  BY NextJudged
<1> QED
  BY <1>1, JudgedHolds, PTL DEF Spec, BucketFollowsEvidence

\* Identity accuses on the check that completes the count and withdraws on the one that
\* clears it (mod.rs:586-599).
THEOREM IdentityMovesOnChecks == Spec => IdentityEdges
<1>1. TypeOK /\ BucketsJudged /\ IdentityJudged /\ [Next]_vars =>
        [LET edge == Edge(identityActive, identityActive')
         IN  cfg.consecutiveFailures > 0 =>
               /\ edge = "Rose" =>
                    failures' = failures + 1 /\ failures' = cfg.consecutiveFailures
               /\ edge = "Fell" => failures > 0 /\ failures' = 0]_vars
  BY NextJudged
<1> QED
  BY <1>1, JudgedHolds, PTL DEF Spec, IdentityEdges
=============================================================================
