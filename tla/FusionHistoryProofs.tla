------------------------- MODULE FusionHistoryProofs -------------------------
(***************************************************************************)
(* The engine's few time stamps, latches and counters say what the whole   *)
(* recording of its signals says, for every configuration and every        *)
(* sequence of frames.                                                     *)
(***************************************************************************)
EXTENDS FusionHistory, FusionProofs, FiniteSetTheorems

-----------------------------------------------------------------------------
(* One HoldTimer against n frames: frame i is at time at[i], and meets the *)
(* condition when i is in `on`.                                            *)

\* i is where the run of frames that leads to n, all of them in S, began.
RunFrom(S, i, n) ==
  /\ i \in 1..n
  /\ \A m \in i..n : m \in S
  /\ i # 1 => i - 1 \notin S

\* HeldSince, of frames that are given as a set.
HeldOn(at, on, n, hold, clear) ==
  \E j \in 1..n :
    /\ \E i \in 1..n : /\ i <= j
                       /\ \A m \in i..j : m \in on
                       /\ at[j] - at[i] >= hold
    /\ ~\E p, q \in (j + 1)..n : /\ p <= q
                                 /\ \A m \in p..q : m \notin on
                                 /\ at[q] - at[p] >= clear

\* Each stamp is the start of the present run of its kind.
TimerTells(tm, at, on, n, hold, clear) ==
  /\ tm.fired <=> HeldOn(at, on, n, hold, clear)
  /\ IF n \in on /\ n > 0
     THEN \E i \in 1..n : RunFrom(on, i, n) /\ tm.trueSince = at[i]
     ELSE tm.trueSince = Never
  /\ IF n \notin on /\ n > 0
     THEN \E i \in 1..n : RunFrom((1..n) \ on, i, n) /\ tm.falseSince = at[i]
     ELSE tm.falseSince = Never

\* Frames come in the order of time.
Ordered(at, n) == \A i, j \in 1..n : i <= j => at[i] <= at[j]

\* A new timer has seen nothing.
LEMMA NewTimerTells ==
  ASSUME NEW at, NEW on, NEW hold, NEW clear
  PROVE  TimerTells(NewTimer, at, on, 0, hold, clear)
BY DEF TimerTells, NewTimer, HeldOn

\* Frames to come do not change what a timer has seen.
LEMMA TimerTellsPrefix ==
  ASSUME NEW n \in Nat, NEW at, NEW on, NEW laterAt, NEW laterOn, NEW hold, NEW clear, NEW tm,
         \A i \in 1..n : laterAt[i] = at[i] /\ (i \in laterOn <=> i \in on),
         TimerTells(tm, at, on, n, hold, clear)
  PROVE  TimerTells(tm, laterAt, laterOn, n, hold, clear)
<1>1. HeldOn(at, on, n, hold, clear) <=> HeldOn(laterAt, laterOn, n, hold, clear)
  <2>1. ASSUME NEW i \in 1..n, NEW j \in 1..n
        PROVE  /\ (\A m \in i..j : m \in on) <=> \A m \in i..j : m \in laterOn
               /\ (\A m \in i..j : m \notin on) <=> \A m \in i..j : m \notin laterOn
    OBVIOUS
  <2>2. \A j \in 1..n : \A p \in (j + 1)..n : p \in 1..n
    OBVIOUS
  <2> QED  BY <2>1, <2>2 DEF HeldOn
<1>2. \A i \in 1..n : RunFrom(on, i, n) <=> RunFrom(laterOn, i, n)
  BY DEF RunFrom
<1>3. \A i \in 1..n : RunFrom((1..n) \ on, i, n) <=> RunFrom((1..n) \ laterOn, i, n)
  BY DEF RunFrom
<1>4. n > 0 => (n \in on <=> n \in laterOn)
  OBVIOUS
<1> QED  BY <1>1, <1>2, <1>3, <1>4 DEF TimerTells

\* A run goes on for one more frame, or starts with it.
LEMMA RunGrows ==
  ASSUME NEW n \in Nat, NEW S, n + 1 \in S
  PROVE  /\ \A i \in 1..n : RunFrom(S, i, n) => RunFrom(S, i, n + 1)
         /\ n = 0 \/ n \notin S => RunFrom(S, n + 1, n + 1)
BY DEF RunFrom

\* The longest span that ends with a run is the run.
LEMMA RunIsLongest ==
  ASSUME NEW n \in Nat, NEW at \in [1..n -> Nat], Ordered(at, n), NEW S,
         NEW i, RunFrom(S, i, n), NEW p \in 1..n, \A m \in p..n : m \in S
  PROVE  i <= p /\ at[n] - at[p] <= at[n] - at[i]
<1>1. i \in 1..n /\ (i # 1 => i - 1 \notin S)
  BY DEF RunFrom
<1>2. i <= p
  <2> SUFFICES ASSUME p < i PROVE FALSE
    BY <1>1
  <2>1. i - 1 \in p..n
    BY <1>1
  <2> QED  BY <1>1, <2>1
<1>3. at[i] <= at[p] /\ at[i] \in Nat /\ at[p] \in Nat /\ at[n] \in Nat
  BY <1>1, <1>2 DEF Ordered
<1> QED  BY <1>2, <1>3

\* A frame that meets the condition completes a hold, if its run is long enough, and
\* clears nothing.
LEMMA HeldOnMet ==
  ASSUME NEW n \in Nat, NEW at \in [1..n + 1 -> Nat], Ordered(at, n + 1), NEW on,
         n + 1 \in on, NEW hold \in Nat, NEW clear \in Nat,
         NEW first, RunFrom(on, first, n + 1)
  PROVE  HeldOn(at, on, n + 1, hold, clear) <=>
           HeldOn(at, on, n, hold, clear) \/ at[n + 1] - at[first] >= hold
<1>1. first \in 1..n + 1 /\ \A m \in first..n + 1 : m \in on
  BY DEF RunFrom
<1>2. ASSUME at[n + 1] - at[first] >= hold
      PROVE  HeldOn(at, on, n + 1, hold, clear)
  <2>1. ~\E p, q \in ((n + 1) + 1)..n + 1 : TRUE
    OBVIOUS
  <2>2. n + 1 \in 1..n + 1 /\ first <= n + 1
    BY <1>1
  <2> QED  BY <1>1, <1>2, <2>1, <2>2 DEF HeldOn
<1>3. ASSUME HeldOn(at, on, n, hold, clear)
      PROVE  HeldOn(at, on, n + 1, hold, clear)
  <2>1. PICK j \in 1..n :
          /\ \E i \in 1..n : i <= j /\ (\A m \in i..j : m \in on) /\ at[j] - at[i] >= hold
          /\ ~\E p, q \in (j + 1)..n : /\ p <= q /\ (\A m \in p..q : m \notin on)
                                       /\ at[q] - at[p] >= clear
    BY <1>3 DEF HeldOn
  <2>2. ~\E p, q \in (j + 1)..n + 1 : /\ p <= q /\ (\A m \in p..q : m \notin on)
                                      /\ at[q] - at[p] >= clear
    <3> SUFFICES ASSUME NEW p \in (j + 1)..n + 1, NEW q \in (j + 1)..n + 1, p <= q,
                        \A m \in p..q : m \notin on, at[q] - at[p] >= clear
                 PROVE  FALSE
      OBVIOUS
    <3>1. p \in (j + 1)..n /\ q \in (j + 1)..n
      OBVIOUS
    <3> QED  BY <2>1, <3>1
  <2>3. j \in 1..n + 1 /\ \A i \in 1..n : i \in 1..n + 1
    OBVIOUS
  <2> QED  BY <2>1, <2>2, <2>3 DEF HeldOn
<1>4. ASSUME HeldOn(at, on, n + 1, hold, clear), ~(at[n + 1] - at[first] >= hold)
      PROVE  HeldOn(at, on, n, hold, clear)
  <2>1. PICK j \in 1..n + 1 :
          /\ \E i \in 1..n + 1 : i <= j /\ (\A m \in i..j : m \in on) /\ at[j] - at[i] >= hold
          /\ ~\E p, q \in (j + 1)..n + 1 : /\ p <= q /\ (\A m \in p..q : m \notin on)
                                           /\ at[q] - at[p] >= clear
    BY <1>4 DEF HeldOn
  <2>2. PICK i \in 1..n + 1 : i <= j /\ (\A m \in i..j : m \in on) /\ at[j] - at[i] >= hold
    BY <2>1
  <2>3. j # n + 1
    <3> SUFFICES ASSUME j = n + 1 PROVE FALSE
      OBVIOUS
    <3>1. at[n + 1] - at[i] <= at[n + 1] - at[first]
      BY <2>2, RunIsLongest
    <3>2. at[n + 1] \in Nat /\ at[i] \in Nat /\ at[first] \in Nat
      BY <1>1
    <3> QED  BY <1>4, <2>2, <3>1, <3>2
  <2>4. j \in 1..n /\ i \in 1..n
    BY <2>2, <2>3
  <2>5. \A p \in (j + 1)..n : p \in (j + 1)..n + 1
    OBVIOUS
  <2> QED  BY <2>1, <2>2, <2>4, <2>5 DEF HeldOn
<1> QED  BY <1>2, <1>3, <1>4

\* A frame that does not meet it completes no hold, and clears once its run is long
\* enough.
LEMMA HeldOnMissed ==
  ASSUME NEW n \in Nat, NEW at \in [1..n + 1 -> Nat], Ordered(at, n + 1), NEW on,
         n + 1 \notin on, NEW hold \in Nat, NEW clear \in Nat,
         NEW first, RunFrom((1..n + 1) \ on, first, n + 1)
  PROVE  HeldOn(at, on, n + 1, hold, clear) <=>
           HeldOn(at, on, n, hold, clear) /\ ~(at[n + 1] - at[first] >= clear)
<1>1. first \in 1..n + 1 /\ \A m \in first..n + 1 : m \notin on
  BY DEF RunFrom
<1>2. ASSUME HeldOn(at, on, n + 1, hold, clear)
      PROVE  HeldOn(at, on, n, hold, clear) /\ ~(at[n + 1] - at[first] >= clear)
  <2>1. PICK j \in 1..n + 1 :
          /\ \E i \in 1..n + 1 : i <= j /\ (\A m \in i..j : m \in on) /\ at[j] - at[i] >= hold
          /\ ~\E p, q \in (j + 1)..n + 1 : /\ p <= q /\ (\A m \in p..q : m \notin on)
                                           /\ at[q] - at[p] >= clear
    BY <1>2 DEF HeldOn
  <2>2. PICK i \in 1..n + 1 : i <= j /\ (\A m \in i..j : m \in on) /\ at[j] - at[i] >= hold
    BY <2>1
  <2>3. j \in on
    BY <2>2
  <2>4. j \in 1..n /\ i \in 1..n
    BY <2>2, <2>3
  <2>5. \A p \in (j + 1)..n : p \in (j + 1)..n + 1
    OBVIOUS
  <2>6. first \in (j + 1)..n + 1 /\ n + 1 \in (j + 1)..n + 1 /\ first <= n + 1
    BY <1>1, <2>3, <2>4
  <2> QED  BY <1>1, <2>1, <2>2, <2>4, <2>5, <2>6 DEF HeldOn
<1>3. ASSUME HeldOn(at, on, n, hold, clear), ~(at[n + 1] - at[first] >= clear)
      PROVE  HeldOn(at, on, n + 1, hold, clear)
  <2>1. PICK j \in 1..n :
          /\ \E i \in 1..n : i <= j /\ (\A m \in i..j : m \in on) /\ at[j] - at[i] >= hold
          /\ ~\E p, q \in (j + 1)..n : /\ p <= q /\ (\A m \in p..q : m \notin on)
                                       /\ at[q] - at[p] >= clear
    BY <1>3 DEF HeldOn
  <2>2. ~\E p, q \in (j + 1)..n + 1 : /\ p <= q /\ (\A m \in p..q : m \notin on)
                                      /\ at[q] - at[p] >= clear
    <3> SUFFICES ASSUME NEW p \in (j + 1)..n + 1, NEW q \in (j + 1)..n + 1, p <= q,
                        \A m \in p..q : m \notin on, at[q] - at[p] >= clear
                 PROVE  FALSE
      OBVIOUS
    <3>1. CASE q # n + 1
      <4>1. p \in (j + 1)..n /\ q \in (j + 1)..n
        BY <3>1
      <4> QED  BY <2>1, <4>1
    <3>2. CASE q = n + 1
      <4> DEFINE off == (1..n + 1) \ on
      <4>1. n + 1 \in Nat /\ p \in 1..n + 1 /\ \A m \in p..n + 1 : m \in off
        BY <3>2
      <4>2. RunFrom(off, first, n + 1)
        OBVIOUS
      <4> HIDE DEF off
      <4>3. at[n + 1] - at[p] <= at[n + 1] - at[first]
        BY <4>1, <4>2, RunIsLongest
      <4>4. at[n + 1] \in Nat /\ at[p] \in Nat /\ at[first] \in Nat
        BY <1>1, <4>1
      <4> QED  BY <1>3, <3>2, <4>3, <4>4
    <3> QED  BY <3>1, <3>2
  <2>3. j \in 1..n + 1 /\ \A i \in 1..n : i \in 1..n + 1
    OBVIOUS
  <2> QED  BY <2>1, <2>2, <2>3 DEF HeldOn
<1> QED  BY <1>2, <1>3

\* HoldTimer::update (temporal.rs:180-197) keeps a timer true to its frames.
LEMMA TimerStep ==
  ASSUME NEW n \in Nat, NEW at \in [1..n + 1 -> Nat], Ordered(at, n + 1), NEW on,
         NEW hold \in Nat, NEW clear \in Nat, NEW tm \in TimerType,
         TimerTells(tm, at, on, n, hold, clear),
         NEW condition, condition <=> n + 1 \in on,
         NEW next, next = HoldUpdate(tm, hold, clear, condition, at[n + 1])
  PROVE  TimerTells(next, at, on, n + 1, hold, clear)
<1> DEFINE t == at[n + 1]
<1>t. t \in Nat /\ n + 1 > 0 /\ \A i \in 1..n : i \in 1..n + 1 /\ at[i] \in Nat
  OBVIOUS
<1>1. CASE n + 1 \in on
  <2> DEFINE since == SinceOr(tm.trueSince, t)
  <2>1. PICK first : RunFrom(on, first, n + 1) /\ since = at[first]
    <3>1. CASE n \in on /\ n > 0
      <4>1. PICK i \in 1..n : RunFrom(on, i, n) /\ tm.trueSince = at[i]
        BY <3>1 DEF TimerTells
      <4>2. RunFrom(on, i, n + 1)
        BY <1>1, <4>1, RunGrows
      <4> QED  BY <1>t, <4>1, <4>2 DEF SinceOr, Never
    <3>2. CASE ~(n \in on /\ n > 0)
      <4>1. tm.trueSince = Never
        BY <3>2 DEF TimerTells
      <4>2. RunFrom(on, n + 1, n + 1)
        BY <1>1, <3>2, RunGrows
      <4> QED  BY <4>1, <4>2 DEF SinceOr
    <3> QED  BY <3>1, <3>2
  <2>2. first \in 1..n + 1 /\ at[first] \in Nat /\ at[first] <= t
    BY <2>1 DEF RunFrom, Ordered
  <2>3. Elapsed(t, since) = t - at[first]
    BY <1>t, <2>1, <2>2 DEF Elapsed
  <2>4. /\ next.fired <=> (tm.fired \/ t - at[first] >= hold)
        /\ next.trueSince = at[first] /\ next.falseSince = Never
    BY <1>1, <2>1, <2>3 DEF HoldUpdate
  <2>5. HeldOn(at, on, n + 1, hold, clear) <=>
          HeldOn(at, on, n, hold, clear) \/ t - at[first] >= hold
    BY <1>1, <2>1, HeldOnMet
  <2>6. tm.fired <=> HeldOn(at, on, n, hold, clear)
    BY DEF TimerTells
  <2>7. next.fired <=> HeldOn(at, on, n + 1, hold, clear)
    BY <2>4, <2>5, <2>6
  <2> QED  BY <1>t, <1>1, <2>1, <2>2, <2>4, <2>7 DEF TimerTells
<1>2. CASE n + 1 \notin on
  <2> DEFINE since == SinceOr(tm.falseSince, t)
             Off(k) == (1..k) \ on
  <2>1. PICK first : RunFrom(Off(n + 1), first, n + 1) /\ since = at[first]
    <3>1. CASE n \notin on /\ n > 0
      <4>1. PICK i \in 1..n : RunFrom(Off(n), i, n) /\ tm.falseSince = at[i]
        BY <3>1 DEF TimerTells
      <4>2. RunFrom(Off(n + 1), i, n)
        BY <4>1 DEF RunFrom
      <4>3. n + 1 \in Off(n + 1)
        BY <1>2
      <4>4. RunFrom(Off(n + 1), i, n + 1)
        BY <4>2, <4>3, RunGrows
      <4> QED  BY <1>t, <4>1, <4>4 DEF SinceOr, Never
    <3>2. CASE ~(n \notin on /\ n > 0)
      <4>1. tm.falseSince = Never
        BY <3>2 DEF TimerTells
      <4>2. n + 1 \in Off(n + 1) /\ (n = 0 \/ n \notin Off(n + 1))
        BY <1>2, <3>2
      <4>3. RunFrom(Off(n + 1), n + 1, n + 1)
        BY <4>2, RunGrows
      <4> QED  BY <4>1, <4>3 DEF SinceOr
    <3> QED  BY <3>1, <3>2
  <2>2. first \in 1..n + 1 /\ at[first] \in Nat /\ at[first] <= t
    BY <2>1 DEF RunFrom, Ordered
  <2>3. Elapsed(t, since) = t - at[first]
    BY <1>t, <2>1, <2>2 DEF Elapsed
  <2>4. /\ next.fired <=> (tm.fired /\ t - at[first] < clear)
        /\ next.trueSince = Never /\ next.falseSince = at[first]
    BY <1>2, <2>1, <2>3 DEF HoldUpdate
  <2>5. HeldOn(at, on, n + 1, hold, clear) <=>
          HeldOn(at, on, n, hold, clear) /\ ~(t - at[first] >= clear)
    BY <1>2, <2>1, HeldOnMissed
  <2>6. tm.fired <=> HeldOn(at, on, n, hold, clear)
    BY DEF TimerTells
  <2>7. next.fired <=> HeldOn(at, on, n + 1, hold, clear)
    BY <1>t, <2>2, <2>4, <2>5, <2>6
  <2> QED  BY <1>t, <1>2, <2>1, <2>2, <2>4, <2>7 DEF TimerTells
<1> QED  BY <1>1, <1>2

-----------------------------------------------------------------------------
(* The recording.                                                          *)

\* A fused frame.
FusedFrame == [t : Nat, s : Signals]

RecordingInv ==
  /\ LatchInv
  /\ history \in Seq(FusedFrame)
  /\ \A i \in Frames : history[i].t <= now
  /\ \A i, j \in Frames : i <= j => history[i].t <= history[j].t

\* The models of a session do not change, nor what they can report.
LEMMA FramesKept ==
  ASSUME UNCHANGED configured
  PROVE  FusedFrame' = FusedFrame
<1>1. Signals' = Signals
  BY DEF Signals, AngleReadings, ObjectReadings, IdentityReadings
<1> QED  BY <1>1 DEF FusedFrame

\* One fused frame and what it leaves of the recording.
LEMMA FrameAdded ==
  ASSUME RecordingInv, NEW s \in Signals, NEW t \in Nat,
         history' = Append(history, [t |-> t, s |-> s])
  PROVE  /\ Len(history) \in Nat /\ Len(history') = Len(history) + 1
         /\ Frames = 1..Len(history) /\ Frames' = 1..Len(history) + 1
         /\ \A i \in 1..Len(history) : history'[i] = history[i] /\ history[i] \in FusedFrame
         /\ history'[Len(history) + 1] = [t |-> t, s |-> s]
         /\ history' \in Seq(FusedFrame)
<1>1. history \in Seq(FusedFrame) /\ [t |-> t, s |-> s] \in FusedFrame
  BY DEF RecordingInv, FusedFrame
<1> QED  BY <1>1 DEF Frames

LEMMA InitRecording == HInit => RecordingInv
<1> SUFFICES ASSUME HInit PROVE RecordingInv
  OBVIOUS
<1>1. LatchInv
  BY InitLatch DEF HInit
<1>2. history = <<>> /\ Frames = {}
  BY DEF HInit, Frames
<1> QED  BY <1>1, <1>2 DEF RecordingInv

\* The two kinds of step, with what a proof about either needs of it.
LEMMA HistorySteps ==
  ASSUME RecordingInv, [HNext]_hvars
  PROVE  /\ LatchInv'
         /\ UNCHANGED <<configured, cfg>>
         /\ \/ /\ ~finished /\ ~finished'
               /\ \E s \in Signals, t \in Nat :
                    /\ t >= now /\ t <= MaxTime /\ now' = t /\ StepAt(s, t)
                    /\ history' = Append(history, [t |-> t, s |-> s])
            \/ /\ finished' \/ finished' = finished
               /\ now' >= now
               /\ UNCHANGED <<history, presence, timer, ema, gate, score, bucketActive,
                              failures, identityActive>>
<1>1. [Next]_vars
  BY DEF HNext, hvars, Next
<1>2. LatchInv'
  BY <1>1, NextLatch DEF RecordingInv
<1>3. ASSUME NEW s \in Signals, NEW gap \in Gaps, Step(s, gap),
             history' = Append(history, [t |-> now', s |-> s])
      PROVE  /\ ~finished /\ ~finished'
             /\ \E x \in Signals, t \in Nat :
                  /\ t >= now /\ t <= MaxTime /\ now' = t /\ StepAt(x, t)
                  /\ history' = Append(history, [t |-> t, s |-> x])
  <2>1. now + gap \in Nat /\ now + gap >= now /\ now + gap <= MaxTime /\ now' = now + gap
    BY <1>3, LaterTime, InputAssumption DEF Step, StepAt, RecordingInv, LatchInv
  <2>2. StepAt(s, now + gap) /\ ~finished /\ ~finished'
    BY <1>3 DEF Step
  <2> QED  BY <1>3, <2>1, <2>2
<1>4. ASSUME NEW gap \in Gaps, Finish(gap), UNCHANGED history
      PROVE  /\ finished' /\ now' >= now
             /\ UNCHANGED <<history, presence, timer, ema, gate, score, bucketActive,
                              failures, identityActive>>
  BY <1>4, LaterTime DEF Finish, RecordingInv, LatchInv
<1>5. UNCHANGED <<configured, cfg>>
  BY DEF HNext, hvars, vars, engine, Step, StepAt, Finish
<1>6. CASE UNCHANGED hvars
  <2>1. now \in Nat
    BY InputAssumption DEF RecordingInv, LatchInv, TypeOK
  <2> QED  BY <1>2, <1>5, <1>6, <2>1 DEF hvars, vars, engine
<1> QED  BY <1>2, <1>3, <1>4, <1>5, <1>6 DEF HNext

LEMMA NextRecording == RecordingInv /\ [HNext]_hvars => RecordingInv'
<1> SUFFICES ASSUME RecordingInv, [HNext]_hvars PROVE RecordingInv'
  OBVIOUS
<1>0. LatchInv' /\ now \in Nat /\ now' \in Nat
  BY HistorySteps, InputAssumption DEF RecordingInv, LatchInv, TypeOK
<1>k. FusedFrame' = FusedFrame
  BY HistorySteps, FramesKept
<1>1. ASSUME NEW s \in Signals, NEW t \in Nat, t >= now, now' = t,
             history' = Append(history, [t |-> t, s |-> s])
      PROVE  RecordingInv'
  <2> DEFINE n == Len(history)
  <2>1. /\ n \in Nat /\ Frames = 1..n /\ Frames' = 1..n + 1
        /\ (history \in Seq(FusedFrame))'
        /\ \A i \in 1..n : history'[i] = history[i] /\ history[i] \in FusedFrame
        /\ history'[n + 1] = [t |-> t, s |-> s]
    BY <1>1, <1>k, FrameAdded
  <2> HIDE DEF n
  <2>t. /\ \A i \in 1..n : history'[i].t = history[i].t /\ history[i].t \in Nat
        /\ history'[n + 1].t = t
    BY <2>1 DEF FusedFrame
  <2>0. t \in Nat /\ now \in Nat /\ now <= t /\ now' = t
    BY <1>0, <1>1
  <2>r. \A i \in 1..n : history[i].t <= now
    BY <2>1 DEF RecordingInv
  <2>2. \A i \in 1..n : history'[i].t <= t
    BY <2>0, <2>r, <2>t
  <2>3. \A i \in Frames' : (history[i].t <= now)'
    BY <2>0, <2>1, <2>2, <2>t
  <2>4. ASSUME NEW i \in 1..n + 1, NEW j \in 1..n + 1, i <= j
        PROVE  history'[i].t <= history'[j].t
    <3>1. CASE j = n + 1
      BY <2>0, <2>1, <2>2, <2>t, <3>1
    <3>2. CASE j # n + 1
      <4>1. i \in 1..n /\ j \in 1..n
        BY <2>1, <2>4, <3>2
      <4> QED  BY <2>1, <2>t, <2>4, <4>1 DEF RecordingInv
    <3> QED  BY <3>1, <3>2
  <2>5. (\A i, j \in Frames : i <= j => history[i].t <= history[j].t)'
    BY <2>1, <2>4
  <2> QED  BY <1>0, <2>1, <2>3, <2>5 DEF RecordingInv
<1>2. ASSUME UNCHANGED history, now' >= now
      PROVE  RecordingInv'
  <2>1. (history \in Seq(FusedFrame))' /\ Frames' = Frames
    BY <1>2, <1>k DEF RecordingInv, Frames
  <2>2. ASSUME NEW i \in Frames
        PROVE  history[i].t \in Nat
    <3>1. history[i] \in FusedFrame
      BY DEF RecordingInv, Frames
    <3> QED  BY <3>1 DEF FusedFrame
  <2>3. (\A i \in Frames : history[i].t <= now)'
    BY <1>0, <1>2, <2>1, <2>2 DEF RecordingInv
  <2>4. (\A i, j \in Frames : i <= j => history[i].t <= history[j].t)'
    BY <1>2, <2>1 DEF RecordingInv
  <2> QED  BY <1>0, <2>1, <2>3, <2>4 DEF RecordingInv
<1> QED  BY <1>1, <1>2, HistorySteps

-----------------------------------------------------------------------------
(* The timers of presence and signal loss.                                 *)

WatchedKeys == FaceKeys \union LossKeys

\* When the frames were, and those that met the condition of a stream.
Times == [i \in Frames |-> history[i].t]
Met(key) == {i \in Frames : Shown(key, i)}

PresenceTells ==
  /\ presence = "never_seen" <=> ~FaceSeenBy(Len(history))
  /\ presence = "absent" <=>
       FaceSeenBy(Len(history)) /\ history[Len(history)].s.faces = 0

TimersTell ==
  \A key \in WatchedKeys :
    TimerTells(timer[key], Times, Met(key), Len(history), HoldMs(key), ClearMs(key))

TimersInv == RecordingInv /\ PresenceTells /\ TimersTell

LEMMA InitTimers == HInit => TimersInv
<1> SUFFICES ASSUME HInit PROVE TimersInv
  OBVIOUS
<1>1. RecordingInv
  BY InitRecording
<1>2. history = <<>> /\ presence = "never_seen" /\ timer = NewTimers
  BY DEF HInit, Init, NewEngine
<1>3. PresenceTells
  BY <1>2 DEF PresenceTells, FaceSeenBy
<1>4. TimersTell
  <2> SUFFICES ASSUME NEW key \in WatchedKeys
               PROVE  TimerTells(timer[key], Times, Met(key), Len(history),
                                 HoldMs(key), ClearMs(key))
    BY DEF TimersTell
  <2>1. timer[key] = NewTimer /\ Len(history) = 0
    BY <1>2 DEF WatchedKeys, TimerKeys, NewTimers
  <2> QED  BY <2>1, NewTimerTells
<1> QED  BY <1>1, <1>3, <1>4 DEF TimersInv

\* What was seen up to an earlier frame stays so; what the new frame shows is the
\* condition its timer is advanced with (step_face, mod.rs:274-309, and step_head,
\* step_gaze for a lost signal).
LEMMA ShownStep ==
  ASSUME RecordingInv, PresenceTells, NEW s \in Signals, NEW t \in Nat, StepAt(s, t),
         history' = Append(history, [t |-> t, s |-> s]), NEW n, n = Len(history)
  PROVE  /\ PresenceTells'
         /\ \A key \in WatchedKeys :
              /\ \A i \in 1..n : Shown(key, i)' <=> Shown(key, i)
              /\ Condition(s, key) <=> Shown(key, n + 1)'
<1>1. /\ n \in Nat /\ Len(history') = n + 1
      /\ \A i \in 1..n : history'[i] = history[i]
      /\ history'[n + 1].s = s
  BY FrameAdded
<1>s. s.faces \in Nat
  BY SignalParts
<1>2. \A i \in 1..n : FaceSeenBy(i)' <=> FaceSeenBy(i)
  BY <1>1 DEF FaceSeenBy
<1>3. FaceSeenBy(n + 1)' <=> FaceSeenBy(n) \/ s.faces > 0
  <2>1. \A m \in 1..n + 1 : m \in 1..n \/ m = n + 1
    BY <1>1
  <2>2. n + 1 \in 1..n + 1 /\ \A m \in 1..n : m \in 1..n + 1
    BY <1>1
  <2> QED  BY <1>1, <2>1, <2>2 DEF FaceSeenBy
<1>4. /\ presence' = IF s.faces > 0 THEN "present"
                     ELSE IF presence = "present" THEN "absent" ELSE presence
      /\ presence \in {"never_seen", "present", "absent"}
      /\ cfg' = cfg
  BY DEF StepAt, TrackPresence, RecordingInv, LatchInv, TypeOK
<1>5. /\ presence = "never_seen" <=> ~FaceSeenBy(n)
      /\ presence = "absent" <=> FaceSeenBy(n) /\ history[n].s.faces = 0
  BY DEF PresenceTells
<1>6. /\ presence' = "never_seen" <=> ~(FaceSeenBy(n + 1)')
      /\ presence' = "absent" <=> FaceSeenBy(n + 1)' /\ s.faces = 0
  BY <1>3, <1>4, <1>5, <1>s
<1>7. PresenceTells'
  BY <1>1, <1>6 DEF PresenceTells
<1>8. ASSUME NEW key \in WatchedKeys, NEW i \in 1..n
      PROVE  Shown(key, i)' <=> Shown(key, i)
  BY <1>1, <1>2, <1>4 DEF Shown
<1>9. ASSUME NEW key \in WatchedKeys
      PROVE  Condition(s, key) <=> Shown(key, n + 1)'
  <2>k. /\ \A slot : SignalLost(slot)[1] = "signal_lost"
        /\ NeverSeen[1] = "never_seen" /\ NoFace[1] = "no_face"
        /\ MultipleFaces[1] = "multiple_faces"
        /\ HeadTurnedAway[1] = "head_turned_away" /\ GazeOffScreen[1] = "gaze_off_screen"
    BY DEF SignalLost, NeverSeen, NoFace, MultipleFaces, HeadTurnedAway, GazeOffScreen
  <2>l. \A k \in LossKeys : k[1] = "signal_lost"
    BY <2>k DEF LossKeys
  <2>1. CASE key = NeverSeen
    <3>1. key # NoFace /\ key # MultipleFaces /\ key \notin LossKeys
      BY <2>1, <2>k, <2>l
    <3>2. Shown(key, n + 1)' <=> ~(FaceSeenBy(n + 1)')
      BY <2>1, <3>1 DEF Shown
    <3> QED  BY <1>6, <2>1, <3>2, PresenceConditions
  <2>2. CASE key = NoFace
    <3>1. key # NeverSeen /\ key # MultipleFaces /\ key \notin LossKeys
      BY <2>2, <2>k, <2>l
    <3>2. Shown(key, n + 1)' <=> FaceSeenBy(n + 1)' /\ s.faces = 0
      BY <1>1, <2>2, <3>1 DEF Shown
    <3> QED  BY <1>6, <2>2, <3>2, PresenceConditions
  <2>3. CASE key = MultipleFaces
    <3>1. /\ key # NeverSeen /\ key # NoFace /\ key \notin LossKeys
          /\ key # HeadTurnedAway /\ key # GazeOffScreen
      BY <2>3, <2>k, <2>l
    <3>2. Shown(key, n + 1)' <=> s.faces >= cfg.multiFaceCount
      BY <1>1, <1>4, <2>3, <3>1 DEF Shown
    <3>3. Condition(s, key) <=> s.faces >= cfg.multiFaceCount
      BY <2>3, <3>1, Zenon DEF Condition
    <3> QED  BY <3>2, <3>3
  <2>4. CASE key \in LossKeys
    <3>1. /\ key # NeverSeen /\ key # NoFace /\ key # MultipleFaces
          /\ key # HeadTurnedAway /\ key # GazeOffScreen
      BY <2>4, <2>k, <2>l
    <3>2. Shown(key, n + 1)' <=> Reading(s, key[2]).state \in {"gated", "failed"}
      BY <1>1, <2>4, <3>1 DEF Shown, Reading
    <3>3. Condition(s, key) <=> Reading(s, key[2]).state \in {"gated", "failed"}
      BY <3>1, Zenon DEF Condition
    <3> QED  BY <3>2, <3>3
  <2> QED  BY <2>1, <2>2, <2>3, <2>4 DEF WatchedKeys, FaceKeys
<1> QED  BY <1>7, <1>8, <1>9

\* A watched stream has a timer, and what it is advanced with is in the configuration.
LEMMA WatchedParts ==
  ASSUME TypeOK, NEW key \in WatchedKeys
  PROVE  /\ key \in TimerKeys /\ key \in Keys
         /\ timer[key] \in TimerType /\ HoldMs(key) \in Nat /\ ClearMs(key) \in Nat
<1>1. key \in TimerKeys
  BY DEF WatchedKeys, TimerKeys
<1> QED  BY <1>1, PresenceKeys, ConfigParts, KeyParts DEF TypeOK, HoldMs, ClearMs

LEMMA StepTimers ==
  ASSUME RecordingInv, RecordingInv', PresenceTells, TimersTell,
         NEW s \in Signals, NEW t \in Nat, StepAt(s, t),
         history' = Append(history, [t |-> t, s |-> s])
  PROVE  PresenceTells' /\ TimersTell'
<1>1. PICK n \in Nat : n = Len(history)
  BY FrameAdded
<1>2. /\ Len(history') = n + 1 /\ Frames = 1..n /\ Frames' = 1..n + 1
      /\ \A i \in 1..n : history'[i] = history[i]
      /\ history'[n + 1] = [t |-> t, s |-> s]
      /\ \A i \in 1..n + 1 : history'[i] \in FusedFrame
  <2>1. /\ Len(history') = n + 1 /\ Frames = 1..n /\ Frames' = 1..n + 1
        /\ \A i \in 1..n : history'[i] = history[i] /\ history[i] \in FusedFrame
        /\ history'[n + 1] = [t |-> t, s |-> s]
    BY <1>1, FrameAdded
  <2>2. [t |-> t, s |-> s] \in FusedFrame
    BY DEF FusedFrame
  <2> QED  BY <1>1, <2>1, <2>2
<1>3. /\ PresenceTells'
      /\ \A key \in WatchedKeys :
           /\ \A i \in 1..n : Shown(key, i)' <=> Shown(key, i)
           /\ Condition(s, key) <=> Shown(key, n + 1)'
  BY <1>1, ShownStep
<1>4. /\ Times' \in [1..n + 1 -> Nat] /\ Ordered(Times', n + 1)
      /\ \A i \in 1..n : Times'[i] = Times[i]
      /\ Times'[n + 1] = t
  <2>1. Times' = [i \in 1..n + 1 |-> history'[i].t] /\ Times = [i \in 1..n |-> history[i].t]
    BY <1>2 DEF Times
  <2>2. \A i \in 1..n + 1 : history'[i].t \in Nat
    BY <1>2 DEF FusedFrame
  <2>3. \A i, j \in 1..n + 1 : i <= j => history'[i].t <= history'[j].t
    BY <1>2 DEF RecordingInv
  <2> QED  BY <1>2, <2>1, <2>2, <2>3 DEF Ordered
<1>5. ASSUME NEW key \in WatchedKeys
      PROVE  TimerTells(timer'[key], Times', Met(key)', n + 1, HoldMs(key), ClearMs(key))
  <2>1. /\ \A i \in 1..n : i \in Met(key)' <=> i \in Met(key)
        /\ Condition(s, key) <=> n + 1 \in Met(key)'
    BY <1>2, <1>3 DEF Met
  <2>2. TimerTells(timer[key], Times, Met(key), n, HoldMs(key), ClearMs(key))
    BY <1>1 DEF TimersTell
  <2>3. TimerTells(timer[key], Times', Met(key)', n, HoldMs(key), ClearMs(key))
    BY <1>4, <2>1, <2>2, TimerTellsPrefix
  <2>4. /\ key \in TimerKeys /\ timer[key] \in TimerType
        /\ HoldMs(key) \in Nat /\ ClearMs(key) \in Nat
    BY WatchedParts DEF RecordingInv, LatchInv
  <2>5. timer'[key] = HoldUpdate(timer[key], HoldMs(key), ClearMs(key), Condition(s, key),
                                 Times'[n + 1])
    BY <1>4, <2>4 DEF StepAt, AdvanceTimers
  <2> QED  BY <1>4, <2>1, <2>3, <2>4, <2>5, TimerStep
<1>6. \A key \in WatchedKeys : HoldMs(key)' = HoldMs(key) /\ ClearMs(key)' = ClearMs(key)
  BY DEF StepAt, HoldMs, ClearMs
<1> QED  BY <1>2, <1>3, <1>5, <1>6 DEF TimersTell

LEMMA NextTimers == TimersInv /\ [HNext]_hvars => TimersInv'
<1> SUFFICES ASSUME TimersInv, [HNext]_hvars PROVE TimersInv'
  OBVIOUS
<1>1. RecordingInv /\ RecordingInv' /\ UNCHANGED cfg
  BY HistorySteps, NextRecording DEF TimersInv
<1>2. ASSUME NEW s \in Signals, NEW t \in Nat, StepAt(s, t),
             history' = Append(history, [t |-> t, s |-> s])
      PROVE  PresenceTells' /\ TimersTell'
  BY <1>1, <1>2, StepTimers DEF TimersInv
<1>3. ASSUME UNCHANGED <<history, presence, timer>>
      PROVE  PresenceTells' /\ TimersTell'
  <2>1. PresenceTells'
    BY <1>3 DEF TimersInv, PresenceTells, FaceSeenBy
  <2>2. /\ Times' = Times
        /\ \A key \in WatchedKeys :
             Met(key)' = Met(key) /\ HoldMs(key)' = HoldMs(key) /\ ClearMs(key)' = ClearMs(key)
    BY <1>1, <1>3 DEF Times, Frames, Met, Shown, FaceSeenBy, HoldMs, ClearMs
  <2> QED  BY <1>3, <2>1, <2>2 DEF TimersInv, TimersTell
<1> QED  BY <1>1, <1>2, <1>3, HistorySteps DEF TimersInv

\* The property's definition is that of the lemmas.
LEMMA HeldSinceIsHeldOn ==
  ASSUME RecordingInv, NEW key, NEW hold, NEW clear
  PROVE  (LET C(i) == Shown(key, i) IN HeldSince(C, hold, clear))
           <=> HeldOn(Times, Met(key), Len(history), hold, clear)
<1> DEFINE n == Len(history)
<1>1. (LET C(i) == Shown(key, i) IN HeldSince(C, hold, clear)) <=>
        \E j \in Frames :
          /\ \E i \in Frames : /\ i <= j /\ (\A m \in i..j : Shown(key, m))
                               /\ history[j].t - history[i].t >= hold
          /\ ~\E p, q \in (j + 1)..n : /\ p <= q /\ (\A m \in p..q : ~Shown(key, m))
                                       /\ history[q].t - history[p].t >= clear
  BY DEF HeldSince, Sustained
<1>2. n \in Nat /\ Frames = 1..n
  BY DEF RecordingInv, Frames
<1>3. \A i \in 1..n : Times[i] = history[i].t /\ (i \in Met(key) <=> Shown(key, i))
  BY <1>2 DEF Times, Met
<1>4. HeldOn(Times, Met(key), n, hold, clear) <=>
        \E j \in Frames :
          /\ \E i \in Frames : /\ i <= j /\ (\A m \in i..j : Shown(key, m))
                               /\ history[j].t - history[i].t >= hold
          /\ ~\E p, q \in (j + 1)..n : /\ p <= q /\ (\A m \in p..q : ~Shown(key, m))
                                       /\ history[q].t - history[p].t >= clear
  <2>1. ASSUME NEW i \in 1..n, NEW j \in 1..n
        PROVE  /\ (\A m \in i..j : m \in Met(key)) <=> \A m \in i..j : Shown(key, m)
               /\ (\A m \in i..j : m \notin Met(key)) <=> \A m \in i..j : ~Shown(key, m)
               /\ Times[j] - Times[i] = history[j].t - history[i].t
    BY <1>2, <1>3
  <2>2. \A j \in 1..n : \A p \in (j + 1)..n : p \in 1..n
    BY <1>2
  <2> HIDE DEF n
  <2>3. ASSUME NEW j \in 1..n
        PROVE  (\E i \in 1..n : /\ i <= j /\ (\A m \in i..j : m \in Met(key))
                                /\ Times[j] - Times[i] >= hold)
               <=> \E i \in 1..n : /\ i <= j /\ (\A m \in i..j : Shown(key, m))
                                   /\ history[j].t - history[i].t >= hold
    BY <2>1
  <2>4. ASSUME NEW j \in 1..n
        PROVE  (\E p, q \in (j + 1)..n : /\ p <= q /\ (\A m \in p..q : m \notin Met(key))
                                         /\ Times[q] - Times[p] >= clear)
               <=> \E p, q \in (j + 1)..n : /\ p <= q /\ (\A m \in p..q : ~Shown(key, m))
                                            /\ history[q].t - history[p].t >= clear
    BY <2>1, <2>2
  <2> QED  BY <1>2, <2>3, <2>4, Zenon DEF HeldOn
<1> QED  BY <1>1, <1>4

\* A presence or signal-loss violation is open exactly when the recording shows its
\* condition sustained for the hold and not since absent for the clear hold
\* (HoldTimer::update, temporal.rs:180-197), for all holds, gaps and flickers.
THEOREM TimersTellTheRecording == HSpec => []TimersMatchRecording
<1>1. TimersInv => TimersMatchRecording
  <2> SUFFICES ASSUME TimersInv, ~finished, NEW key \in WatchedKeys
               PROVE  LET C(i) == Shown(key, i)
                      IN  IsOpen(key) <=> HeldSince(C, HoldMs(key), ClearMs(key))
    BY DEF TimersMatchRecording, WatchedKeys
  <2>1. key \in TimerKeys /\ key \in Keys
    BY WatchedParts DEF TimersInv, RecordingInv, LatchInv
  <2>2. IsOpen(key) <=> timer[key].fired
    BY <2>1, TimerLatch DEF TimersInv, RecordingInv, LatchInv, OpenMatchesLatch
  <2>3. timer[key].fired <=> HeldOn(Times, Met(key), Len(history), HoldMs(key), ClearMs(key))
    BY DEF TimersInv, TimersTell, TimerTells
  <2>4. (LET C(i) == Shown(key, i) IN HeldSince(C, HoldMs(key), ClearMs(key)))
          <=> HeldOn(Times, Met(key), Len(history), HoldMs(key), ClearMs(key))
    BY HeldSinceIsHeldOn DEF TimersInv
  <2> QED  BY <2>2, <2>3, <2>4
<1> QED  BY <1>1, InitTimers, NextTimers, PTL DEF HSpec

-----------------------------------------------------------------------------
(* Identity: the count is the number of failed checks since a recovery.    *)

IdentityInv ==
  /\ RecordingInv
  /\ failures = Cardinality(FailedSinceRecovery)
  /\ cfg.consecutiveFailures > 0 => (identityActive <=> failures >= cfg.consecutiveFailures)

LEMMA InitIdentity == HInit => IdentityInv
<1> SUFFICES ASSUME HInit PROVE IdentityInv
  OBVIOUS
<1>1. RecordingInv
  BY InitRecording
<1>2. history = <<>> /\ failures = 0 /\ ~identityActive /\ cfg \in Configs
  BY DEF HInit, Init, NewEngine
<1>3. FailedSinceRecovery = {}
  BY <1>2 DEF FailedSinceRecovery, Checked, Frames
<1>4. Cardinality(FailedSinceRecovery) = 0
  BY <1>3, FS_EmptySet
<1>5. cfg.consecutiveFailures \in Nat
  BY <1>2, ConfigAssumption DEF ConfigType
<1> QED  BY <1>1, <1>2, <1>4, <1>5 DEF IdentityInv

\* The failed checks of a recording are finitely many of its frames.
LEMMA FailedFinite ==
  ASSUME RecordingInv
  PROVE  IsFiniteSet(FailedSinceRecovery) /\ FailedSinceRecovery \subseteq 1..Len(history)
<1>1. Len(history) \in Nat /\ Frames = 1..Len(history)
  BY DEF RecordingInv, Frames
<1>2. FailedSinceRecovery \subseteq 1..Len(history)
  BY <1>1 DEF FailedSinceRecovery, Checked
<1>3. IsFiniteSet(1..Len(history))
  BY <1>1, FS_Interval
<1> QED  BY <1>2, <1>3, FS_Subset

\* One frame adds a failed check, forgets all of them, or leaves them.
LEMMA FailedStep ==
  ASSUME RecordingInv, NEW s \in Signals, NEW t \in Nat, UNCHANGED cfg,
         history' = Append(history, [t |-> t, s |-> s]), NEW n, n = Len(history)
  PROVE  FailedSinceRecovery' =
           IF ~Produced(s.identity) THEN FailedSinceRecovery
           ELSE IF s.identity.value < cfg.matchEnter THEN FailedSinceRecovery \union {n + 1}
           ELSE IF s.identity.value >= cfg.matchExit THEN {}
           ELSE FailedSinceRecovery
<1>1. /\ n \in Nat /\ Frames = 1..n /\ Frames' = 1..n + 1
      /\ \A i \in 1..n : history'[i] = history[i] /\ history[i] \in FusedFrame
      /\ history'[n + 1].s = s
  BY FrameAdded
<1>2. /\ \A i \in 1..n : /\ Match(i)' = Match(i) /\ Match(i) \in Int
                         /\ i \in Checked' <=> i \in Checked
      /\ Match(n + 1)' = s.identity.value
      /\ n + 1 \in Checked' <=> Produced(s.identity)
      /\ Checked \subseteq 1..n /\ Checked' \subseteq 1..n + 1
  <2>1. \A i \in 1..n : history[i].s \in Signals
    BY <1>1 DEF FusedFrame
  <2>2. \A i \in 1..n : Match(i) \in Int
    BY <2>1, SignalParts DEF Match
  <2> QED  BY <1>1, <2>2 DEF Match, Checked
<1>3. /\ s.identity.value \in Int
      /\ cfg.matchEnter \in Int /\ cfg.matchExit \in Int /\ cfg.matchExit >= cfg.matchEnter
  <2>1. cfg \in Configs
    BY DEF RecordingInv, LatchInv, TypeOK
  <2> QED  BY <2>1, SignalParts, ConfigParts, ConfigAssumption DEF Validated
<1>4. FailedSinceRecovery =
        {i \in Checked : /\ Match(i) < cfg.matchEnter
                         /\ \A k \in Checked : k > i => Match(k) < cfg.matchExit}
  BY DEF FailedSinceRecovery
<1>5. FailedSinceRecovery' =
        {i \in Checked' : /\ Match(i)' < cfg.matchEnter
                          /\ \A k \in Checked' : k > i => Match(k)' < cfg.matchExit}
  BY DEF FailedSinceRecovery
<1>6. ASSUME NEW i \in 1..n
      PROVE  i \in FailedSinceRecovery' <=>
               /\ i \in FailedSinceRecovery
               /\ Produced(s.identity) => s.identity.value < cfg.matchExit
  <2>1. n + 1 > i /\ i \in Nat
    BY <1>1
  <2> QED  BY <1>1, <1>2, <1>4, <1>5, <2>1
<1>7. n + 1 \in FailedSinceRecovery' <=>
        Produced(s.identity) /\ s.identity.value < cfg.matchEnter
  <2>1. \A k \in Checked' : ~(k > n + 1)
    BY <1>1, <1>2
  <2> QED  BY <1>2, <1>5, <2>1
<1>8. FailedSinceRecovery \subseteq 1..n /\ FailedSinceRecovery' \subseteq (1..n) \union {n + 1}
  <2>1. FailedSinceRecovery \subseteq Checked /\ FailedSinceRecovery' \subseteq Checked'
    BY <1>4, <1>5
  <2>2. 1..n + 1 = (1..n) \union {n + 1}
    BY <1>1
  <2> QED  BY <1>2, <2>1, <2>2
<1>9. ~(s.identity.value < cfg.matchExit) <=> s.identity.value >= cfg.matchExit
  BY <1>3
<1>10. s.identity.value < cfg.matchEnter => s.identity.value < cfg.matchExit
  BY <1>3
<1>11. n + 1 \notin FailedSinceRecovery
  BY <1>1, <1>8
<1> QED
  <2> HIDE DEF Produced
  <2>1. CASE ~Produced(s.identity)
    <3>1. FailedSinceRecovery' = FailedSinceRecovery
      BY <1>6, <1>7, <1>8, <1>11, <2>1
    <3> QED  BY <2>1, <3>1
  <2>2. CASE Produced(s.identity) /\ s.identity.value < cfg.matchEnter
    BY <1>6, <1>7, <1>8, <1>10, <1>11, <2>2
  <2>3. CASE Produced(s.identity) /\ ~(s.identity.value < cfg.matchEnter)
    <3>1. s.identity.value < cfg.matchExit => FailedSinceRecovery' = FailedSinceRecovery
      BY <1>6, <1>7, <1>8, <1>11, <2>3
    <3>2. ~(s.identity.value < cfg.matchExit) => FailedSinceRecovery' = {}
      BY <1>6, <1>7, <1>8, <2>3
    <3> QED  BY <1>9, <2>3, <3>1, <3>2
  <2> QED  BY <2>1, <2>2, <2>3

LEMMA NextIdentity == IdentityInv /\ [HNext]_hvars => IdentityInv'
<1> SUFFICES ASSUME IdentityInv, [HNext]_hvars PROVE IdentityInv'
  OBVIOUS
<1>1. RecordingInv /\ RecordingInv' /\ UNCHANGED cfg
  BY HistorySteps, NextRecording DEF IdentityInv
<1>2. /\ failures \in Nat /\ failures' \in Nat /\ cfg.consecutiveFailures \in Nat
      /\ identityActive \in BOOLEAN /\ identityActive' \in BOOLEAN
  <2>1. cfg \in Configs /\ TypeOK /\ TypeOK'
    BY <1>1 DEF RecordingInv, LatchInv, TypeOK
  <2> QED  BY <2>1, ConfigAssumption DEF TypeOK, ConfigType
<1>3. ASSUME NEW s \in Signals, NEW t \in Nat, StepAt(s, t),
             history' = Append(history, [t |-> t, s |-> s])
      PROVE  IdentityInv'
  <2>1. PICK n \in Nat : n = Len(history)
    BY <1>1, FrameAdded, <1>3
  <2>2. FailedSinceRecovery' =
          IF ~Produced(s.identity) THEN FailedSinceRecovery
          ELSE IF s.identity.value < cfg.matchEnter THEN FailedSinceRecovery \union {n + 1}
          ELSE IF s.identity.value >= cfg.matchExit THEN {}
          ELSE FailedSinceRecovery
    BY <1>1, <1>3, <2>1, FailedStep
  <2>3. /\ IsFiniteSet(FailedSinceRecovery) /\ n + 1 \notin FailedSinceRecovery
        /\ failures = Cardinality(FailedSinceRecovery)
    BY <1>1, <2>1, FailedFinite DEF IdentityInv
  <2>4. /\ Cardinality(FailedSinceRecovery \union {n + 1}) = failures + 1
        /\ Cardinality({}) = 0
    BY <2>3, FS_AddElement, FS_EmptySet
  <2>5. failures' = IF ~Produced(s.identity) THEN failures
                    ELSE IF s.identity.value < cfg.matchEnter THEN failures + 1
                    ELSE IF s.identity.value >= cfg.matchExit THEN 0
                    ELSE failures
    BY <1>3 DEF StepAt, CountFailures
  <2>6. failures' = Cardinality(FailedSinceRecovery)'
    <3>1. Cardinality(FailedSinceRecovery)' = Cardinality(FailedSinceRecovery')
      OBVIOUS
    <3> QED  BY <2>2, <2>3, <2>4, <2>5, <3>1
  <2>7. ASSUME cfg.consecutiveFailures > 0
        PROVE  identityActive' <=> failures' >= cfg.consecutiveFailures
    <3>1. identityActive <=> failures >= cfg.consecutiveFailures
      BY <2>7 DEF IdentityInv
    <3>2. failures' \in {failures, failures + 1, 0}
      BY <2>5, Zenon
    <3>3. CASE ~Produced(s.identity)
      <4>1. identityActive' = identityActive /\ failures' = failures
        BY <1>3, <2>5, <3>3, Zenon DEF StepAt, JudgeIdentity
      <4> QED  BY <3>1, <4>1
    <3>4. CASE Produced(s.identity) /\ identityActive
      <4>1. identityActive' <=> failures' > 0
        BY <1>3, <3>4, Zenon DEF StepAt, JudgeIdentity
      <4> QED  BY <1>2, <2>7, <3>1, <3>2, <3>4, <4>1
    <3>5. CASE Produced(s.identity) /\ ~identityActive
      BY <1>3, <3>5, Zenon DEF StepAt, JudgeIdentity
    <3> QED  BY <3>3, <3>4, <3>5
  <2> QED  BY <1>1, <2>6, <2>7 DEF IdentityInv
<1>4. ASSUME UNCHANGED <<history, failures, identityActive>>
      PROVE  IdentityInv'
  <2>1. FailedSinceRecovery' = FailedSinceRecovery
    BY <1>1, <1>4 DEF FailedSinceRecovery, Checked, Frames, Match
  <2> QED  BY <1>1, <1>4, <2>1 DEF IdentityInv
<1> QED  BY <1>1, <1>3, <1>4, HistorySteps

\* The accusation stands exactly when the checks since the last one at or above the
\* exit bar hold enough failed ones (step_identity, mod.rs:579-599), however many
\* frames and skipped, failed or gated checks lie between them.
THEOREM AccusationCountsFailures == HSpec => []IdentityMatchesRecording
<1>1. IdentityInv => IdentityMatchesRecording
  <2> SUFFICES ASSUME IdentityInv, ~finished, cfg.consecutiveFailures > 0
               PROVE  IsOpen(IdentityMismatch) <=>
                        Cardinality(FailedSinceRecovery) >= cfg.consecutiveFailures
    BY DEF IdentityMatchesRecording
  <2>1. IdentityMismatch \in Keys
    BY DEF Keys
  <2>2. Latched(IdentityMismatch) = identityActive
    BY KeyParts, Zenon DEF Latched
  <2>3. IsOpen(IdentityMismatch) <=> identityActive
    BY <2>1, <2>2 DEF IdentityInv, RecordingInv, LatchInv, OpenMatchesLatch
  <2> QED  BY <2>3 DEF IdentityInv
<1> QED  BY <1>1, InitIdentity, NextIdentity, PTL DEF HSpec

-----------------------------------------------------------------------------
(* Head and gaze: no turn without a measured angle past the bar.           *)

\* A product of naturals is one.
LEMMA ProductNat ==
  ASSUME NEW a \in Nat, NEW b \in Nat
  PROVE  a * b \in Nat
OBVIOUS

\* A blend of two angles within a bound is within it, rounded down too.
LEMMA BlendWithin ==
  ASSUME NEW alpha \in 0..100, NEW x \in Int, NEW y \in Int, NEW bound \in Int,
         Magnitude(x) < bound, Magnitude(y) < bound
  PROVE  Magnitude((alpha * x + (100 - alpha) * y) \div 100) < bound
<1> DEFINE c == bound - 1
           blend == alpha * x + (100 - alpha) * y
<1>1. /\ c \in Int /\ c - x \in Nat /\ c + x \in Nat /\ c - y \in Nat /\ c + y \in Nat
      /\ alpha \in Nat /\ 100 - alpha \in Nat
  BY DEF Magnitude
<1>2. /\ alpha * (c - x) \in Nat /\ alpha * (c + x) \in Nat
      /\ (100 - alpha) * (c - y) \in Nat /\ (100 - alpha) * (c + y) \in Nat
  BY <1>1, ProductNat
<1>3. /\ 100 * c - blend = alpha * (c - x) + (100 - alpha) * (c - y)
      /\ 100 * c + blend = alpha * (c + x) + (100 - alpha) * (c + y)
      /\ blend \in Int
  BY <1>1
<1>4. blend \in Int /\ blend <= 100 * c /\ -100 * c <= blend
  <2> HIDE DEF blend, c
  <2>1. 100 * c - blend >= 0 /\ 100 * c + blend >= 0
    BY <1>2, <1>3
  <2> QED  BY <1>1, <1>3, <2>1
<1>5. blend \div 100 <= c /\ -c <= blend \div 100 /\ blend \div 100 \in Int
  <2> HIDE DEF blend, c
  <2> QED  BY <1>1, <1>4
<1> HIDE DEF blend
<1> QED  BY <1>5 DEF Magnitude, blend

\* Ema::update stays within a bound its sample and its memory are within.
LEMMA EmaWithin ==
  ASSUME NEW filter \in StampedType, NEW sample \in Int, NEW t \in Nat,
         NEW alpha \in 0..100, NEW resetAfter, NEW bound \in Int,
         Magnitude(sample) < bound,
         filter.lastT # Never => Magnitude(filter.value) < bound
  PROVE  Magnitude(EmaUpdate(filter, sample, t, alpha, resetAfter).value) < bound
<1>1. CASE filter.lastT = Never \/ Elapsed(t, filter.lastT) > resetAfter
  BY <1>1 DEF EmaUpdate
<1>2. CASE ~(filter.lastT = Never \/ Elapsed(t, filter.lastT) > resetAfter)
  <2>1. filter.value \in Int /\ Magnitude(filter.value) < bound
    BY <1>2 DEF StampedType
  <2>2. Magnitude((alpha * sample + (100 - alpha) * filter.value) \div 100) < bound
    BY <2>1, BlendWithin
  <2>3. EmaUpdate(filter, sample, t, alpha, resetAfter).value
          = (alpha * sample + (100 - alpha) * filter.value) \div 100
    BY <1>2, Zenon DEF EmaUpdate
  <2> QED  BY <2>2, <2>3
<1> QED  BY <1>1, <1>2

TurnKey(slot) == IF slot = "pose" THEN HeadTurnedAway ELSE GazeOffScreen

Measurable(slot, i) == Produced(Reading(history[i].s, slot))

ExcessiveOn(slot, axis, i) ==
  /\ Measurable(slot, i)
  /\ Magnitude(Measured(history[i].s, slot, axis)) >= cfg.enter[slot][axis]

\* A latch, and a smoothed angle past the bar, come from a measured one past it.
FilterTells(slot, axis) ==
  (\A m \in Frames : ~ExcessiveOn(slot, axis, m)) =>
    /\ ~gate[slot][axis]
    /\ ema[slot][axis].lastT # Never =>
         Magnitude(ema[slot][axis].value) < cfg.enter[slot][axis]

\* A hold being counted began with a run of measurable frames that still goes on.
HoldWasMeasured(slot) ==
  timer[TurnKey(slot)].trueSince # Never =>
    \E i \in Frames : /\ \A m \in i..Len(history) : Measurable(slot, m)
                      /\ timer[TurnKey(slot)].trueSince = history[i].t

TurnWasMeasured(slot) ==
  timer[TurnKey(slot)].fired =>
    \E i, j \in Frames :
      /\ i <= j
      /\ \A m \in i..j : Measurable(slot, m)
      /\ history[j].t - history[i].t >= HoldMs(TurnKey(slot))
      /\ \E m \in 1..j : \E axis \in Axes : ExcessiveOn(slot, axis, m)

TurnInv ==
  /\ RecordingInv
  /\ \A slot \in Slots :
       /\ \A axis \in Axes : FilterTells(slot, axis)
       /\ HoldWasMeasured(slot)
       /\ TurnWasMeasured(slot)

LEMMA InitTurn == HInit => TurnInv
<1> SUFFICES ASSUME HInit PROVE TurnInv
  OBVIOUS
<1>1. RecordingInv
  BY InitRecording
<1>2. timer = NewTimers /\ gate = NewGates /\ ema = NewFilters
  BY DEF HInit, Init, NewEngine
<1>3. ASSUME NEW slot \in Slots
      PROVE  /\ \A axis \in Axes : FilterTells(slot, axis)
             /\ HoldWasMeasured(slot) /\ TurnWasMeasured(slot)
  <2>1. TurnKey(slot) \in TimerKeys
    BY DEF TurnKey, TimerKeys, TurnKeys
  <2>2. timer[TurnKey(slot)] = NewTimer
    BY <1>2, <2>1 DEF NewTimers
  <2>3. \A axis \in Axes : ~gate[slot][axis] /\ ema[slot][axis] = NewEma
    BY <1>2 DEF NewGates, NewFilters
  <2> QED  BY <2>2, <2>3 DEF FilterTells, HoldWasMeasured, TurnWasMeasured, NewTimer, NewEma
<1> QED  BY <1>1, <1>3 DEF TurnInv

\* What one frame shows of an axis.
LEMMA MeasuredStep ==
  ASSUME RecordingInv, NEW s \in Signals, NEW t \in Nat, UNCHANGED cfg,
         history' = Append(history, [t |-> t, s |-> s]), NEW n, n = Len(history),
         NEW slot \in Slots
  PROVE  /\ \A i \in 1..n : /\ Measurable(slot, i)' <=> Measurable(slot, i)
                            /\ \A axis \in Axes :
                                 ExcessiveOn(slot, axis, i)' <=> ExcessiveOn(slot, axis, i)
         /\ Measurable(slot, n + 1)' <=> Produced(Reading(s, slot))
         /\ \A axis \in Axes :
              ExcessiveOn(slot, axis, n + 1)' <=>
                /\ Produced(Reading(s, slot))
                /\ Magnitude(Measured(s, slot, axis)) >= cfg.enter[slot][axis]
<1>1. /\ \A i \in 1..n : history'[i] = history[i]
      /\ history'[n + 1].s = s
  BY FrameAdded
<1> QED  BY <1>1 DEF Measurable, ExcessiveOn, Measured

\* Smoothing and latching (mod.rs:326-453) invent no angle past the bar.
LEMMA FilterStep ==
  ASSUME RecordingInv, NEW s \in Signals, NEW t \in Nat, StepAt(s, t),
         history' = Append(history, [t |-> t, s |-> s]),
         NEW slot \in Slots, NEW axis \in Axes, FilterTells(slot, axis)
  PROVE  FilterTells(slot, axis)'
<1>1. PICK n \in Nat : n = Len(history) /\ Frames = 1..n /\ Frames' = 1..n + 1
  BY FrameAdded
<1>2. cfg' = cfg /\ cfg \in Configs /\ TypeOK
  BY DEF StepAt, RecordingInv, LatchInv, TypeOK
<1>3. /\ \A i \in 1..n : ExcessiveOn(slot, axis, i)' <=> ExcessiveOn(slot, axis, i)
      /\ ExcessiveOn(slot, axis, n + 1)' <=>
           /\ Produced(Reading(s, slot))
           /\ Magnitude(Measured(s, slot, axis)) >= cfg.enter[slot][axis]
  BY <1>1, <1>2, MeasuredStep
<1>4. SUFFICES ASSUME \A m \in 1..n + 1 : ~(ExcessiveOn(slot, axis, m)')
               PROVE  /\ ~gate'[slot][axis]
                      /\ ema'[slot][axis].lastT # Never =>
                           Magnitude(ema'[slot][axis].value) < cfg'.enter[slot][axis]
  BY <1>1 DEF FilterTells
<1>5. \A m \in Frames : ~ExcessiveOn(slot, axis, m)
  <2>1. \A m \in 1..n : m \in 1..n + 1
    BY <1>1
  <2> QED  BY <1>1, <1>3, <1>4, <2>1
<1>6. ~gate[slot][axis] /\ (ema[slot][axis].lastT # Never =>
                              Magnitude(ema[slot][axis].value) < cfg.enter[slot][axis])
  BY <1>5 DEF FilterTells
<1>7. CASE ~Produced(Reading(s, slot))
  <2>1. ema'[slot] = ema[slot] /\ gate'[slot] = gate[slot]
    BY <1>7 DEF StepAt, SmoothAngles, LatchAngles
  <2> QED  BY <1>2, <1>6, <2>1
<1>8. CASE Produced(Reading(s, slot))
  <2>1. /\ Measured(s, slot, axis) \in Int
        /\ cfg.enter[slot][axis] \in Int /\ cfg.alpha[slot] \in 0..100
        /\ ema[slot][axis] \in StampedType
    <3>1. cfg.enter \in [Slots -> [Axes -> Int]] /\ Validated(cfg)
      BY <1>2, ConfigParts, ConfigAssumption
    <3> QED  BY <1>2, <3>1, MeasuredType DEF Validated, TypeOK
  <2>2. Magnitude(Measured(s, slot, axis)) < cfg.enter[slot][axis]
    <3>1. ~(Magnitude(Measured(s, slot, axis)) >= cfg.enter[slot][axis])
      BY <1>1, <1>3, <1>4, <1>8
    <3>2. Magnitude(Measured(s, slot, axis)) \in Int
      BY <2>1 DEF Magnitude
    <3> QED  BY <2>1, <3>1, <3>2
  <2>3. ema'[slot][axis] = EmaUpdate(ema[slot][axis], Measured(s, slot, axis), t,
                                     cfg.alpha[slot], cfg.hold["signal_lost"])
    BY <1>8 DEF StepAt, SmoothAngles
  <2>4. Magnitude(ema'[slot][axis].value) < cfg.enter[slot][axis]
    BY <1>6, <2>1, <2>2, <2>3, EmaWithin
  <2>5. gate'[slot][axis] <=>
          Latch(gate[slot][axis], Magnitude(ema'[slot][axis].value),
                cfg.enter[slot][axis], cfg.exit[slot][axis])
    BY <1>8 DEF StepAt, LatchAngles
  <2>6. gate'[slot][axis] <=> Magnitude(ema'[slot][axis].value) >= cfg.enter[slot][axis]
    BY <1>6, <2>5, Zenon DEF Latch
  <2>7. Magnitude(ema'[slot][axis].value) \in Int
    <3>1. cfg.hold["signal_lost"] \in Nat /\ cfg.alpha[slot] \in Int
      BY <1>2, <2>1, ConfigParts, KeyParts
    <3>2. ema'[slot][axis] \in StampedType
      BY <2>1, <2>3, <3>1, EmaUpdateType
    <3> QED  BY <3>2 DEF StampedType, Magnitude
  <2> QED  BY <1>2, <2>1, <2>4, <2>6, <2>7
<1> QED  BY <1>7, <1>8

\* The timer of a turn is advanced by Turned.
LEMMA TurnTimer ==
  ASSUME TypeOK, NEW s, NEW t, StepAt(s, t), NEW slot \in Slots
  PROVE  /\ TurnKey(slot) \in TimerKeys /\ TurnKey(slot) \in Keys
         /\ timer[TurnKey(slot)] \in TimerType
         /\ HoldMs(TurnKey(slot)) \in Nat /\ ClearMs(TurnKey(slot)) \in Nat
         /\ timer'[TurnKey(slot)] =
              HoldUpdate(timer[TurnKey(slot)], HoldMs(TurnKey(slot)), ClearMs(TurnKey(slot)),
                         Turned(s, slot), t)
<1>1. TurnKey(slot) \in TimerKeys
  BY DEF TurnKey, TimerKeys, TurnKeys
<1>2. Condition(s, TurnKey(slot)) = Turned(s, slot)
  <2>0. /\ NeverSeen[1] = "never_seen" /\ NoFace[1] = "no_face"
        /\ MultipleFaces[1] = "multiple_faces"
        /\ HeadTurnedAway[1] = "head_turned_away" /\ GazeOffScreen[1] = "gaze_off_screen"
    BY DEF NeverSeen, NoFace, MultipleFaces, HeadTurnedAway, GazeOffScreen
  <2>1. CASE slot = "pose"
    <3>1. /\ TurnKey(slot) = HeadTurnedAway
          /\ TurnKey(slot) # NeverSeen /\ TurnKey(slot) # NoFace
          /\ TurnKey(slot) # MultipleFaces /\ TurnKey(slot) # GazeOffScreen
      BY <2>1, <2>0 DEF TurnKey
    <3> QED  BY <2>1, <3>1, Zenon DEF Condition
  <2>2. CASE slot = "gaze"
    <3>1. /\ TurnKey(slot) = GazeOffScreen
          /\ TurnKey(slot) # NeverSeen /\ TurnKey(slot) # NoFace
          /\ TurnKey(slot) # MultipleFaces /\ TurnKey(slot) # HeadTurnedAway
      BY <2>2, <2>0 DEF TurnKey
    <3> QED  BY <2>2, <3>1, Zenon DEF Condition
  <2> QED  BY <2>1, <2>2 DEF Slots
<1>3. timer'[TurnKey(slot)] =
        HoldUpdate(timer[TurnKey(slot)], HoldMs(TurnKey(slot)), ClearMs(TurnKey(slot)),
                   Condition(s, TurnKey(slot)), t)
  BY <1>1 DEF StepAt, AdvanceTimers
<1> QED  BY <1>1, <1>2, <1>3, PresenceKeys, ConfigParts, KeyParts DEF TypeOK, HoldMs, ClearMs

\* A timer counts from the first frame of a run that met its condition, and fires only
\* on a frame that meets it.
LEMMA HoldUpdateCounts ==
  ASSUME NEW tm \in TimerType, NEW hold \in Nat, NEW clear \in Nat, NEW condition,
         NEW t \in Nat, NEW next, next = HoldUpdate(tm, hold, clear, condition, t)
  PROVE  /\ next.trueSince # Never =>
              condition /\ next.trueSince = SinceOr(tm.trueSince, t)
         /\ next.fired => tm.fired \/ (condition /\ Elapsed(t, SinceOr(tm.trueSince, t)) >= hold)
BY DEF HoldUpdate, TimerType

LEMMA StepTurn ==
  ASSUME RecordingInv, RecordingInv', NEW s \in Signals, NEW t \in Nat, StepAt(s, t),
         history' = Append(history, [t |-> t, s |-> s]),
         NEW slot \in Slots, HoldWasMeasured(slot), TurnWasMeasured(slot),
         \A axis \in Axes : FilterTells(slot, axis)'
  PROVE  HoldWasMeasured(slot)' /\ TurnWasMeasured(slot)'
<1> DEFINE key == TurnKey(slot)
           since == SinceOr(timer[key].trueSince, t)
<1>1. PICK n \in Nat :
        /\ n = Len(history) /\ Len(history') = n + 1
        /\ Frames = 1..n /\ Frames' = 1..n + 1
        /\ \A i \in 1..n : history'[i] = history[i]
        /\ history'[n + 1].t = t
  BY FrameAdded
<1>2. UNCHANGED cfg /\ TypeOK
  BY DEF StepAt, RecordingInv, LatchInv
<1>3. /\ \A i \in 1..n : /\ Measurable(slot, i)' <=> Measurable(slot, i)
                         /\ \A axis \in Axes :
                              ExcessiveOn(slot, axis, i)' <=> ExcessiveOn(slot, axis, i)
      /\ Measurable(slot, n + 1)' <=> Produced(Reading(s, slot))
  BY <1>1, <1>2, MeasuredStep
<1>4. /\ timer[key] \in TimerType /\ HoldMs(key) \in Nat /\ ClearMs(key) \in Nat
      /\ timer'[key] = HoldUpdate(timer[key], HoldMs(key), ClearMs(key), Turned(s, slot), t)
  BY <1>2, TurnTimer
<1>5. /\ timer'[key].trueSince # Never =>
           Turned(s, slot) /\ timer'[key].trueSince = since
      /\ timer'[key].fired =>
           timer[key].fired \/ (Turned(s, slot) /\ Elapsed(t, since) >= HoldMs(key))
  BY <1>4, HoldUpdateCounts
<1>6. \A i \in 1..n + 1 : history'[i].t \in Nat /\ history'[i].t <= t
  <2>1. \A i \in 1..n + 1 : history'[i] \in FusedFrame'
    BY <1>1 DEF RecordingInv
  <2>2. \A i \in 1..n + 1 : history'[i].t \in Nat
    BY <2>1 DEF FusedFrame
  <2>3. \A i \in 1..n + 1 : i <= n + 1 /\ n + 1 \in 1..n + 1
    OBVIOUS
  <2>4. \A i \in 1..n + 1 : history'[i].t <= history'[n + 1].t
    BY <1>1, <2>3 DEF RecordingInv
  <2> QED  BY <1>1, <2>2, <2>4
\* A frame that meets the condition has a run of measured frames behind it.
<1>7. ASSUME Turned(s, slot)
      PROVE  \E i \in 1..n + 1 : /\ \A m \in i..n + 1 : Measurable(slot, m)'
                                 /\ since = history'[i].t
  <2>1. Measurable(slot, n + 1)'
    BY <1>3, <1>7 DEF Turned
  <2>2. CASE timer[key].trueSince = Never
    <3>1. since = t /\ n + 1 \in 1..n + 1 /\ \A m \in n + 1..n + 1 : m = n + 1
      BY <2>2 DEF SinceOr
    <3> QED  BY <1>1, <2>1, <3>1
  <2>3. CASE timer[key].trueSince # Never
    <3>1. PICK i \in 1..n : /\ \A m \in i..n : Measurable(slot, m)
                            /\ timer[key].trueSince = history[i].t
      BY <1>1, <2>3 DEF HoldWasMeasured
    <3>2. \A m \in i..n + 1 : Measurable(slot, m)'
      <4> TAKE m \in i..n + 1
      <4>1. m = n + 1 \/ (m \in i..n /\ m \in 1..n)
        BY <1>1, <3>1
      <4> QED  BY <1>3, <2>1, <3>1, <4>1
    <3>3. since = history'[i].t /\ i \in 1..n + 1
      BY <1>1, <2>3, <3>1 DEF SinceOr
    <3> QED  BY <3>2, <3>3
  <2> QED  BY <2>2, <2>3
<1>8. HoldWasMeasured(slot)'
  <2> HIDE DEF since, key
  <2> SUFFICES ASSUME timer'[key].trueSince # Never
               PROVE  \E i \in 1..n + 1 : /\ \A m \in i..n + 1 : Measurable(slot, m)'
                                          /\ timer'[key].trueSince = history'[i].t
    BY <1>1 DEF HoldWasMeasured, key
  <2> QED  BY <1>5, <1>7
<1>9. TurnWasMeasured(slot)'
  <2> SUFFICES ASSUME timer'[key].fired
               PROVE  \E i, j \in 1..n + 1 :
                        /\ i <= j
                        /\ \A m \in i..j : Measurable(slot, m)'
                        /\ history'[j].t - history'[i].t >= HoldMs(key)
                        /\ \E m \in 1..j : \E axis \in Axes : ExcessiveOn(slot, axis, m)'
    BY <1>1, <1>2 DEF TurnWasMeasured, HoldMs
  <2>1. CASE timer[key].fired
    <3>1. PICK i \in 1..n, j \in 1..n :
            /\ i <= j
            /\ \A m \in i..j : Measurable(slot, m)
            /\ history[j].t - history[i].t >= HoldMs(key)
            /\ \E m \in 1..j : \E axis \in Axes : ExcessiveOn(slot, axis, m)
      BY <1>1, <2>1 DEF TurnWasMeasured
    <3>2. \A m \in 1..j : m \in 1..n
      BY <1>1, <3>1
    <3>3. \A m \in i..j : m \in 1..n
      BY <1>1, <3>1
    <3>4. i \in 1..n + 1 /\ j \in 1..n + 1 /\ history'[i] = history[i] /\ history'[j] = history[j]
      BY <1>1, <3>1
    <3> QED  BY <1>3, <3>1, <3>2, <3>3, <3>4
  <2>2. CASE ~timer[key].fired
    <3>1. Turned(s, slot) /\ Elapsed(t, since) >= HoldMs(key)
      BY <1>5, <2>2
    <3>2. PICK i \in 1..n + 1 : /\ \A m \in i..n + 1 : Measurable(slot, m)'
                                /\ since = history'[i].t
      BY <1>7, <3>1
    <3>3. history'[n + 1].t - history'[i].t >= HoldMs(key)
      <4>1. since \in Nat /\ since <= t
        BY <1>6, <3>2
      <4>2. Elapsed(t, since) = t - since
        BY <4>1 DEF Elapsed
      <4> QED  BY <1>1, <3>1, <3>2, <4>2
    <3>4. \E m \in 1..n + 1 : \E axis \in Axes : ExcessiveOn(slot, axis, m)'
      <4>1. PICK axis \in Axes : gate'[slot][axis]
        BY <3>1 DEF Turned
      <4>2. FilterTells(slot, axis)'
        OBVIOUS
      <4> QED  BY <1>1, <4>1, <4>2 DEF FilterTells
    <3>5. i <= n + 1 /\ n + 1 \in 1..n + 1
      BY <1>1, <3>2
    <3> QED  BY <3>2, <3>3, <3>4, <3>5
  <2> QED  BY <2>1, <2>2
<1> QED  BY <1>8, <1>9

LEMMA NextTurn == TurnInv /\ [HNext]_hvars => TurnInv'
<1> SUFFICES ASSUME TurnInv, [HNext]_hvars PROVE TurnInv'
  OBVIOUS
<1>1. RecordingInv /\ RecordingInv' /\ UNCHANGED cfg
  BY HistorySteps, NextRecording DEF TurnInv
<1>2. ASSUME NEW s \in Signals, NEW t \in Nat, StepAt(s, t),
             history' = Append(history, [t |-> t, s |-> s])
      PROVE  TurnInv'
  <2>1. ASSUME NEW slot \in Slots, NEW axis \in Axes
        PROVE  FilterTells(slot, axis)'
    BY <1>1, <1>2, FilterStep DEF TurnInv
  <2>2. ASSUME NEW slot \in Slots
        PROVE  HoldWasMeasured(slot)' /\ TurnWasMeasured(slot)'
    BY <1>1, <1>2, <2>1, StepTurn DEF TurnInv
  <2> QED  BY <1>1, <2>1, <2>2 DEF TurnInv
<1>3. ASSUME UNCHANGED <<history, timer, ema, gate>>
      PROVE  TurnInv'
  <2>1. \A slot \in Slots :
          /\ \A axis \in Axes : FilterTells(slot, axis)' <=> FilterTells(slot, axis)
          /\ HoldWasMeasured(slot)' <=> HoldWasMeasured(slot)
          /\ TurnWasMeasured(slot)' <=> TurnWasMeasured(slot)
    BY <1>1, <1>3 DEF FilterTells, HoldWasMeasured, TurnWasMeasured, Frames, Measurable,
                      ExcessiveOn, Measured, HoldMs
  <2> QED  BY <1>1, <2>1 DEF TurnInv
<1> QED  BY <1>1, <1>2, <1>3, HistorySteps

\* Whoever is said to look away was measured, frame after frame for the whole hold, and
\* past the bar at some point (step_head, step_gaze, mod.rs:326-453): for all
\* smoothing factors, thresholds and gaps.
THEOREM TurnsComeFromMeasurements == HSpec => []TurnsWereMeasured
<1>1. TurnInv => TurnsWereMeasured
  <2> SUFFICES ASSUME TurnInv, NEW slot \in Slots, IsOpen(TurnKey(slot))
               PROVE  LET Measurables(i) == Produced(Reading(history[i].s, slot))
                      IN  \E i, j \in Frames :
                            /\ Sustained(Measurables, i, j, HoldMs(TurnKey(slot)))
                            /\ \E m \in 1..j : Excessive(slot, m)
    BY DEF TurnsWereMeasured, TurnKey
  <2>1. TurnKey(slot) \in TimerKeys /\ TurnKey(slot) \in Keys
    BY DEF TurnKey, TimerKeys, TurnKeys, Keys
  <2>2. ~finished
    BY <2>1 DEF TurnInv, RecordingInv, LatchInv, NothingOpenAtTheEnd, NothingOpen, IsOpen
  <2>3. timer[TurnKey(slot)].fired
    BY <2>1, <2>2, TimerLatch DEF TurnInv, RecordingInv, LatchInv, OpenMatchesLatch
  <2>4. PICK i, j \in Frames :
          /\ i <= j
          /\ \A m \in i..j : Measurable(slot, m)
          /\ history[j].t - history[i].t >= HoldMs(TurnKey(slot))
          /\ \E m \in 1..j : \E axis \in Axes : ExcessiveOn(slot, axis, m)
    BY <2>3 DEF TurnInv, TurnWasMeasured
  <2>5. \E m \in 1..j : Excessive(slot, m)
    BY <2>4 DEF Excessive, ExcessiveOn, Measurable
  <2> QED  BY <2>4, <2>5 DEF Sustained, Measurable
<1> QED  BY <1>1, InitTurn, NextTurn, PTL DEF HSpec

-----------------------------------------------------------------------------
(* Objects: no accusation without sightings enough to carry it.            *)

\* A share of a score is not more than the score.
LEMMA ShareWithin ==
  ASSUME NEW value \in Nat, NEW share \in 0..100
  PROVE  (value * share) \div 100 \in 0..value
<1>1. value * share \in Nat /\ value * (100 - share) \in Nat
  BY ProductNat
<1>2. value * share = 100 * value - value * (100 - share)
  OBVIOUS
<1> DEFINE product == value * share
<1>3. product \in Nat /\ product <= 100 * value
  BY <1>1, <1>2
<1> HIDE DEF product
<1>4. product \div 100 \in 0..value
  BY <1>3
<1> QED  BY <1>4 DEF product

\* A score, and the verdict on it, are carried by sightings.
CarriedBySightings(bucket) ==
  /\ score[bucket].value >= 0
  /\ score[bucket].value <= 100 * Cardinality(Sightings(bucket))
  /\ bucketActive[bucket] => 100 * Cardinality(Sightings(bucket)) >= cfg.enterScore

SightingsInv ==
  /\ RecordingInv
  /\ \A bucket \in Buckets : CarriedBySightings(bucket)

LEMMA InitSightings == HInit => SightingsInv
<1> SUFFICES ASSUME HInit PROVE SightingsInv
  OBVIOUS
<1>1. RecordingInv
  BY InitRecording
<1>2. history = <<>> /\ score = NewScores /\ bucketActive = NoBuckets
  BY DEF HInit, Init, NewEngine
<1>3. ASSUME NEW bucket \in Buckets PROVE CarriedBySightings(bucket)
  <2>1. Sightings(bucket) = {}
    BY <1>2 DEF Sightings, Frames
  <2>2. Cardinality(Sightings(bucket)) = 0
    BY <2>1, FS_EmptySet
  <2> QED  BY <1>2, <2>2 DEF CarriedBySightings, NewScores, NewScore, NoBuckets
<1> QED  BY <1>1, <1>3 DEF SightingsInv

\* The sightings of a recording are finitely many of its frames.
LEMMA SightingsFinite ==
  ASSUME RecordingInv, NEW bucket
  PROVE  /\ IsFiniteSet(Sightings(bucket)) /\ Cardinality(Sightings(bucket)) \in Nat
         /\ Sightings(bucket) \subseteq 1..Len(history)
<1>1. Len(history) \in Nat /\ Frames = 1..Len(history)
  BY DEF RecordingInv, Frames
<1>2. Sightings(bucket) \subseteq 1..Len(history)
  BY <1>1 DEF Sightings
<1>3. IsFiniteSet(1..Len(history))
  BY <1>1, FS_Interval
<1>4. IsFiniteSet(Sightings(bucket))
  BY <1>2, <1>3, FS_Subset
<1> QED  BY <1>2, <1>4, FS_CardinalityType

\* A frame that shows a bucket above the floor.
Sees(s, bucket) ==
  /\ Produced(s.objects)
  /\ \E d \in s.objects.value : d.score >= cfg.floor /\ cfg.bucketOf[d.label] = bucket

\* One frame adds itself to the sightings when it is one.
LEMMA SightingsStep ==
  ASSUME RecordingInv, NEW s \in Signals, NEW t \in Nat, UNCHANGED cfg,
         history' = Append(history, [t |-> t, s |-> s]), NEW bucket
  PROVE  Cardinality(Sightings(bucket)') =
           Cardinality(Sightings(bucket)) + (IF Sees(s, bucket) THEN 1 ELSE 0)
<1> DEFINE n == Len(history)
<1>1. /\ n \in Nat /\ Frames = 1..n /\ Frames' = 1..n + 1
      /\ \A i \in 1..n : history'[i] = history[i]
      /\ history'[n + 1].s = s
  BY FrameAdded
<1>2. Sightings(bucket) \subseteq 1..n /\ IsFiniteSet(Sightings(bucket))
  BY SightingsFinite
<1> HIDE DEF n
<1>3. 1..n + 1 = (1..n) \union {n + 1} /\ n + 1 \notin 1..n
  BY <1>1
<1>4. Sightings(bucket) = {i \in Frames : Sees(history[i].s, bucket)}
  BY DEF Sightings, Sees
<1>5. Sightings(bucket)' = {i \in Frames' : Sees(history'[i].s, bucket)}
  BY DEF Sightings, Sees
<1>6. Sightings(bucket)' =
        IF Sees(s, bucket) THEN Sightings(bucket) \union {n + 1} ELSE Sightings(bucket)
  <2> HIDE DEF Sees
  <2>1. \A i \in 1..n : i \in Sightings(bucket)' <=> i \in Sightings(bucket)
    BY <1>1, <1>3, <1>4, <1>5
  <2>2. n + 1 \in Sightings(bucket)' <=> Sees(s, bucket)
    BY <1>1, <1>3, <1>5
  <2>3. Sightings(bucket)' \subseteq (1..n) \union {n + 1}
    BY <1>1, <1>3, <1>5
  <2>4. CASE Sees(s, bucket)
    BY <1>2, <2>1, <2>2, <2>3, <2>4
  <2>5. CASE ~Sees(s, bucket)
    BY <1>2, <2>1, <2>2, <2>3, <2>5
  <2> QED  BY <2>4, <2>5
<1>7. n + 1 \notin Sightings(bucket)
  BY <1>2, <1>3
<1>8. Cardinality(Sightings(bucket) \union {n + 1}) = Cardinality(Sightings(bucket)) + 1
  BY <1>2, <1>7, FS_AddElement
<1>9. Cardinality(Sightings(bucket)) \in Nat
  BY SightingsFinite
<1> QED  BY <1>6, <1>8, <1>9

\* A frame that does not show a bucket offers it nothing.
LEMMA NothingSeenNothingAdded ==
  ASSUME NEW s \in Signals, NEW bucket \in Buckets, Produced(s.objects), ~Sees(s, bucket)
  PROVE  Best(Evidence(s, bucket)) = 0
<1>1. Evidence(s, bucket) = {0}
  BY DEF Evidence, Sees
<1>2. 0 \in 0..100 /\ {0} \in SUBSET (0..100)
  OBVIOUS
<1>3. Best({0}) \in {0}
  BY <1>2, BestIsGreatest
<1> QED  BY <1>1, <1>3

\* What decays stays carried, and what is added is carried by the frame it is seen on.
LEMMA StepCarried ==
  ASSUME SightingsInv, LatchInv', NEW s \in Signals, NEW t \in Nat, t <= MaxTime,
         StepAt(s, t), UNCHANGED cfg,
         history' = Append(history, [t |-> t, s |-> s]), NEW bucket \in Buckets
  PROVE  CarriedBySightings(bucket)'
<1> DEFINE seen == Cardinality(Sightings(bucket))
           added == IF Sees(s, bucket) THEN 1 ELSE 0
           before == score[bucket].value
           after == score'[bucket].value
           amount == Best(Evidence(s, bucket))
           share == Retained(Elapsed(t, score[bucket].lastT))
<1>1. /\ Cardinality(Sightings(bucket)') = seen + added /\ seen \in Nat /\ added \in {0, 1}
      /\ before >= 0 /\ before <= 100 * seen
      /\ bucketActive[bucket] => 100 * seen >= cfg.enterScore
  BY SightingsStep, SightingsFinite DEF SightingsInv, CarriedBySightings
<1>2. /\ score[bucket] \in StampedType /\ cfg.enterScore \in Int
      /\ bucketActive[bucket] \in BOOLEAN /\ bucketActive'[bucket] \in BOOLEAN
  <2>1. TypeOK /\ TypeOK'
    BY DEF SightingsInv, RecordingInv, LatchInv
  <2> QED  BY <2>1, ConfigParts DEF TypeOK
<1>3. before \in Nat
  BY <1>1, <1>2 DEF StampedType
<1>4. after \in Nat /\ after <= 100 * (seen + added)
  <2>1. CASE ~Produced(s.objects)
    <3>1. after = before
      BY <2>1 DEF StepAt, Accumulate
    <3> HIDE DEF seen, added, before, after
    <3> QED  BY <1>1, <1>3, <3>1
  <2>2. CASE Produced(s.objects)
    <3>1. amount \in 0..100 /\ amount <= 100 * added
      <4>1. amount \in 0..100
        BY EvidenceType
      <4>2. ~Sees(s, bucket) => amount = 0
        BY <2>2, NothingSeenNothingAdded
      <4> HIDE DEF amount
      <4>3. CASE Sees(s, bucket)
        <5>1. added = 1
          BY <4>3, Zenon
        <5> QED  BY <4>1, <5>1
      <4>4. CASE ~Sees(s, bucket)
        <5>1. added = 0
          BY <4>4, Zenon
        <5> QED  BY <4>2, <4>4, <5>1
      <4> QED  BY <4>3, <4>4
    <3>2. score'[bucket] = AddEvidence(score[bucket], amount, share, t)
      BY <2>2 DEF StepAt, Accumulate
    <3>3. CASE score[bucket].lastT = Never
      <4>1. after = before + amount
        BY <3>2, <3>3 DEF AddEvidence, DecayTo
      <4> HIDE DEF seen, added, before, after, amount
      <4> QED  BY <1>1, <1>3, <3>1, <4>1
    <3>4. CASE score[bucket].lastT # Never
      <4>1. after = (before * share) \div 100 + amount
        BY <3>2, <3>4 DEF AddEvidence, DecayTo
      <4>2. Elapsed(t, score[bucket].lastT) \in 0..MaxTime
        BY <1>2, <3>4, InputAssumption DEF Elapsed, StampedType, Stamps, Never
      <4>3. share \in 0..100
        BY <4>2, DecayAssumption
      <4>4. (before * share) \div 100 \in 0..before
        <5> HIDE DEF before, share
        <5> QED  BY <1>3, <4>3, ShareWithin
      <4> DEFINE left == (before * share) \div 100
      <4> HIDE DEF seen, added, before, after, amount, left
      <4> QED  BY <1>1, <1>3, <3>1, <4>1, <4>4 DEF left
    <3> QED  BY <3>3, <3>4
  <2> QED  BY <2>1, <2>2
<1>5. bucketActive'[bucket] => bucketActive[bucket] \/ after >= cfg.enterScore
  <2>1. bucketActive'[bucket] =
          Latch(bucketActive[bucket], after, cfg.enterScore, cfg.clearScore)
    BY DEF StepAt, JudgeBuckets
  <2> QED  BY <1>2, <2>1, Zenon DEF Latch
<1>6. bucketActive'[bucket] => 100 * (seen + added) >= cfg.enterScore
  <2> HIDE DEF seen, added, after
  <2> QED  BY <1>1, <1>2, <1>4, <1>5
<1> QED  BY <1>1, <1>4, <1>6 DEF CarriedBySightings

LEMMA NextSightings == SightingsInv /\ [HNext]_hvars => SightingsInv'
<1> SUFFICES ASSUME SightingsInv, [HNext]_hvars PROVE SightingsInv'
  OBVIOUS
<1>1. RecordingInv /\ RecordingInv' /\ LatchInv' /\ UNCHANGED cfg
  BY HistorySteps, NextRecording DEF SightingsInv
<1>2. ASSUME NEW s \in Signals, NEW t \in Nat, t <= MaxTime, StepAt(s, t),
             history' = Append(history, [t |-> t, s |-> s])
      PROVE  SightingsInv'
  BY <1>1, <1>2, StepCarried DEF SightingsInv
<1>3. ASSUME UNCHANGED <<history, score, bucketActive>>
      PROVE  SightingsInv'
  <2>1. \A bucket \in Buckets : CarriedBySightings(bucket)' <=> CarriedBySightings(bucket)
    BY <1>1, <1>3 DEF CarriedBySightings, Sightings, Frames
  <2> QED  BY <1>1, <2>1 DEF SightingsInv
<1> QED  BY <1>1, <1>2, <1>3, HistorySteps

\* An object is reported only when enough frames of the recording show it (temporal.rs:226
\* and step_objects, mod.rs:472-500): for every floor, bar, decay and set of detections.
THEOREM SightingsCarryAccusations == HSpec => []AccusationNeedsSightings
<1>1. SightingsInv => AccusationNeedsSightings
  <2> SUFFICES ASSUME SightingsInv, NEW bucket \in Buckets, IsOpen(ProhibitedObject(bucket))
               PROVE  100 * Cardinality(Sightings(bucket)) >= cfg.enterScore
    BY DEF AccusationNeedsSightings
  <2> DEFINE key == ProhibitedObject(bucket)
  <2>1. key \in BucketKeys /\ key \in Keys /\ key[2] = bucket
    BY DEF BucketKeys, Keys, ProhibitedObject
  <2>2. ~finished
    BY <2>1 DEF SightingsInv, RecordingInv, LatchInv, NothingOpenAtTheEnd, NothingOpen, IsOpen
  <2>3. Latched(key) = bucketActive[bucket]
    <3>1. key \notin TimerKeys
      BY <2>1, KeyParts
    <3> HIDE DEF key
    <3> QED  BY <2>1, <3>1, Zenon DEF Latched
  <2>4. bucketActive[bucket]
    BY <2>1, <2>2, <2>3 DEF SightingsInv, RecordingInv, LatchInv, OpenMatchesLatch
  <2> QED  BY <2>4 DEF SightingsInv, CarriedBySightings
<1> QED  BY <1>1, InitSightings, NextSightings, PTL DEF HSpec

-----------------------------------------------------------------------------
(* Recording changes nothing: what was proved of the engine holds of it.   *)

\* A recorded session is a session.
THEOREM RecordedSessionIsSession == HSpec => Spec
<1>1. HInit => Init
  BY DEF HInit
<1>2. [HNext]_hvars => [Next]_vars
  BY DEF HNext, hvars, Next
<1> QED  BY <1>1, <1>2, PTL DEF HSpec, Spec
=============================================================================
