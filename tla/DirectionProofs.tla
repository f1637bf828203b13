-------------------------- MODULE DirectionProofs --------------------------
(***************************************************************************)
(* Proofs about Direction, for all bars validate() accepts with exit above *)
(* -enter, all readings and recordings of any length.                      *)
(*                                                                         *)
(* The readout is its own inductive invariant: what a label remembers of   *)
(* the past is exactly whether the recording holds it.  One frame extends  *)
(* the recording by a reading, so the proof is about what one more reading *)
(* does to Held (HeldStep) and to a label (LabelStep), and that these are  *)
(* the same.                                                               *)
(***************************************************************************)
EXTENDS Direction, TLAPS

Angles == [Axes -> Int] \union {NoReading}
Recordings == Seq([Rows -> Angles])

BarsOK(limits) ==
  /\ limits.enter \in Int /\ limits.exit \in Int
  /\ limits.exit <= limits.enter /\ -limits.enter < limits.exit

\* Held, of any recording.
HeldIn(angles, limits, row, axis, sign) ==
  \E i \in 1..Len(angles) :
    /\ angles[i][row] # NoReading
    /\ sign * angles[i][row][axis] >= limits.enter
    /\ \A j \in (i + 1)..Len(angles) :
         angles[j][row] # NoReading => sign * angles[j][row][axis] >= limits.exit

\* One more reading keeps what was held if it is absent or past the lower bar, and
\* makes it held if it is past the upper one.
LEMMA HeldStep ==
  ASSUME NEW angles \in Recordings, NEW reading \in [Rows -> Angles],
         NEW limits, BarsOK(limits),
         NEW row \in Rows, NEW axis \in Axes, NEW sign \in {1, -1}
  PROVE  HeldIn(Append(angles, reading), limits, row, axis, sign) <=>
           \/ reading[row] = NoReading /\ HeldIn(angles, limits, row, axis, sign)
           \/ /\ reading[row] # NoReading
              /\ \/ sign * reading[row][axis] >= limits.enter
                 \/ /\ sign * reading[row][axis] >= limits.exit
                    /\ HeldIn(angles, limits, row, axis, sign)
<1> DEFINE longer == Append(angles, reading)
           n == Len(angles)
<1>1. /\ n \in Nat /\ Len(longer) = n + 1
      /\ longer[n + 1] = reading
      /\ \A i \in 1..n : longer[i] = angles[i]
  BY DEF Recordings
<1> HIDE DEF longer
<1>2. ASSUME HeldIn(longer, limits, row, axis, sign)
      PROVE  \/ reading[row] = NoReading /\ HeldIn(angles, limits, row, axis, sign)
             \/ /\ reading[row] # NoReading
                /\ \/ sign * reading[row][axis] >= limits.enter
                   \/ /\ sign * reading[row][axis] >= limits.exit
                      /\ HeldIn(angles, limits, row, axis, sign)
  <2>1. PICK i \in 1..(n + 1) :
          /\ longer[i][row] # NoReading
          /\ sign * longer[i][row][axis] >= limits.enter
          /\ \A j \in (i + 1)..(n + 1) :
               longer[j][row] # NoReading => sign * longer[j][row][axis] >= limits.exit
    BY <1>1, <1>2 DEF HeldIn
  <2>2. CASE i = n + 1
    BY <1>1, <2>1, <2>2
  <2>3. CASE i # n + 1
    <3>1. i \in 1..n /\ n + 1 \in (i + 1)..(n + 1)
      BY <1>1, <2>3
    <3>2. \A j \in (i + 1)..n : j \in 1..n /\ j \in (i + 1)..(n + 1)
      BY <1>1, <3>1
    <3>3. HeldIn(angles, limits, row, axis, sign)
      BY <1>1, <2>1, <3>1, <3>2 DEF HeldIn
    <3>4. reading[row] # NoReading => sign * reading[row][axis] >= limits.exit
      BY <1>1, <2>1, <3>1
    <3> QED
      BY <3>3, <3>4
  <2> QED
    BY <2>2, <2>3
<1>3. ASSUME HeldIn(angles, limits, row, axis, sign),
             reading[row] # NoReading => sign * reading[row][axis] >= limits.exit
      PROVE  HeldIn(longer, limits, row, axis, sign)
  <2>1. PICK i \in 1..n :
          /\ angles[i][row] # NoReading
          /\ sign * angles[i][row][axis] >= limits.enter
          /\ \A j \in (i + 1)..n :
               angles[j][row] # NoReading => sign * angles[j][row][axis] >= limits.exit
    BY <1>3 DEF HeldIn
  <2>2. \A j \in (i + 1)..(n + 1) : j \in (i + 1)..n \/ j = n + 1
    BY <1>1
  <2>3. \A j \in (i + 1)..n : j \in 1..n
    BY <1>1
  <2>4. \A j \in (i + 1)..(n + 1) :
          longer[j][row] # NoReading => sign * longer[j][row][axis] >= limits.exit
    BY <1>1, <1>3, <2>1, <2>2, <2>3
  <2>5. i \in 1..(n + 1) /\ longer[i] = angles[i]
    BY <1>1
  <2> QED
    BY <1>1, <2>1, <2>4, <2>5 DEF HeldIn
<1>4. ASSUME reading[row] # NoReading, sign * reading[row][axis] >= limits.enter
      PROVE  HeldIn(longer, limits, row, axis, sign)
  <2>1. n + 1 \in 1..Len(longer) /\ (n + 2)..Len(longer) = {}
    BY <1>1
  <2> QED
    BY <1>1, <1>4, <2>1 DEF HeldIn
<1> QED
  BY <1>2, <1>3, <1>4 DEF longer

\* A label becomes what the angle makes of it; with exit above -enter the two
\* sides cannot both claim it.
LEMMA LabelStep ==
  ASSUME BarsOK(bars), NEW label \in Labels, NEW deg \in Int
  PROVE  /\ AxisUpdate(label, deg) \in Labels
         /\ AxisUpdate(label, deg) = 1 <=>
              \/ 1 * deg >= bars.enter
              \/ 1 * deg >= bars.exit /\ label = 1
         /\ AxisUpdate(label, deg) = -1 <=>
              \/ -1 * deg >= bars.enter
              \/ -1 * deg >= bars.exit /\ label = -1
  BY DEF BarsOK, Labels, AxisUpdate

LEMMA LabelsInPlace ==
  LabelsMatchRecording <=>
    \A row \in Rows, axis \in Axes, sign \in {1, -1} :
      tracker[row][axis] = sign <=> HeldIn(recording, bars, row, axis, sign)
  BY DEF LabelsMatchRecording, Held, HeldIn

DirectionInv == DirectionTypeOK /\ LabelsMatchRecording /\ RowsMatchFrame

LEMMA InitInv == DirectionInit => DirectionInv
<1> SUFFICES ASSUME DirectionInit PROVE DirectionInv
  OBVIOUS
<1>1. DirectionTypeOK
  BY DEF DirectionInit, DirectionTypeOK, NewTrackers, Rows, Axes, Labels
<1>2. LabelsMatchRecording
  BY DEF DirectionInit, LabelsMatchRecording, Held, NewTrackers
<1>3. RowsMatchFrame
  BY DEF DirectionInit, RowsMatchFrame
<1> QED
  BY <1>1, <1>2, <1>3 DEF DirectionInv

\* A reload forgets labels and recording alike.
LEMMA ReloadKeepsInv == DirectionInv /\ DirectionReload => DirectionInv'
<1> SUFFICES ASSUME DirectionReload PROVE DirectionInv'
  OBVIOUS
<1> USE DirectionAssumption DEF DirectionReload
<1>1. DirectionTypeOK'
  BY DEF DirectionTypeOK, NewTrackers, Rows, Axes, Labels
<1>2. LabelsMatchRecording'
  BY DEF LabelsMatchRecording, Held, NewTrackers
<1>3. RowsMatchFrame'
  BY DEF RowsMatchFrame
<1> QED
  BY <1>1, <1>2, <1>3 DEF DirectionInv

LEMMA FrameKeepsInv == DirectionInv /\ DirectionFrame => DirectionInv'
<1> SUFFICES ASSUME DirectionInv, NEW head \in Readings \union {NoReading},
                    NEW gaze \in Readings \union {NoReading}, ReadFrame(head, gaze)
             PROVE  DirectionInv'
  BY DEF DirectionFrame
<1> DEFINE reading == [head |-> head, gaze |-> gaze, eye |-> EyeInHead(gaze, head)]
           next == [row \in Rows |->
                      IF reading[row] = NoReading THEN tracker[row]
                      ELSE [axis \in Axes |-> AxisUpdate(tracker[row][axis], reading[row][axis])]]
<1>1. reading \in [Rows -> Angles]
  BY DirectionAssumption DEF EyeInHead, Angles, Rows
<1>2. /\ tracker' = next
      /\ directions' = [row \in Rows |-> IF reading[row] = NoReading THEN NoReading
                                         ELSE next[row]]
      /\ recording' = Append(recording, reading)
      /\ bars' = bars
  BY DEF ReadFrame
<1> HIDE DEF reading
<1>3. /\ BarsOK(bars) /\ recording \in Recordings
      /\ tracker \in [Rows -> [Axes -> Labels]]
  BY DEF DirectionInv, DirectionTypeOK, BarsOK, Recordings, Angles
<1>4. \A row \in Rows, axis \in Axes :
        /\ tracker[row][axis] \in Labels
        /\ reading[row] # NoReading => reading[row][axis] \in Int
  BY <1>1, <1>3 DEF Angles
<1>5. DirectionTypeOK'
  <2>1. next \in [Rows -> [Axes -> Labels]]
    BY <1>3, <1>4, LabelStep
  <2>2. recording' \in Recordings
    BY <1>1, <1>2, <1>3 DEF Recordings
  <2> QED
    BY <1>2, <1>3, <2>1, <2>2 DEF DirectionTypeOK, BarsOK, Recordings, Angles
<1>6. LabelsMatchRecording'
  <2>1. \A row \in Rows, axis \in Axes, sign \in {1, -1} :
          tracker[row][axis] = sign <=> HeldIn(recording, bars, row, axis, sign)
    BY LabelsInPlace DEF DirectionInv
  <2>2. ASSUME NEW row \in Rows, NEW axis \in Axes, NEW sign \in {1, -1}
        PROVE  next[row][axis] = sign <=>
                 HeldIn(Append(recording, reading), bars, row, axis, sign)
    <3>1. CASE reading[row] = NoReading
      BY <1>1, <1>3, <2>1, <3>1, HeldStep
    <3>2. CASE reading[row] # NoReading
      <4>1. next[row][axis] = AxisUpdate(tracker[row][axis], reading[row][axis])
        BY <3>2
      <4>2. next[row][axis] = sign <=>
              \/ sign * reading[row][axis] >= bars.enter
              \/ sign * reading[row][axis] >= bars.exit /\ tracker[row][axis] = sign
        BY <1>3, <1>4, <3>2, <4>1, LabelStep
      <4> QED
        BY <1>1, <1>3, <2>1, <3>2, <4>2, HeldStep
    <3> QED
      BY <3>1, <3>2
  <2>3. \A row \in Rows, axis \in Axes, sign \in {1, -1} :
          tracker'[row][axis] = sign <=> HeldIn(recording', bars', row, axis, sign)
    BY <1>2, <2>2
  <2> QED
    BY <2>3 DEF LabelsMatchRecording, Held, HeldIn
<1>7. RowsMatchFrame'
  <2>1. Len(recording') \in Nat /\ recording'[Len(recording')] = reading
    BY <1>1, <1>2, <1>3 DEF Recordings
  <2> QED
    BY <1>2, <2>1 DEF RowsMatchFrame
<1> QED
  BY <1>5, <1>6, <1>7 DEF DirectionInv

LEMMA StutterKeepsInv == DirectionInv /\ UNCHANGED directionVars => DirectionInv'
<1> SUFFICES ASSUME DirectionInv, UNCHANGED directionVars PROVE DirectionInv'
  OBVIOUS
<1> USE DEF DirectionInv, directionVars
<1>1. DirectionTypeOK'
  BY DEF DirectionTypeOK
<1>2. LabelsMatchRecording'
  BY DEF LabelsMatchRecording, Held
<1>3. RowsMatchFrame'
  BY DEF RowsMatchFrame
<1> QED
  BY <1>1, <1>2, <1>3

LEMMA InvHolds == DirectionSpec => []DirectionInv
<1>1. DirectionInv /\ [DirectionNext]_directionVars => DirectionInv'
  BY FrameKeepsInv, ReloadKeepsInv, StutterKeepsInv DEF DirectionNext
<1> QED
  BY InitInv, <1>1, PTL DEF DirectionSpec

\* Bars, trackers and recording keep their types (direction.rs:117-182).
THEOREM ReadoutTypeCorrect == DirectionSpec => []DirectionTypeOK
<1>1. DirectionInv => DirectionTypeOK
  BY DEF DirectionInv
<1> QED
  BY InvHolds, <1>1, PTL

\* Every label is what the angles since the last reload make it, and every row is
\* empty exactly when its model did not run, in recordings of any length and for
\* any angles (direction.rs:99-153, 184-221).
THEOREM LabelsFollowRecording == DirectionSpec => []DirectionMatchesRecording
<1>1. DirectionInv => DirectionMatchesRecording
  BY DEF DirectionInv, DirectionMatchesRecording
<1> QED
  BY InvHolds, <1>1, PTL
=============================================================================
