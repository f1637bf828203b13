----------------------------- MODULE Direction -----------------------------
(***************************************************************************)
(* The direction readout (src/src/direction.rs): head, gaze and eye-in-    *)
(* head are put into words, one tracker with hysteresis per signal and     *)
(* axis.  The detect worker owns it, updates it on every frame it reads,   *)
(* and replaces it when it takes up a new configuration.                   *)
(*                                                                         *)
(* Angles are whole degrees.  A label is the sign of its axis: 1 is right  *)
(* or up from the subject's point of view, -1 is left or down, 0 centre.   *)
(***************************************************************************)
EXTENDS Integers, Sequences

CONSTANTS
  DirectionConfigs,   \* thresholds a session may have: records of enter and exit
  Readings,           \* angles a model may report: a yaw and a pitch
  NoReading,          \* a model that did not run on a frame
  MaxReadFrames       \* bound on the frames read under one configuration

Axes == {"horizontal", "vertical"}
Rows == {"head", "gaze", "eye"}
Labels == {-1, 0, 1}

\* validate() asks for exit <= enter; that exit is above -enter it leaves to the
\* operator (below, a swing to the other side would count as staying).
ASSUME DirectionAssumption ==
  /\ \A bars \in DirectionConfigs :
       /\ bars.enter \in Int /\ bars.exit \in Int
       /\ bars.exit <= bars.enter /\ -bars.enter < bars.exit
  /\ Readings \subseteq [Axes -> Int]
  /\ NoReading \notin [Axes -> Int]

VARIABLES
  bars,         \* enter_deg and exit_deg of the trackers
  tracker,      \* the state of each
  directions,   \* the readout of the last frame
  recording     \* auxiliary: what the trackers were given since they were made

directionVars == <<bars, tracker, directions, recording>>

NewTrackers == [row \in Rows |-> [axis \in Axes |-> 0]]
NoDirections == [row \in Rows |-> NoReading]

DirectionInit ==
  /\ bars = [enter |-> 12, exit |-> 8]
  /\ tracker = NewTrackers
  /\ directions = NoDirections
  /\ recording = <<>>

\* Mutant: on its way to the other side a label passes through the centre.
AxisUpdateDetours(state, deg) ==
  IF state = 0
  THEN IF deg >= bars.enter THEN 1 ELSE IF deg <= -bars.enter THEN -1 ELSE 0
  ELSE IF state * deg >= bars.exit THEN state ELSE 0

\* AxisTracker::update: a label is kept past the lower bar; otherwise only the angle counts.
AxisUpdate(state, deg) ==
  IF (state = 1 /\ deg >= bars.exit) \/ (state = -1 /\ deg <= -bars.exit)
  THEN state
  ELSE IF deg >= bars.enter THEN 1 ELSE IF deg <= -bars.enter THEN -1 ELSE 0

\* Eye-in-head is a difference, and absent when either operand is.
EyeInHead(gaze, head) ==
  IF NoReading \in {gaze, head} THEN NoReading
  ELSE [axis \in Axes |-> gaze[axis] - head[axis]]

\* DirectionTracker::update: a tracker without a reading is left alone.
ReadFrame(head, gaze) ==
  LET reading == [head |-> head, gaze |-> gaze, eye |-> EyeInHead(gaze, head)]
      next == [row \in Rows |->
                 IF reading[row] = NoReading THEN tracker[row]
                 ELSE [axis \in Axes |-> AxisUpdate(tracker[row][axis], reading[row][axis])]]
  IN  /\ tracker' = next
      /\ directions' = [row \in Rows |-> IF reading[row] = NoReading THEN NoReading
                                         ELSE next[row]]
      /\ recording' = Append(recording, reading)
      /\ UNCHANGED bars

DirectionFrame ==
  /\ Len(recording) < MaxReadFrames
  /\ \E head, gaze \in Readings \union {NoReading} : ReadFrame(head, gaze)

\* A configuration update, or the start of another session; the readout of the
\* last frame stays published until the next one.
DirectionReload ==
  /\ bars' \in DirectionConfigs
  /\ tracker' = NewTrackers
  /\ recording' = <<>>
  /\ UNCHANGED directions

DirectionNext == DirectionFrame \/ DirectionReload

DirectionSpec == DirectionInit /\ [][DirectionNext]_directionVars

-----------------------------------------------------------------------------
(* Properties                                                              *)

DirectionTypeOK ==
  /\ bars.enter \in Int /\ bars.exit \in Int
  /\ bars.exit <= bars.enter /\ -bars.enter < bars.exit
  /\ tracker \in [Rows -> [Axes -> Labels]]
  /\ recording \in Seq([Rows -> [Axes -> Int] \union {NoReading}])

\* The angle was past the upper bar once, and past the lower one ever since,
\* frames without a reading aside.
Held(row, axis, sign) ==
  \E i \in 1..Len(recording) :
    /\ recording[i][row] # NoReading
    /\ sign * recording[i][row][axis] >= bars.enter
    /\ \A j \in (i + 1)..Len(recording) :
         recording[j][row] # NoReading => sign * recording[j][row][axis] >= bars.exit

\* A label says what the angles since the last reload say, however they moved and
\* whichever frames a model missed: one dropped estimate does not recentre it, a
\* swing to the far side shows at once (direction.rs:130-153, 184-189).
LabelsMatchRecording ==
  \A row \in Rows, axis \in Axes :
    /\ tracker[row][axis] = 1 <=> Held(row, axis, 1)
    /\ tracker[row][axis] = -1 <=> Held(row, axis, -1)

\* A row is empty exactly when its model did not run on the frame, and otherwise
\* shows its trackers: empty and centre are never confused (direction.rs:99-115).
RowsMatchFrame ==
  recording # <<>> =>
    \A row \in Rows :
      directions[row] = IF recording[Len(recording)][row] = NoReading THEN NoReading
                        ELSE tracker[row]

DirectionMatchesRecording == LabelsMatchRecording /\ RowsMatchFrame
=============================================================================
