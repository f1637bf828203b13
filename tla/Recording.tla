----------------------------- MODULE Recording -----------------------------
(***************************************************************************)
(* A corpus (cmd_record and cmd_replay of src/src/bin/detect-cli.rs): every*)
(* frame of a source goes through every model, one row each, into a file   *)
(* behind a buffer; replay reads the file back whole, or refuses it.  The  *)
(* recorder may fail, or be killed with rows in its buffer; the disk may   *)
(* be full.                                                                *)
(*                                                                         *)
(* A row is a frame's number, its slots and whether each has a value;      *)
(* serialized, it is two writes: the row and its line end.                 *)
(***************************************************************************)
EXTENDS Integers, Sequences

CONSTANTS
  Faces,            \* primary faces: score, width, and eyes (their distance) or NoEyes
  NoEyes,
  MinFaceScore,     \* of gaze, in percent
  Setups,           \* which of "pose", "gaze", "objects" are configured
  MaxFrames         \* --max-frames, or the length of the source: a bound as well

ASSUME RecordingAssumption ==
  /\ \A face \in Faces : /\ face.score \in Int /\ face.width \in Int
                         /\ face.eyes \in Nat \union {NoEyes}
  /\ NoEyes \notin Nat /\ MinFaceScore \in Int
  /\ Setups \subseteq SUBSET {"pose", "gaze", "objects"}
  /\ MaxFrames \in Nat \ {0}

VARIABLES
  setup,      \* models of this recording
  frame,      \* number of the next frame
  buffer,     \* rows not on disk yet
  disk,       \* rows on disk
  torn,       \* the file ends inside a row
  outcome,    \* of the command: "none", "recording", "written", "failed", "killed"
  computed,   \* auxiliary: every row there was
  verdict,    \* of replay on the file: "none", "accepted", "refused"
  replayed    \* the rows it accepted

recordingVars == <<setup, frame, buffer, disk, torn, outcome, computed, verdict, replayed>>

RecordingInit ==
  /\ setup = {} /\ frame = 0
  /\ buffer = <<>> /\ disk = <<>> /\ torn = FALSE
  /\ outcome = "none" /\ computed = <<>>
  /\ verdict = "none" /\ replayed = <<>>

-----------------------------------------------------------------------------
(* A row                                                                   *)

\* gate_reason: "none" runs the model.  The ratio is of the eyes to the box.
GateReason(face) ==
  IF face.score < MinFaceScore THEN "low_face_score"
  ELSE IF face.eyes = NoEyes THEN "none"
  ELSE IF face.width <= 0 THEN "degenerate_box"
  ELSE IF 100 * face.eyes < 15 * face.width THEN "eyes_too_close"
  ELSE IF 100 * face.eyes > 75 * face.width THEN "eyes_too_far"
  ELSE "none"

Runs == {"produced", "failed"}

PoseStates(face) ==
  IF "pose" \notin setup THEN {"absent"} ELSE IF face = {} THEN {"gated"} ELSE Runs

\* Mutant: the gate is asked after the model has run.
GazeStatesUngated(face) ==
  IF "gaze" \notin setup THEN {"absent"} ELSE IF face = {} THEN {"gated"} ELSE Runs

GazeStates(face) ==
  IF "gaze" \notin setup THEN {"absent"}
  ELSE IF face = {} \/ \E f \in face : GateReason(f) # "none" THEN {"gated"} ELSE Runs

ObjectStates == IF "objects" \notin setup THEN {"absent"} ELSE Runs

Gate(face, gaze) ==
  IF gaze # "gated" THEN "none"
  ELSE IF face = {} THEN "no_face" ELSE GateReason(CHOOSE f \in face : TRUE)

\* face: the primary one, or none.  A failed pose does not stop gaze, which then has
\* no eye-in-head.
RowsFor(face) ==
  {[seq |-> frame, face |-> face, pose |-> pose, gaze |-> gaze, objects |-> objects,
    eye |-> gaze = "produced" /\ pose = "produced", gate |-> Gate(face, gaze)] :
     pose \in PoseStates(face), gaze \in GazeStates(face), objects \in ObjectStates}

-----------------------------------------------------------------------------
(* cmd_record                                                              *)

\* The output file is created, over an older one, once the models are loaded.
StartRecording ==
  /\ outcome = "none"
  /\ setup' \in Setups
  /\ outcome' = "recording"
  /\ UNCHANGED <<frame, buffer, disk, torn, computed, verdict, replayed>>

\* One frame through every model; the frame limit is looked at when it is written.
RecordFrame ==
  /\ outcome = "recording" /\ frame < MaxFrames
  /\ \E face \in {{}} \union {{f} : f \in Faces} : \E row \in RowsFor(face) :
       /\ buffer' = Append(buffer, row)
       /\ computed' = Append(computed, row)
  /\ frame' = frame + 1
  /\ UNCHANGED <<setup, disk, torn, outcome, verdict, replayed>>

\* n rows of the buffer reach the disk, perhaps with part of the next.
Spill(n) ==
  /\ disk' = disk \o SubSeq(buffer, 1, n)
  /\ torn' \in (CASE n = Len(buffer) -> {torn /\ n = 0}
                  [] n < Len(buffer) -> {torn /\ n = 0, TRUE})

\* The buffer is full.
BufferSpills ==
  /\ outcome = "recording" /\ buffer # <<>>
  /\ \E n \in 0..Len(buffer) :
       Spill(n) /\ buffer' = SubSeq(buffer, n + 1, Len(buffer))
  /\ UNCHANGED <<setup, frame, outcome, computed, verdict, replayed>>

\* Mutant: what is left in the buffer is nobody's business.
RecordingEndsUnflushed ==
  /\ outcome = "recording"
  /\ outcome' = "written"
  /\ UNCHANGED <<setup, frame, buffer, disk, torn, computed, verdict, replayed>>

\* The source is through, or the limit is reached: flush, then the good news.
RecordingEnds ==
  /\ outcome = "recording"
  /\ disk' = disk \o buffer /\ buffer' = <<>> /\ torn' = FALSE
  /\ outcome' = "written"
  /\ UNCHANGED <<setup, frame, computed, verdict, replayed>>

\* The source, the face model or a write fails: the buffer is flushed by its drop,
\* as far as that goes, and the command says that it failed.
RecordingFails ==
  /\ outcome = "recording"
  /\ \E n \in 0..Len(buffer) : Spill(n)
  /\ buffer' = <<>>
  /\ outcome' = "failed"
  /\ UNCHANGED <<setup, frame, computed, verdict, replayed>>

RecorderKilled ==
  /\ outcome = "recording"
  /\ buffer' = <<>>
  /\ outcome' = "killed"
  /\ UNCHANGED <<setup, frame, disk, torn, computed, verdict, replayed>>

-----------------------------------------------------------------------------
(* cmd_replay                                                              *)

\* The file is read line by line; one that is not a row refuses all of it.
Replay ==
  /\ outcome \notin {"none", "recording"} /\ verdict = "none"
  /\ IF torn THEN verdict' = "refused" /\ UNCHANGED replayed
             ELSE verdict' = "accepted" /\ replayed' = disk
  /\ UNCHANGED <<setup, frame, buffer, disk, torn, outcome, computed>>

\* What replay says of gaze: frames with a face, and those where gaze ran.
WithFace == {k \in DOMAIN replayed : replayed[k].face # {}}
GazeRan == {k \in DOMAIN replayed : replayed[k].gaze = "produced"}
GateReasons == {k \in DOMAIN replayed : replayed[k].gate # "none"}

RecordingNext ==
  \/ StartRecording \/ RecordFrame \/ BufferSpills \/ RecordingEnds
  \/ RecordingFails \/ RecorderKilled \/ Replay

RecordingSpec == RecordingInit /\ [][RecordingNext]_recordingVars

-----------------------------------------------------------------------------
(* Properties                                                              *)

\* A replay is of frames 0, 1, 2, ... as they were computed, none missing and none
\* altered, however the recorder ended; and of all of them if it said it was done
\* (detect-cli.rs:519-526, 654-664, 828-853).
ReplayIsFaithful ==
  /\ verdict = "accepted" =>
       /\ replayed = SubSeq(computed, 1, Len(replayed))
       /\ \A k \in DOMAIN replayed : replayed[k].seq = k - 1
  /\ outcome = "written" => disk = computed /\ ~torn

\* The share of frames on which gaze ran is a share: every one had a face that
\* passed the gate, the other faced ones have a reason, or the model failed, and no
\* gated row carries a measurement (gaze.rs:205-228, detect-cli.rs:587-616, 896-905).
GazeIsAccountedFor ==
  verdict = "accepted" =>
    /\ GazeRan \subseteq WithFace /\ GazeRan \cap GateReasons = {}
    /\ "gaze" \in setup =>
         \A k \in DOMAIN replayed \ (GazeRan \union GateReasons) : replayed[k].gaze = "failed"
    /\ \A k \in GazeRan : \A face \in replayed[k].face :
         /\ face.score >= MinFaceScore
         /\ face.eyes # NoEyes =>
              face.width > 0 /\ 100 * face.eyes \in (15 * face.width)..(75 * face.width)
=============================================================================
