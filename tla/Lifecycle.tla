----------------------------- MODULE Lifecycle -----------------------------
(***************************************************************************)
(* A Detector from the outside (src/src/pipeline/mod.rs, and cmd_live of   *)
(* src/src/bin/detect-cli.rs, its caller here): a source is opened, start  *)
(* hands it to the capture thread, the caller polls until the session is   *)
(* over or it has had enough, and stop joins the threads.  After that the  *)
(* caller may open another source and start again.                         *)
(*                                                                         *)
(* The threads are reduced to what a caller sees of them.  Module Pipeline *)
(* has their loops access by access; here the detect worker's loop head is *)
(* one step, and its frame goes through face model, fusion and publication *)
(* in the order of detect_loop.                                            *)
(***************************************************************************)
EXTENDS Capture

CONSTANT MaxSources   \* bound on the sources a caller opens

ASSUME LifecycleAssumption == MaxSources \in Nat

VARIABLES
  ctl,           \* where the caller is
  sources,       \* sources opened
  threads,       \* join handles the detector holds
  capture, worker,   \* places of the capture and the detect thread
  stop, captureDone,   \* which outcome ended the capture is kept in Pipeline
  slot, captured,    \* bus: number of the frame in the slot, frames published
  seen,          \* detect worker: last_seen
  active,        \* frame whose fusion step active_violations reflects
  latest,        \* frame published with its signals
  processed,     \* frames_detected
  snapshot,      \* frames of the signals and of the violations in a snapshot
  ended          \* auxiliary: a stop() has returned with every thread joined

callerVars == <<ctl, sources, threads, snapshot, ended>>
flagVars == <<stop, captureDone>>
busVars == <<slot, captured>>
workerVars == <<worker, seen, active, latest, processed>>
sessionVars == <<callerVars, capture, flagVars, busVars, workerVars>>
vars == <<captureVars, sessionVars>>

None == -1
Cleared == -2    \* active_violations after the end of the session
NoSnapshot == [signals |-> None, violations |-> None]

Init ==
  /\ CaptureInit
  /\ ctl = "idle" /\ sources = 0 /\ threads = {}
  /\ capture = "none" /\ worker = "none"
  /\ stop = FALSE /\ captureDone = FALSE
  /\ slot = 0 /\ captured = 0 /\ seen = 0
  /\ active = None /\ latest = None /\ processed = 0
  /\ snapshot = NoSnapshot
  /\ ended = FALSE

Exited(place) == place \in {"none", "exited"}

-----------------------------------------------------------------------------
(* The caller: opening, start, and the loop of cmd_live.                   *)

Open ==
  /\ ctl \in {"idle", "stopped"} /\ Exited(capture)
  /\ sources < MaxSources
  /\ OpenSource
  /\ sources' = sources + 1
  /\ ctl' = "opening"
  /\ UNCHANGED <<threads, snapshot, ended, capture, flagVars, busVars,
                 workerVars>>

Opened ==
  /\ ctl = "opening"
  /\ \/ CameraOpened
     \/ phase \in {"open", "refused"} /\ UNCHANGED captureVars
  /\ ctl' = IF phase' = "open" THEN "opened" ELSE "idle"
  /\ UNCHANGED <<sources, threads, snapshot, ended, capture, flagVars,
                 busVars, workerVars>>

\* start() without a face model, or with a broken one: the source is dropped.
StartRefused ==
  /\ ctl = "opened"
  /\ DropSource
  /\ ctl' = "idle"
  /\ UNCHANGED <<sources, threads, snapshot, ended, capture, flagVars,
                 busVars, workerVars>>

\* Mutant: a new session takes the flag down.
StartCaptureAfresh ==
  /\ ctl = "opened"
  /\ ctl' = "starting"
  /\ capture' = "stop?"
  /\ stop' = FALSE
  /\ UNCHANGED <<captureVars, sources, threads, snapshot, ended,
                 captureDone, busVars, workerVars>>

\* start(): capture runs while the slow models load.  Flags keep their values.
StartCapture ==
  /\ ctl = "opened"
  /\ ctl' = "starting"
  /\ capture' = "stop?"
  /\ UNCHANGED <<captureVars, sources, threads, snapshot, ended,
                 flagVars, busVars, workerVars>>

\* The handles are kept once both threads run; if the second cannot be
\* spawned, start() fails and the first one's handle is gone.
StartDetect ==
  /\ ctl = "starting"
  /\ \/ /\ ctl' = "running"
        /\ threads' = {"capture", "detect"}
        /\ worker' = "head" /\ seen' = 0
     \/ ctl' = "leave" /\ UNCHANGED <<threads, worker, seen>>
  /\ UNCHANGED <<captureVars, sources, snapshot, ended, capture,
                 flagVars, busVars, active, latest, processed>>

IsRunning == threads # {} /\ ~captureDone

Poll ==
  /\ ctl = "running"
  /\ ctl' = IF IsRunning THEN "observe" ELSE "leave"
  /\ UNCHANGED <<captureVars, sources, threads, snapshot, ended,
                 capture, flagVars, busVars, workerVars>>

\* latest(), and now and then a picture of it; failing to write one drops the detector.
Observe ==
  /\ ctl = "observe"
  /\ ctl' \in (IF latest = None THEN {"report"} ELSE {"report", "leave"})
  /\ UNCHANGED <<captureVars, sources, threads, snapshot, ended, capture, flagVars,
                 busVars, workerVars>>

\* snapshot() reads `latest` first...
SnapshotSignals ==
  /\ ctl = "report"
  /\ snapshot' = [signals |-> latest, violations |-> None]
  /\ ctl' = IF latest = None THEN "limit" ELSE "violations"
  /\ UNCHANGED <<captureVars, sources, threads, ended, capture,
                 flagVars, busVars, workerVars>>

\* ...and the active violations afterwards.
SnapshotViolations ==
  /\ ctl = "violations"
  /\ snapshot' = [snapshot EXCEPT !.violations = active]
  /\ ctl' = "limit"
  /\ UNCHANGED <<captureVars, sources, threads, ended, capture,
                 flagVars, busVars, workerVars>>

\* The loop goes on, or as many frames as were asked for are there.
CheckLimit ==
  /\ ctl = "limit"
  /\ ctl' \in {"running", "leave"}
  /\ UNCHANGED <<captureVars, sources, threads, snapshot, ended,
                 capture, flagVars, busVars, workerVars>>

\* stop(), called at the end of cmd_live and by Drop on every other way out.
Stop ==
  /\ ctl = "leave"
  /\ stop' = TRUE
  /\ ctl' = "joining"
  /\ UNCHANGED <<captureVars, sources, threads, snapshot, ended,
                 capture, captureDone, busVars, workerVars>>

Joined ==
  /\ ctl = "joining"
  /\ "capture" \in threads => Exited(capture)
  /\ "detect" \in threads => Exited(worker)
  /\ ctl' = "stopped"
  /\ ended' = (ended \/ threads # {})
  /\ threads' = {}
  /\ snapshot' = NoSnapshot
  /\ UNCHANGED <<captureVars, sources, capture, flagVars, busVars, workerVars>>

-----------------------------------------------------------------------------
(* capture_loop.                                                           *)

CaptureCalls ==
  /\ capture = "stop?"
  /\ IF stop THEN capture' = "finish" /\ UNCHANGED captureVars
             ELSE capture' = "calling" /\ NextFrame
  /\ UNCHANGED <<callerVars, flagVars, busVars, workerVars>>

CaptureTakes ==
  /\ capture = "calling" /\ call = "returned"
  /\ call' = "idle" /\ ret' = Nothing
  /\ IF ret.kind = "frame"
     THEN slot' = ret.seq /\ captured' = captured + 1 /\ capture' = "stop?"
     ELSE capture' = "finish" /\ UNCHANGED busVars
  /\ UNCHANGED <<childVars, drainVars, readVars, sourceVars, callerVars, flagVars,
                 workerVars>>

CaptureFinishes ==
  /\ capture = "finish"
  /\ captureDone' = TRUE
  /\ capture' = "dropping"
  /\ UNCHANGED <<captureVars, callerVars, stop, busVars, workerVars>>

\* Mutant: the process is left to itself.
CaptureLeavesProcess ==
  /\ capture = "dropping"
  /\ capture' = "exited"
  /\ phase' = "dropped"
  /\ UNCHANGED <<childVars, drainVars, readVars, kind, primed, files, next, call, ret,
                 callerVars, flagVars, busVars, workerVars>>

\* The loop owned the source, which goes with it.
CaptureDrops ==
  /\ capture = "dropping"
  /\ capture' = "exited"
  /\ DropSource
  /\ UNCHANGED <<callerVars, flagVars, busVars, workerVars>>

-----------------------------------------------------------------------------
(* detect_loop.                                                            *)

WorkerHead ==
  /\ worker = "head"
  /\ \/ /\ stop \/ (captureDone /\ slot <= seen)
        /\ worker' = "closing" /\ UNCHANGED seen
     \/ /\ ~stop /\ slot > seen
        /\ worker' = "face" /\ seen' = slot
  /\ UNCHANGED <<captureVars, callerVars, capture, flagVars, busVars, active, latest,
                 processed>>

\* Mutant: the violations are listed before fusion has seen the frame.
WorkerListsFirst ==
  /\ worker = "face"
  /\ \/ worker' = "publish" /\ active' = latest
     \/ worker' = "head" /\ UNCHANGED active
  /\ UNCHANGED <<captureVars, callerVars, capture, flagVars, busVars, seen, latest,
                 processed>>

\* Fusion steps and its violations are listed, unless the face model fails.
WorkerFuses ==
  /\ worker = "face"
  /\ \/ worker' = "publish" /\ active' = seen
     \/ worker' = "head" /\ UNCHANGED active
  /\ UNCHANGED <<captureVars, callerVars, capture, flagVars, busVars, seen, latest,
                 processed>>

WorkerPublishes ==
  /\ worker = "publish"
  /\ processed' = processed + 1
  /\ latest' = seen
  /\ worker' = "head"
  /\ UNCHANGED <<captureVars, callerVars, capture, flagVars, busVars, seen, active>>

WorkerCloses ==
  /\ worker = "closing"
  /\ active' = Cleared
  /\ worker' = "exited"
  /\ UNCHANGED <<captureVars, callerVars, capture, flagVars, busVars, seen, latest,
                 processed>>

-----------------------------------------------------------------------------
Outside(action) == action /\ UNCHANGED sessionVars

Environment ==
  Outside(ChildWantsToSay) \/ Outside(ChildFallsSilent) \/ Outside(ReadFails)
Process == Outside(ChildGoesOn)
Stderr == Outside(Drain)
CaptureThread ==
  \/ CaptureCalls \/ CaptureTakes \/ CaptureFinishes \/ CaptureDrops
  \/ Outside(Reading)
Worker == WorkerHead \/ WorkerFuses \/ WorkerPublishes \/ WorkerCloses
Caller ==
  \/ Opened \/ StartRefused \/ StartCapture \/ StartDetect
  \/ Poll \/ Observe \/ SnapshotSignals \/ SnapshotViolations \/ CheckLimit
  \/ Stop \/ Joined

Next == Open \/ Caller \/ CaptureThread \/ Worker \/ Process \/ Stderr \/ Environment

Spec == Init /\ [][Next]_vars

\* Threads and processes are scheduled, and a call that can go on does.  A caller
\* need not open a source, a child may fall silent at any time, and no read has to fail.
Fairness ==
  /\ WF_vars(Caller) /\ WF_vars(CaptureThread) /\ WF_vars(Worker)
  /\ WF_vars(Process) /\ WF_vars(Stderr)

FairSpec == Spec /\ Fairness

-----------------------------------------------------------------------------
(* Properties                                                              *)

TypeOK ==
  /\ CaptureTypeOK
  /\ ctl \in {"idle", "opening", "opened", "starting", "running", "observe", "report",
              "violations", "limit", "leave", "joining", "stopped"}
  /\ sources \in 0..MaxSources
  /\ threads \in {{}, {"capture", "detect"}}
  /\ capture \in {"none", "stop?", "calling", "finish", "dropping", "exited"}
  /\ worker \in {"none", "head", "face", "publish", "closing", "exited"}
  /\ {stop, captureDone, ended} \subseteq BOOLEAN
  /\ {slot, captured, seen, processed} \subseteq Nat
  /\ active \in Nat \union {None, Cleared}
  /\ latest \in Nat \union {None}
  /\ snapshot.signals \in Nat \union {None}
  /\ snapshot.violations \in Nat \union {None, Cleared}

\* What the capture thread is given is numbered 0, 1, 2, ..., whatever the source
\* and whatever frame open() read ahead (camera.rs:410-427, 450-455).
FramesAreNumbered ==
  capture = "calling" /\ call = "returned" /\ ret.kind = "frame" => ret.seq = captured

\* A session that ends "because the source ran out" had a source that may: a
\* camera's loss is an error, unless the stream stopped inside a frame
\* (ffmpeg.rs:146-179; workers.rs:61-77).
LossIsAnError ==
  capture = "calling" /\ call = "returned" /\ ret.kind = "end" =>
    /\ kind = "camera" => cut
    /\ kind = "file" => cut \/ child = "exited"
    /\ kind = "dir" => next > Len(files)

\* No ffmpeg outlives its session: once stop() has joined the capture thread, or a
\* source was refused, none is running (ffmpeg.rs:193-200, mod.rs:481-486).
NoOrphan ==
  (ctl \in {"idle", "stopped"} /\ Exited(capture)) => ~Alive

\* A snapshot reads two places one after the other; its violations are never
\* older than the signals beside them (mod.rs:494-519, workers.rs:266-287).
SnapshotNotOlder ==
  (ctl = "limit" /\ snapshot.signals # None) =>
    snapshot.violations = Cleared \/ snapshot.violations >= snapshot.signals

\* A detector has one session: after stop() has returned, a second start() spawns
\* threads that leave at once, and nothing is captured or published again
\* (mod.rs:341-344, 481-486; workers.rs:51-53, 110-112).
StopIsFinal == [][ended => UNCHANGED <<captured, slot, processed, latest>>]_vars

\* Where FrameStream has the detect worker.
WorkerPlace ==
  CASE worker = "none" -> "away"
    [] worker = "head" -> "reading"
    [] worker \in {"face", "publish"} -> "holding"
    [] worker \in {"closing", "exited"} -> "left"

Stream == INSTANCE FrameStream
            WITH Readers <- {"detect"},
                 published <- captured, newest <- slot,
                 closed <- captureDone, stopping <- stop,
                 late <- IF stop /\ capture = "calling" THEN {"capture"} ELSE {},
                 place <- [r \in {"detect"} |-> WorkerPlace],
                 cursor <- [r \in {"detect"} |-> seen],
                 handed <- [r \in {"detect"} |-> IF latest = None THEN 0 ELSE latest]

\* The frames a source gives, whatever it is, are the FrameStream that Pipeline
\* has of a source without a cause for anything; a second session after stop()
\* adds a reader that leaves and no frame (workers.rs:51-130, mod.rs:341-344).
StreamSpec == Stream!FSpec

\* stop() returns, and every thread leaves, joined or not; only a camera that has
\* fallen silent without closing its stream holds them (mod.rs:481-486).
StopReturns ==
  (ctl = "joining") ~> \/ ctl = "stopped" /\ Exited(capture) /\ Exited(worker)
                       \/ child = "silent"

\* A process that is gone is noticed, whatever it was doing and saying at the time:
\* the capture thread does not wait for it (ffmpeg.rs:85-98, 133-146).
LossIsNoticed ==
  (capture = "calling" /\ child \in {"exited", "failed"}) ~> captureDone
=============================================================================
