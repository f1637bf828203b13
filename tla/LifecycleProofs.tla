-------------------------- MODULE LifecycleProofs --------------------------
(***************************************************************************)
(* Proofs about Lifecycle, for sources of any length, frames of any number *)
(* of chunks, pipes of any size and any number of sources opened.          *)
(*                                                                         *)
(* Everything rests on who may act on the source: its opener, then the     *)
(* capture thread, never both (Places).  The parts of the inductive        *)
(* invariant that come after it are independent of one another.            *)
(***************************************************************************)
EXTENDS Lifecycle, TLAPS

Phases == {"closed", "priming", "open", "refused", "dropped"}
Processes == {"none", "running", "silent", "exited", "failed", "killed"}
Calls == {"idle", "reading", "joining", "returned"}
Outcomes == [kind : {"nothing", "frame", "end", "error", "broken"},
             seq : Nat, from : Int, text : Nat]

\* What the steps need to know of the values.
SourceTyped ==
  /\ kind \in {"none", "camera", "file", "dir"}
  /\ phase \in Phases /\ child \in Processes /\ call \in Calls
  /\ drain \in {"none", "reading", "ended"}
  /\ wrote \in Nat /\ taken \in Nat /\ said \in Nat /\ heard \in Nat /\ text \in Nat
  /\ filled \in 0..(ChunksPerFrame - 1)
  /\ seq \in Nat /\ next \in Nat
  /\ ret \in Outcomes /\ primed \in Outcomes

SessionTyped ==
  /\ capture \in {"none", "stop?", "calling", "finish", "dropping", "exited"}
  /\ worker \in {"none", "head", "face", "publish", "closing", "exited"}
  /\ threads \in {{}, {"capture", "detect"}}
  /\ slot \in Nat /\ captured \in Nat /\ seen \in Nat
  /\ active \in Nat \union {None, Cleared}
  /\ latest \in Nat \union {None}
  /\ snapshot \in [signals : Nat \union {None},
                   violations : Nat \union {None, Cleared}]

Typed == SourceTyped /\ SessionTyped

\* The source belongs to its opener, then to the capture thread; it is read while it
\* is primed or called, by whoever owns it.
Places ==
  /\ ~Exited(capture) => phase = "open"
  /\ ctl \in {"opening", "opened"} => Exited(capture)
  /\ ctl = "opened" => phase = "open"
  /\ phase = "priming" => ctl = "opening"
  /\ phase = "open" => ctl \in {"opening", "opened"} \/ ~Exited(capture)
  /\ call # "idle" => phase = "priming" \/ capture = "calling"
  /\ capture = "calling" => call # "idle"
  /\ ctl = "joining" => stop
  /\ ctl \in {"idle", "opening", "opened", "starting", "stopped"} =>
       /\ threads = {}
       /\ ~stop => latest = None
  /\ threads = {} => Exited(worker)
  /\ ctl \in {"idle", "opening", "opened", "stopped"} =>
       stop \/ (captured = 0 /\ Exited(capture))

-----------------------------------------------------------------------------
(* The steps                                                               *)

\* A source is opened by a caller that has none, and starts from nothing.
LEMMA OpeningSource ==
  ASSUME Open
  PROVE  /\ ctl \in {"idle", "stopped"} /\ Exited(capture) /\ ctl' = "opening"
         /\ kind' \in {"camera", "file", "dir"}
         /\ phase' \in {"priming", "open", "refused"}
         /\ child' \in {"none", "running"} /\ (child' = "running" => phase' # "refused")
         /\ drain' \in {"none", "reading"}
         /\ call' \in {"idle", "reading"} /\ (call' = "reading" <=> phase' = "priming")
         /\ phase' = "priming" => kind' = "camera"
         /\ phase' = "open" => kind' # "camera"
         /\ wants' = FALSE /\ wrote' = 0 /\ said' = 0 /\ heard' = 0 /\ text' = 0
         /\ taken' = 0 /\ filled' = 0 /\ done' = FALSE /\ seq' = 0 /\ cut' = FALSE
         /\ primed' = Nothing /\ ret' = Nothing /\ next' = 1
         /\ UNCHANGED <<threads, snapshot, ended, capture, flagVars, busVars, workerVars>>
<1>1. OpenSource
  BY DEF Open
<1>2. CASE OpenCamera
  BY <1>2 DEF Open, OpenCamera, Refuse, Begin
<1>3. CASE OpenFile
  BY <1>3 DEF Open, OpenFile, Refuse, Begin
<1>4. CASE OpenDirectory
  BY <1>4 DEF Open, OpenDirectory, Refuse, Begin
<1> QED
  BY <1>1, <1>2, <1>3, <1>4 DEF OpenSource

LEMMA OutcomesTyped ==
  /\ Nothing \in Outcomes /\ End \in Outcomes /\ Broken \in Outcomes
  /\ \A n \in Nat, from \in Int : Outcome("frame", n, from, 0) \in Outcomes
  /\ \A message \in Nat : Outcome("error", 0, 0, message) \in Outcomes
BY DEF Nothing, End, Broken, Outcome, Outcomes

LEMMA ReadTyped ==
  ASSUME SourceTyped, Reading \/ ReadFails \/ NextFrame
  PROVE  SourceTyped'
<1> USE OutcomesTyped, CaptureAssumption DEF SourceTyped, Phases, Processes, Calls,
        childVars, drainVars, sourceVars
<1>1. CASE ReadSome
  <2>1. PICK n \in 1..(ChunksPerFrame - filled) : ReadSome!2!(n)
    BY <1>1 DEF ReadSome
  <2>2. taken' \in Nat /\ filled' \in 0..(ChunksPerFrame - 1) /\ seq' \in Nat
    <3>1. CASE filled + n < ChunksPerFrame
      BY <2>1, <3>1
    <3>2. CASE ~(filled + n < ChunksPerFrame)
      BY <2>1, <3>2
    <3> QED
      BY <3>1, <3>2
  <2>3. taken + n - ChunksPerFrame \in Int
    OBVIOUS
  <2>4. Outcome("frame", seq, taken + n - ChunksPerFrame, 0) \in Outcomes
    BY <2>3
  <2>5. ret' \in Outcomes /\ call' \in Calls
    BY <2>1, <2>4 DEF Return
  <2> QED
    BY <1>1, <2>2, <2>5 DEF ReadSome
<1>2. CASE ReadEnd
  BY <1>2 DEF ReadEnd, Return
<1>3. CASE ReportEnd
  BY <1>3 DEF ReportEnd, Return, StreamEnd, readVars
<1>4. CASE ReadFails
  BY <1>4 DEF ReadFails, Return
<1>5. CASE NextFrame
  <2>1. CASE kind = "dir"
    <3>1. Outcome("frame", seq, next, 0) \in Outcomes
      OBVIOUS
    <3>2. ret' \in Outcomes
      BY <1>5, <2>1, <3>1 DEF NextFrame, NextPicture, Return
    <3>3. next' \in Nat /\ seq' \in Nat
      <4>1. next \in Nat /\ seq \in Nat
        OBVIOUS
      <4>2. next' \in {next, next + 1} /\ seq' \in {seq, seq + 1}
        BY <1>5, <2>1 DEF NextFrame, NextPicture
      <4> QED
        BY <4>1, <4>2
    <3>4. call' = "returned"
      BY <1>5, <2>1 DEF NextFrame, NextPicture, Return
    <3>5. UNCHANGED <<childVars, drainVars, taken, filled, kind, phase, primed>>
      BY <1>5, <2>1 DEF NextFrame, NextPicture
    <3> QED
      BY <3>2, <3>3, <3>4, <3>5
  <2>2. CASE kind # "dir"
    BY <1>5, <2>2 DEF NextFrame, NextFromPipe, Return
  <2> QED
    BY <2>1, <2>2
<1> QED
  BY <1>1, <1>2, <1>3, <1>4, <1>5 DEF Reading

LEMMA DropTyped ==
  ASSUME SourceTyped, DropSource
  PROVE  SourceTyped'
BY OutcomesTyped, CaptureAssumption
DEF SourceTyped, DropSource, drainVars, Phases, Processes, Calls, Alive

\* The values stay what they are.
LEMMA SourceTypedStep ==
  ASSUME Typed, [Next]_vars
  PROVE  SourceTyped'
<1> USE CaptureAssumption DEF Typed
<1>0. CASE UNCHANGED captureVars
  BY <1>0 DEF SourceTyped, captureVars, childVars, drainVars, readVars, sourceVars
<1>1. CASE Open
  BY <1>1, OpeningSource, OutcomesTyped DEF SourceTyped, Phases, Processes, Calls
<1>2. CASE CameraOpened
  BY <1>2, OutcomesTyped
  DEF CameraOpened, SourceTyped, Phases, Processes, Calls, drainVars, readVars
<1>3. CASE DropSource
  BY <1>3, DropTyped
<1>4. CASE Reading \/ ReadFails \/ NextFrame
  BY <1>4, ReadTyped
<1>5. CASE CaptureTakes
  BY <1>5, OutcomesTyped
  DEF CaptureTakes, SourceTyped, Calls, childVars, drainVars, readVars, sourceVars
<1>6. CASE ChildGoesOn \/ Drain \/ ChildWantsToSay \/ ChildFallsSilent
  <2>1. UNCHANGED <<kind, phase, taken, filled, seq, next, ret, primed, call>>
    BY <1>6 DEF ChildGoesOn, ChildWrites, ChildSays, ChildExits, Drain, DrainReads, DrainEnds,
       ChildWantsToSay, ChildFallsSilent, readVars, sourceVars
  <2>2. wrote' \in Nat /\ said' \in Nat /\ child' \in Processes
    BY <1>6 DEF ChildGoesOn, ChildWrites, ChildSays, ChildExits, Drain, DrainReads, DrainEnds,
       ChildWantsToSay, ChildFallsSilent, SourceTyped, Processes, childVars
  <2>3. heard' \in Nat /\ text' \in Nat /\ drain' \in {"none", "reading", "ended"}
    BY <1>6 DEF ChildGoesOn, ChildWrites, ChildSays, ChildExits, Drain, DrainReads, DrainEnds,
       ChildWantsToSay, ChildFallsSilent, SourceTyped, drainVars
  <2> QED
    BY <2>1, <2>2, <2>3 DEF SourceTyped
<1> QED
  BY <1>0, <1>1, <1>2, <1>3, <1>4, <1>5, <1>6
  DEF Next, vars, Caller, Opened, StartRefused, StartCapture, StartDetect, Poll, Observe,
      SnapshotSignals, SnapshotViolations, CheckLimit, Stop, Joined, CaptureThread,
      CaptureCalls, CaptureFinishes, CaptureDrops, Outside, Worker, WorkerHead,
      WorkerFuses, WorkerPublishes, WorkerCloses, Process, Stderr, Environment

LEMMA SessionTypedStep ==
  ASSUME Typed, [Next]_vars
  PROVE  SessionTyped'
<1> USE DEF Typed, SessionTyped, None, Cleared, flagVars, busVars, workerVars, callerVars
<1>1. CASE Open
  BY <1>1, OpeningSource
<1>2. CASE Caller
  <2>1. CASE SnapshotSignals \/ SnapshotViolations
    BY <2>1 DEF SnapshotSignals, SnapshotViolations
  <2>2. CASE Joined
    BY <2>2 DEF Joined, NoSnapshot
  <2>3. CASE StartDetect
    BY <2>3 DEF StartDetect
  <2> QED
    BY <1>2, <2>1, <2>2, <2>3 DEF Caller, Opened, StartRefused, StartCapture, Poll,
       Observe, CheckLimit, Stop
<1>3. CASE CaptureThread
  <2>1. CASE CaptureTakes
    BY <2>1 DEF CaptureTakes, SourceTyped, Outcomes
  <2> QED
    BY <1>3, <2>1 DEF CaptureThread, CaptureCalls, CaptureFinishes, CaptureDrops,
       Outside, sessionVars
<1>4. CASE Worker
  BY <1>4 DEF Worker, WorkerHead, WorkerFuses, WorkerPublishes, WorkerCloses
<1>5. CASE Process \/ Stderr \/ Environment \/ UNCHANGED vars
  BY <1>5 DEF Process, Stderr, Environment, Outside, vars, sessionVars
<1> QED
  BY <1>1, <1>2, <1>3, <1>4, <1>5 DEF Next

\* And so does the ownership of the source.
LEMMA PlacesStep ==
  ASSUME Typed, Places, [Next]_vars
  PROVE  Places'
<1> USE DEF Typed, Places, Exited
<1>1. CASE Open
  BY <1>1, OpeningSource DEF flagVars, busVars, workerVars
<1>2. CASE Caller
  <2>1. CASE Opened
    BY <2>1 DEF Opened, CameraOpened, captureVars, childVars, drainVars, readVars,
       sourceVars, flagVars, busVars, workerVars
  <2>2. CASE StartRefused \/ StartCapture \/ StartDetect
    BY <2>2 DEF StartRefused, StartCapture, StartDetect, DropSource, captureVars, childVars,
       drainVars, readVars, sourceVars, flagVars, busVars, workerVars
  <2>3. CASE Joined
    <3>1. UNCHANGED <<phase, call, capture, stop, worker, latest, captured>>
      BY <2>3 DEF Joined, captureVars, sourceVars, flagVars, busVars, workerVars
    <3>2. ctl = "joining" /\ ctl' = "stopped" /\ threads' = {}
      BY <2>3 DEF Joined
    <3>3. Exited(worker)
      BY <2>3 DEF Joined, SessionTyped
    <3>4. stop /\ stop'
      BY <3>1, <3>2
    <3> QED
      BY <3>1, <3>2, <3>3, <3>4
  <2>5. CASE Stop
    BY <2>5 DEF Stop, captureVars, sourceVars, busVars, workerVars
  <2>4. CASE Poll \/ Observe \/ SnapshotSignals \/ SnapshotViolations \/ CheckLimit
    BY <2>4 DEF Poll, Observe, SnapshotSignals, SnapshotViolations, CheckLimit,
       captureVars, childVars, drainVars, readVars, sourceVars, flagVars, busVars, workerVars
  <2> QED
    BY <1>2, <2>1, <2>2, <2>3, <2>4, <2>5 DEF Caller
<1>3. CASE CaptureThread
  BY <1>3 DEF CaptureThread, CaptureCalls, CaptureTakes, CaptureFinishes, CaptureDrops,
     NextFrame, NextPicture, NextFromPipe, Return, Outside, Reading, ReadSome, ReadEnd,
     ReportEnd, DropSource, captureVars, childVars, drainVars,
     readVars, sourceVars, flagVars, busVars, workerVars, callerVars, sessionVars
<1>4. CASE Worker
  BY <1>4 DEF Worker, WorkerHead, WorkerFuses, WorkerPublishes, WorkerCloses,
     captureVars, childVars, drainVars,
     readVars, sourceVars, flagVars, busVars, workerVars, callerVars
<1>5. CASE Process \/ Stderr \/ Environment
  BY <1>5 DEF Process, Stderr, Environment, Outside, ChildGoesOn, ChildWrites, ChildSays,
     ChildExits, Drain, DrainReads, DrainEnds, ChildWantsToSay, ChildFallsSilent, ReadFails,
     Return, captureVars, childVars, drainVars,
     readVars, sourceVars, flagVars, busVars, workerVars, callerVars, sessionVars
<1>6. CASE UNCHANGED vars
  BY <1>6 DEF vars, captureVars, childVars, drainVars,
     readVars, sourceVars, flagVars, busVars, workerVars, callerVars, sessionVars
<1> QED
  BY <1>1, <1>2, <1>3, <1>4, <1>5, <1>6 DEF Next

LEMMA InitOwned ==
  ASSUME Init
  PROVE  Typed /\ Places
BY CaptureAssumption, OutcomesTyped
DEF Init, CaptureInit, Typed, SourceTyped, SessionTyped, Places, Exited, Phases, Processes,
    Calls, None, Cleared, NoSnapshot

Owned == Typed /\ Places

LEMMA OwnedStep ==
  ASSUME Owned, [Next]_vars
  PROVE  Owned'
BY SourceTypedStep, SessionTypedStep, PlacesStep DEF Owned, Typed

-----------------------------------------------------------------------------
(* After stop()                                                            *)

\* Once the threads were joined the flag stays up, and no loop gets past its head.
Finished ==
  ended => stop /\ capture # "calling" /\ worker \notin {"face", "publish"}

LEMMA FinishedStep ==
  ASSUME Owned, Finished, [Next]_vars
  PROVE  Finished' /\ (ended => UNCHANGED <<captured, slot, processed, latest>>)
<1> USE DEF Finished, Owned, Typed, SessionTyped, Places, Exited
<1>1. CASE Open
  BY <1>1, OpeningSource DEF flagVars, busVars, workerVars
<1>2. CASE Caller
  <2>1. CASE Joined
    <3>1. stop' /\ UNCHANGED <<captured, slot, processed, latest, capture, worker>>
      BY <2>1 DEF Joined, flagVars, busVars, workerVars
    <3>2. ended' => ended \/ threads = {"capture", "detect"}
      BY <2>1 DEF Joined
    <3>3. threads = {"capture", "detect"} => Exited(capture) /\ Exited(worker)
      BY <2>1 DEF Joined
    <3> QED
      BY <3>1, <3>2, <3>3
  <2>2. CASE Stop \/ StartRefused \/ StartCapture \/ StartDetect
    BY <2>2 DEF Stop, StartRefused, StartCapture, StartDetect, flagVars, busVars, workerVars
  <2>3. CASE Opened \/ Poll \/ Observe \/ SnapshotSignals \/ SnapshotViolations \/ CheckLimit
    BY <2>3 DEF Opened, Poll, Observe, SnapshotSignals, SnapshotViolations, CheckLimit,
       flagVars, busVars, workerVars
  <2> QED
    BY <1>2, <2>1, <2>2, <2>3 DEF Caller
<1>3. CASE CaptureThread
  BY <1>3 DEF CaptureThread, CaptureCalls, CaptureTakes, CaptureFinishes, CaptureDrops,
     Outside, callerVars, flagVars, busVars, workerVars, sessionVars
<1>4. CASE Worker
  BY <1>4 DEF Worker, WorkerHead, WorkerFuses, WorkerPublishes, WorkerCloses, callerVars,
     flagVars, busVars
<1>5. CASE Process \/ Stderr \/ Environment \/ UNCHANGED vars
  BY <1>5 DEF Process, Stderr, Environment, Outside, vars, callerVars, flagVars, busVars,
     workerVars, sessionVars
<1> QED
  BY <1>1, <1>2, <1>3, <1>4, <1>5 DEF Next

\* A detector has one session: nothing is captured or published after stop() has
\* returned, whatever is started then (mod.rs:341-344, 481-486).
THEOREM OneSession == Spec => StopIsFinal
<1>1. Init => Owned /\ Finished
  BY InitOwned DEF Owned, Init, Finished
<1>2. Owned /\ Finished /\ [Next]_vars => Owned' /\ Finished'
  BY OwnedStep, FinishedStep
<1>3. Owned /\ Finished /\ [Next]_vars =>
        [ended => UNCHANGED <<captured, slot, processed, latest>>]_vars
  BY FinishedStep
<1> QED
  BY <1>1, <1>2, <1>3, PTL DEF Spec, StopIsFinal

-----------------------------------------------------------------------------
(* The message of a dead process                                           *)

\* The thread on stderr ends after the process, with all of its messages; and an
\* error is returned after it.
Explained ==
  /\ drain = "ended" => Gone /\ text = said
  /\ ret.kind = "error" => drain = "ended" /\ ret.text = text
  /\ primed.kind \in {"nothing", "frame"}

\* The steps that touch the source, as the parts of the invariant see them.
LEMMA SourceSteps ==
  ASSUME [Next]_vars
  PROVE  \/ UNCHANGED captureVars
         \/ Open
         \/ CameraOpened \/ DropSource \/ CaptureTakes
         \/ NextFrame /\ capture = "stop?"
         \/ Reading \/ ReadFails
         \/ ChildGoesOn \/ Drain \/ ChildWantsToSay \/ ChildFallsSilent
BY DEF Next, vars, Caller, Opened, StartRefused, StartCapture, StartDetect, Poll, Observe,
   SnapshotSignals, SnapshotViolations, CheckLimit, Stop, Joined, CaptureThread,
   CaptureCalls, CaptureFinishes, CaptureDrops, Outside, Worker, WorkerHead,
   WorkerFuses, WorkerPublishes, WorkerCloses, Process, Stderr, Environment

\* A capture thread that is leaving only lets go of its source.
LEMMA Leaving ==
  ASSUME Owned, [Next]_vars, capture \in {"finish", "dropping"}
  PROVE  capture' \in {"finish", "dropping"} \/ DropSource
BY DEF Owned, Places, Exited, Next, vars, Open, Caller, Opened, StartRefused, StartCapture,
   StartDetect, Poll, Observe, SnapshotSignals, SnapshotViolations, CheckLimit, Stop, Joined,
   CaptureThread, CaptureCalls, CaptureTakes, CaptureFinishes, CaptureDrops, Outside, Worker,
   WorkerHead, WorkerFuses, WorkerPublishes, WorkerCloses, Process, Stderr, Environment,
   sessionVars

LEMMA ExplainedStep ==
  ASSUME Explained, [Next]_vars
  PROVE  Explained'
<1> USE DEF Explained, Gone
<1>1. CASE Open
  BY <1>1, OpeningSource DEF Nothing, Outcome
<1>2. CASE CameraOpened
  BY <1>2 DEF CameraOpened, Alive, drainVars, Nothing, Outcome
<1>3. CASE DropSource
  BY <1>3 DEF DropSource, Alive, drainVars, Nothing, Outcome
<1>4. CASE NextFrame
  <2>1. /\ UNCHANGED <<childVars, drainVars>>
        /\ ret' \in {ret, primed, End, Broken, Outcome("frame", seq, next, 0)}
        /\ primed' \in {primed, Nothing}
    BY <1>4 DEF NextFrame, NextPicture, NextFromPipe, Return
  <2> QED
    BY <2>1 DEF childVars, drainVars, End, Broken, Nothing, Outcome
<1>5. CASE CaptureTakes \/ ReadFails \/ ReadSome \/ ReadEnd
  <2>1. /\ UNCHANGED <<childVars, drainVars, primed>>
        /\ ret'.kind # "error" \/ UNCHANGED ret
    BY <1>5 DEF CaptureTakes, ReadFails, ReadSome, ReadEnd, Return, sourceVars, Nothing, End,
       Broken, Outcome
  <2> QED
    BY <2>1 DEF childVars, drainVars
<1>6. CASE ReportEnd
  BY <1>6 DEF ReportEnd, Return, StreamEnd, End, Outcome, childVars, drainVars, sourceVars
<1>7. CASE ChildGoesOn \/ Drain \/ ChildWantsToSay \/ ChildFallsSilent
  BY <1>7 DEF ChildGoesOn, ChildWrites, ChildSays, ChildExits, Drain, DrainReads, DrainEnds,
     ChildWantsToSay, ChildFallsSilent, childVars, drainVars, sourceVars
<1>8. CASE UNCHANGED captureVars
  BY <1>8 DEF captureVars, childVars, drainVars, sourceVars
<1> QED
  BY <1>1, <1>2, <1>3, <1>4, <1>5, <1>6, <1>7, <1>8, SourceSteps DEF Reading

\* An error at the end of a stream carries everything ffmpeg said (ffmpeg.rs:146-168).
THEOREM ErrorsAreExplained == Spec => []EndIsExplained
<1>1. Init => Explained
  BY DEF Init, CaptureInit, Explained, Nothing, Outcome
<1>2. Explained /\ [Next]_vars => Explained'
  BY ExplainedStep
<1>3. Explained => EndIsExplained
  BY DEF Explained, EndIsExplained
<1> QED
  BY <1>1, <1>2, <1>3, PTL DEF Spec

-----------------------------------------------------------------------------
(* No process without an owner                                             *)

Reaped == Alive => phase \in {"priming", "open"}

LEMMA ReapedStep ==
  ASSUME Owned, Reaped, [Next]_vars
  PROVE  Reaped'
<1> USE DEF Reaped, Alive
<1>1. CASE Open
  BY <1>1, OpeningSource
<1>2. CASE CameraOpened
  BY <1>2 DEF CameraOpened
<1>3. CASE DropSource
  BY <1>3 DEF DropSource
<1>4. CASE NextFrame
  BY <1>4 DEF NextFrame, NextPicture, NextFromPipe, childVars
<1>5. CASE CaptureTakes \/ Reading \/ ReadFails
  BY <1>5 DEF CaptureTakes, Reading, ReadSome, ReadEnd, ReportEnd, ReadFails, childVars,
     sourceVars
<1>6. CASE ChildGoesOn \/ Drain \/ ChildWantsToSay \/ ChildFallsSilent
  BY <1>6 DEF ChildGoesOn, ChildWrites, ChildSays, ChildExits, Drain, DrainReads, DrainEnds,
     ChildWantsToSay, ChildFallsSilent, childVars, sourceVars
<1>7. CASE UNCHANGED captureVars
  BY <1>7 DEF captureVars, childVars, sourceVars
<1> QED
  BY <1>1, <1>2, <1>3, <1>4, <1>5, <1>6, <1>7, SourceSteps

\* No ffmpeg is left when the capture thread has gone and nothing is being opened
\* (ffmpeg.rs:193-200, mod.rs:481-486).
THEOREM NoProcessOutlives == Spec => []NoOrphan
<1>1. Init => Owned /\ Reaped
  BY InitOwned DEF Owned, Init, CaptureInit, Reaped, Alive
<1>2. Owned /\ Reaped /\ [Next]_vars => Owned' /\ Reaped'
  BY OwnedStep, ReapedStep
<1>3. Owned /\ Reaped => NoOrphan
  BY DEF Owned, Places, Reaped, NoOrphan
<1> QED
  BY <1>1, <1>2, <1>3, PTL DEF Spec

-----------------------------------------------------------------------------
(* How a stream ends                                                       *)

\* What the end of a source may rest on, whoever reads it.
EndJustified ==
  /\ kind = "camera" => cut
  /\ kind = "file" => cut \/ child = "exited"
  /\ kind = "dir" => next > Len(files)

\* `done` outlives the call that set it only if the stream stopped inside a frame and
\* the source was still handed on: a camera being opened.
Ends ==
  /\ child = "killed" => phase \in {"refused", "dropped"}
  /\ phase = "priming" => kind = "camera"
  /\ call \in {"reading", "joining"} => kind # "dir"
  /\ call # "idle" => primed = Nothing
  /\ primed # Nothing => kind = "camera" /\ primed.kind = "frame"
  /\ kind = "dir" \/ call = "reading" \/ primed # Nothing => ~done
  /\ call = "idle" /\ phase = "open" /\ done /\ capture \notin {"finish", "dropping"} => cut
  /\ call = "returned" => ret.kind # "nothing"
  /\ call = "returned" /\ ret.kind = "frame" => ~done
  /\ call = "returned" /\ ret.kind = "end" => EndJustified

LEMMA EndsStep ==
  ASSUME Owned, Explained, Ends, [Next]_vars
  PROVE  Ends'
<1> USE DEF Ends, EndJustified
<1>0. ~DropSource /\ capture \in {"finish", "dropping"} => capture' \in {"finish", "dropping"}
  BY Leaving
<1>1. CASE Open
  BY <1>1, OpeningSource DEF Nothing, Outcome
<1>2. CASE CameraOpened /\ ~DropSource
  <2>1. phase = "priming" /\ call = "returned" /\ kind = "camera"
    BY <1>2 DEF CameraOpened
  <2>2. ret.kind \in {"frame", "end"} \/ ret.kind \in Errors
    BY <2>1 DEF Owned, Typed, SourceTyped, Outcomes, Errors
  <2> QED
    BY <1>0, <1>2, <2>1, <2>2 DEF CameraOpened, Errors, drainVars, readVars, Nothing, Outcome
<1>3. CASE DropSource
  BY <1>3 DEF DropSource, Alive, Nothing, Outcome
<1>4. CASE NextFrame /\ capture = "stop?"
  <2>1. CASE kind = "dir"
    BY <1>4, <2>1 DEF NextFrame, NextPicture, Return, End, Broken, Outcome, childVars
  <2>2. CASE kind # "dir"
    BY <1>4, <2>2 DEF NextFrame, NextFromPipe, Return, End, Outcome, childVars, Explained,
       Nothing
  <2> QED
    BY <1>4, <2>1, <2>2
<1>5. CASE CaptureTakes
  BY <1>5 DEF CaptureTakes, childVars, drainVars, readVars, sourceVars, Owned, Typed,
     SourceTyped, Outcomes
<1>6. CASE (ReadFails \/ ReadSome \/ ReadEnd) /\ ~DropSource
  BY <1>6 DEF ReadFails, ReadSome, ReadEnd, Return, End, Broken, Outcome, childVars,
     sourceVars
<1>7. CASE ReportEnd
  <2>1. child \in {"exited", "failed"}
    BY <1>7 DEF ReportEnd, Explained, Gone, Owned, Places, Exited
  <2> QED
    BY <1>7, <2>1 DEF ReportEnd, Return, StreamEnd, End, Outcome, childVars, readVars,
       sourceVars
<1>8. CASE (ChildGoesOn \/ Drain \/ ChildWantsToSay \/ ChildFallsSilent) /\ ~DropSource
  <2>1. /\ UNCHANGED <<readVars, sourceVars, call, ret>>
        /\ UNCHANGED child \/ (child = "running" /\ child' # "killed")
    BY <1>8 DEF ChildGoesOn, ChildWrites, ChildSays, ChildExits, Drain, DrainReads, DrainEnds,
       ChildWantsToSay, ChildFallsSilent, childVars, drainVars
  <2> QED
    BY <1>0, <1>8, <2>1 DEF readVars, sourceVars
<1>9. CASE UNCHANGED captureVars /\ ~DropSource
  BY <1>0, <1>9 DEF captureVars, childVars, readVars, sourceVars
<1> QED
  BY <1>1, <1>2, <1>3, <1>4, <1>5, <1>6, <1>7, <1>8, <1>9, SourceSteps DEF Reading

\* A camera's loss is an error, and a file's bad end too, unless the stream stopped
\* inside a frame (ffmpeg.rs:146-179; workers.rs:61-77).
THEOREM LossesAreErrors == Spec => []LossIsAnError
<1>1. Init => Owned /\ Explained /\ Ends
  <2> SUFFICES ASSUME Init PROVE Owned /\ Explained /\ Ends
    OBVIOUS
  <2>1. Owned
    BY InitOwned DEF Owned
  <2>2. Explained /\ Ends
    BY DEF Init, CaptureInit, Explained, Ends, Nothing, Outcome
  <2> QED
    BY <2>1, <2>2
<1>2. Owned /\ Explained /\ Ends /\ [Next]_vars => Owned' /\ Explained' /\ Ends'
  BY OwnedStep, ExplainedStep, EndsStep
<1>3. Ends => LossIsAnError
  BY DEF Ends, EndJustified, LossIsAnError
<1> QED
  BY <1>1, <1>2, <1>3, PTL DEF Spec

-----------------------------------------------------------------------------
(* The numbers of the frames                                               *)

\* A frame that has its number and is not in the slot yet.
Pending ==
  IF primed # Nothing \/ (call = "returned" /\ ret.kind = "frame") THEN 1 ELSE 0

\* The source is the one `captured` counts: a second one is never read.
Counted ==
  \/ capture = "calling"
  \/ ~stop /\ (capture = "stop?" \/ ctl \in {"opening", "opened"})

Numbered ==
  /\ Counted /\ phase \in {"priming", "open"} => seq = captured + Pending
  /\ primed # Nothing => seq = primed.seq + 1
  /\ call = "returned" /\ ret.kind = "frame" => seq = ret.seq + 1

LEMMA NumberedStep ==
  ASSUME Owned, Explained, Ends, Numbered, [Next]_vars
  PROVE  Numbered'
<1> USE DEF Numbered, Counted, Pending, Owned, Typed, SourceTyped, SessionTyped, Places,
        Exited, Ends
<1>1. CASE Open
  BY <1>1, OpeningSource DEF flagVars, busVars, Nothing, Outcome
<1>2. CASE Opened
  BY <1>2 DEF Opened, CameraOpened, Errors, captureVars, childVars, drainVars, readVars,
     sourceVars, flagVars, busVars, Nothing, Outcome
<1>3. CASE DropSource
  BY <1>3 DEF DropSource, Nothing, Outcome
<1>4. CASE CaptureCalls
  <2>1. CASE stop
    BY <1>4, <2>1 DEF CaptureCalls, captureVars, childVars, drainVars, readVars, sourceVars,
       flagVars, busVars
  <2>2. CASE ~stop /\ kind = "dir"
    BY <1>4, <2>2 DEF CaptureCalls, NextFrame, NextPicture, Return, End, Broken, Outcome,
       busVars
  <2>3. CASE ~stop /\ kind # "dir"
    BY <1>4, <2>3 DEF CaptureCalls, NextFrame, NextFromPipe, Return, End, Outcome, Nothing,
       busVars
  <2> QED
    BY <2>1, <2>2, <2>3
<1>5. CASE CaptureTakes
  BY <1>5 DEF CaptureTakes, readVars, sourceVars, callerVars, flagVars, Nothing, Outcome
<1>6. CASE Outside(ReadSome)
  BY <1>6 DEF Outside, ReadSome, Return, Outcome, sourceVars, sessionVars, callerVars,
     flagVars, busVars
<1>7. CASE Outside(ReadFails) \/ Outside(ReadEnd) \/ Outside(ReportEnd)
  BY <1>7 DEF Outside, ReadFails, ReadEnd, ReportEnd, Return, StreamEnd, End, Broken, Outcome,
     readVars, sourceVars, sessionVars, callerVars, flagVars, busVars
<1>8. CASE \/ StartCapture \/ StartDetect \/ Stop \/ Joined
           \/ Poll \/ Observe \/ SnapshotSignals \/ SnapshotViolations \/ CheckLimit
  <2>1. UNCHANGED <<captureVars, captured>> /\ (stop => stop')
    BY <1>8 DEF StartCapture, StartDetect, Stop, Joined, Poll, Observe, SnapshotSignals,
       SnapshotViolations, CheckLimit, flagVars, busVars
  <2>2. Counted' => Counted
    BY <1>8, <2>1 DEF StartCapture, StartDetect, Stop, Joined, Poll, Observe, SnapshotSignals,
       SnapshotViolations, CheckLimit, flagVars, busVars
  <2> QED
    BY <2>1, <2>2 DEF captureVars, readVars, sourceVars
<1>9. CASE CaptureFinishes \/ Worker \/ Process \/ Stderr \/ Environment \/ UNCHANGED vars
  <2>1. CASE Outside(ReadFails)
    BY <1>7, <2>1
  <2>2. CASE ~Outside(ReadFails)
    <3>1. UNCHANGED <<readVars, sourceVars, call, ret, captured, ctl, stop>>
      BY <1>9, <2>2 DEF CaptureFinishes, Worker, WorkerHead, WorkerFuses, WorkerPublishes,
         WorkerCloses, Process, Stderr, Environment, Outside, ChildGoesOn, ChildWrites,
         ChildSays, ChildExits, Drain, DrainReads, DrainEnds, ChildWantsToSay,
         ChildFallsSilent, vars, captureVars, sessionVars, callerVars, flagVars, busVars
    <3>2. UNCHANGED capture \/ capture' = "dropping"
      BY <1>9, <2>2 DEF CaptureFinishes, Worker, WorkerHead, WorkerFuses, WorkerPublishes,
         WorkerCloses, Process, Stderr, Environment, Outside, vars, sessionVars
    <3> QED
      BY <3>1, <3>2 DEF readVars, sourceVars
  <2> QED
    BY <2>1, <2>2
<1> QED
  BY <1>1, <1>2, <1>3, <1>4, <1>5, <1>6, <1>7, <1>8, <1>9
  DEF Next, Caller, StartRefused, CaptureThread, CaptureDrops, Outside, Reading

\* The capture thread is given the numbers 0, 1, 2, ..., from whatever source, the frame
\* that open() read ahead included (camera.rs:410-427, 450-455).
THEOREM NumbersFollow == Spec => []FramesAreNumbered
<1>1. Init => Owned /\ Explained /\ Ends /\ Numbered
  <2> SUFFICES ASSUME Init PROVE Owned /\ Explained /\ Ends /\ Numbered
    OBVIOUS
  <2>1. Owned
    BY InitOwned DEF Owned
  <2>2. Explained /\ Ends
    BY DEF Init, CaptureInit, Explained, Ends, Nothing, Outcome
  <2>3. Numbered
    BY DEF Init, CaptureInit, Numbered, Pending, Nothing, Outcome
  <2> QED
    BY <2>1, <2>2, <2>3
<1>2. Owned /\ Explained /\ Ends /\ Numbered /\ [Next]_vars
        => Owned' /\ Explained' /\ Ends' /\ Numbered'
  BY OwnedStep, ExplainedStep, EndsStep, NumberedStep
<1>3. Owned /\ Ends /\ Numbered => FramesAreNumbered
  BY DEF Owned, Typed, SourceTyped, SessionTyped, Places, Exited, Ends, Numbered, Counted,
     Pending, Outcomes, FramesAreNumbered
<1> QED
  BY <1>1, <1>2, <1>3, PTL DEF Spec

-----------------------------------------------------------------------------
(* The bytes of the frames                                                 *)

\* Until the stream is over, what was read is whole frames and the part of the next one;
\* between two calls there is no such part.
InStep ==
  /\ kind # "dir" /\ ~done =>
       /\ taken = seq * ChunksPerFrame + filled
       /\ call # "reading" => filled = 0
  /\ /\ kind = "dir" /\ capture \notin {"finish", "dropping"}
     /\ call = "returned" => ret.kind # "broken"
     => seq = next - 1

\* FramesAreWhole, of one of the two frames a source may hold.
Whole(frame) ==
  frame.kind = "frame" =>
    IF kind = "dir"
    THEN frame.seq = frame.from - 1
    ELSE /\ frame.from = frame.seq * ChunksPerFrame
         /\ frame.from + ChunksPerFrame <= taken

LEMMA WholeStep ==
  ASSUME Owned, Ends, InStep, Whole(ret), Whole(primed), [Next]_vars
  PROVE  InStep' /\ Whole(ret)' /\ Whole(primed)'
<1> USE CaptureAssumption DEF InStep, Whole
<1>0. /\ taken \in Nat /\ seq \in Nat /\ next \in Nat /\ ChunksPerFrame \in Nat
      /\ filled \in 0..(ChunksPerFrame - 1)
      /\ seq * ChunksPerFrame \in Nat
      /\ (seq + 1) * ChunksPerFrame = seq * ChunksPerFrame + ChunksPerFrame
  BY DEF Owned, Typed, SourceTyped
<1>00. ~DropSource /\ capture \in {"finish", "dropping"} => capture' \in {"finish", "dropping"}
  BY Leaving
<1>1. CASE Open
  BY <1>1, OpeningSource DEF Nothing, Outcome
<1>2. CASE CameraOpened /\ ~DropSource
  BY <1>00, <1>2 DEF CameraOpened, drainVars, readVars, Nothing, Outcome, Ends
<1>3. CASE DropSource
  BY <1>3 DEF DropSource, Nothing, Outcome
<1>4. CASE NextFrame /\ capture = "stop?"
  <2>1. CASE kind = "dir"
    BY <1>0, <1>4, <2>1 DEF NextFrame, NextPicture, Return, End, Broken, Outcome
  <2>2. CASE kind # "dir"
    BY <1>0, <1>4, <2>2 DEF NextFrame, NextFromPipe, Return, End, Nothing, Outcome
  <2> QED
    BY <2>1, <2>2
<1>5. CASE CaptureTakes
  BY <1>5 DEF CaptureTakes, readVars, sourceVars, Nothing, Outcome
<1>6. CASE ReadSome
  <2>1. kind # "dir" /\ ~done /\ primed = Nothing
    BY <1>6 DEF ReadSome, Ends
  <2>2. PICK n \in 1..(ChunksPerFrame - filled) : ReadSome!2!(n)
    BY <1>6 DEF ReadSome
  <2>3. CASE filled + n < ChunksPerFrame
    <3>1. /\ taken' = taken + n /\ filled' = filled + n
          /\ UNCHANGED <<kind, primed, ret, call, seq, done>>
      BY <1>6, <2>2, <2>3 DEF ReadSome, sourceVars
    <3>2. ret.from \in Int /\ call' = "reading"
      BY <1>6, <3>1 DEF Owned, Typed, SourceTyped, Outcomes, ReadSome
    <3>3. InStep'
      BY <1>0, <2>1, <3>1, <3>2
    <3>4. Whole(ret)'
      BY <1>0, <2>1, <3>1, <3>2
    <3> QED
      BY <2>1, <3>1, <3>3, <3>4 DEF Nothing, Outcome
  <2>4. CASE ~(filled + n < ChunksPerFrame)
    <3>1. filled + n = ChunksPerFrame /\ filled' = 0 /\ seq' = seq + 1 /\ call' = "returned"
      BY <1>0, <2>2, <2>4 DEF Return
    <3>2. taken' = seq * ChunksPerFrame + ChunksPerFrame
      BY <1>0, <1>6, <2>1, <2>2, <3>1 DEF ReadSome
    <3>3. ret' = Outcome("frame", seq, seq * ChunksPerFrame, 0)
      BY <1>0, <2>2, <2>4, <3>2 DEF Return
    <3>4. UNCHANGED <<kind, primed, done>>
      BY <1>6 DEF ReadSome, sourceVars
    <3> QED
      BY <1>0, <2>1, <3>1, <3>2, <3>3, <3>4 DEF Outcome, Nothing
  <2> QED
    BY <2>3, <2>4
<1>7. CASE ReadFails \/ ReadEnd \/ ReportEnd
  <2>1. /\ kind # "dir" /\ primed = Nothing
        /\ UNCHANGED <<kind, primed, taken, filled, seq>>
    BY <1>7 DEF ReadFails, ReadEnd, ReportEnd, readVars, sourceVars, Ends
  <2>2. done' \/ (call = "joining" /\ UNCHANGED done)
    BY <1>7 DEF ReadFails, ReadEnd, ReportEnd, readVars
  <2>3. ret'.kind # "frame" \/ UNCHANGED ret
    BY <1>7 DEF ReadFails, ReadEnd, ReportEnd, Return, StreamEnd, End, Broken, Outcome
  <2> QED
    BY <2>1, <2>2, <2>3 DEF Nothing, Outcome
<1>8. CASE (ChildGoesOn \/ Drain \/ ChildWantsToSay \/ ChildFallsSilent) /\ ~DropSource
  <2>1. UNCHANGED <<readVars, sourceVars, call, ret>>
    BY <1>8 DEF ChildGoesOn, ChildWrites, ChildSays, ChildExits, Drain, DrainReads, DrainEnds,
       ChildWantsToSay, ChildFallsSilent, childVars, drainVars
  <2> QED
    BY <1>00, <1>8, <2>1 DEF readVars, sourceVars
<1>9. CASE UNCHANGED captureVars /\ ~DropSource
  BY <1>00, <1>9 DEF captureVars, readVars, sourceVars
<1> QED
  BY <1>1, <1>2, <1>3, <1>4, <1>5, <1>6, <1>7, <1>8, <1>9, SourceSteps DEF Reading

\* A frame is all of one frame's bytes and nothing of another's, however the reads were
\* cut (ffmpeg.rs:132-148, 170-188; replay.rs:228-261).
THEOREM FramesStayWhole == Spec => []FramesAreWhole
<1>1. Init => /\ Owned /\ Explained /\ Ends
              /\ InStep /\ Whole(ret) /\ Whole(primed)
  <2> SUFFICES ASSUME Init
               PROVE  /\ Owned /\ Explained /\ Ends
                      /\ InStep /\ Whole(ret) /\ Whole(primed)
    OBVIOUS
  <2>1. Owned
    BY InitOwned DEF Owned
  <2>2. Explained /\ Ends
    BY DEF Init, CaptureInit, Explained, Ends, Nothing, Outcome
  <2>3. InStep /\ Whole(ret) /\ Whole(primed)
    BY CaptureAssumption DEF Init, CaptureInit, InStep, Whole, Nothing, Outcome
  <2> QED
    BY <2>1, <2>2, <2>3
<1>2. Owned /\ Explained /\ Ends /\ InStep /\ Whole(ret) /\ Whole(primed) /\ [Next]_vars
        => /\ Owned' /\ Explained' /\ Ends'
           /\ InStep' /\ Whole(ret)' /\ Whole(primed)'
  BY OwnedStep, ExplainedStep, EndsStep, WholeStep
<1>3. Whole(ret) /\ Whole(primed) => FramesAreWhole
  BY DEF Whole, FramesAreWhole
<1> QED
  BY <1>1, <1>2, <1>3, PTL DEF Spec

-----------------------------------------------------------------------------
(* What a snapshot holds                                                   *)

\* The detect worker lists the violations of a frame before it publishes the frame, and
\* its frames never go back.
Fresh ==
  /\ worker = "head" => stop \/ latest <= seen
  /\ worker \in {"face", "publish"} => latest <= seen
  /\ worker = "publish" => active = seen
  /\ latest = None \/ active = Cleared \/ latest <= active
  /\ ctl = "violations" => snapshot.signals # None /\ snapshot.signals <= latest
  /\ SnapshotNotOlder

LEMMA FreshStep ==
  ASSUME Owned, Fresh, [Next]_vars
  PROVE  Fresh'
<1> USE DEF Fresh, SnapshotNotOlder, Owned, Typed, SessionTyped, Places, Exited, None, Cleared
<1>1. CASE Open
  BY <1>1, OpeningSource DEF flagVars, busVars, workerVars
<1>2. CASE Caller
  <2>1. CASE SnapshotSignals
    BY <2>1 DEF SnapshotSignals, flagVars, workerVars
  <2>2. CASE SnapshotViolations
    BY <2>2 DEF SnapshotViolations, flagVars, workerVars
  <2>3. CASE StartDetect
    BY <2>3 DEF StartDetect, flagVars
  <2>4. CASE Stop \/ Joined
    BY <2>4 DEF Stop, Joined, flagVars, workerVars
  <2>5. CASE Opened \/ StartRefused \/ StartCapture \/ Poll \/ Observe \/ CheckLimit
    BY <2>5 DEF Opened, StartRefused, StartCapture, Poll, Observe, CheckLimit, flagVars,
       workerVars
  <2> QED
    BY <1>2, <2>1, <2>2, <2>3, <2>4, <2>5 DEF Caller
<1>3. CASE CaptureThread
  BY <1>3 DEF CaptureThread, CaptureCalls, CaptureTakes, CaptureFinishes, CaptureDrops,
     Outside, callerVars, flagVars, workerVars, sessionVars
<1>4. CASE Worker
  <2>1. CASE WorkerHead
    BY <2>1 DEF WorkerHead, callerVars, flagVars
  <2>2. CASE WorkerFuses
    BY <2>2 DEF WorkerFuses, callerVars, flagVars
  <2>3. CASE WorkerPublishes
    BY <2>3 DEF WorkerPublishes, callerVars, flagVars
  <2>4. CASE WorkerCloses
    BY <2>4 DEF WorkerCloses, callerVars, flagVars
  <2> QED
    BY <1>4, <2>1, <2>2, <2>3, <2>4 DEF Worker
<1>5. CASE Process \/ Stderr \/ Environment \/ UNCHANGED vars
  BY <1>5 DEF Process, Stderr, Environment, Outside, vars, callerVars, flagVars, workerVars,
     sessionVars
<1> QED
  BY <1>1, <1>2, <1>3, <1>4, <1>5 DEF Next

\* The violations of a snapshot are never older than its signals (mod.rs:494-519,
\* workers.rs:266-287).
THEOREM SnapshotsAreFresh == Spec => []SnapshotNotOlder
<1>1. Init => Owned /\ Fresh
  <2> SUFFICES ASSUME Init PROVE Owned /\ Fresh
    OBVIOUS
  <2>1. Owned
    BY InitOwned DEF Owned
  <2> QED
    BY <2>1 DEF Init, Fresh, SnapshotNotOlder, None, Cleared
<1>2. Owned /\ Fresh /\ [Next]_vars => Owned' /\ Fresh'
  BY OwnedStep, FreshStep
<1>3. Fresh => SnapshotNotOlder
  BY DEF Fresh
<1> QED
  BY <1>1, <1>2, <1>3, PTL DEF Spec

-----------------------------------------------------------------------------
(* Types and counts                                                        *)

\* Pipes are read after they are written, up to the part of a frame that is held; the
\* index of a directory is in it or just behind it.
CountsInOrder ==
  /\ filled <= taken /\ taken <= wrote
  /\ heard <= said /\ text <= heard
  /\ files \in Seq(Entries) /\ next \in 1..(Len(files) + 1)
  /\ ret.from \in Nat /\ primed.from \in Nat
  /\ wants \in BOOLEAN /\ done \in BOOLEAN /\ cut \in BOOLEAN

CallerTyped ==
  /\ ctl \in {"idle", "opening", "opened", "starting", "running", "observe", "report",
              "violations", "limit", "leave", "joining", "stopped"}
  /\ sources \in 0..MaxSources
  /\ stop \in BOOLEAN /\ captureDone \in BOOLEAN /\ ended \in BOOLEAN
  /\ processed \in Nat

LEMMA CallerTypedStep ==
  ASSUME CallerTyped, [Next]_vars
  PROVE  CallerTyped'
<1> USE LifecycleAssumption DEF CallerTyped, flagVars, callerVars, workerVars
<1>1. CASE Open
  BY <1>1 DEF Open
<1>2. CASE Caller
  <2>1. CASE Joined
    BY <2>1, Zenon DEF Joined
  <2>2. CASE Opened \/ StartRefused \/ StartCapture \/ StartDetect \/ Stop
    BY <2>2 DEF Opened, StartRefused, StartCapture, StartDetect, Stop
  <2>3. CASE Poll \/ Observe \/ SnapshotSignals \/ SnapshotViolations \/ CheckLimit
    BY <2>3 DEF Poll, Observe, SnapshotSignals, SnapshotViolations, CheckLimit
  <2> QED  BY <1>2, <2>1, <2>2, <2>3 DEF Caller
<1>3. CASE CaptureThread
  BY <1>3 DEF CaptureThread, CaptureCalls, CaptureTakes, CaptureFinishes, CaptureDrops, Outside,
     sessionVars
<1>4. CASE Worker
  BY <1>4 DEF Worker, WorkerHead, WorkerFuses, WorkerPublishes, WorkerCloses
<1>5. CASE Process \/ Stderr \/ Environment \/ UNCHANGED vars
  BY <1>5 DEF Process, Stderr, Environment, Outside, vars, sessionVars
<1> QED  BY <1>1, <1>2, <1>3, <1>4, <1>5 DEF Next

LEMMA OpenedFiles ==
  ASSUME PicturesAreEntries, Open
  PROVE  files' \in Seq(Entries)
<1>1. <<>> \in Seq(Entries)
  OBVIOUS
<1>2. CASE OpenCamera \/ OpenFile
  BY <1>1, <1>2, Zenon DEF OpenCamera, OpenFile, Refuse, Begin
<1>3. CASE OpenDirectory
  BY <1>1, <1>3, Zenon DEF OpenDirectory, Refuse, Begin, PicturesAreEntries
<1> QED  BY <1>2, <1>3 DEF Open, OpenSource

LEMMA CountsStep ==
  ASSUME PicturesAreEntries, Owned, Ends, CountsInOrder, [Next]_vars
  PROVE  CountsInOrder'
<1> USE CaptureAssumption DEF CountsInOrder
<1>0. /\ taken \in Nat /\ wrote \in Nat /\ said \in Nat /\ heard \in Nat /\ text \in Nat
      /\ filled \in Nat /\ filled \in 0..(ChunksPerFrame - 1) /\ ChunksPerFrame \in Nat
      /\ next \in Nat /\ Len(files) \in Nat
  BY DEF Owned, Typed, SourceTyped
<1>n. Nothing.from = 0 /\ End.from = 0 /\ Broken.from = 0
  BY DEF Nothing, End, Broken, Outcome
<1>1. CASE Open
  <2>1. files' \in Seq(Entries) /\ next' = 1
    BY <1>1, OpenedFiles, OpeningSource
  <2>2. Len(files') \in Nat
    BY <2>1
  <2>3. next' \in 1..(Len(files') + 1)
    BY <2>1, <2>2
  <2> QED  BY <1>1, <1>n, <2>1, <2>3, OpeningSource
<1>2. CASE CameraOpened
  BY <1>2, <1>n DEF CameraOpened, drainVars, readVars
<1>3. CASE DropSource
  <2>1. files' = <<>> /\ next' = 1 /\ files' \in Seq(Entries) /\ Len(files') = 0
    BY <1>3 DEF DropSource
  <2>2. next' \in 1..(Len(files') + 1)
    BY <2>1
  <2>3. /\ filled' = 0 /\ taken' = 0 /\ wrote' = 0 /\ UNCHANGED <<said, heard, text>>
        /\ ret' = Nothing /\ primed' = Nothing
        /\ wants' = FALSE /\ done' = FALSE /\ cut' = FALSE
    BY <1>3 DEF DropSource, drainVars
  <2>4. /\ filled' <= taken' /\ taken' <= wrote' /\ heard' <= said' /\ text' <= heard'
        /\ ret'.from \in Nat /\ primed'.from \in Nat
    BY <1>n, <2>3
  <2>5. wants' \in BOOLEAN /\ done' \in BOOLEAN /\ cut' \in BOOLEAN
    BY <2>3
  <2> QED  BY <2>1, <2>2, <2>4, <2>5
<1>4. CASE NextFrame
  <2>1. CASE kind = "dir"
    <3>1. /\ UNCHANGED <<childVars, drainVars, taken, filled, done, cut, primed, files>>
          /\ \/ ret' = End /\ next' = next
             \/ /\ next <= Len(files) /\ next' = next + 1
                /\ ret' \in {Broken, Outcome("frame", seq, next, 0)}
      BY <1>0, <1>4, <2>1 DEF NextFrame, NextPicture, Return
    <3>2. next' \in 1..(Len(files') + 1)
      BY <1>0, <3>1
    <3>3. ret'.from \in Nat
      BY <1>0, <1>n, <3>1 DEF Outcome
    <3> QED  BY <3>1, <3>2, <3>3 DEF childVars, drainVars
  <2>2. CASE kind # "dir"
    <3>1. /\ UNCHANGED <<childVars, drainVars, taken, done, cut, files, next>>
          /\ filled' \in {0, filled} /\ primed' = Nothing
          /\ ret' \in {primed, End, ret}
      BY <1>4, <2>2 DEF NextFrame, NextFromPipe, Return
    <3> QED  BY <1>0, <1>n, <3>1 DEF childVars, drainVars
  <2> QED  BY <2>1, <2>2
<1>5. CASE CaptureTakes
  BY <1>5, <1>n DEF CaptureTakes, childVars, drainVars, readVars, sourceVars
<1>6. CASE ReadSome
  <2>1. PICK n \in 1..(ChunksPerFrame - filled) : ReadSome!2!(n)
    BY <1>6 DEF ReadSome
  <2>2. UNCHANGED <<childVars, drainVars, done, cut, sourceVars>>
    BY <1>6 DEF ReadSome
  <2>3. n \in Nat /\ n <= wrote - taken /\ taken' = taken + n
    BY <1>0, <2>1
  <2>4. CASE filled + n < ChunksPerFrame
    <3>1. filled' = filled + n /\ ret' = ret
      BY <2>1, <2>4
    <3> QED  BY <1>0, <2>2, <2>3, <3>1 DEF childVars, drainVars, sourceVars
  <2>5. CASE ~(filled + n < ChunksPerFrame)
    <3>1. /\ filled' = 0 /\ filled + n = ChunksPerFrame
          /\ ret'.from = taken + n - ChunksPerFrame
      BY <1>0, <2>1, <2>5 DEF Return, Outcome
    <3>2. ret'.from \in Nat
      BY <1>0, <2>3, <3>1
    <3> QED  BY <1>0, <2>2, <2>3, <3>1, <3>2 DEF childVars, drainVars, sourceVars
  <2> QED  BY <2>4, <2>5
<1>7. CASE ReadEnd \/ ReportEnd \/ ReadFails
  <2>1. UNCHANGED <<childVars, drainVars, taken, filled, sourceVars>>
    BY <1>7 DEF ReadEnd, ReportEnd, ReadFails, readVars
  <2>2. done' \in {TRUE, done} /\ cut' \in {TRUE, cut}
    BY <1>7 DEF ReadEnd, ReportEnd, ReadFails, readVars
  <2>3. ret' \in {ret, End, Broken, Outcome("error", 0, 0, text)}
    BY <1>7 DEF ReadEnd, ReportEnd, ReadFails, Return, StreamEnd
  <2>4. ret'.from \in Nat
    BY <1>n, <2>3 DEF Outcome
  <2>5. done' \in BOOLEAN /\ cut' \in BOOLEAN
    BY <2>2
  <2> QED  BY <1>0, <2>1, <2>4, <2>5 DEF childVars, drainVars, sourceVars
<1>8. CASE ChildGoesOn \/ Drain \/ ChildWantsToSay \/ ChildFallsSilent
  <2>1. UNCHANGED <<readVars, sourceVars, ret>>
    BY <1>8 DEF ChildGoesOn, ChildWrites, ChildSays, ChildExits, Drain, DrainReads, DrainEnds,
       ChildWantsToSay, ChildFallsSilent
  <2>2. taken' <= wrote' /\ filled' <= taken'
    BY <1>0, <1>8, <2>1 DEF ChildGoesOn, ChildWrites, ChildSays, ChildExits, Drain, DrainReads,
       DrainEnds, ChildWantsToSay, ChildFallsSilent, childVars, readVars
  <2>3. heard' <= said' /\ text' <= heard'
    BY <1>0, <1>8 DEF ChildGoesOn, ChildWrites, ChildSays, ChildExits, Drain, DrainReads,
       DrainEnds, ChildWantsToSay, ChildFallsSilent, childVars, drainVars
  <2>4. wants' \in {TRUE, FALSE, wants}
    BY <1>8 DEF ChildGoesOn, ChildWrites, ChildSays, ChildExits, Drain, DrainReads,
       DrainEnds, ChildWantsToSay, ChildFallsSilent, childVars
  <2> QED  BY <2>1, <2>2, <2>3, <2>4 DEF readVars, sourceVars
<1>9. CASE UNCHANGED captureVars
  BY <1>9 DEF captureVars, childVars, drainVars, readVars, sourceVars
<1> QED
  BY <1>1, <1>2, <1>3, <1>4, <1>5, <1>6, <1>7, <1>8, <1>9, SourceSteps DEF Reading

\* The program's values keep their types, and what was read was written.  No prover sees
\* into SelectSeq, so what it returns is a hypothesis; it holds whatever the directories are.
THEOREM ValuesStayTyped ==
  ASSUME PicturesAreEntries
  PROVE  Spec => []TypeOK
<1>1. Init => Owned /\ Explained /\ Ends /\ CountsInOrder /\ CallerTyped
  <2> SUFFICES ASSUME Init PROVE Owned /\ Explained /\ Ends /\ CountsInOrder /\ CallerTyped
    OBVIOUS
  <2>1. Owned
    BY InitOwned DEF Owned
  <2>2. Explained /\ Ends
    BY DEF Init, CaptureInit, Explained, Ends, Nothing, Outcome
  <2>3. CountsInOrder
    <3>1. files = <<>> /\ files \in Seq(Entries) /\ Len(files) = 0
      BY DEF Init, CaptureInit
    <3>2. /\ filled = 0 /\ taken = 0 /\ wrote = 0 /\ heard = 0 /\ said = 0 /\ text = 0
          /\ next = 1 /\ ret.from = 0 /\ primed.from = 0
      BY DEF Init, CaptureInit, Nothing, Outcome
    <3>3. wants \in BOOLEAN /\ done \in BOOLEAN /\ cut \in BOOLEAN
      BY DEF Init, CaptureInit
    <3>4. next \in 1..(Len(files) + 1)
      BY <3>1, <3>2
    <3> QED  BY <3>1, <3>2, <3>3, <3>4 DEF CountsInOrder
  <2>4. CallerTyped
    <3>1. ctl = "idle" /\ sources = 0 /\ processed = 0
      BY DEF Init
    <3>2. stop \in BOOLEAN /\ captureDone \in BOOLEAN /\ ended \in BOOLEAN
      BY DEF Init
    <3> QED  BY <3>1, <3>2, LifecycleAssumption DEF CallerTyped
  <2> QED  BY <2>1, <2>2, <2>3, <2>4
<1>2. /\ Owned /\ Explained /\ Ends /\ CountsInOrder /\ CallerTyped
      /\ [Next]_vars
      => Owned' /\ Explained' /\ Ends' /\ CountsInOrder' /\ CallerTyped'
  BY OwnedStep, ExplainedStep, EndsStep, CountsStep, CallerTypedStep
<1>3. Owned /\ CountsInOrder /\ CallerTyped => TypeOK
  <2> SUFFICES ASSUME Owned, CountsInOrder, CallerTyped PROVE TypeOK
    OBVIOUS
  <2>1. CaptureTypeOK
    <3>1. filled < ChunksPerFrame
      BY CaptureAssumption DEF Owned, Typed, SourceTyped
    <3>2. \A outcome \in {ret, primed} :
            /\ outcome.kind \in {"nothing", "frame", "end", "error", "broken"}
            /\ {outcome.seq, outcome.from, outcome.text} \subseteq Nat
      BY DEF Owned, Typed, SourceTyped, Outcomes, CountsInOrder
    <3> QED
      BY <3>1, <3>2, CaptureAssumption
      DEF Owned, Typed, SourceTyped, Phases, Processes, Calls, CountsInOrder, CaptureTypeOK
  <2> QED
    BY <2>1 DEF Owned, Typed, SessionTyped, SourceTyped, CallerTyped, TypeOK
<1> QED  BY <1>1, <1>2, <1>3, PTL DEF Spec

-----------------------------------------------------------------------------
(* The frames of a session are a FrameStream                               *)

\* The slot has the newest frame, the worker is not ahead of it, and capture is not
\* called again once it was done: only a stop lets a second session begin.
Streamed ==
  /\ slot = IF captured = 0 THEN 0 ELSE captured - 1
  /\ seen <= slot
  /\ captureDone => /\ capture # "calling"
                    /\ capture \in {"stop?", "finish"} => stop
                    /\ ctl \in {"idle", "opening", "opened", "stopped"} => stop

LEMMA StreamedStep ==
  ASSUME Owned, CallerTyped, FramesAreNumbered, Streamed, [Next]_vars
  PROVE  Streamed'
<1> USE DEF Streamed, Owned, Typed, SessionTyped, CallerTyped, Places, Exited
<1>1. CASE Open
  BY <1>1, OpeningSource DEF flagVars, busVars, workerVars
<1>2. CASE Caller
  <2>1. CASE StartRefused \/ StartCapture \/ StartDetect \/ Stop
    BY <2>1 DEF StartRefused, StartCapture, StartDetect, Stop, flagVars, busVars, workerVars
  <2>2. CASE Joined
    BY <2>2 DEF Joined, flagVars, busVars, workerVars
  <2>3. CASE Opened \/ Poll \/ Observe \/ SnapshotSignals \/ SnapshotViolations \/ CheckLimit
    BY <2>3 DEF Opened, Poll, Observe, SnapshotSignals, SnapshotViolations, CheckLimit,
       flagVars, busVars, workerVars
  <2> QED
    BY <1>2, <2>1, <2>2, <2>3 DEF Caller
<1>3. CASE CaptureThread
  <2>1. CASE CaptureTakes
    <3>1. CASE ret.kind = "frame"
      <4>1. slot' = captured /\ captured' = captured + 1 /\ UNCHANGED <<seen, captureDone>>
        BY <2>1, <3>1 DEF CaptureTakes, FramesAreNumbered, flagVars, workerVars
      <4>2. ~captureDone
        BY <2>1 DEF CaptureTakes
      <4> QED  BY <4>1, <4>2
    <3>2. CASE ret.kind # "frame"
      BY <2>1, <3>2 DEF CaptureTakes, flagVars, busVars, workerVars
    <3> QED  BY <3>1, <3>2
  <2>2. CASE CaptureCalls \/ CaptureFinishes \/ CaptureDrops \/ Outside(Reading)
    BY <2>2 DEF CaptureCalls, CaptureFinishes, CaptureDrops, Outside, callerVars, flagVars,
       busVars, workerVars, sessionVars
  <2> QED  BY <1>3, <2>1, <2>2 DEF CaptureThread
<1>4. CASE Worker
  BY <1>4 DEF Worker, WorkerHead, WorkerFuses, WorkerPublishes, WorkerCloses, callerVars,
     flagVars, busVars
<1>5. CASE Process \/ Stderr \/ Environment \/ UNCHANGED vars
  BY <1>5 DEF Process, Stderr, Environment, Outside, vars, callerVars, flagVars, busVars,
     workerVars, sessionVars
<1> QED
  BY <1>1, <1>2, <1>3, <1>4, <1>5 DEF Next

\* The latecomer, and where FrameStream has the worker.
Late == IF stop /\ capture = "calling" THEN {"capture"} ELSE {}
Handed == IF latest = None THEN 0 ELSE latest

LEMMA StreamFrame ==
  UNCHANGED <<captured, slot, captureDone, stop, Late, WorkerPlace, seen, latest>> =>
    UNCHANGED Stream!streamVars
BY DEF Stream!streamVars, Late

LEMMA PlaceTable ==
  /\ worker = "none" => WorkerPlace = "away"
  /\ worker = "head" => WorkerPlace = "reading"
  /\ worker \in {"face", "publish"} => WorkerPlace = "holding"
  /\ worker \in {"closing", "exited"} => WorkerPlace = "left"
BY Zenon DEF WorkerPlace

LEMMA NextPlaceTable ==
  /\ worker' = "none" => WorkerPlace' = "away"
  /\ worker' = "head" => WorkerPlace' = "reading"
  /\ worker' \in {"face", "publish"} => WorkerPlace' = "holding"
  /\ worker' \in {"closing", "exited"} => WorkerPlace' = "left"
BY Zenon DEF WorkerPlace

\* The capture thread publishes, closes, or comes to nothing.
LEMMA CaptureStream ==
  ASSUME Owned, CallerTyped, FramesAreNumbered, Streamed, CaptureThread
  PROVE  Stream!FNext \/ UNCHANGED Stream!streamVars
<1> USE DEF Late, Stream!FNext, Stream!MayBegin, Stream!Begun, Stream!Source
<1>u. UNCHANGED <<stop, WorkerPlace, seen, latest>>
  BY DEF CaptureThread, CaptureCalls, CaptureTakes, CaptureFinishes, CaptureDrops, Outside,
     flagVars, workerVars, sessionVars, WorkerPlace
<1>1. CASE CaptureTakes
  <2>1. capture = "calling" /\ capture' # "calling" /\ captureDone' = captureDone
    BY <1>1 DEF CaptureTakes, flagVars
  <2>2. CASE ret.kind = "frame"
    <3>1. slot' = captured /\ captured' = captured + 1 /\ ~captureDone
      BY <1>1, <2>1, <2>2 DEF CaptureTakes, FramesAreNumbered, Streamed
    <3>2. Stream!Publish
      BY <1>u, <2>1, <3>1 DEF Stream!Publish
    <3> QED  BY <3>2
  <2>3. CASE ret.kind # "frame"
    <3>1. UNCHANGED <<slot, captured>>
      BY <1>1, <2>3 DEF CaptureTakes, busVars
    <3>2. Stream!ComeToNothing("capture")
      BY <1>u, <2>1, <3>1 DEF Stream!ComeToNothing
    <3> QED  BY <3>2
  <2> QED  BY <2>2, <2>3
<1>2. CASE CaptureFinishes
  <2>1. /\ capture = "finish" /\ capture' = "dropping" /\ captureDone' = TRUE
        /\ UNCHANGED <<slot, captured>>
    BY <1>2 DEF CaptureFinishes, busVars
  <2>2. CASE captureDone
    BY <1>u, <2>1, <2>2, StreamFrame
  <2>3. CASE ~captureDone
    <3>1. Stream!Close
      BY <1>u, <2>1, <2>3 DEF Stream!Close
    <3> QED  BY <3>1
  <2> QED  BY <2>2, <2>3
<1>3. CASE CaptureCalls \/ CaptureDrops \/ Outside(Reading)
  <2>1. UNCHANGED <<slot, captured, captureDone>>
    BY <1>3 DEF CaptureCalls, CaptureDrops, Outside, flagVars, busVars, sessionVars
  <2>2. Late' = Late
    BY <1>3, <1>u DEF CaptureCalls, CaptureDrops, Outside, sessionVars
  <2> QED  BY <1>u, <2>1, <2>2, StreamFrame
<1> QED  BY <1>1, <1>2, <1>3 DEF CaptureThread

\* The detect worker takes a frame, puts it down, or leaves.
LEMMA WorkerStream ==
  ASSUME Owned, CallerTyped, Streamed, Worker
  PROVE  Stream!FNext \/ UNCHANGED Stream!streamVars
<1> USE DEF Stream!FNext, Stream!MayBegin, Stream!Begun
<1>u. UNCHANGED <<captured, slot, captureDone, stop, Late>>
  BY DEF Worker, WorkerHead, WorkerFuses, WorkerPublishes, WorkerCloses, flagVars, busVars, Late
<1>n. Late = Late \ {"detect"}
  BY DEF Late
<1>1. CASE WorkerHead
  <2>1. worker = "head" /\ WorkerPlace = "reading" /\ latest' = latest
    BY <1>1, PlaceTable DEF WorkerHead
  <2>2. CASE worker' = "closing"
    <3>1. seen' = seen /\ (stop \/ (captureDone /\ seen = slot)) /\ WorkerPlace' = "left"
      BY <1>1, <2>2, NextPlaceTable DEF WorkerHead, Streamed, Owned, Typed, SessionTyped
    <3>2. Stream!Leave("detect")
      BY <1>u, <1>n, <2>1, <3>1 DEF Stream!Leave, Late
    <3> QED  BY <3>2
  <2>3. CASE worker' # "closing"
    <3>1. /\ ~stop /\ slot > seen /\ seen' = slot /\ WorkerPlace' = "holding"
      BY <1>1, <2>3, NextPlaceTable DEF WorkerHead
    <3>2. Stream!Take("detect")
      BY <1>u, <1>n, <2>1, <3>1 DEF Stream!Take, Late
    <3> QED  BY <3>2
  <2> QED  BY <2>2, <2>3
<1>2. CASE WorkerFuses
  <2>1. WorkerPlace = "holding" /\ UNCHANGED <<seen, latest>>
    BY <1>2, PlaceTable DEF WorkerFuses
  <2>2. CASE worker' = "publish"
    <3>1. WorkerPlace' = WorkerPlace
      BY <2>1, <2>2, NextPlaceTable
    <3> QED  BY <1>u, <2>1, <3>1, StreamFrame
  <2>3. CASE worker' # "publish"
    <3>1. WorkerPlace' = "reading"
      BY <1>2, <2>3, NextPlaceTable DEF WorkerFuses
    <3>2. Stream!PutDown("detect")
      BY <1>u, <2>1, <3>1 DEF Stream!PutDown, Late
    <3> QED  BY <3>2
  <2> QED  BY <2>2, <2>3
<1>3. CASE WorkerPublishes
  <2>1. /\ WorkerPlace = "holding" /\ WorkerPlace' = "reading"
        /\ seen' = seen /\ latest' = seen /\ latest' # None
    BY <1>3, PlaceTable, NextPlaceTable
       DEF WorkerPublishes, Owned, Typed, SessionTyped, None
  <2>2. Stream!PutDown("detect")
    BY <1>u, <2>1 DEF Stream!PutDown, Late
  <2> QED  BY <2>2
<1>4. CASE WorkerCloses
  <2>1. WorkerPlace' = WorkerPlace /\ UNCHANGED <<seen, latest>>
    BY <1>4, PlaceTable, NextPlaceTable DEF WorkerCloses
  <2> QED  BY <1>u, <2>1, StreamFrame
<1> QED  BY <1>1, <1>2, <1>3, <1>4 DEF Worker

\* The caller lets the worker come, and raises the flag.
LEMMA CallerStream ==
  ASSUME Owned, CallerTyped, Streamed, Open \/ Caller
  PROVE  Stream!FNext \/ UNCHANGED Stream!streamVars
<1> USE DEF Stream!FNext, Stream!MayBegin, Stream!Begun, Stream!Source
<1>1. CASE StartDetect
  <2>1. UNCHANGED <<captured, slot, captureDone, stop, latest, capture>>
    BY <1>1 DEF StartDetect, flagVars, busVars
  <2>2. CASE worker' = worker /\ seen' = seen
    BY <2>1, <2>2, StreamFrame DEF Late, WorkerPlace
  <2>3. CASE ~(worker' = worker /\ seen' = seen)
    <3>1. worker' = "head" /\ seen' = 0
      BY <1>1, <2>3 DEF StartDetect
    <3>2. WorkerPlace \in {"away", "left"}
      BY <1>1, PlaceTable DEF StartDetect, Owned, Places, Exited
    <3>3. WorkerPlace' = "reading"
      BY <3>1, NextPlaceTable
    <3>4. Stream!Join("detect")
      BY <2>1, <3>1, <3>2, <3>3 DEF Stream!Join
    <3> QED  BY <3>4
  <2> QED  BY <2>2, <2>3
<1>2. CASE Stop
  <2>1. UNCHANGED <<captured, slot, captureDone, capture, WorkerPlace, seen, latest>> /\ stop'
    BY <1>2 DEF Stop, busVars, workerVars, WorkerPlace
  <2>2. CASE stop
    BY <2>1, <2>2, StreamFrame DEF Late, CallerTyped, Stop
  <2>3. CASE ~stop
    <3>1. stop' = TRUE
      BY <1>2 DEF Stop
    <3>2. Late' \in SUBSET ({r \in {"detect"} : WorkerPlace = "reading"} \union {"capture"})
      BY DEF Late
    <3>3. Stream!RaiseStop
      BY <2>1, <2>3, <3>1, <3>2 DEF Stream!RaiseStop, Late
    <3> QED  BY <3>3
  <2> QED  BY <2>2, <2>3
<1>3. CASE Open \/ StartCapture \/ StartRefused \/ Joined
  <2>1. UNCHANGED <<captured, slot, captureDone, stop, WorkerPlace, seen, latest>>
    BY <1>3 DEF Open, StartCapture, StartRefused, Joined, flagVars, busVars, workerVars,
       WorkerPlace
  <2>2. Late' = Late
    BY <1>3, <2>1 DEF Open, StartCapture, StartRefused, Joined, Late, Owned, Places, Exited
  <2> QED  BY <2>1, <2>2, StreamFrame
<1>4. CASE Opened \/ Poll \/ Observe \/ SnapshotSignals \/ SnapshotViolations \/ CheckLimit
  <2>1. UNCHANGED <<capture, flagVars, busVars, workerVars>>
    BY <1>4 DEF Opened, Poll, Observe, SnapshotSignals, SnapshotViolations, CheckLimit
  <2> QED  BY <2>1, StreamFrame DEF flagVars, busVars, workerVars, WorkerPlace, Late
<1> QED  BY <1>1, <1>2, <1>3, <1>4 DEF Caller

\* Whatever the sources and however often the caller starts: the frames of a session
\* are the FrameStream that Pipeline has access by access (workers.rs:51-130,
\* mod.rs:341-344).
THEOREM LifecycleIsFrameStream == Spec => StreamSpec
<1>1. Init => CallerTyped /\ Streamed /\ Stream!FInit
  <2> SUFFICES ASSUME Init PROVE CallerTyped /\ Streamed /\ Stream!FInit
    OBVIOUS
  <2>1. CallerTyped
    <3>1. ctl = "idle" /\ sources = 0 /\ processed = 0
      BY DEF Init
    <3>2. stop \in BOOLEAN /\ captureDone \in BOOLEAN /\ ended \in BOOLEAN
      BY DEF Init
    <3> QED  BY <3>1, <3>2, LifecycleAssumption DEF CallerTyped
  <2>2. Streamed
    BY DEF Init, Streamed
  <2>3. WorkerPlace = "away"
    BY PlaceTable DEF Init
  <2>4. Stream!FInit
    BY <2>3 DEF Init, Stream!FInit
  <2> QED  BY <2>1, <2>2, <2>4
<1>2. Init => Owned
  BY InitOwned DEF Owned
<1>3. Owned /\ [Next]_vars => Owned'
  BY OwnedStep
<1>4. CallerTyped /\ [Next]_vars => CallerTyped'
  BY CallerTypedStep
<1>5. Owned /\ CallerTyped /\ FramesAreNumbered /\ Streamed /\ [Next]_vars => Streamed'
  BY StreamedStep
<1>6. Owned /\ CallerTyped /\ FramesAreNumbered /\ Streamed /\ [Next]_vars =>
        [Stream!FNext]_(Stream!streamVars)
  <2>1. Process \/ Stderr \/ Environment \/ UNCHANGED vars => UNCHANGED sessionVars
    BY DEF Process, Stderr, Environment, Outside, vars
  <2>2. UNCHANGED sessionVars => UNCHANGED Stream!streamVars
    BY StreamFrame DEF sessionVars, flagVars, busVars, workerVars, Late, WorkerPlace
  <2> QED  BY <2>1, <2>2, CaptureStream, WorkerStream, CallerStream DEF Next
<1> QED
  BY <1>1, <1>2, <1>3, <1>4, <1>5, <1>6, NumbersFollow, PTL
     DEF Spec, StreamSpec, Stream!FSpec
=============================================================================
