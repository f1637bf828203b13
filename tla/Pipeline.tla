------------------------------ MODULE Pipeline ------------------------------
(***************************************************************************)
(* The threads of a Detector and what they share (src/src/pipeline):       *)
(* capture overwrites one frame slot, the detect, object and identity      *)
(* workers read it behind cursors of their own, and the object and         *)
(* identity workers hand results to the detect worker through two more     *)
(* slots.  A step is one access to shared state with the thread-local work *)
(* and the counters that go with it: storing a frame in the slot and       *)
(* counting it are one step, and so are storing `latest` and what the      *)
(* detect worker does just before (fusion, the log), which modules         *)
(* DetectSession and Lifecycle take apart.  Accesses are taken to be       *)
(* sequentially consistent.  Hot reload is DetectSession's business too.   *)
(*                                                                         *)
(* The session starts with Detector::start, which loads models between     *)
(* spawning the threads, and may be ended by Detector::stop.               *)
(***************************************************************************)
EXTENDS Integers, FiniteSets

CONSTANTS
  Models,       \* optional models the configuration names
  MaxFrames,    \* bound: frames beyond this many are not told apart
  FacedFrames,  \* the frames that show a usable face
  MaxEnrols     \* bound on calls to Detector::enrol

ASSUME PipelineAssumption ==
  /\ Models \subseteq {"objects", "identity"}
  /\ MaxFrames \in Nat
  /\ FacedFrames \subseteq Nat
  /\ MaxEnrols \in Nat

Workers == {"detect", "objects", "identity"}
Threads == Workers \union {"capture"}
Results == {"objects", "identity"}

None == -1

VARIABLES
  ctl,           \* where the caller's start() or stop() is
  loaded,        \* optional models that did load
  pc,            \* where each thread is; "none" before it is spawned
  nextSeq,       \* source: the sequence number of its next frame
  slot,          \* bus: seq of the frame in the slot; the empty frame has 0
  captured,      \* bus: frames published
  seen,          \* last_seen of each worker
  stop, captureDone, sourceEnded, error,
  result,        \* shared.objects and shared.identity
  cursor,        \* detect worker: last_object_seq, last_identity_seq
  attach,        \* detect worker: results taken for the frame it has in hand
  latest,        \* shared.latest: frame with signals, or None
  face,          \* identity worker: the frame its face box comes from
  enrolRequest,
  enrolled,      \* frame whose picture was enrolled, and frame of the box used
  processed,     \* frames_detected
  skipped,       \* frames_skipped
  failed,        \* frames the face model erred on
  enrols,        \* calls to enrol()
  taken,         \* auxiliary: calls the last swap of the request took up
  answered,      \* auxiliary: calls the enrolled reference answers
  attached       \* auxiliary: every (slot, result, frame) attachment made

bus == <<nextSeq, slot, captured>>
flags == <<stop, captureDone, sourceEnded, error>>
detect == <<cursor, attach, latest, processed, skipped, failed, attached>>
enrolment == <<face, enrolRequest, enrolled, enrols, taken, answered>>
vars == <<ctl, loaded, pc, seen, bus, flags, result, detect, enrolment>>

Nobody == [picture |-> None, box |-> None]

Init ==
  /\ ctl = "idle"
  /\ loaded = {}
  /\ pc = [th \in Threads |-> "none"]
  /\ nextSeq = 0 /\ slot = 0 /\ captured = 0
  /\ seen = [w \in Workers |-> 0]
  /\ stop = FALSE /\ captureDone = FALSE /\ sourceEnded = FALSE /\ error = FALSE
  /\ result = [r \in Results |-> [seq |-> 0, state |-> "not_configured"]]
  /\ cursor = [r \in Results |-> 0]
  /\ attach = [r \in Results |-> "not_configured"]
  /\ latest = None
  /\ processed = 0 /\ skipped = 0 /\ failed = 0
  /\ attached = {}
  /\ face = None /\ enrolRequest = FALSE /\ enrolled = Nobody /\ enrols = 0
  /\ taken = 0 /\ answered = 0

Goto(th, label) == pc' = [pc EXCEPT ![th] = label]

-----------------------------------------------------------------------------
(* Detector::start.  Capture is already running while the slow models      *)
(* load.                                                                   *)

StartCapture ==
  /\ ctl = "idle"
  /\ ctl' = "load_objects"
  /\ Goto("capture", "stop?")
  /\ UNCHANGED <<loaded, seen, bus, flags, result, detect, enrolment>>

LoadModel(model, next) ==
  /\ ctl' = next
  /\ \/ model \in Models /\ loaded' = loaded \union {model}
     \/ UNCHANGED loaded     \* not configured, or note_degraded
  /\ UNCHANGED <<pc, seen, bus, flags, detect, enrolment>>

LoadObjects ==
  /\ ctl = "load_objects"
  /\ LoadModel("objects", "load_identity")
  \* arm_objects: until the first result, frames read as cadence skips
  /\ result' = IF "objects" \in loaded'
               THEN [result EXCEPT !["objects"] = [seq |-> 0, state |-> "cadence"]]
               ELSE result

LoadIdentity ==
  /\ ctl = "load_identity"
  /\ LoadModel("identity", "spawn_detect")
  /\ UNCHANGED result

SpawnDetect ==
  /\ ctl = "spawn_detect"
  /\ ctl' = "spawn_objects"
  /\ Goto("detect", "stop?")
  /\ UNCHANGED <<loaded, seen, bus, flags, result, detect, enrolment>>

SpawnObjects ==
  /\ ctl = "spawn_objects"
  /\ ctl' = "spawn_identity"
  /\ IF "objects" \in loaded THEN Goto("objects", "stop?") ELSE UNCHANGED pc
  /\ UNCHANGED <<loaded, seen, bus, flags, result, detect, enrolment>>

SpawnIdentity ==
  /\ ctl = "spawn_identity"
  /\ ctl' = "running"
  /\ IF "identity" \in loaded
     THEN /\ Goto("identity", "stop?")
          /\ result' = [result EXCEPT !["identity"] =     \* arm_identity
                          [seq |-> 0, state |-> "not_configured"]]
     ELSE UNCHANGED <<pc, result>>
  /\ UNCHANGED <<loaded, seen, bus, flags, detect, enrolment>>

\* Detector::stop: raise the flag, then join every thread.
Stop ==
  /\ ctl = "running"
  /\ ctl' = "joining"
  /\ stop' = TRUE
  /\ UNCHANGED <<loaded, pc, seen, bus, captureDone, sourceEnded, error, result,
                 detect, enrolment>>

Exited(th) == pc[th] \in {"none", "exited"}

Joined ==
  /\ ctl = "joining"
  /\ \A th \in Threads : Exited(th)
  /\ ctl' = "stopped"
  /\ UNCHANGED <<loaded, pc, seen, bus, flags, result, detect, enrolment>>

Enrol ==
  /\ enrols < MaxEnrols
  /\ enrols' = enrols + 1
  /\ enrolRequest' = TRUE
  /\ UNCHANGED <<ctl, loaded, pc, seen, bus, flags, result, detect, face, enrolled,
                 taken, answered>>

-----------------------------------------------------------------------------
(* capture_loop.                                                           *)

\* Mutant: capture never looks at the flag.
CaptureIgnoresStop ==
  /\ pc["capture"] = "stop?"
  /\ Goto("capture", "read")
  /\ UNCHANGED <<ctl, loaded, seen, bus, flags, result, detect, enrolment>>

CaptureCheckStop ==
  /\ pc["capture"] = "stop?"
  /\ Goto("capture", IF stop THEN "finish" ELSE "read")
  /\ UNCHANGED <<ctl, loaded, seen, bus, flags, result, detect, enrolment>>

\* next_frame returns a frame: FrameBus::publish overwrites the slot.
CaptureFrame ==
  /\ pc["capture"] = "read"
  /\ nextSeq < MaxFrames
  /\ slot' = nextSeq
  /\ nextSeq' = nextSeq + 1
  /\ captured' = captured + 1
  /\ Goto("capture", "stop?")
  /\ UNCHANGED <<ctl, loaded, seen, flags, result, detect, enrolment>>

\* The source is longer than the bound: its further frames are left out, but a
\* camera that never ends is not turned into one that does.
CaptureBeyondBound ==
  /\ pc["capture"] = "read"
  /\ nextSeq = MaxFrames
  /\ Goto("capture", "stop?")
  /\ UNCHANGED <<ctl, loaded, seen, bus, flags, result, detect, enrolment>>

\* next_frame returns None, or an error.
CaptureEnd ==
  /\ pc["capture"] = "read"
  /\ Goto("capture", "finish")
  /\ \/ sourceEnded' = TRUE /\ UNCHANGED error
     \/ error' = TRUE /\ UNCHANGED sourceEnded
  /\ UNCHANGED <<ctl, loaded, seen, bus, stop, captureDone, result, detect, enrolment>>

CaptureFinish ==
  /\ pc["capture"] = "finish"
  /\ captureDone' = TRUE
  /\ Goto("capture", "exited")
  /\ UNCHANGED <<ctl, loaded, seen, bus, stop, sourceEnded, error, result, detect,
                 enrolment>>

-----------------------------------------------------------------------------
(* The head of every worker's loop.                                        *)

LeaveLoop(w) == Goto(w, IF w = "detect" THEN "close" ELSE "exited")

CheckStop(w) ==
  /\ pc[w] = "stop?"
  /\ IF stop THEN LeaveLoop(w) ELSE Goto(w, "done?")
  /\ UNCHANGED <<ctl, loaded, seen, bus, flags, result, detect, enrolment>>

\* capture_done && bus.latest().seq <= last_seen, evaluated left to right
CheckDone(w) ==
  /\ pc[w] = "done?"
  /\ Goto(w, IF captureDone THEN "drained?" ELSE "take")
  /\ UNCHANGED <<ctl, loaded, seen, bus, flags, result, detect, enrolment>>

\* Mutant: a finished capture ends the worker, drained or not.
CheckDrainedNever(w) ==
  /\ pc[w] = "drained?"
  /\ LeaveLoop(w)
  /\ UNCHANGED <<ctl, loaded, seen, bus, flags, result, detect, enrolment>>

\* Mutant: the last frame counts as one still to come.
CheckDrainedStrict(w) ==
  /\ pc[w] = "drained?"
  /\ IF slot < seen[w] THEN LeaveLoop(w) ELSE Goto(w, "take")
  /\ UNCHANGED <<ctl, loaded, seen, bus, flags, result, detect, enrolment>>

CheckDrained(w) ==
  /\ pc[w] = "drained?"
  /\ IF slot <= seen[w] THEN LeaveLoop(w) ELSE Goto(w, "take")
  /\ UNCHANGED <<ctl, loaded, seen, bus, flags, result, detect, enrolment>>

FirstStep(w) == IF w = "identity" THEN "face" ELSE "run"

\* Mutant: the frame in the slot counts as skipped too.
TakeNewOvercounts(w) ==
  /\ pc[w] = "take"
  /\ IF slot <= seen[w]
     THEN Goto(w, "stop?") /\ UNCHANGED <<seen, skipped>>
     ELSE /\ Goto(w, FirstStep(w))
          /\ seen' = [seen EXCEPT ![w] = slot]
          /\ skipped' = IF w = "detect" THEN skipped + (slot - seen[w]) ELSE skipped
  /\ UNCHANGED <<ctl, loaded, bus, flags, result, cursor, attach, latest, processed,
                 failed, attached, enrolment>>

\* Mutant: a frame is new unless it is the sentinel, so the skip count underflows.
TakeNewAgain(w) ==
  /\ pc[w] = "take"
  /\ IF slot = 0
     THEN Goto(w, "stop?") /\ UNCHANGED <<seen, skipped>>
     ELSE /\ Goto(w, FirstStep(w))
          /\ seen' = [seen EXCEPT ![w] = slot]
          /\ skipped' = IF w = "detect" THEN skipped + (slot - seen[w] - 1) ELSE skipped
  /\ UNCHANGED <<ctl, loaded, bus, flags, result, cursor, attach, latest, processed,
                 failed, attached, enrolment>>

\* FrameBus::take_new; a worker with nothing new sleeps and starts over.
TakeNew(w) ==
  /\ pc[w] = "take"
  /\ IF slot <= seen[w]
     THEN Goto(w, "stop?") /\ UNCHANGED <<seen, skipped>>
     ELSE /\ Goto(w, FirstStep(w))
          /\ seen' = [seen EXCEPT ![w] = slot]
          /\ skipped' = IF w = "detect" THEN skipped + (slot - seen[w] - 1) ELSE skipped
  /\ UNCHANGED <<ctl, loaded, bus, flags, result, cursor, attach, latest, processed,
                 failed, attached, enrolment>>

-----------------------------------------------------------------------------
(* detect_loop, with a frame in hand: seen["detect"].                      *)

\* The face model errs: the frame goes no further.
FaceModelFails ==
  /\ pc["detect"] = "run"
  /\ Goto("detect", "stop?")
  /\ failed' = failed + 1
  /\ UNCHANGED <<ctl, loaded, seen, bus, flags, result, cursor, attach, latest,
                 processed, skipped, attached, enrolment>>

\* Mutant: the cursor stays, so the result is carried forward.
TakeResultAgain(r, from, next) ==
  /\ pc["detect"] = from
  /\ Goto("detect", next)
  /\ attach' = [attach EXCEPT ![r] = result[r].state]
  /\ attached' = IF result[r].seq > 0
                 THEN attached \union {<<r, result[r].seq, seen["detect"]>>}
                 ELSE attached
  /\ UNCHANGED <<ctl, loaded, seen, bus, flags, result, cursor, latest, processed,
                 skipped, failed, enrolment>>

\* take_new_objects, take_new_identity: a result is handed over once.
TakeResult(r, from, next) ==
  /\ pc["detect"] = from
  /\ Goto("detect", next)
  /\ LET isNew == result[r].state # "not_configured" /\ result[r].seq > cursor[r]
     IN  /\ attach' = [attach EXCEPT ![r] =
                         IF isNew \/ result[r].state = "not_configured"
                         THEN result[r].state ELSE "cadence"]
         /\ cursor' = IF isNew THEN [cursor EXCEPT ![r] = result[r].seq] ELSE cursor
         /\ attached' = IF isNew
                        THEN attached \union {<<r, result[r].seq, seen["detect"]>>}
                        ELSE attached
  /\ UNCHANGED <<ctl, loaded, seen, bus, flags, result, latest, processed, skipped,
                 failed, enrolment>>

\* Fusion has stepped; the frame and its signals become `latest` together.
StoreLatest ==
  /\ pc["detect"] = "store"
  /\ Goto("detect", "stop?")
  /\ latest' = seen["detect"]
  /\ processed' = processed + 1
  /\ UNCHANGED <<ctl, loaded, seen, bus, flags, result, cursor, attach, skipped,
                 failed, attached, enrolment>>

CloseSession ==
  /\ pc["detect"] = "close"
  /\ Goto("detect", "exited")
  /\ UNCHANGED <<ctl, loaded, seen, bus, flags, result, detect, enrolment>>

-----------------------------------------------------------------------------
(* object_loop, identity_loop.                                             *)

Publish(r, state) ==
  /\ result' = [result EXCEPT ![r] = [seq |-> seen[r], state |-> state]]
  /\ Goto(r, "stop?")

RunObjects ==
  /\ pc["objects"] = "run"
  /\ \E state \in {"produced", "failed"} : Publish("objects", state)
  /\ UNCHANGED <<ctl, loaded, seen, bus, flags, detect, enrolment>>

\* The face is whatever the detect worker last saw, on whatever frame.
BorrowFace ==
  /\ pc["identity"] = "face"
  /\ IF latest \in FacedFrames
     THEN face' = latest /\ Goto("identity", "embed") /\ UNCHANGED result
     ELSE Publish("identity", "gated") /\ UNCHANGED face
  /\ UNCHANGED <<ctl, loaded, seen, bus, flags, detect, enrolRequest, enrolled, enrols,
                 taken, answered>>

\* embed, then enrol_request.swap(false).
Embed ==
  /\ pc["identity"] = "embed"
  /\ \/ /\ enrolRequest' = FALSE
        /\ taken' = IF enrolRequest THEN enrols ELSE taken
        /\ Goto("identity", IF enrolRequest THEN "keep" ELSE "compare")
        /\ UNCHANGED result
     \/ Publish("identity", "failed") /\ UNCHANGED <<enrolRequest, taken>>
  /\ UNCHANGED <<ctl, loaded, seen, bus, flags, detect, face, enrolled, enrols, answered>>

\* Mutant: the request is cleared once more when the reference is there.
KeepClearsRequest ==
  /\ pc["identity"] = "keep"
  /\ enrolled' = [picture |-> seen["identity"], box |-> face]
  /\ answered' = taken
  /\ enrolRequest' = FALSE
  /\ Goto("identity", "compare")
  /\ UNCHANGED <<ctl, loaded, seen, bus, flags, result, detect, face, enrols, taken>>

KeepReference ==
  /\ pc["identity"] = "keep"
  /\ enrolled' = [picture |-> seen["identity"], box |-> face]
  /\ answered' = taken
  /\ Goto("identity", "compare")
  /\ UNCHANGED <<ctl, loaded, seen, bus, flags, result, detect, face, enrolRequest, enrols,
                 taken>>

\* Mutant: with no reference, the check passes.
ComparePasses ==
  /\ pc["identity"] = "compare"
  /\ Publish("identity", "produced")
  /\ UNCHANGED <<ctl, loaded, seen, bus, flags, detect, enrolment>>

Compare ==
  /\ pc["identity"] = "compare"
  /\ Publish("identity", IF enrolled = Nobody THEN "not_configured" ELSE "produced")
  /\ UNCHANGED <<ctl, loaded, seen, bus, flags, detect, enrolment>>

-----------------------------------------------------------------------------
Capture ==
  CaptureCheckStop \/ CaptureFrame \/ CaptureBeyondBound \/ CaptureEnd \/ CaptureFinish

LoopHead(w) == CheckStop(w) \/ CheckDone(w) \/ CheckDrained(w) \/ TakeNew(w)

Detect ==
  \/ LoopHead("detect")
  \/ FaceModelFails
  \/ TakeResult("objects", "run", "identity")
  \/ TakeResult("identity", "identity", "store")
  \/ StoreLatest
  \/ CloseSession

Objects == LoopHead("objects") \/ RunObjects

Identity ==
  \/ LoopHead("identity")
  \/ BorrowFace \/ Embed \/ KeepReference \/ Compare

Start ==
  StartCapture \/ LoadObjects \/ LoadIdentity \/ SpawnDetect \/ SpawnObjects \/ SpawnIdentity

Next == Start \/ Stop \/ Joined \/ Enrol \/ Capture \/ Detect \/ Objects \/ Identity

Spec == Init /\ [][Next]_vars

\* The scheduler runs every thread, start() and join() go on, and the source
\* does not block for ever.  Nothing makes a caller stop or enrol.
Fairness ==
  /\ WF_vars(Start) /\ WF_vars(Joined)
  /\ WF_vars(Capture) /\ WF_vars(Detect) /\ WF_vars(Objects) /\ WF_vars(Identity)

FairSpec == Spec /\ Fairness

-----------------------------------------------------------------------------
(* Properties                                                              *)

HeadLabels == {"none", "stop?", "done?", "drained?", "take", "exited"}
Labels ==
  [th \in Threads |->
    CASE th = "capture"  -> {"none", "stop?", "read", "finish", "exited"}
      [] th = "detect"   -> HeadLabels \union {"run", "identity", "store", "close"}
      [] th = "objects"  -> HeadLabels \union {"run"}
      [] th = "identity" -> HeadLabels \union {"face", "embed", "keep", "compare"}]

States == {"not_configured", "cadence", "produced", "failed", "gated"}

TypeOK ==
  /\ ctl \in {"idle", "load_objects", "load_identity", "spawn_detect",
              "spawn_objects", "spawn_identity", "running", "joining", "stopped"}
  /\ loaded \subseteq Models
  /\ pc \in [Threads -> UNION {Labels[th] : th \in Threads}]
  /\ \A th \in Threads : pc[th] \in Labels[th]
  /\ nextSeq \in Nat /\ slot \in Nat /\ captured \in Nat
  /\ seen \in [Workers -> Nat]
  /\ {stop, captureDone, sourceEnded, error} \subseteq BOOLEAN
  /\ result \in [Results -> [seq : Nat, state : States]]
  /\ cursor \in [Results -> Nat]
  /\ attach \in [Results -> States]
  /\ attached \subseteq Results \X Nat \X Nat
  /\ latest \in Nat \union {None} /\ face \in Nat \union {None}
  /\ processed \in Nat /\ skipped \in Nat /\ failed \in Nat
  /\ enrols \in Nat /\ taken \in Nat /\ answered \in Nat
  /\ enrolRequest \in BOOLEAN
  /\ enrolled \in [picture : Nat \union {None}, box : Nat \union {None}]

\* Each object or identity result is attached to at most one frame, however
\* the two workers' cursors move (pipeline/mod.rs:192-212, 229-242).
AttachedOnce ==
  \A a, b \in attached : a[1] = b[1] /\ a[2] = b[2] => a = b

\* Every frame number up to the detect worker's cursor is accounted for
\* exactly once: skipped, processed, failed, or in hand (workers.rs:130-133,
\* 278, 293; frame_bus.rs:54-64).
FramesAccountedFor ==
  LET inHand == IF pc["detect"] \in {"run", "identity", "store"} THEN 1 ELSE 0
  IN  skipped + processed + failed + inHand = seen["detect"]

\* A worker that leaves its loop without being told to stop has taken the last
\* frame the source gave, wherever capture was when it last looked
\* (workers.rs:113-116): no frame is published after a worker gave up.
DrainedBeforeExit ==
  \A w \in Workers :
    pc[w] = "exited" /\ ~stop => captureDone /\ seen[w] = slot

\* No call to enrol() is lost, the first or a later one, wherever it falls between
\* the identity worker's embedding, its swap of the request and its store
\* (workers.rs:422-430): the last call is still pending, or the reference that answers
\* it is being stored, or is the one enrolled.
EnrolmentNotLost ==
  \/ enrolRequest
  \/ pc["identity"] = "keep" /\ taken = enrols
  \/ answered = enrols

\* No identity score is published before someone enrolled: an unenrolled
\* session never reads as a verified one (workers.rs:444-451).
NoScoreBeforeEnrolment ==
  result["identity"].state = "produced" => enrolled # Nobody

\* stop() returns: every thread sees the flag and leaves (pipeline/mod.rs:481-486).
StopReturns == (ctl = "joining") ~> (ctl = "stopped")

\* A source that ends takes the whole session with it: nobody waits for a
\* frame that will never come (workers.rs:113-116, 356-358, 400-402).
SourceEndDrains == captureDone ~> \A th \in Threads : Exited(th)

-----------------------------------------------------------------------------
(* What the threads promise each other and a caller of stop().             *)

\* Where FrameStream has a reader, by its place in its loop.
PlaceAt(label) ==
  CASE label = "none" -> "away"
    [] label \in {"stop?", "done?", "drained?", "take"} -> "reading"
    [] label \in {"close", "exited"} -> "left"
    [] OTHER -> "holding"

\* Threads between their look at the flag and what it lets them begin.
PastTheFlag ==
  {th \in Threads : pc[th] \in {"read", "done?", "drained?", "take"}}

Handed(w) ==
  IF w = "detect" THEN (IF latest = None THEN 0 ELSE latest) ELSE result[w].seq

Stream == INSTANCE FrameStream
            WITH Readers <- Workers,
                 published <- captured, newest <- slot,
                 closed <- captureDone, stopping <- stop,
                 late <- IF stop THEN PastTheFlag ELSE {},
                 place <- [w \in Workers |-> PlaceAt(pc[w])],
                 cursor <- seen,
                 handed <- [w \in Workers |-> Handed(w)]

\* Whatever the interleaving, the threads around the bus are a FrameStream: the
\* frames are numbered without a gap, each worker takes only newer ones and hands
\* on results of the frame in its hand, leaves unasked only after the last frame,
\* and after stop() begins at most what it was about to (workers.rs:51-130,
\* frame_bus.rs:37-64).
StreamSpec == Stream!FSpec

\* Steps from a place in a worker's loop back to its head, at most.
ToHead(label) ==
  CASE label \in {"store", "compare"} -> 1
    [] label \in {"identity", "keep"} -> 2
    [] label \in {"run", "embed"} -> 3
    [] label = "face" -> 4
    [] label = "take" -> 5
    [] label = "drained?" -> 6
    [] label = "done?" -> 7
    [] OTHER -> 0

\* Steps out of the loop for a worker that has the last frame, and for one that
\* has yet to take it.
LevelLeft(label) ==
  CASE label = "drained?" -> 2
    [] label = "done?" -> 3
    [] label = "take" -> 5
    [] OTHER -> 4 + ToHead(label)
BehindLeft(label) ==
  CASE label = "take" -> 9
    [] label = "drained?" -> 10
    [] label = "done?" -> 11
    [] OTHER -> 12 + ToHead(label)

\* Steps a worker has left: after a stop it leaves at the head of its loop; once
\* capture is done, when it has looked for a frame and found the last one taken.
WorkerLeft(w) ==
  CASE pc[w] = "exited" -> 0
    [] pc[w] = "close" -> 1
    [] pc[w] = "none" -> 17
    [] OTHER -> IF stop THEN 2 + ToHead(pc[w])
                ELSE IF slot <= seen[w] THEN LevelLeft(pc[w]) ELSE BehindLeft(pc[w])

CaptureLeft ==
  CASE pc["capture"] = "read" -> 3
    [] pc["capture"] = "stop?" -> 2
    [] pc["capture"] = "finish" -> 1
    [] OTHER -> 0

StepsLeft ==
  CaptureLeft + WorkerLeft("detect") + WorkerLeft("objects") + WorkerLeft("identity")

\* Once stop() was called, or the source has ended, whatever a thread does brings
\* them all nearer to their end: no thread can keep another from leaving, or go
\* round its loop for ever while they wait (workers.rs:51-53, 110-116).
WindsDown ==
  [][(stop \/ captureDone) /\ pc' # pc => StepsLeft' < StepsLeft]_vars

-----------------------------------------------------------------------------
(* What the comments say and the code does not do.                         *)

\* workers.rs:113, "Capture finished and there is nothing new left to process":
\* a session that ran to its end has processed or failed on a frame, if there
\* was one.
LastFrameIsRead ==
  (pc["detect"] = "exited" /\ ~stop /\ captured > 0) => processed + failed > 0

\* pipeline/mod.rs:196-198, "each result is attached to the first face frame
\* that follows it".
ResultsFollowTheirFrame ==
  \A a \in attached : a[3] >= a[2]

\* pipeline/mod.rs:549, is_running: "Whether the pipeline still has threads
\* doing work."
IsRunning == ctl \notin {"idle", "stopped"} /\ ~captureDone
StillRunning ==
  (ctl = "running" /\ \E th \in Threads : pc[th] \notin {"none", "exited"}) => IsRunning

\* pipeline/mod.rs:521-526, enrol(): "Capture the next usable face as the
\* identity reference ... on its next cycle with a face present".
EnrolsAFace == enrolled.picture # None => enrolled.picture \in FacedFrames
=============================================================================
