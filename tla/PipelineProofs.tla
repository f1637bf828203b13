--------------------------- MODULE PipelineProofs ---------------------------
(***************************************************************************)
(* What the threads of a Detector keep in every interleaving, for any      *)
(* number of frames, models and enrolments.                                *)
(***************************************************************************)
EXTENDS Pipeline, TLAPS

\* The labels each thread's place is one of.
LEMMA LabelsOf ==
  /\ Labels["capture"] = {"none", "stop?", "read", "finish", "exited"}
  /\ Labels["detect"] = HeadLabels \union {"run", "identity", "store", "close"}
  /\ Labels["objects"] = HeadLabels \union {"run"}
  /\ Labels["identity"] = HeadLabels \union {"face", "embed", "keep", "compare"}
  /\ Threads = {"capture", "detect", "objects", "identity"}
<1>1. Threads = {"capture", "detect", "objects", "identity"}
  BY DEF Threads, Workers
<1>2. Labels["capture"] = {"none", "stop?", "read", "finish", "exited"}
  BY <1>1, Zenon DEF Labels
<1>3. Labels["detect"] = HeadLabels \union {"run", "identity", "store", "close"}
  BY <1>1, Zenon DEF Labels
<1>4. Labels["objects"] = HeadLabels \union {"run"}
  BY <1>1, Zenon DEF Labels
<1>5. Labels["identity"] = HeadLabels \union {"face", "embed", "keep", "compare"}
  BY <1>1, Zenon DEF Labels
<1> QED  BY <1>1, <1>2, <1>3, <1>4, <1>5

\* A thread goes to one of its own labels.
LEMMA GotoType ==
  ASSUME NEW th \in Threads, NEW label \in Labels[th], Goto(th, label),
         pc \in [Threads -> UNION {Labels[x] : x \in Threads}],
         \A x \in Threads : pc[x] \in Labels[x]
  PROVE  /\ pc' \in [Threads -> UNION {Labels[x] : x \in Threads}]
         /\ \A x \in Threads : pc'[x] \in Labels[x]
BY DEF Goto

LEMMA InitType == Init => TypeOK
<1> SUFFICES ASSUME Init PROVE TypeOK
  OBVIOUS
<1>1. /\ pc \in [Threads -> UNION {Labels[th] : th \in Threads}]
      /\ \A th \in Threads : pc[th] \in Labels[th]
  BY LabelsOf DEF Init, HeadLabels
<1> QED  BY <1>1 DEF Init, TypeOK, None, Nobody, States, Results, Workers

\* Places of the threads, as the type invariant has them.
PcOK ==
  /\ pc \in [Threads -> UNION {Labels[th] : th \in Threads}]
  /\ \A th \in Threads : pc[th] \in Labels[th]

\* start() and stop() keep the types.
LEMMA ControlType ==
  ASSUME TypeOK, Start \/ Stop \/ Joined \/ Enrol
  PROVE  TypeOK'
<1> USE DEF TypeOK
<1>1. CASE StartCapture
  <2>1. PcOK'
    BY <1>1, LabelsOf, GotoType DEF StartCapture, PcOK
  <2> QED  BY <1>1, <2>1 DEF StartCapture, PcOK, bus, flags, detect, enrolment
<1>2. CASE LoadObjects
  <2>1. result' \in [Results -> [seq : Nat, state : States]]
    BY <1>2 DEF LoadObjects, States
  <2> QED  BY <1>2, <2>1 DEF LoadObjects, LoadModel, bus, flags, detect, enrolment
<1>3. CASE LoadIdentity
  BY <1>3 DEF LoadIdentity, LoadModel, bus, flags, detect, enrolment
<1>4. CASE SpawnDetect
  <2>1. PcOK'
    BY <1>4, LabelsOf, GotoType DEF SpawnDetect, PcOK, HeadLabels
  <2> QED  BY <1>4, <2>1 DEF SpawnDetect, PcOK, bus, flags, detect, enrolment
<1>5. CASE SpawnObjects
  <2>1. PcOK'
    BY <1>5, LabelsOf, GotoType DEF SpawnObjects, PcOK, HeadLabels
  <2> QED  BY <1>5, <2>1 DEF SpawnObjects, PcOK, bus, flags, detect, enrolment
<1>6. CASE SpawnIdentity
  <2>1. PcOK'
    BY <1>6, LabelsOf, GotoType DEF SpawnIdentity, PcOK, HeadLabels
  <2>2. result' \in [Results -> [seq : Nat, state : States]]
    BY <1>6 DEF SpawnIdentity, States
  <2> QED  BY <1>6, <2>1, <2>2 DEF SpawnIdentity, PcOK, bus, flags, detect, enrolment
<1>7. CASE Stop
  BY <1>7 DEF Stop, bus, detect, enrolment
<1>8. CASE Joined
  BY <1>8 DEF Joined, bus, flags, detect, enrolment
<1>9. CASE Enrol
  BY <1>9 DEF Enrol, bus, flags, detect
<1> QED  BY <1>1, <1>2, <1>3, <1>4, <1>5, <1>6, <1>7, <1>8, <1>9 DEF Start

\* capture_loop keeps the types.
LEMMA CaptureType ==
  ASSUME TypeOK, Capture
  PROVE  TypeOK'
<1> USE DEF TypeOK
<1>1. PcOK'
  BY LabelsOf, GotoType
     DEF Capture, CaptureCheckStop, CaptureFrame, CaptureBeyondBound, CaptureEnd,
         CaptureFinish, PcOK
<1>2. CASE CaptureCheckStop
  BY <1>1, <1>2 DEF CaptureCheckStop, PcOK, bus, flags, detect, enrolment
<1>3. CASE CaptureFrame
  BY <1>1, <1>3 DEF CaptureFrame, PcOK, flags, detect, enrolment
<1>4. CASE CaptureBeyondBound
  BY <1>1, <1>4 DEF CaptureBeyondBound, PcOK, bus, flags, detect, enrolment
<1>5. CASE CaptureEnd
  BY <1>1, <1>5 DEF CaptureEnd, PcOK, bus, detect, enrolment
<1>6. CASE CaptureFinish
  BY <1>1, <1>6 DEF CaptureFinish, PcOK, bus, detect, enrolment
<1> QED  BY <1>2, <1>3, <1>4, <1>5, <1>6 DEF Capture

\* The head of a worker's loop keeps the types.
LEMMA LoopHeadType ==
  ASSUME TypeOK, NEW w \in Workers, LoopHead(w)
  PROVE  TypeOK'
<1> USE DEF TypeOK
<1>1. w \in Threads /\ HeadLabels \subseteq Labels[w] /\ FirstStep(w) \in Labels[w]
      /\ (w = "detect" => "close" \in Labels[w])
  BY LabelsOf DEF Workers, Threads, FirstStep
<1>2. PcOK'
  BY <1>1, GotoType
     DEF LoopHead, CheckStop, CheckDone, CheckDrained, TakeNew, LeaveLoop, HeadLabels, PcOK
<1>3. CASE CheckStop(w)
  BY <1>2, <1>3 DEF CheckStop, PcOK, bus, flags, detect, enrolment
<1>4. CASE CheckDone(w)
  BY <1>2, <1>4 DEF CheckDone, PcOK, bus, flags, detect, enrolment
<1>5. CASE CheckDrained(w)
  BY <1>2, <1>5 DEF CheckDrained, PcOK, bus, flags, detect, enrolment
<1>6. CASE TakeNew(w)
  <2>1. seen' \in [Workers -> Nat] /\ skipped' \in Nat
    BY <1>6 DEF TakeNew
  <2> QED  BY <1>2, <1>6, <2>1 DEF TakeNew, PcOK, bus, flags, enrolment
<1> QED  BY <1>3, <1>4, <1>5, <1>6 DEF LoopHead

\* Taking a result moves the cursor to a natural and records the attachment.
LEMMA TakeResultType ==
  ASSUME TypeOK, NEW r \in Results, NEW from, NEW next \in Labels["detect"],
         TakeResult(r, from, next)
  PROVE  TypeOK'
<1> USE DEF TypeOK
<1>1. PcOK'
  BY LabelsOf, GotoType DEF TakeResult, PcOK
<1>2. result[r] \in [seq : Nat, state : States] /\ seen["detect"] \in Nat
  BY DEF Workers
<1>3. attach' \in [Results -> States]
  BY <1>2 DEF TakeResult, States
<1>4. cursor' \in [Results -> Nat]
  BY <1>2 DEF TakeResult
<1>5. attached' \subseteq Results \X Nat \X Nat
  BY <1>2 DEF TakeResult
<1> QED  BY <1>1, <1>3, <1>4, <1>5 DEF TakeResult, PcOK, bus, flags, enrolment

\* The rest of detect_loop keeps the types.
LEMMA DetectType ==
  ASSUME TypeOK, FaceModelFails \/ StoreLatest \/ CloseSession
  PROVE  TypeOK'
<1> USE DEF TypeOK
<1>1. PcOK'
  BY LabelsOf, GotoType DEF FaceModelFails, StoreLatest, CloseSession, PcOK, HeadLabels
<1>2. CASE FaceModelFails
  BY <1>1, <1>2 DEF FaceModelFails, PcOK, bus, flags, enrolment
<1>3. CASE StoreLatest
  BY <1>1, <1>3 DEF StoreLatest, PcOK, bus, flags, enrolment, Workers
<1>4. CASE CloseSession
  BY <1>1, <1>4 DEF CloseSession, PcOK, bus, flags, detect, enrolment
<1> QED  BY <1>2, <1>3, <1>4

\* Publishing stores a result of the frame in hand and goes back to the loop.
LEMMA PublishType ==
  ASSUME TypeOK, NEW r \in Results, NEW state \in States, Publish(r, state)
  PROVE  PcOK' /\ result' \in [Results -> [seq : Nat, state : States]]
<1>1. r \in Threads /\ "stop?" \in Labels[r] /\ seen[r] \in Nat
  BY LabelsOf DEF Results, Threads, Workers, HeadLabels, TypeOK
<1> QED  BY <1>1, GotoType DEF Publish, TypeOK, PcOK

\* object_loop and identity_loop keep the types.
LEMMA ResultWorkersType ==
  ASSUME TypeOK, RunObjects \/ BorrowFace \/ Embed \/ KeepReference \/ Compare
  PROVE  TypeOK'
<1> USE DEF TypeOK
<1>s. {"produced", "failed", "gated", "not_configured"} \subseteq States
      /\ {"objects", "identity"} \subseteq Results
  BY DEF States, Results
<1>1. CASE RunObjects
  <2>1. PcOK' /\ result' \in [Results -> [seq : Nat, state : States]]
    BY <1>1, <1>s, PublishType DEF RunObjects
  <2> QED  BY <1>1, <2>1 DEF RunObjects, PcOK, bus, flags, detect, enrolment
<1>2. CASE BorrowFace
  <2>1. PcOK' /\ result' \in [Results -> [seq : Nat, state : States]]
    <3>1. CASE latest \in FacedFrames
      BY <1>2, <3>1, LabelsOf, GotoType DEF BorrowFace, PcOK, HeadLabels
    <3>2. CASE latest \notin FacedFrames
      BY <1>2, <3>2, <1>s, PublishType DEF BorrowFace
    <3> QED  BY <3>1, <3>2
  <2>2. face' \in Nat \union {None}
    BY <1>2 DEF BorrowFace
  <2> QED  BY <1>2, <2>1, <2>2 DEF BorrowFace, PcOK, bus, flags, detect
<1>3. CASE Embed
  <2>1. PcOK' /\ result' \in [Results -> [seq : Nat, state : States]]
    <3>1. CASE Publish("identity", "failed")
      BY <3>1, <1>s, PublishType
    <3>2. CASE Goto("identity", IF enrolRequest THEN "keep" ELSE "compare") /\ UNCHANGED result
      BY <3>2, LabelsOf, GotoType DEF PcOK
    <3> QED  BY <1>3, <3>1, <3>2 DEF Embed
  <2>2. enrolRequest' \in BOOLEAN
    BY <1>3 DEF Embed
  <2> QED  BY <1>3, <2>1, <2>2 DEF Embed, PcOK, bus, flags, detect
<1>4. CASE KeepReference
  <2>1. PcOK'
    BY <1>4, LabelsOf, GotoType DEF KeepReference, PcOK
  <2>2. enrolled' \in [picture : Nat \union {None}, box : Nat \union {None}]
    BY <1>4 DEF KeepReference, Workers
  <2> QED  BY <1>4, <2>1, <2>2 DEF KeepReference, PcOK, bus, flags, detect
<1>5. CASE Compare
  <2>1. PcOK' /\ result' \in [Results -> [seq : Nat, state : States]]
    BY <1>5, <1>s, PublishType DEF Compare
  <2> QED  BY <1>5, <2>1 DEF Compare, PcOK, bus, flags, detect, enrolment
<1> QED  BY <1>1, <1>2, <1>3, <1>4, <1>5

LEMMA NextType == TypeOK /\ [Next]_vars => TypeOK'
<1> SUFFICES ASSUME TypeOK, [Next]_vars PROVE TypeOK'
  OBVIOUS
<1>1. CASE Start \/ Stop \/ Joined \/ Enrol
  BY <1>1, ControlType
<1>2. CASE Capture
  BY <1>2, CaptureType
<1>3. CASE Detect
  BY <1>3, LoopHeadType, TakeResultType, DetectType, LabelsOf DEF Detect, Workers, Results
<1>4. CASE Objects
  BY <1>4, LoopHeadType, ResultWorkersType DEF Objects, Workers
<1>5. CASE Identity
  BY <1>5, LoopHeadType, ResultWorkersType DEF Identity, Workers
<1>6. CASE UNCHANGED vars
  BY <1>6 DEF vars, bus, flags, detect, enrolment, TypeOK
<1> QED  BY <1>1, <1>2, <1>3, <1>4, <1>5, <1>6 DEF Next

\* Every shared slot, cursor and counter keeps its type.
THEOREM TypeCorrect == Spec => []TypeOK
BY InitType, NextType, PTL DEF Spec

-----------------------------------------------------------------------------
\* A thread that is not spawned yet has no place; start() spawns each once.
SpawnOrder ==
  /\ ctl = "idle" => pc["capture"] = "none"
  /\ ctl \in {"idle", "load_objects", "load_identity", "spawn_detect"} =>
       pc["detect"] = "none"
  /\ ctl \in {"idle", "load_objects", "load_identity", "spawn_detect",
              "spawn_objects", "spawn_identity"} => pc["identity"] = "none"

\* A step of one thread leaves the places of the others.
LEMMA GotoOnly ==
  ASSUME TypeOK, NEW th \in Threads, NEW label, Goto(th, label)
  PROVE  /\ pc'[th] = label
         /\ \A x \in Threads \ {th} : pc'[x] = pc[x]
BY DEF Goto, TypeOK

\* What a step of a thread does to the places: it has one, and moves only itself.
LEMMA ThreadSteps ==
  ASSUME TypeOK
  PROVE  /\ Capture => pc["capture"] # "none" /\ pc'["detect"] = pc["detect"]
                       /\ pc'["objects"] = pc["objects"] /\ pc'["identity"] = pc["identity"]
         /\ Detect => pc["detect"] # "none" /\ pc'["capture"] = pc["capture"]
                       /\ pc'["objects"] = pc["objects"] /\ pc'["identity"] = pc["identity"]
         /\ Objects => pc["objects"] # "none" /\ pc'["capture"] = pc["capture"]
                       /\ pc'["detect"] = pc["detect"] /\ pc'["identity"] = pc["identity"]
         /\ Identity => pc["identity"] # "none" /\ pc'["capture"] = pc["capture"]
                       /\ pc'["detect"] = pc["detect"] /\ pc'["objects"] = pc["objects"]
<1>t. {"capture", "detect", "objects", "identity"} = Threads
  BY LabelsOf
<1>1. ASSUME Capture
      PROVE  pc["capture"] # "none" /\ \E label : Goto("capture", label)
  BY <1>1 DEF Capture, CaptureCheckStop, CaptureFrame, CaptureBeyondBound, CaptureEnd,
              CaptureFinish
<1>2. ASSUME NEW w \in Workers, LoopHead(w)
      PROVE  pc[w] # "none" /\ \E label : Goto(w, label)
  BY <1>2 DEF LoopHead, CheckStop, CheckDone, CheckDrained, TakeNew, LeaveLoop
<1>3. ASSUME Detect
      PROVE  pc["detect"] # "none" /\ \E label : Goto("detect", label)
  BY <1>2, <1>3 DEF Detect, FaceModelFails, TakeResult, StoreLatest, CloseSession, Workers
<1>4. ASSUME Objects
      PROVE  pc["objects"] # "none" /\ \E label : Goto("objects", label)
  BY <1>2, <1>4 DEF Objects, RunObjects, Publish, Workers
<1>5. ASSUME Identity
      PROVE  pc["identity"] # "none" /\ \E label : Goto("identity", label)
  BY <1>2, <1>5 DEF Identity, BorrowFace, Embed, KeepReference, Compare, Publish, Workers
<1> QED  BY <1>t, <1>1, <1>3, <1>4, <1>5, GotoOnly

LEMMA SpawnOrderInductive ==
  /\ Init => SpawnOrder
  /\ TypeOK /\ SpawnOrder /\ [Next]_vars => SpawnOrder'
<1>1. Init => SpawnOrder
  BY LabelsOf DEF Init, SpawnOrder
<1>2. ASSUME TypeOK, SpawnOrder, [Next]_vars PROVE SpawnOrder'
  <2>1. CASE Start
    BY <1>2, <2>1, LabelsOf, GotoOnly
       DEF SpawnOrder, Start, StartCapture, LoadObjects, LoadIdentity, LoadModel, SpawnDetect,
           SpawnObjects, SpawnIdentity
  <2>2. CASE Stop \/ Joined \/ Enrol
    BY <1>2, <2>2 DEF SpawnOrder, Stop, Joined, Enrol
  <2>3. CASE Capture
    <3>1. UNCHANGED ctl
      BY <2>3 DEF Capture, CaptureCheckStop, CaptureFrame, CaptureBeyondBound, CaptureEnd,
                  CaptureFinish
    <3> QED  BY <1>2, <2>3, <3>1, ThreadSteps DEF SpawnOrder
  <2>4. CASE Detect
    <3>1. UNCHANGED ctl
      BY <2>4 DEF Detect, LoopHead, CheckStop, CheckDone, CheckDrained, TakeNew,
                  FaceModelFails, TakeResult, StoreLatest, CloseSession
    <3> QED  BY <1>2, <2>4, <3>1, ThreadSteps DEF SpawnOrder
  <2>5. CASE Objects
    <3>1. UNCHANGED ctl
      BY <2>5 DEF Objects, LoopHead, CheckStop, CheckDone, CheckDrained, TakeNew, RunObjects
    <3> QED  BY <1>2, <2>5, <3>1, ThreadSteps DEF SpawnOrder
  <2>6. CASE Identity
    <3>1. UNCHANGED ctl
      BY <2>6 DEF Identity, LoopHead, CheckStop, CheckDone, CheckDrained, TakeNew,
                  BorrowFace, Embed, KeepReference, Compare
    <3> QED  BY <1>2, <2>6, <3>1, ThreadSteps DEF SpawnOrder
  <2>7. CASE UNCHANGED vars
    BY <1>2, <2>7 DEF SpawnOrder, vars
  <2> QED  BY <1>2, <2>1, <2>2, <2>3, <2>4, <2>5, <2>6, <2>7 DEF Next
<1> QED  BY <1>1, <1>2

\* Which the places of the unspawned threads obey throughout.
LEMMA SpawnOrderHolds == Spec => []SpawnOrder
BY TypeCorrect, SpawnOrderInductive, PTL DEF Spec

-----------------------------------------------------------------------------
\* Each variable has its writers: what a step of anyone leaves alone.
LEMMA Writers ==
  /\ Start \/ Stop \/ Joined \/ Enrol =>
       UNCHANGED <<seen, bus, captureDone, sourceEnded, error, detect, face, enrolled>>
  /\ Capture => UNCHANGED <<ctl, loaded, seen, stop, result, detect, enrolment>>
  /\ Detect => UNCHANGED <<ctl, loaded, bus, flags, result, enrolment>>
  /\ Objects => UNCHANGED <<ctl, loaded, bus, flags, detect, enrolment>>
  /\ Identity => UNCHANGED <<ctl, loaded, bus, flags, detect>>
<1>1. Start \/ Stop \/ Joined \/ Enrol =>
       UNCHANGED <<seen, bus, captureDone, sourceEnded, error, detect, face, enrolled>>
  BY DEF Start, StartCapture, LoadObjects, LoadIdentity, LoadModel, SpawnDetect, SpawnObjects,
         SpawnIdentity, Stop, Joined, Enrol, flags, enrolment
<1>2. Capture => UNCHANGED <<ctl, loaded, seen, stop, result, detect, enrolment>>
  BY DEF Capture, CaptureCheckStop, CaptureFrame, CaptureBeyondBound, CaptureEnd,
         CaptureFinish, flags
<1>3. Detect => UNCHANGED <<ctl, loaded, bus, flags, result, enrolment>>
  BY DEF Detect, LoopHead, CheckStop, CheckDone, CheckDrained, TakeNew, FaceModelFails,
         TakeResult, StoreLatest, CloseSession
<1>4. Objects => UNCHANGED <<ctl, loaded, bus, flags, detect, enrolment>>
  BY DEF Objects, LoopHead, CheckStop, CheckDone, CheckDrained, TakeNew, RunObjects, detect
<1>5. Identity => UNCHANGED <<ctl, loaded, bus, flags, detect>>
  BY DEF Identity, LoopHead, CheckStop, CheckDone, CheckDrained, TakeNew, BorrowFace, Embed,
         KeepReference, Compare, detect
<1> QED  BY <1>1, <1>2, <1>3, <1>4, <1>5

\* A worker's cursor moves only where that worker takes a frame.
LEMMA OwnCursor ==
  ASSUME TypeOK
  PROVE  /\ Detect => seen'["objects"] = seen["objects"] /\ seen'["identity"] = seen["identity"]
         /\ Objects => seen'["detect"] = seen["detect"] /\ seen'["identity"] = seen["identity"]
         /\ Identity => seen'["detect"] = seen["detect"] /\ seen'["objects"] = seen["objects"]
<1>1. ASSUME NEW w \in Workers, LoopHead(w)
      PROVE  \A x \in Workers \ {w} : seen'[x] = seen[x]
  BY <1>1 DEF LoopHead, CheckStop, CheckDone, CheckDrained, TakeNew, TypeOK
<1>2. Detect => \A x \in Workers \ {"detect"} : seen'[x] = seen[x]
  BY <1>1 DEF Detect, FaceModelFails, TakeResult, StoreLatest, CloseSession, Workers
<1>3. Objects => \A x \in Workers \ {"objects"} : seen'[x] = seen[x]
  BY <1>1 DEF Objects, RunObjects, Workers
<1>4. Identity => \A x \in Workers \ {"identity"} : seen'[x] = seen[x]
  BY <1>1 DEF Identity, BorrowFace, Embed, KeepReference, Compare, Workers
<1> QED  BY <1>2, <1>3, <1>4 DEF Workers

\* Places of the threads under start(), stop() and enrol(): a thread moves only
\* from "none" to the head of its loop.
LEMMA ControlPlaces ==
  ASSUME TypeOK, SpawnOrder, Start \/ Stop \/ Joined \/ Enrol
  PROVE  /\ \/ pc'["capture"] = pc["capture"]
            \/ pc["capture"] = "none" /\ pc'["capture"] = "stop?"
         /\ \/ pc'["detect"] = pc["detect"]
            \/ pc["detect"] = "none" /\ pc'["detect"] = "stop?"
         /\ \/ pc'["identity"] = pc["identity"]
            \/ pc["identity"] = "none" /\ pc'["identity"] = "stop?"
         /\ pc'["objects"] = pc["objects"] \/ pc'["objects"] = "stop?"
<1>1. CASE StartCapture
  BY <1>1, LabelsOf, GotoOnly DEF SpawnOrder, StartCapture
<1>2. CASE SpawnDetect
  BY <1>2, LabelsOf, GotoOnly DEF SpawnOrder, SpawnDetect
<1>3. CASE SpawnObjects
  <2>1. Goto("objects", "stop?") \/ pc' = pc
    BY <1>3 DEF SpawnObjects
  <2> QED  BY <2>1, LabelsOf, GotoOnly
<1>4. CASE SpawnIdentity
  <2>1. Goto("identity", "stop?") \/ pc' = pc
    BY <1>4 DEF SpawnIdentity
  <2> QED  BY <1>4, <2>1, LabelsOf, GotoOnly DEF SpawnOrder, SpawnIdentity
<1>5. CASE LoadObjects \/ LoadIdentity \/ Stop \/ Joined \/ Enrol
  <2>1. pc' = pc
    BY <1>5 DEF LoadObjects, LoadIdentity, LoadModel, Stop, Joined, Enrol
  <2> QED  BY <2>1
<1> QED  BY <1>1, <1>2, <1>3, <1>4, <1>5 DEF Start

-----------------------------------------------------------------------------
\* The frames a step of the detect worker takes are skipped or in hand, and a
\* frame in hand is processed or failed.
LEMMA AccountedInductive ==
  TypeOK /\ SpawnOrder /\ FramesAccountedFor /\ [Next]_vars => FramesAccountedFor'
<1> SUFFICES ASSUME TypeOK, SpawnOrder, FramesAccountedFor, [Next]_vars
             PROVE  FramesAccountedFor'
  OBVIOUS
<1> USE DEF FramesAccountedFor
<1>t. seen["detect"] \in Nat /\ slot \in Nat /\ processed \in Nat /\ skipped \in Nat
      /\ failed \in Nat /\ "detect" \in Threads /\ "detect" \in Workers
  BY DEF TypeOK, Workers, Threads
<1>1. CASE Start \/ Stop \/ Joined \/ Enrol
  BY <1>1, Writers, ControlPlaces DEF detect
<1>2. CASE Capture \/ Objects \/ Identity
  BY <1>2, Writers, ThreadSteps, OwnCursor DEF detect
<1>3. CASE Detect
  <2>1. CASE CheckStop("detect") \/ CheckDone("detect") \/ CheckDrained("detect")
    BY <1>t, <2>1, GotoOnly DEF CheckStop, CheckDone, CheckDrained, LeaveLoop, detect
  <2>2. CASE TakeNew("detect")
    <3>1. CASE slot <= seen["detect"]
      BY <1>t, <2>2, <3>1, GotoOnly DEF TakeNew
    <3>2. CASE ~(slot <= seen["detect"])
      <4>1. seen'["detect"] = slot /\ skipped' = skipped + (slot - seen["detect"] - 1)
            /\ pc["detect"] = "take" /\ pc'["detect"] = "run"
            /\ UNCHANGED <<processed, failed>>
        BY <1>t, <2>2, <3>2, GotoOnly DEF TakeNew, FirstStep, TypeOK
      <4> QED  BY <1>t, <4>1
    <3> QED  BY <3>1, <3>2
  <2>3. CASE FaceModelFails
    BY <1>t, <2>3, GotoOnly DEF FaceModelFails
  <2>4. CASE TakeResult("objects", "run", "identity")
    BY <1>t, <2>4, GotoOnly DEF TakeResult
  <2>5. CASE TakeResult("identity", "identity", "store")
    BY <1>t, <2>5, GotoOnly DEF TakeResult
  <2>6. CASE StoreLatest
    BY <1>t, <2>6, GotoOnly DEF StoreLatest
  <2>7. CASE CloseSession
    BY <1>t, <2>7, GotoOnly DEF CloseSession, detect
  <2> QED  BY <1>3, <2>1, <2>2, <2>3, <2>4, <2>5, <2>6, <2>7 DEF Detect, LoopHead
<1>4. CASE UNCHANGED vars
  BY <1>4 DEF vars, detect
<1> QED  BY <1>1, <1>2, <1>3, <1>4 DEF Next

\* Every frame number up to the detect worker's cursor is skipped, processed,
\* failed or in hand, for any number of frames and any interleaving.
THEOREM FramesAreAccountedFor == Spec => []FramesAccountedFor
<1>1. Init => FramesAccountedFor
  BY DEF Init, FramesAccountedFor, Workers, Threads
<1> QED  BY <1>1, AccountedInductive, TypeCorrect, SpawnOrderHolds, PTL DEF Spec

-----------------------------------------------------------------------------
\* A worker that may leave knows that capture ended, and one that left of its
\* own accord is level with the slot.
Drained(w) ==
  /\ seen[w] <= slot
  /\ pc[w] = "drained?" => captureDone
  /\ pc[w] \in {"exited", "close"} /\ ~stop => captureDone /\ seen[w] = slot

\* captureDone is raised by capture's last step, so the slot is final with it.
DrainInv ==
  /\ slot <= nextSeq
  /\ captureDone <=> pc["capture"] = "exited"
  /\ \A w \in Workers : Drained(w)

\* A step that leaves a worker, the slot and capture's flag alone.
LEMMA DrainedStutter ==
  ASSUME NEW w \in Workers, Drained(w), UNCHANGED <<slot, captureDone>>,
         stop => stop', seen'[w] = seen[w], pc'[w] = pc[w] \/ pc'[w] = "stop?"
  PROVE  Drained(w)'
BY DEF Drained

\* The head of a worker's own loop.
LEMMA DrainedLoopHead ==
  ASSUME TypeOK, NEW w \in Workers, Drained(w), LoopHead(w), UNCHANGED <<bus, flags>>
  PROVE  Drained(w)'
<1> USE DEF Drained
<1>t. w \in Threads /\ seen[w] \in Nat /\ slot \in Nat
  BY DEF TypeOK, Threads
<1>1. CASE CheckStop(w)
  BY <1>t, <1>1, GotoOnly DEF CheckStop, LeaveLoop, bus, flags
<1>2. CASE CheckDone(w)
  BY <1>t, <1>2, GotoOnly DEF CheckDone, bus, flags
<1>3. CASE CheckDrained(w)
  <2>1. seen' = seen /\ slot' = slot /\ captureDone' = captureDone /\ captureDone
    BY <1>3 DEF CheckDrained, bus, flags
  <2>2. \/ slot = seen[w]
        \/ pc'[w] = "take"
    BY <1>t, <1>3, GotoOnly DEF CheckDrained
  <2>3. pc'[w] \in {"exited", "close", "take"}
    BY <1>t, <1>3, GotoOnly DEF CheckDrained, LeaveLoop
  <2> QED  BY <2>1, <2>2, <2>3
<1>4. CASE TakeNew(w)
  <2>1. pc'[w] \in {"stop?", "run", "face"}
    BY <1>t, <1>4, GotoOnly DEF TakeNew, FirstStep
  <2>2. seen'[w] = seen[w] \/ seen'[w] = slot
    BY <1>t, <1>4 DEF TakeNew, TypeOK
  <2> QED  BY <1>t, <1>4, <2>1, <2>2 DEF TakeNew, bus, flags
<1> QED  BY <1>1, <1>2, <1>3, <1>4 DEF LoopHead

\* The rest of a worker's loop neither leaves it nor asks whether to; only
\* close_session follows a decision to leave.
LEMMA DrainedBody ==
  ASSUME TypeOK
  PROVE  /\ Detect => \/ LoopHead("detect")
                      \/ /\ seen' = seen
                         /\ \/ pc'["detect"] \in {"stop?", "identity", "store"}
                            \/ pc["detect"] = "close" /\ pc'["detect"] = "exited"
         /\ Objects => \/ LoopHead("objects")
                       \/ seen' = seen /\ pc'["objects"] = "stop?"
         /\ Identity => \/ LoopHead("identity")
                        \/ /\ seen' = seen
                           /\ pc'["identity"] \in {"stop?", "embed", "keep", "compare"}
<1>t. {"detect", "objects", "identity"} \subseteq Threads
  BY LabelsOf
<1>1. ASSUME FaceModelFails \/ StoreLatest \/ CloseSession
      PROVE  /\ seen' = seen
             /\ \/ pc'["detect"] = "stop?"
                \/ pc["detect"] = "close" /\ pc'["detect"] = "exited"
  BY <1>1, <1>t, GotoOnly DEF FaceModelFails, StoreLatest, CloseSession
<1>2. ASSUME NEW r, NEW from, NEW next, TakeResult(r, from, next)
      PROVE  seen' = seen /\ pc'["detect"] = next
  BY <1>2, <1>t, GotoOnly DEF TakeResult
<1>3. ASSUME RunObjects PROVE seen' = seen /\ pc'["objects"] = "stop?"
  BY <1>3, <1>t, GotoOnly DEF RunObjects, Publish
<1>4. ASSUME BorrowFace \/ Embed \/ KeepReference \/ Compare
      PROVE  seen' = seen /\ pc'["identity"] \in {"stop?", "embed", "keep", "compare"}
  BY <1>4, <1>t, GotoOnly DEF BorrowFace, Embed, KeepReference, Compare, Publish
<1>5. Detect => \/ LoopHead("detect")
                \/ /\ seen' = seen
                   /\ \/ pc'["detect"] \in {"stop?", "identity", "store"}
                      \/ pc["detect"] = "close" /\ pc'["detect"] = "exited"
  BY <1>1, <1>2 DEF Detect
<1> QED  BY <1>3, <1>4, <1>5 DEF Objects, Identity

LEMMA DrainInductive ==
  TypeOK /\ SpawnOrder /\ DrainInv /\ [Next]_vars => DrainInv'
<1> SUFFICES ASSUME TypeOK, SpawnOrder, DrainInv, [Next]_vars
             PROVE  DrainInv'
  OBVIOUS
<1>w. Workers = {"detect", "objects", "identity"}
  BY DEF Workers
<1>1. CASE Start \/ Stop \/ Joined \/ Enrol
  <2>1. UNCHANGED <<seen, slot, nextSeq, captureDone>>
    BY <1>1, Writers DEF bus
  <2>2. stop => stop'
    BY <1>1 DEF Start, StartCapture, LoadObjects, LoadIdentity, LoadModel, SpawnDetect,
                SpawnObjects, SpawnIdentity, Stop, Joined, Enrol, flags
  <2>3. \A w \in Workers : pc'[w] = pc[w] \/ pc'[w] = "stop?"
    BY <1>1, <1>w, ControlPlaces
  <2>4. captureDone' <=> pc'["capture"] = "exited"
    BY <1>1, <2>1, ControlPlaces DEF DrainInv
  <2> QED  BY <2>1, <2>2, <2>3, <2>4, DrainedStutter DEF DrainInv
<1>2. CASE Capture
  <2>1. CASE CaptureFrame
    <3>1. /\ pc["capture"] = "read" /\ pc'["capture"] = "stop?" /\ slot' = nextSeq
          /\ nextSeq' = nextSeq + 1 /\ UNCHANGED <<seen, stop, captureDone>>
      BY <2>1, LabelsOf, GotoOnly DEF CaptureFrame, flags
    <3>2. \A w \in Workers : pc'[w] = pc[w]
      BY <1>2, <1>w, ThreadSteps
    <3> QED  BY <3>1, <3>2 DEF DrainInv, Drained, TypeOK
  <2>2. CASE CaptureFinish
    <3>1. pc'["capture"] = "exited" /\ captureDone' /\ pc["capture"] = "finish"
          /\ UNCHANGED <<seen, slot, nextSeq, stop>>
      BY <2>2, LabelsOf, GotoOnly DEF CaptureFinish, bus
    <3>2. \A w \in Workers : pc'[w] = pc[w]
      BY <1>2, <1>w, ThreadSteps
    <3> QED  BY <3>1, <3>2 DEF DrainInv, Drained, TypeOK
  <2>3. CASE CaptureCheckStop \/ CaptureBeyondBound \/ CaptureEnd
    <3>1. /\ pc["capture"] \in {"stop?", "read"}
          /\ pc'["capture"] \in {"stop?", "read", "finish"}
          /\ UNCHANGED <<seen, slot, nextSeq, captureDone, stop>>
      BY <2>3, LabelsOf, GotoOnly
         DEF CaptureCheckStop, CaptureBeyondBound, CaptureEnd, bus, flags
    <3>2. \A w \in Workers : pc'[w] = pc[w]
      BY <1>2, <1>w, ThreadSteps
    <3>3. \A w \in Workers : Drained(w)'
      BY <3>1, <3>2, DrainedStutter DEF DrainInv
    <3> QED  BY <3>1, <3>3 DEF DrainInv
  <2> QED  BY <1>2, <2>1, <2>2, <2>3 DEF Capture
<1>3. CASE Detect \/ Objects \/ Identity
  <2>1. UNCHANGED <<bus, flags>> /\ pc'["capture"] = pc["capture"]
    BY <1>3, Writers, ThreadSteps
  <2>2. UNCHANGED <<slot, nextSeq, captureDone, stop>>
    BY <2>1 DEF bus, flags
  <2>3. \A w \in Workers : Drained(w)'
    <3>1. CASE Detect
      <4>1. Drained("objects")' /\ Drained("identity")'
        BY <1>w, <2>2, <3>1, OwnCursor, ThreadSteps, DrainedStutter DEF DrainInv
      <4>2. Drained("detect")'
        BY <1>w, <2>1, <2>2, <3>1, DrainedBody, DrainedLoopHead DEF DrainInv, Drained
      <4> QED  BY <1>w, <4>1, <4>2
    <3>2. CASE Objects
      <4>1. Drained("detect")' /\ Drained("identity")'
        BY <1>w, <2>2, <3>2, OwnCursor, ThreadSteps, DrainedStutter DEF DrainInv
      <4>2. Drained("objects")'
        BY <1>w, <2>1, <2>2, <3>2, DrainedBody, DrainedLoopHead DEF DrainInv, Drained
      <4> QED  BY <1>w, <4>1, <4>2
    <3>3. CASE Identity
      <4>1. Drained("detect")' /\ Drained("objects")'
        BY <1>w, <2>2, <3>3, OwnCursor, ThreadSteps, DrainedStutter DEF DrainInv
      <4>2. Drained("identity")'
        BY <1>w, <2>1, <2>2, <3>3, DrainedBody, DrainedLoopHead DEF DrainInv, Drained
      <4> QED  BY <1>w, <4>1, <4>2
    <3> QED  BY <1>3, <3>1, <3>2, <3>3
  <2> QED  BY <2>1, <2>2, <2>3 DEF DrainInv
<1>4. CASE UNCHANGED vars
  BY <1>4 DEF vars, bus, flags, DrainInv, Drained
<1> QED  BY <1>1, <1>2, <1>3, <1>4 DEF Next

\* A worker that leaves its loop without being told to stop has taken the last
\* frame the source gave (workers.rs:113-116), for any number of frames and any
\* interleaving with the end of capture.
THEOREM WorkersDrain == Spec => []DrainedBeforeExit
<1>1. Init => DrainInv
  BY LabelsOf DEF Init, DrainInv, Drained, Workers
<1>2. DrainInv => DrainedBeforeExit
  BY DEF DrainInv, Drained, DrainedBeforeExit
<1> QED  BY <1>1, <1>2, DrainInductive, TypeCorrect, SpawnOrderHolds, PTL DEF Spec

-----------------------------------------------------------------------------
\* Only the worker that produces a result publishes it, and start() arms a slot
\* with a result that is none.
LEMMA IdentityResult ==
  ASSUME TypeOK
  PROVE  /\ Start \/ Stop \/ Joined \/ Enrol =>
              result'["identity"].state \in {result["identity"].state, "not_configured"}
         /\ Objects => result'["identity"] = result["identity"]
<1>1. Start \/ Stop \/ Joined \/ Enrol =>
        result'["identity"].state \in {result["identity"].state, "not_configured"}
  BY DEF Start, StartCapture, LoadObjects, LoadIdentity, LoadModel, SpawnDetect,
         SpawnObjects, SpawnIdentity, Stop, Joined, Enrol, TypeOK, Results
<1>2. Objects => result'["identity"] = result["identity"]
  BY DEF Objects, LoopHead, CheckStop, CheckDone, CheckDrained, TakeNew, RunObjects,
         Publish, TypeOK, Results
<1> QED  BY <1>1, <1>2

\* What the identity worker may do to the reference and to its result.
LEMMA IdentitySteps ==
  ASSUME TypeOK, Identity
  PROVE  \/ UNCHANGED <<result, enrolled>>
         \/ /\ UNCHANGED enrolled
            /\ result'["identity"].state = "produced" => enrolled # Nobody
         \/ enrolled' # Nobody /\ UNCHANGED result
<1>t. "identity" \in Threads /\ "identity" \in Results /\ "identity" \in Workers
  BY DEF Threads, Workers, Results
<1>1. CASE LoopHead("identity")
  BY <1>1 DEF LoopHead, CheckStop, CheckDone, CheckDrained, TakeNew, enrolment
<1>2. CASE BorrowFace \/ Embed
  BY <1>2, <1>t DEF BorrowFace, Embed, Publish, TypeOK
<1>3. CASE KeepReference
  <2>1. enrolled'.picture = seen["identity"] /\ UNCHANGED result
    BY <1>3 DEF KeepReference
  <2>2. seen["identity"] \in Nat
    BY <1>t DEF TypeOK
  <2> QED  BY <2>1, <2>2 DEF Nobody, None
<1>4. CASE Compare
  BY <1>4, <1>t DEF Compare, Publish, TypeOK, enrolment
<1> QED  BY <1>1, <1>2, <1>3, <1>4 DEF Identity

LEMMA NoScoreInductive ==
  TypeOK /\ NoScoreBeforeEnrolment /\ [Next]_vars => NoScoreBeforeEnrolment'
<1> SUFFICES ASSUME TypeOK, NoScoreBeforeEnrolment, [Next]_vars
             PROVE  NoScoreBeforeEnrolment'
  OBVIOUS
<1> USE DEF NoScoreBeforeEnrolment
<1>1. CASE Start \/ Stop \/ Joined \/ Enrol
  BY <1>1, Writers, IdentityResult
<1>2. CASE Capture \/ Detect
  BY <1>2, Writers DEF enrolment
<1>3. CASE Objects
  BY <1>3, Writers, IdentityResult DEF enrolment
<1>4. CASE Identity
  BY <1>4, IdentitySteps
<1>5. CASE UNCHANGED vars
  BY <1>5 DEF vars, enrolment
<1> QED  BY <1>1, <1>2, <1>3, <1>4, <1>5 DEF Next

\* No identity score is published before someone enrolled, whenever enrol() is
\* called and however the workers interleave (workers.rs:444-451).
THEOREM UnenrolledIsUnscored == Spec => []NoScoreBeforeEnrolment
<1>1. Init => NoScoreBeforeEnrolment
  BY DEF Init, NoScoreBeforeEnrolment, Results
<1> QED  BY <1>1, NoScoreInductive, TypeCorrect, PTL DEF Spec

\* While no request is pending, the last one taken up is the last call; and unless a
\* reference is about to be stored, the one that is enrolled answers what was taken up.
EnrolInv ==
  /\ ~enrolRequest => taken = enrols
  /\ pc["identity"] # "keep" => answered = taken

\* What the identity worker does to the request, and when.
LEMMA IdentityEnrols ==
  ASSUME TypeOK, Identity
  PROVE  \/ /\ UNCHANGED <<enrolRequest, enrols, taken, answered>>
            /\ pc["identity"] # "keep"
         \/ /\ enrolRequest /\ pc["identity"] = "embed"
            /\ pc'["identity"] = "keep" /\ taken' = enrols
            /\ UNCHANGED <<enrols, answered>>
         \/ /\ pc["identity"] = "keep" /\ answered' = taken
            /\ UNCHANGED <<enrolRequest, enrols, taken>>
<1>t. "identity" \in Threads
  BY DEF Threads, Workers
<1>1. CASE LoopHead("identity")
  BY <1>1 DEF LoopHead, CheckStop, CheckDone, CheckDrained, TakeNew, enrolment
<1>2. CASE BorrowFace \/ Compare
  BY <1>2 DEF BorrowFace, Compare, enrolment
<1>3. CASE Embed
  <2>1. CASE UNCHANGED <<enrolRequest, taken>>
    BY <1>3, <2>1 DEF Embed
  <2>2. CASE ~UNCHANGED <<enrolRequest, taken>>
    <3>1. /\ pc["identity"] = "embed" /\ enrolRequest' = FALSE
          /\ taken' = IF enrolRequest THEN enrols ELSE taken
          /\ Goto("identity", IF enrolRequest THEN "keep" ELSE "compare")
          /\ UNCHANGED <<enrols, answered>>
      BY <1>3, <2>2 DEF Embed
    <3>2. enrolRequest
      BY <2>2, <3>1 DEF TypeOK
    <3> QED  BY <1>t, <3>1, <3>2, GotoOnly
  <2> QED  BY <2>1, <2>2
<1>4. CASE KeepReference
  BY <1>4 DEF KeepReference
<1> QED  BY <1>1, <1>2, <1>3, <1>4 DEF Identity

LEMMA EnrolmentInductive ==
  TypeOK /\ SpawnOrder /\ EnrolInv /\ [Next]_vars => EnrolInv'
<1> SUFFICES ASSUME TypeOK, SpawnOrder, EnrolInv, [Next]_vars
             PROVE  EnrolInv'
  OBVIOUS
<1> USE DEF EnrolInv
<1>1. CASE Enrol
  BY <1>1 DEF Enrol
<1>2. CASE Start \/ Stop \/ Joined
  <2>1. UNCHANGED <<enrols, enrolRequest, taken, answered>>
    BY <1>2 DEF Start, StartCapture, LoadObjects, LoadIdentity, LoadModel, SpawnDetect,
                SpawnObjects, SpawnIdentity, Stop, Joined, enrolment
  <2> QED  BY <1>2, <2>1, ControlPlaces
<1>3. CASE Capture \/ Detect \/ Objects
  BY <1>3, Writers, ThreadSteps DEF enrolment
<1>4. CASE Identity
  BY <1>4, IdentityEnrols
<1>5. CASE UNCHANGED vars
  BY <1>5 DEF vars, enrolment
<1> QED  BY <1>1, <1>2, <1>3, <1>4, <1>5 DEF Next

\* No call to enrol() is lost, however many there are and wherever each falls between
\* the identity worker's embedding, its swap and its store (workers.rs:422-430).
THEOREM EnrolmentIsKept == Spec => []EnrolmentNotLost
<1>1. Init => EnrolInv
  BY DEF Init, EnrolInv
<1>2. EnrolInv => EnrolmentNotLost
  BY DEF EnrolInv, EnrolmentNotLost
<1> QED  BY <1>1, <1>2, EnrolmentInductive, TypeCorrect, SpawnOrderHolds, PTL DEF Spec

-----------------------------------------------------------------------------
\* The detect worker's cursors are past every result it attached.
AttachInv ==
  /\ AttachedOnce
  /\ \A a \in attached : a[2] <= cursor[a[1]]

\* A result that is new is newer than every one attached before it.
LEMMA TakeResultOnce ==
  ASSUME TypeOK, AttachInv, NEW r \in Results, NEW from, NEW next, TakeResult(r, from, next)
  PROVE  AttachInv'
<1>t. result[r] \in [seq : Nat, state : States] /\ cursor \in [Results -> Nat]
      /\ attached \subseteq Results \X Nat \X Nat
  BY DEF TypeOK
<1>1. CASE attached' = attached /\ cursor' = cursor
  BY <1>1 DEF AttachInv, AttachedOnce
<1>2. CASE ~(attached' = attached /\ cursor' = cursor)
  <2>1. /\ result[r].seq > cursor[r]
        /\ cursor' = [cursor EXCEPT ![r] = result[r].seq]
        /\ attached' = attached \union {<<r, result[r].seq, seen["detect"]>>}
    BY <1>2 DEF TakeResult
  <2> DEFINE new == <<r, result[r].seq, seen["detect"]>>
  <2>2. new[1] = r /\ new[2] = result[r].seq
    OBVIOUS
  <2>3. \A a \in attached : a[1] = r => a[2] < new[2]
    BY <1>t, <2>1, <2>2 DEF AttachInv
  <2>4. \A a \in attached : a[1] \in Results /\ a[2] \in Nat
    BY <1>t
  <2>5. \A a \in attached' : a[2] <= cursor'[a[1]]
    BY <1>t, <2>1, <2>2, <2>3, <2>4 DEF AttachInv
  <2>6. \A a, b \in attached' : a[1] = b[1] /\ a[2] = b[2] => a = b
    <3> SUFFICES ASSUME NEW a \in attached', NEW b \in attached', a[1] = b[1], a[2] = b[2]
                 PROVE  a = b
      OBVIOUS
    <3> HIDE DEF new
    <3>1. (a \in attached \/ a = new) /\ (b \in attached \/ b = new)
      BY <2>1 DEF new
    <3>2. new[1] = r /\ new[2] \in Nat
      BY <1>t, <2>2
    <3> QED  BY <2>3, <2>4, <3>1, <3>2 DEF AttachInv, AttachedOnce
  <2> QED  BY <2>5, <2>6 DEF AttachInv, AttachedOnce
<1> QED  BY <1>1, <1>2

LEMMA AttachInductive == TypeOK /\ AttachInv /\ [Next]_vars => AttachInv'
<1> SUFFICES ASSUME TypeOK, AttachInv, [Next]_vars PROVE AttachInv'
  OBVIOUS
<1>1. CASE TakeResult("objects", "run", "identity")
           \/ TakeResult("identity", "identity", "store")
  BY <1>1, TakeResultOnce DEF Results
<1>2. CASE LoopHead("detect") \/ FaceModelFails \/ StoreLatest \/ CloseSession
  <2>1. UNCHANGED <<cursor, attached>>
    BY <1>2 DEF LoopHead, CheckStop, CheckDone, CheckDrained, TakeNew, FaceModelFails,
                StoreLatest, CloseSession, detect
  <2> QED  BY <2>1 DEF AttachInv, AttachedOnce
<1>3. CASE UNCHANGED <<cursor, attached>>
  BY <1>3 DEF AttachInv, AttachedOnce
<1> QED  BY <1>1, <1>2, <1>3, Writers DEF Next, Detect, detect, vars

\* Each object or identity result is attached to at most one frame, for any
\* number of results and however the workers interleave (pipeline/mod.rs:192-212).
THEOREM ResultsAttachOnce == Spec => []AttachedOnce
<1>1. Init => AttachInv
  BY DEF Init, AttachInv, AttachedOnce
<1>2. AttachInv => AttachedOnce
  BY DEF AttachInv
<1> QED  BY <1>1, <1>2, AttachInductive, TypeCorrect, PTL DEF Spec

-----------------------------------------------------------------------------
(* The threads around the bus are a FrameStream.                           *)

\* Places, latecomers and results as FrameStream has them.
Placed == [w \in Workers |-> PlaceAt(pc[w])]
Late == IF stop THEN PastTheFlag ELSE {}
HandedOn == [w \in Workers |-> Handed(w)]

\* Sequence numbers count the frames, and a worker that was not spawned yet has
\* taken and published nothing.
Unspawned(w) ==
  pc[w] = "none" => /\ seen[w] = 0
                    /\ w \in Results => result[w].seq = 0
StreamInv ==
  /\ captured = nextSeq
  /\ \A w \in Workers : Unspawned(w)
  /\ ctl \in {"idle", "load_objects", "load_identity", "spawn_detect", "spawn_objects"} =>
       pc["objects"] = "none"

LEMMA PlaceTable ==
  /\ PlaceAt("none") = "away"
  /\ \A label \in {"stop?", "done?", "drained?", "take"} : PlaceAt(label) = "reading"
  /\ \A label \in {"close", "exited"} : PlaceAt(label) = "left"
  /\ \A label \in {"run", "identity", "store", "face", "embed", "keep", "compare"} :
       PlaceAt(label) = "holding"
BY Zenon DEF PlaceAt

\* A thread that goes to a label changes its place, and whether it is late.
LEMMA GotoPlaced ==
  ASSUME TypeOK, NEW th \in Threads, NEW label, Goto(th, label)
  PROVE  /\ th \in Workers => Placed' = [Placed EXCEPT ![th] = PlaceAt(label)]
         /\ th \notin Workers => Placed' = Placed
         /\ label \in {"read", "done?", "drained?", "take"} =>
              PastTheFlag' = PastTheFlag \union {th}
         /\ label \notin {"read", "done?", "drained?", "take"} =>
              PastTheFlag' = PastTheFlag \ {th}
<1>1. pc'[th] = label /\ \A x \in Threads \ {th} : pc'[x] = pc[x]
  BY GotoOnly
<1>2. Workers \subseteq Threads
  BY DEF Threads
<1>3. \A w \in Workers : Placed'[w] = IF w = th THEN PlaceAt(label) ELSE Placed[w]
  BY <1>1, <1>2 DEF Placed
<1>4. /\ th \in Workers => Placed' = [Placed EXCEPT ![th] = PlaceAt(label)]
      /\ th \notin Workers => Placed' = Placed
  BY <1>3 DEF Placed
<1>5. /\ label \in {"read", "done?", "drained?", "take"} =>
           PastTheFlag' = PastTheFlag \union {th}
      /\ label \notin {"read", "done?", "drained?", "take"} =>
           PastTheFlag' = PastTheFlag \ {th}
  BY <1>1 DEF PastTheFlag
<1> QED  BY <1>4, <1>5

\* What FrameStream has of the slots, and each of its actions, in Pipeline's terms.
LEMMA StreamFrame ==
  UNCHANGED <<captured, slot, captureDone, stop, Late, Placed, seen, HandedOn>> =>
    UNCHANGED Stream!streamVars
BY DEF Stream!streamVars, Late, Placed, HandedOn

\* A result is published by its worker, for the frame in its hand; start() arms
\* the two slots before their workers run.
LEMMA ResultSteps ==
  ASSUME TypeOK, NEW r \in Results
  PROVE  /\ Capture \/ Detect \/ Stop \/ Joined \/ Enrol => result' = result
         /\ Start => result'[r] = result[r] \/ result'[r].seq = 0
         /\ Objects => \/ result' = result
                       \/ /\ pc["objects"] = "run" /\ Goto("objects", "stop?")
                          /\ result'["objects"].seq = seen["objects"]
                          /\ result'["identity"] = result["identity"]
         /\ Identity => \/ result' = result
                        \/ /\ pc["identity"] \in {"face", "embed", "compare"}
                           /\ Goto("identity", "stop?")
                           /\ result'["identity"].seq = seen["identity"]
                           /\ result'["objects"] = result["objects"]
<1>1. Capture \/ Detect \/ Stop \/ Joined \/ Enrol => result' = result
  BY Writers DEF Stop, Joined, Enrol
<1>2. Start => result'[r] = result[r] \/ result'[r].seq = 0
  BY DEF Start, StartCapture, LoadObjects, LoadIdentity, LoadModel, SpawnDetect, SpawnObjects,
         SpawnIdentity, TypeOK, Results
<1>3. ASSUME NEW x \in Results, NEW state, Publish(x, state)
      PROVE  /\ Goto(x, "stop?") /\ result'[x].seq = seen[x]
             /\ \A y \in Results \ {x} : result'[y] = result[y]
  BY <1>3 DEF Publish, TypeOK
<1>4. Objects => \/ result' = result
                 \/ /\ pc["objects"] = "run" /\ Goto("objects", "stop?")
                    /\ result'["objects"].seq = seen["objects"]
                    /\ result'["identity"] = result["identity"]
  BY <1>3 DEF Objects, LoopHead, CheckStop, CheckDone, CheckDrained, TakeNew, RunObjects, Results
<1>5. Identity => \/ result' = result
                  \/ /\ pc["identity"] \in {"face", "embed", "compare"}
                     /\ Goto("identity", "stop?")
                     /\ result'["identity"].seq = seen["identity"]
                     /\ result'["objects"] = result["objects"]
  <2>1. CASE LoopHead("identity") \/ KeepReference
    BY <2>1 DEF LoopHead, CheckStop, CheckDone, CheckDrained, TakeNew, KeepReference
  <2>2. CASE BorrowFace \/ Embed \/ Compare
    BY <1>3, <2>2 DEF BorrowFace, Embed, Compare, Results
  <2> QED  BY <2>1, <2>2 DEF Identity
<1> QED  BY <1>1, <1>2, <1>4, <1>5

LEMMA StreamInvInductive ==
  /\ Init => StreamInv
  /\ TypeOK /\ SpawnOrder /\ StreamInv /\ [Next]_vars => StreamInv'
<1>1. Init => StreamInv
  BY LabelsOf DEF Init, StreamInv, Unspawned, Workers, Results
<1>2. ASSUME TypeOK, SpawnOrder, StreamInv, [Next]_vars PROVE StreamInv'
  <2> USE <1>2
  <2>w. Workers = {"detect", "objects", "identity"} /\ Results = {"objects", "identity"}
    BY DEF Workers, Results
  <2>1. CASE Start
    <3>1. UNCHANGED <<seen, captured, nextSeq>>
      BY <2>1, Writers DEF bus
    <3>2. \A w \in Workers : pc'[w] = "none" => pc[w] = "none"
      BY <2>w, <2>1, ControlPlaces
    <3>3. \A w \in Workers : Unspawned(w)'
      BY <2>1, <3>1, <3>2, ResultSteps DEF StreamInv, Unspawned
    <3>4. ctl' \in {"load_objects", "load_identity", "spawn_detect", "spawn_objects"} =>
            pc'["objects"] = "none"
      BY <2>1, LabelsOf, GotoOnly
         DEF Start, StartCapture, LoadObjects, LoadIdentity, LoadModel, SpawnDetect,
             SpawnObjects, SpawnIdentity, StreamInv
    <3>5. ctl' # "idle"
      BY <2>1 DEF Start, StartCapture, LoadObjects, LoadIdentity, LoadModel, SpawnDetect,
                  SpawnObjects, SpawnIdentity
    <3> QED  BY <3>1, <3>3, <3>4, <3>5 DEF StreamInv
  <2>2. CASE Stop \/ Joined \/ Enrol
    <3>1. UNCHANGED <<seen, captured, nextSeq, result, pc>>
      BY <2>2, Writers, ResultSteps DEF bus, Stop, Joined, Enrol
    <3>2. ctl' \in {ctl, "joining", "stopped"}
      BY <2>2 DEF Stop, Joined, Enrol
    <3> QED  BY <3>1, <3>2 DEF StreamInv, Unspawned
  <2>3. CASE Capture
    <3>1. captured' = nextSeq'
      BY <2>3 DEF Capture, CaptureCheckStop, CaptureFrame, CaptureBeyondBound, CaptureEnd,
                  CaptureFinish, StreamInv, bus
    <3> QED  BY <2>w, <2>3, <3>1, Writers, ThreadSteps DEF StreamInv, Unspawned
  <2>4. CASE Detect
    <3>1. pc'["detect"] # "none"
      BY <2>4, LabelsOf, DrainedBody, GotoOnly
         DEF LoopHead, CheckStop, CheckDone, CheckDrained, TakeNew, LeaveLoop, FirstStep
    <3> QED
      BY <2>w, <2>4, <3>1, Writers, ThreadSteps, OwnCursor DEF StreamInv, Unspawned, bus
  <2>5. CASE Objects
    <3>1. pc'["objects"] # "none" /\ pc["objects"] # "none"
      BY <2>5, LabelsOf, DrainedBody, GotoOnly, ThreadSteps
         DEF LoopHead, CheckStop, CheckDone, CheckDrained, TakeNew, LeaveLoop, FirstStep
    <3>2. result'["identity"] = result["identity"]
      BY <2>w, <2>5, ResultSteps
    <3> QED
      BY <2>w, <2>5, <3>1, <3>2, Writers, ThreadSteps, OwnCursor DEF StreamInv, Unspawned, bus
  <2>6. CASE Identity
    <3>1. pc'["identity"] # "none"
      BY <2>6, LabelsOf, DrainedBody, GotoOnly
         DEF LoopHead, CheckStop, CheckDone, CheckDrained, TakeNew, LeaveLoop, FirstStep
    <3>2. result'["objects"] = result["objects"]
      BY <2>w, <2>6, ResultSteps
    <3> QED
      BY <2>w, <2>6, <3>1, <3>2, Writers, ThreadSteps, OwnCursor DEF StreamInv, Unspawned, bus
  <2>7. CASE UNCHANGED vars
    BY <2>7 DEF vars, bus, StreamInv, Unspawned
  <2> QED  BY <2>1, <2>2, <2>3, <2>4, <2>5, <2>6, <2>7 DEF Next
<1> QED  BY <1>1, <1>2

\* The actions of FrameStream, in those terms.
LEMMA StreamActions ==
  /\ \A w \in Workers :
       /\ Placed[w] = "reading"
       /\ slot > seen[w]
       /\ stop => w \in Late
       /\ Late' = Late \ {w}
       /\ Placed' = [Placed EXCEPT ![w] = "holding"]
       /\ seen' = [seen EXCEPT ![w] = slot]
       /\ UNCHANGED <<captured, slot, captureDone, stop, HandedOn>>
       => Stream!FNext
  /\ \A w \in Workers :
       /\ Placed[w] = "holding"
       /\ Placed' = [Placed EXCEPT ![w] = "reading"]
       /\ HandedOn' = HandedOn \/ HandedOn' = [HandedOn EXCEPT ![w] = seen[w]]
       /\ UNCHANGED <<captured, slot, captureDone, stop, Late, seen>>
       => Stream!FNext
  /\ \A w \in Workers :
       /\ Placed[w] = "reading"
       /\ stop \/ (captureDone /\ seen[w] = slot)
       /\ Placed' = [Placed EXCEPT ![w] = "left"]
       /\ Late' = Late \ {w}
       /\ UNCHANGED <<captured, slot, captureDone, stop, seen, HandedOn>>
       => Stream!FNext
  /\ \A w \in Workers :
       /\ Placed[w] = "away" /\ w \notin Late
       /\ Placed' = [Placed EXCEPT ![w] = "reading"]
       /\ seen' = [seen EXCEPT ![w] = 0]
       /\ UNCHANGED <<captured, slot, captureDone, stop, Late, HandedOn>>
       => Stream!FNext
  /\ \A who \in Workers \union {"capture"} :
       /\ Late' = Late \ {who}
       /\ UNCHANGED <<captured, slot, captureDone, stop, Placed, seen, HandedOn>>
       => Stream!FNext
  /\ /\ ~captureDone
     /\ stop => "capture" \in Late
     /\ Late' = Late \ {"capture"}
     /\ slot' = captured /\ captured' = captured + 1
     /\ UNCHANGED <<captureDone, stop, Placed, seen, HandedOn>>
     => Stream!FNext
  /\ /\ ~captureDone /\ "capture" \notin Late
     /\ captureDone' = TRUE
     /\ UNCHANGED <<captured, slot, stop, Late, Placed, seen, HandedOn>>
     => Stream!FNext
  /\ /\ ~stop /\ stop' = TRUE
     /\ Late' \subseteq {w \in Workers : Placed[w] = "reading"} \union {"capture"}
     /\ UNCHANGED <<captured, slot, captureDone, Placed, seen, HandedOn>>
     => Stream!FNext
<1> USE DEF Placed, Late, HandedOn, Stream!FNext, Stream!MayBegin, Stream!Begun, Stream!Source
<1>1. ASSUME NEW w \in Workers,
             Placed[w] = "reading", slot > seen[w], stop => w \in Late, Late' = Late \ {w},
             Placed' = [Placed EXCEPT ![w] = "holding"], seen' = [seen EXCEPT ![w] = slot],
             UNCHANGED <<captured, slot, captureDone, stop, HandedOn>>
      PROVE  Stream!FNext
  <2>1. Stream!Take(w)
    BY <1>1 DEF Stream!Take
  <2> QED  BY <2>1
<1>2. ASSUME NEW w \in Workers,
             Placed[w] = "holding", Placed' = [Placed EXCEPT ![w] = "reading"],
             HandedOn' = HandedOn \/ HandedOn' = [HandedOn EXCEPT ![w] = seen[w]],
             UNCHANGED <<captured, slot, captureDone, stop, Late, seen>>
      PROVE  Stream!FNext
  <2>1. Stream!PutDown(w)
    BY <1>2 DEF Stream!PutDown
  <2> QED  BY <2>1
<1>3. ASSUME NEW w \in Workers,
             Placed[w] = "reading", stop \/ (captureDone /\ seen[w] = slot),
             Placed' = [Placed EXCEPT ![w] = "left"], Late' = Late \ {w},
             UNCHANGED <<captured, slot, captureDone, stop, seen, HandedOn>>
      PROVE  Stream!FNext
  <2>1. Stream!Leave(w)
    BY <1>3 DEF Stream!Leave
  <2> QED  BY <2>1
<1>4. ASSUME NEW w \in Workers,
             Placed[w] = "away", w \notin Late, Placed' = [Placed EXCEPT ![w] = "reading"],
             seen' = [seen EXCEPT ![w] = 0],
             UNCHANGED <<captured, slot, captureDone, stop, Late, HandedOn>>
      PROVE  Stream!FNext
  <2>1. Stream!Join(w)
    BY <1>4 DEF Stream!Join
  <2> QED  BY <2>1
<1>5. ASSUME NEW who \in Workers \union {"capture"}, Late' = Late \ {who},
             UNCHANGED <<captured, slot, captureDone, stop, Placed, seen, HandedOn>>
      PROVE  Stream!FNext
  <2>1. Stream!ComeToNothing(who)
    BY <1>5 DEF Stream!ComeToNothing
  <2> QED  BY <2>1
<1>6. ASSUME ~captureDone, stop => "capture" \in Late, Late' = Late \ {"capture"},
             slot' = captured, captured' = captured + 1,
             UNCHANGED <<captureDone, stop, Placed, seen, HandedOn>>
      PROVE  Stream!FNext
  <2>1. Stream!Publish
    BY <1>6 DEF Stream!Publish
  <2> QED  BY <2>1
<1>7. ASSUME ~captureDone, "capture" \notin Late, captureDone' = TRUE,
             UNCHANGED <<captured, slot, stop, Late, Placed, seen, HandedOn>>
      PROVE  Stream!FNext
  <2>1. Stream!Close
    BY <1>7 DEF Stream!Close
  <2> QED  BY <2>1
<1>8. ASSUME ~stop, stop' = TRUE,
             Late' \subseteq {w \in Workers : Placed[w] = "reading"} \union {"capture"},
             UNCHANGED <<captured, slot, captureDone, Placed, seen, HandedOn>>
      PROVE  Stream!FNext
  <2>1. Stream!RaiseStop
    BY <1>8 DEF Stream!RaiseStop
  <2> QED  BY <2>1
<1> QED  BY <1>1, <1>2, <1>3, <1>4, <1>5, <1>6, <1>7, <1>8

\* The head of a worker's loop: it leaves, takes, finds nothing, or goes on.
LEMMA LoopHeadStream ==
  ASSUME TypeOK, DrainInv, NEW w \in Workers, LoopHead(w), UNCHANGED <<bus, flags, HandedOn>>
  PROVE  Stream!FNext \/ UNCHANGED Stream!streamVars
<1>t. w \in Threads /\ w # "capture" /\ seen \in [Workers -> Nat] /\ slot \in Nat
  BY DEF TypeOK, Threads, Workers
<1>u. UNCHANGED <<captured, slot, captureDone, stop>>
  BY DEF bus, flags
<1>p. pc[w] \in {"stop?", "done?", "drained?", "take"} /\ Placed[w] = "reading"
  BY PlaceTable DEF LoopHead, CheckStop, CheckDone, CheckDrained, TakeNew, Placed
<1>e. [Placed EXCEPT ![w] = "reading"] = Placed
  BY <1>p DEF Placed
<1>l. /\ pc[w] \in {"done?", "drained?", "take"} => w \in PastTheFlag
      /\ stop => Late = PastTheFlag
      /\ ~stop => Late = {}
      /\ stop' => Late' = PastTheFlag'
      /\ ~stop' => Late' = {}
  BY <1>t DEF PastTheFlag, Late
\* Off the loop's head to a label past the flag: nothing FrameStream has changes.
<1>g. ASSUME NEW label \in {"done?", "drained?", "take"}, Goto(w, label), seen' = seen,
             stop => w \in PastTheFlag
      PROVE  UNCHANGED Stream!streamVars
  <2>1. Placed' = Placed
    BY <1>t, <1>e, <1>g, GotoPlaced, PlaceTable
  <2>2. PastTheFlag' = PastTheFlag \union {w}
    BY <1>t, <1>g, GotoPlaced
  <2> QED  BY <1>u, <1>l, <1>g, <2>1, <2>2, StreamFrame
\* Out of the loop, when the flag or the last frame says so.
<1>v. ASSUME LeaveLoop(w), seen' = seen, stop \/ (captureDone /\ seen[w] = slot)
      PROVE  Stream!FNext
  <2>1. Placed' = [Placed EXCEPT ![w] = "left"]
    BY <1>t, <1>v, GotoPlaced, PlaceTable DEF LeaveLoop
  <2>2. PastTheFlag' = PastTheFlag \ {w}
    BY <1>t, <1>v, GotoPlaced DEF LeaveLoop
  <2> QED  BY <1>u, <1>p, <1>l, <1>v, <2>1, <2>2, StreamActions
<1>1. CASE CheckStop(w)
  BY <1>1, <1>g, <1>v DEF CheckStop
<1>2. CASE CheckDone(w)
  BY <1>2, <1>g, <1>l DEF CheckDone
<1>3. CASE CheckDrained(w)
  <2>1. captureDone /\ seen[w] <= slot
    BY <1>3 DEF CheckDrained, DrainInv, Drained
  <2>2. CASE slot <= seen[w]
    BY <1>t, <1>3, <2>1, <2>2, <1>v DEF CheckDrained
  <2>3. CASE ~(slot <= seen[w])
    BY <1>3, <2>3, <1>g, <1>l DEF CheckDrained
  <2> QED  BY <2>2, <2>3
<1>4. CASE TakeNew(w)
  <2>1. CASE slot <= seen[w]
    <3>1. Goto(w, "stop?") /\ seen' = seen
      BY <1>4, <2>1 DEF TakeNew
    <3>2. Placed' = Placed
      BY <1>t, <1>e, <3>1, GotoPlaced, PlaceTable
    <3>3. PastTheFlag' = PastTheFlag \ {w}
      BY <1>t, <3>1, GotoPlaced
    <3> QED  BY <1>u, <1>l, <3>1, <3>2, <3>3, StreamActions
  <2>2. CASE ~(slot <= seen[w])
    <3>1. Goto(w, FirstStep(w)) /\ seen' = [seen EXCEPT ![w] = slot] /\ pc[w] = "take"
      BY <1>4, <2>2 DEF TakeNew
    <3>2. FirstStep(w) \in {"face", "run"}
      BY DEF FirstStep
    <3>3. Placed' = [Placed EXCEPT ![w] = "holding"]
      BY <1>t, <3>1, <3>2, GotoPlaced, PlaceTable
    <3>4. PastTheFlag' = PastTheFlag \ {w}
      BY <1>t, <3>1, <3>2, GotoPlaced
    <3>5. slot > seen[w]
      BY <1>t, <2>2
    <3> QED  BY <1>u, <1>p, <1>l, <3>1, <3>3, <3>4, <3>5, StreamActions
  <2> QED  BY <2>1, <2>2
<1> QED  BY <1>1, <1>2, <1>3, <1>4 DEF LoopHead

\* Work on the frame in hand: it goes on, or the frame is put down.
LEMMA WorkStream ==
  ASSUME TypeOK, NEW w \in Workers, NEW label, Goto(w, label),
         pc[w] \in {"run", "identity", "store", "face", "embed", "keep", "compare"},
         UNCHANGED <<bus, flags, seen>>,
         \/ label \in {"identity", "store", "embed", "keep", "compare"} /\ HandedOn' = HandedOn
         \/ /\ label = "stop?"
            /\ HandedOn' = HandedOn \/ HandedOn' = [HandedOn EXCEPT ![w] = seen[w]]
  PROVE  Stream!FNext \/ UNCHANGED Stream!streamVars
<1>t. w \in Threads
  BY DEF Threads
<1>u. UNCHANGED <<captured, slot, captureDone, stop>>
  BY DEF bus, flags
<1>p. Placed[w] = "holding"
  BY PlaceTable DEF Placed
<1>1. PastTheFlag' = PastTheFlag
  <2>1. w \notin PastTheFlag
    BY DEF PastTheFlag
  <2> QED  BY <1>t, <2>1, GotoPlaced
<1>2. Late' = Late
  BY <1>u, <1>1 DEF Late
<1>3. CASE label \in {"identity", "store", "embed", "keep", "compare"} /\ HandedOn' = HandedOn
  <2>1. Placed' = [Placed EXCEPT ![w] = "holding"]
    BY <1>t, <1>3, GotoPlaced, PlaceTable
  <2>2. Placed' = Placed
    BY <1>p, <2>1 DEF Placed
  <2> QED  BY <1>u, <1>2, <1>3, <2>2, StreamFrame
<1>4. CASE /\ label = "stop?"
           /\ HandedOn' = HandedOn \/ HandedOn' = [HandedOn EXCEPT ![w] = seen[w]]
  <2>1. Placed' = [Placed EXCEPT ![w] = "reading"]
    BY <1>t, <1>4, GotoPlaced, PlaceTable
  <2> QED  BY <1>u, <1>p, <1>2, <1>4, <2>1, StreamActions
<1> QED  BY <1>3, <1>4

\* What a worker has handed on: the frames of `latest` and of the two results.
LEMMA HandedSteps ==
  ASSUME TypeOK
  PROVE  /\ UNCHANGED <<result, latest>> => HandedOn' = HandedOn
         /\ \A r \in Results :
              /\ result'[r].seq = seen[r] /\ latest' = latest
              /\ \A x \in Results \ {r} : result'[x] = result[x]
              => HandedOn' = [HandedOn EXCEPT ![r] = seen[r]]
         /\ result' = result /\ latest' = seen["detect"] =>
              HandedOn' = [HandedOn EXCEPT !["detect"] = seen["detect"]]
<1>w. Workers = {"detect"} \union Results /\ "detect" \notin Results
  BY DEF Workers, Results
<1>1. UNCHANGED <<result, latest>> => HandedOn' = HandedOn
  BY DEF HandedOn, Handed
<1>2. ASSUME NEW r \in Results, result'[r].seq = seen[r], latest' = latest,
             \A x \in Results \ {r} : result'[x] = result[x]
      PROVE  HandedOn' = [HandedOn EXCEPT ![r] = seen[r]]
  <2>1. \A w \in Workers : Handed(w)' = IF w = r THEN seen[r] ELSE Handed(w)
    BY <1>w, <1>2 DEF Handed
  <2> QED  BY <2>1 DEF HandedOn
<1>3. ASSUME result' = result, latest' = seen["detect"]
      PROVE  HandedOn' = [HandedOn EXCEPT !["detect"] = seen["detect"]]
  <2>1. seen["detect"] # None
    BY <1>w DEF TypeOK, None
  <2>2. \A w \in Workers : Handed(w)' = IF w = "detect" THEN seen["detect"] ELSE Handed(w)
    BY <1>w, <1>3, <2>1 DEF Handed
  <2> QED  BY <2>2 DEF HandedOn
<1> QED  BY <1>1, <1>2, <1>3

LEMMA DetectStream ==
  ASSUME TypeOK, DrainInv, Detect
  PROVE  Stream!FNext \/ UNCHANGED Stream!streamVars
<1>t. "detect" \in Workers /\ "detect" \in Threads /\ UNCHANGED <<bus, flags, result>>
  BY Writers DEF Workers, Threads
<1>1. CASE LoopHead("detect")
  <2>1. latest' = latest
    BY <1>1 DEF LoopHead, CheckStop, CheckDone, CheckDrained, TakeNew, detect
  <2> QED  BY <1>t, <1>1, <2>1, HandedSteps, LoopHeadStream
<1>2. CASE FaceModelFails
  BY <1>t, <1>2, HandedSteps, WorkStream DEF FaceModelFails
<1>3. CASE TakeResult("objects", "run", "identity")
  BY <1>t, <1>3, HandedSteps, WorkStream DEF TakeResult
<1>4. CASE TakeResult("identity", "identity", "store")
  BY <1>t, <1>4, HandedSteps, WorkStream DEF TakeResult
<1>5. CASE StoreLatest
  BY <1>t, <1>5, HandedSteps, WorkStream DEF StoreLatest
<1>6. CASE CloseSession
  <2>1. Placed' = Placed
    <3>1. Placed["detect"] = "left" /\ PlaceAt("exited") = "left"
      BY <1>t, <1>6, PlaceTable DEF CloseSession, Placed
    <3>2. Placed' = [Placed EXCEPT !["detect"] = "left"]
      BY <1>t, <1>6, <3>1, GotoPlaced DEF CloseSession
    <3> QED  BY <3>1, <3>2 DEF Placed
  <2>2. PastTheFlag' = PastTheFlag
    <3>1. "detect" \notin PastTheFlag
      BY <1>6 DEF CloseSession, PastTheFlag
    <3> QED  BY <1>t, <1>6, <3>1, GotoPlaced DEF CloseSession
  <2> QED
    BY <1>t, <1>6, <2>1, <2>2, HandedSteps, StreamFrame
       DEF CloseSession, bus, flags, detect, Late
<1> QED  BY <1>1, <1>2, <1>3, <1>4, <1>5, <1>6 DEF Detect

LEMMA ObjectsStream ==
  ASSUME TypeOK, DrainInv, Objects
  PROVE  Stream!FNext \/ UNCHANGED Stream!streamVars
<1>t. "objects" \in Workers /\ "objects" \in Results /\ Results = {"objects", "identity"}
  BY DEF Workers, Results
<1>u. UNCHANGED <<bus, flags, latest>>
  BY Writers DEF detect
<1>1. CASE LoopHead("objects")
  <2>1. result' = result
    BY <1>1 DEF LoopHead, CheckStop, CheckDone, CheckDrained, TakeNew
  <2> QED  BY <1>t, <1>u, <1>1, <2>1, HandedSteps, LoopHeadStream
<1>2. CASE RunObjects
  <2>1. seen' = seen /\ pc["objects"] = "run" /\ Goto("objects", "stop?")
    BY <1>2 DEF RunObjects, Publish
  <2>2. HandedOn' = HandedOn \/ HandedOn' = [HandedOn EXCEPT !["objects"] = seen["objects"]]
    BY <1>t, <1>u, ResultSteps, HandedSteps
  <2> QED  BY <1>t, <1>u, <2>1, <2>2, WorkStream
<1> QED  BY <1>1, <1>2 DEF Objects

LEMMA IdentityStream ==
  ASSUME TypeOK, DrainInv, Identity
  PROVE  Stream!FNext \/ UNCHANGED Stream!streamVars
<1>t. "identity" \in Workers /\ "identity" \in Results /\ Results = {"objects", "identity"}
  BY DEF Workers, Results
<1>u. UNCHANGED <<bus, flags, latest>>
  BY Writers DEF detect
<1>h. HandedOn' = HandedOn \/ HandedOn' = [HandedOn EXCEPT !["identity"] = seen["identity"]]
  BY <1>t, <1>u, ResultSteps, HandedSteps
<1>1. CASE LoopHead("identity")
  <2>1. result' = result
    BY <1>1 DEF LoopHead, CheckStop, CheckDone, CheckDrained, TakeNew
  <2> QED  BY <1>t, <1>u, <1>1, <2>1, HandedSteps, LoopHeadStream
<1>2. CASE BorrowFace
  <2>1. seen' = seen /\ pc["identity"] = "face"
        /\ (Goto("identity", "stop?") \/ (Goto("identity", "embed") /\ result' = result))
    BY <1>2 DEF BorrowFace, Publish
  <2> QED  BY <1>t, <1>u, <1>h, <2>1, HandedSteps, WorkStream
<1>3. CASE Embed
  <2>1. /\ seen' = seen /\ pc["identity"] = "embed"
        /\ \/ Goto("identity", "stop?")
           \/ Goto("identity", "keep") /\ result' = result
           \/ Goto("identity", "compare") /\ result' = result
    BY <1>3 DEF Embed, Publish
  <2> QED  BY <1>t, <1>u, <1>h, <2>1, HandedSteps, WorkStream
<1>4. CASE KeepReference
  BY <1>t, <1>u, <1>4, HandedSteps, WorkStream DEF KeepReference
<1>5. CASE Compare
  <2>1. seen' = seen /\ pc["identity"] = "compare" /\ Goto("identity", "stop?")
    BY <1>5 DEF Compare, Publish
  <2> QED  BY <1>t, <1>u, <1>h, <2>1, WorkStream
<1> QED  BY <1>1, <1>2, <1>3, <1>4, <1>5 DEF Identity

\* capture publishes a frame, finds none, or is done: it leaves what the workers
\* handed on and where they are.
LEMMA CaptureStream ==
  ASSUME TypeOK, DrainInv, StreamInv, Capture
  PROVE  Stream!FNext \/ UNCHANGED Stream!streamVars
<1>t. "capture" \in Threads /\ "capture" \notin Workers
  BY DEF Threads, Workers
<1>u. UNCHANGED <<seen, stop, HandedOn>>
  BY Writers, HandedSteps DEF detect
<1>p. Placed' = Placed
  BY ThreadSteps DEF Placed, Workers
<1>l. /\ pc["capture"] = "read" => "capture" \in PastTheFlag
      /\ pc["capture"] # "read" =>
           pc["capture"] \in {"stop?", "finish"} /\ "capture" \notin PastTheFlag
      /\ stop => Late = PastTheFlag
      /\ ~stop => Late = {}
      /\ stop' => Late' = PastTheFlag'
      /\ ~stop' => Late' = {}
  BY <1>t, LabelsOf
     DEF PastTheFlag, Late, Capture, CaptureCheckStop, CaptureFrame, CaptureBeyondBound,
         CaptureEnd, CaptureFinish
<1>1. CASE CaptureCheckStop
  <2>1. UNCHANGED <<captured, slot, captureDone>>
    BY <1>1 DEF CaptureCheckStop, bus, flags
  <2>2. Late' = Late
    <3>1. CASE stop
      <4>1. PastTheFlag' = PastTheFlag \ {"capture"}
        BY <1>t, <1>1, <3>1, GotoPlaced DEF CaptureCheckStop
      <4> QED  BY <1>u, <1>l, <1>1, <3>1, <4>1 DEF CaptureCheckStop
    <3> QED  BY <1>u, <1>l, <3>1
  <2> QED  BY <1>u, <1>p, <2>1, <2>2, StreamFrame
<1>2. CASE CaptureFrame
  <2>1. /\ slot' = captured /\ captured' = captured + 1
        /\ captureDone' = captureDone /\ pc["capture"] = "read"
    BY <1>2 DEF CaptureFrame, StreamInv, flags
  <2>2. ~captureDone
    BY <2>1 DEF DrainInv
  <2>3. Late' = Late \ {"capture"}
    <3>1. PastTheFlag' = PastTheFlag \ {"capture"}
      BY <1>t, <1>2, GotoPlaced DEF CaptureFrame
    <3> QED  BY <1>u, <1>l, <3>1
  <2> QED  BY <1>u, <1>p, <1>l, <2>1, <2>2, <2>3, StreamActions
<1>3. CASE CaptureBeyondBound \/ CaptureEnd
  <2>1. UNCHANGED <<captured, slot, captureDone>>
    BY <1>3 DEF CaptureBeyondBound, CaptureEnd, bus, flags
  <2>2. Late' = Late \ {"capture"}
    <3>1. PastTheFlag' = PastTheFlag \ {"capture"}
      BY <1>t, <1>3, GotoPlaced DEF CaptureBeyondBound, CaptureEnd
    <3> QED  BY <1>u, <1>l, <3>1
  <2> QED  BY <1>u, <1>p, <2>1, <2>2, StreamActions
<1>4. CASE CaptureFinish
  <2>1. UNCHANGED <<captured, slot>> /\ captureDone' = TRUE /\ pc["capture"] = "finish"
    BY <1>4 DEF CaptureFinish, bus
  <2>2. ~captureDone /\ "capture" \notin Late
    BY <1>l, <2>1 DEF DrainInv
  <2>3. Late' = Late
    <3>1. PastTheFlag' = PastTheFlag \ {"capture"}
      BY <1>t, <1>4, GotoPlaced DEF CaptureFinish
    <3> QED  BY <1>u, <1>l, <2>2, <3>1
  <2> QED  BY <1>u, <1>p, <2>1, <2>2, <2>3, StreamActions
<1> QED  BY <1>1, <1>2, <1>3, <1>4 DEF Capture

\* start() brings the workers one by one; the results it arms are of no frame.
LEMMA StartStream ==
  ASSUME TypeOK, SpawnOrder, StreamInv, Start
  PROVE  Stream!FNext \/ UNCHANGED Stream!streamVars
<1>w. Workers = {"detect", "objects", "identity"} /\ Results = {"objects", "identity"}
      /\ Workers \subseteq Threads /\ "capture" \in Threads \ Workers
  BY DEF Workers, Results, Threads
<1>u. UNCHANGED <<captured, slot, captureDone, stop, seen, latest>>
  <2>1. stop' = stop
    BY DEF Start, StartCapture, LoadObjects, LoadIdentity, LoadModel, SpawnDetect, SpawnObjects,
           SpawnIdentity, flags
  <2> QED  BY <2>1, Writers DEF bus, detect
<1>h. HandedOn' = HandedOn
  <2>1. CASE LoadObjects
    <3>1. pc["objects"] = "none" /\ result["objects"].seq = 0
      BY <1>w, <2>1 DEF LoadObjects, StreamInv, Unspawned
    <3>2. result'["objects"].seq = 0 /\ result'["identity"] = result["identity"]
      BY <1>w, <2>1, <3>1 DEF LoadObjects, TypeOK
    <3> QED  BY <1>w, <1>u, <3>1, <3>2 DEF HandedOn, Handed
  <2>2. CASE SpawnIdentity
    <3>1. pc["identity"] = "none" /\ result["identity"].seq = 0
      BY <1>w, <2>2 DEF SpawnIdentity, SpawnOrder, StreamInv, Unspawned
    <3>2. result'["identity"].seq = 0 /\ result'["objects"] = result["objects"]
      BY <1>w, <2>2, <3>1 DEF SpawnIdentity, TypeOK
    <3> QED  BY <1>w, <1>u, <3>1, <3>2 DEF HandedOn, Handed
  <2>3. CASE StartCapture \/ LoadIdentity \/ SpawnDetect \/ SpawnObjects
    <3>1. result' = result
      BY <2>3 DEF StartCapture, LoadIdentity, SpawnDetect, SpawnObjects
    <3> QED  BY <1>u, <3>1, HandedSteps
  <2> QED  BY <2>1, <2>2, <2>3 DEF Start
\* A thread that is spawned stands before its first look at the flag.
<1>s. ASSUME NEW th \in Threads, pc[th] = "none", Goto(th, "stop?")
      PROVE  Stream!FNext \/ UNCHANGED Stream!streamVars
  <2>1. th \notin PastTheFlag
    BY <1>s DEF PastTheFlag
  <2>2. Late' = Late /\ th \notin Late
    BY <1>u, <1>s, <2>1, GotoPlaced DEF Late
  <2>3. CASE th \in Workers
    <3>1. Placed[th] = "away" /\ Placed' = [Placed EXCEPT ![th] = "reading"]
      BY <1>s, <2>3, GotoPlaced, PlaceTable DEF Placed
    <3>2. seen' = [seen EXCEPT ![th] = 0]
      BY <1>u, <1>s, <2>3 DEF StreamInv, Unspawned, TypeOK
    <3> QED  BY <1>u, <1>h, <2>2, <2>3, <3>1, <3>2, StreamActions
  <2>4. CASE th \notin Workers
    <3>1. Placed' = Placed
      BY <1>s, <2>4, GotoPlaced
    <3> QED  BY <1>u, <1>h, <2>2, <3>1, StreamFrame
  <2> QED  BY <2>3, <2>4
<1>n. ASSUME pc' = pc PROVE UNCHANGED Stream!streamVars
  <2>1. Late' = Late /\ Placed' = Placed
    BY <1>u, <1>n DEF Late, PastTheFlag, Placed
  <2> QED  BY <1>u, <1>h, <2>1, StreamFrame
<1>1. CASE StartCapture
  BY <1>1, <1>s, <1>w DEF StartCapture, SpawnOrder
<1>2. CASE LoadObjects \/ LoadIdentity
  BY <1>2, <1>n DEF LoadObjects, LoadIdentity, LoadModel
<1>3. CASE SpawnDetect
  BY <1>3, <1>s, <1>w DEF SpawnDetect, SpawnOrder
<1>4. CASE SpawnObjects
  BY <1>4, <1>s, <1>n, <1>w DEF SpawnObjects, StreamInv
<1>5. CASE SpawnIdentity
  BY <1>5, <1>s, <1>n, <1>w DEF SpawnIdentity, SpawnOrder
<1> QED  BY <1>1, <1>2, <1>3, <1>4, <1>5 DEF Start

\* stop() raises the flag in front of the threads that have yet to look at it.
LEMMA StopStream ==
  ASSUME TypeOK, Stop \/ Joined \/ Enrol
  PROVE  Stream!FNext \/ UNCHANGED Stream!streamVars
<1>u. UNCHANGED <<captured, slot, captureDone, seen, latest, result, pc>>
  BY Writers, ResultSteps DEF bus, detect, Stop, Joined, Enrol
<1>1. HandedOn' = HandedOn /\ Placed' = Placed /\ PastTheFlag' = PastTheFlag
  BY <1>u, HandedSteps DEF Placed, PastTheFlag
<1>2. CASE stop' = stop
  BY <1>u, <1>1, <1>2, StreamFrame DEF Late
<1>3. CASE stop' # stop
  <2>1. stop' = TRUE
    BY <1>3 DEF Stop, Joined, Enrol, flags
  <2>2. ~stop
    BY <1>3, <2>1 DEF TypeOK
  <2>3. PastTheFlag \subseteq {w \in Workers : Placed[w] = "reading"} \union {"capture"}
    <3>1. ASSUME NEW th \in PastTheFlag, th # "capture"
          PROVE  th \in Workers /\ Placed[th] = "reading"
      <4>1. th \in Workers
        BY <3>1 DEF PastTheFlag, Threads
      <4>2. pc[th] \in {"stop?", "done?", "drained?", "take"}
        BY <3>1, <4>1, LabelsOf DEF PastTheFlag, TypeOK, HeadLabels, Workers
      <4> QED  BY <4>1, <4>2, PlaceTable DEF Placed
    <3> QED  BY <3>1
  <2> QED  BY <1>u, <1>1, <2>1, <2>2, <2>3, StreamActions DEF Late
<1> QED  BY <1>2, <1>3

LEMMA StreamStep ==
  TypeOK /\ SpawnOrder /\ DrainInv /\ StreamInv /\ [Next]_vars =>
    [Stream!FNext]_(Stream!streamVars)
<1>1. UNCHANGED vars => UNCHANGED Stream!streamVars
  BY DEF vars, bus, flags, detect, Stream!streamVars, PastTheFlag, Handed
<1> QED
  BY <1>1, StartStream, StopStream, CaptureStream, DetectStream, ObjectsStream, IdentityStream
     DEF Next

\* Whatever the interleaving, for any number of frames and any stop: the threads
\* of a Detector are a FrameStream (workers.rs:51-130, frame_bus.rs:37-64).
THEOREM PipelineIsFrameStream == Spec => StreamSpec
<1>1. Init => Stream!FInit
  BY PlaceTable, LabelsOf DEF Init, Stream!FInit, PastTheFlag, Handed, Workers, Results, None
<1>2. Init => DrainInv
  BY LabelsOf DEF Init, DrainInv, Drained, Workers
<1> QED
  BY <1>1, <1>2, DrainInductive, StreamInvInductive, StreamStep, TypeCorrect, SpawnOrderHolds,
     PTL DEF Spec, StreamSpec, Stream!FSpec
-----------------------------------------------------------------------------
(* Every step of a thread brings the end nearer.                           *)

\* Steps left to a worker, by where it is.
Left(label, told, level) ==
  CASE label = "exited" -> 0
    [] label = "close" -> 1
    [] label = "none" -> 17
    [] OTHER -> IF told THEN 2 + ToHead(label)
                ELSE IF level THEN LevelLeft(label) ELSE BehindLeft(label)

LEMMA ToHeadTable ==
  /\ ToHead("stop?") = 0
  /\ ToHead("store") = 1 /\ ToHead("compare") = 1
  /\ ToHead("identity") = 2 /\ ToHead("keep") = 2
  /\ ToHead("run") = 3 /\ ToHead("embed") = 3
  /\ ToHead("face") = 4 /\ ToHead("take") = 5
  /\ ToHead("drained?") = 6 /\ ToHead("done?") = 7
BY Zenon DEF ToHead

LEMMA LevelTable ==
  /\ LevelLeft("drained?") = 2 /\ LevelLeft("done?") = 3
  /\ LevelLeft("take") = 5
  /\ \A label \in {"stop?", "store", "compare", "identity", "keep", "run", "embed", "face"} :
       LevelLeft(label) = 4 + ToHead(label)
BY Zenon DEF LevelLeft

LEMMA BehindTable ==
  /\ BehindLeft("take") = 9 /\ BehindLeft("drained?") = 10 /\ BehindLeft("done?") = 11
  /\ \A label \in {"stop?", "store", "compare", "identity", "keep", "run", "embed", "face"} :
       BehindLeft(label) = 12 + ToHead(label)
BY Zenon DEF BehindLeft

InHand == {"store", "compare", "identity", "keep", "run", "embed", "face"}
InLoop == {"stop?", "done?", "drained?", "take"} \union InHand

LEMMA LoopTable ==
  ASSUME NEW label \in InLoop
  PROVE  /\ ToHead(label) \in 0..7
         /\ LevelLeft(label) \in 2..8
         /\ BehindLeft(label) \in 9..16
         /\ label \notin {"done?", "drained?", "take"} =>
              /\ LevelLeft(label) = 4 + ToHead(label)
              /\ BehindLeft(label) = 12 + ToHead(label)
<1>1. CASE label \in {"done?", "drained?", "take"}
  BY <1>1, ToHeadTable, LevelTable, BehindTable
<1>2. CASE label \notin {"done?", "drained?", "take"}
  <2>1. label \in {"stop?", "store", "compare", "identity", "keep", "run", "embed", "face"}
    BY <1>2 DEF InLoop, InHand
  <2>2. ToHead(label) \in 0..4
    BY <2>1, ToHeadTable
  <2> QED  BY <1>2, <2>1, <2>2, LevelTable, BehindTable
<1> QED  BY <1>1, <1>2

LEMMA LeftTable ==
  ASSUME NEW told \in BOOLEAN, NEW level \in BOOLEAN
  PROVE  /\ Left("exited", told, level) = 0
         /\ Left("close", told, level) = 1
         /\ Left("none", told, level) = 17
         /\ \A label \in InLoop :
              Left(label, told, level) =
                IF told THEN 2 + ToHead(label)
                ELSE IF level THEN LevelLeft(label) ELSE BehindLeft(label)
BY Zenon DEF Left, InLoop, InHand

LEMMA LeftRange ==
  ASSUME NEW label \in InLoop \union {"none", "close", "exited"},
         NEW told \in BOOLEAN, NEW level \in BOOLEAN
  PROVE  Left(label, told, level) \in 0..17
<1>1. CASE label \in InLoop
  <2>1. Left(label, told, level) =
          IF told THEN 2 + ToHead(label)
          ELSE IF level THEN LevelLeft(label) ELSE BehindLeft(label)
    BY <1>1, LeftTable
  <2> QED  BY <1>1, <2>1, LoopTable
<1>2. CASE label \in {"none", "close", "exited"}
  <2>1. /\ label = "none" => Left(label, told, level) = 17
        /\ label = "close" => Left(label, told, level) = 1
        /\ label = "exited" => Left(label, told, level) = 0
    BY LeftTable, Zenon
  <2> QED  BY <1>2, <2>1
<1> QED  BY <1>1, <1>2

\* What is left to a worker depends on its place, the flag, and whether it has
\* the last frame.
LEMMA LeftOf ==
  ASSUME NEW w \in Workers
  PROVE  /\ WorkerLeft(w) = Left(pc[w], stop, slot <= seen[w])
         /\ WorkerLeft(w)' = Left(pc'[w], stop', slot' <= seen'[w])
         /\ TypeOK => pc[w] \in InLoop \union {"none", "close", "exited"}
         /\ TypeOK => WorkerLeft(w) \in 0..17
         /\ TypeOK' => WorkerLeft(w)' \in 0..17
<1>1. WorkerLeft(w) = Left(pc[w], stop, slot <= seen[w])
  BY Zenon DEF WorkerLeft, Left
<1>2. WorkerLeft(w)' = Left(pc'[w], stop', slot' <= seen'[w])
  BY Zenon DEF WorkerLeft, Left
<1>3. ASSUME TypeOK
      PROVE  pc[w] \in InLoop \union {"none", "close", "exited"} /\ WorkerLeft(w) \in 0..17
  <2>1. pc[w] \in InLoop \union {"none", "close", "exited"}
    BY <1>3, LabelsOf DEF TypeOK, HeadLabels, InLoop, InHand, Workers
  <2>2. stop \in BOOLEAN /\ (slot <= seen[w]) \in BOOLEAN
    BY <1>3 DEF TypeOK
  <2> QED  BY <1>1, <2>1, <2>2, LeftRange
<1>4. ASSUME TypeOK' PROVE WorkerLeft(w)' \in 0..17
  <2>1. pc'[w] \in InLoop \union {"none", "close", "exited"}
    BY <1>4, LabelsOf DEF TypeOK, HeadLabels, InLoop, InHand, Workers
  <2>2. stop' \in BOOLEAN /\ (slot' <= seen'[w]) \in BOOLEAN
    BY <1>4 DEF TypeOK
  <2> QED  BY <1>2, <2>1, <2>2, LeftRange
<1> QED  BY <1>1, <1>2, <1>3, <1>4

\* A worker stays where it is while the flag, the slot and its cursor stay.
LEMMA LeftStays ==
  ASSUME TypeOK, NEW w \in Workers, pc'[w] = pc[w], stop' = stop,
         stop \/ (slot' = slot /\ seen'[w] = seen[w])
  PROVE  WorkerLeft(w)' = WorkerLeft(w)
<1>1. CASE stop
  <2>1. stop' = TRUE /\ stop = TRUE
    BY <1>1 DEF TypeOK
  <2>2. WorkerLeft(w) = Left(pc[w], TRUE, slot <= seen[w])
        /\ WorkerLeft(w)' = Left(pc[w], TRUE, slot' <= seen'[w])
    BY <2>1, LeftOf
  <2> QED  BY <2>2, Zenon DEF Left
<1>2. CASE ~stop
  BY <1>2, LeftOf
<1> QED  BY <1>1, <1>2

\* The step of a worker, at each place of its loop.
LEMMA LeftDrops ==
  ASSUME TypeOK, NEW w \in Workers, NEW label, Goto(w, label),
         UNCHANGED <<slot, stop>>, seen'[w] \in Nat, 
         \/ pc[w] = "none" /\ label = "stop?"
         \/ pc[w] = "close" /\ label = "exited"
         \/ pc[w] = "stop?" /\ stop /\ label \in {"close", "exited"}
         \/ pc[w] = "stop?" /\ ~stop /\ label = "done?" /\ seen'[w] = seen[w]
         \/ pc[w] = "done?" /\ label = "drained?" /\ seen'[w] = seen[w]
         \/ pc[w] = "done?" /\ stop /\ label = "take"
         \/ pc[w] = "drained?" /\ slot <= seen[w] /\ label \in {"close", "exited"}
         \/ pc[w] = "drained?" /\ slot > seen[w] /\ label = "take" /\ seen'[w] = seen[w]
         \/ pc[w] = "take" /\ slot <= seen[w] /\ label = "stop?" /\ seen'[w] = seen[w]
         \/ pc[w] = "take" /\ slot > seen[w] /\ label \in {"run", "face"} /\ seen'[w] = slot
         \/ /\ pc[w] \in InHand /\ label \in InHand \union {"stop?"}
            /\ ToHead(label) < ToHead(pc[w]) /\ seen'[w] = seen[w]
  PROVE  WorkerLeft(w)' < WorkerLeft(w)
<1>w. w \in Threads /\ pc'[w] = label
  BY GotoOnly DEF Threads
<1>t. slot \in Nat /\ seen[w] \in Nat /\ stop \in BOOLEAN
      /\ (slot <= seen[w]) \in BOOLEAN /\ (slot' <= seen'[w]) \in BOOLEAN
  BY DEF TypeOK
<1> DEFINE before == Left(pc[w], stop, slot <= seen[w])
           after == Left(label, stop, slot' <= seen'[w])
<1>1. WorkerLeft(w) = before /\ WorkerLeft(w)' = after
  BY <1>w, LeftOf
<1>2. /\ pc[w] \in InLoop =>
           before = IF stop THEN 2 + ToHead(pc[w])
                    ELSE IF slot <= seen[w] THEN LevelLeft(pc[w]) ELSE BehindLeft(pc[w])
      /\ pc[w] = "none" => before = 17
      /\ pc[w] = "close" => before = 1
  BY <1>t, LeftTable
<1>3. /\ label \in InLoop =>
           after = IF stop THEN 2 + ToHead(label)
                   ELSE IF slot' <= seen'[w] THEN LevelLeft(label) ELSE BehindLeft(label)
      /\ label = "close" => after = 1
      /\ label = "exited" => after = 0
  BY <1>t, LeftTable
<1> HIDE DEF before, after
<1>4. after < before
  <2>1. CASE pc[w] = "none" /\ label = "stop?"
    BY <1>2, <1>3, <2>1, ToHeadTable, LoopTable DEF InLoop, InHand
  <2>2. CASE label \in {"close", "exited"}
    <3>1. (pc[w] = "close" /\ label = "exited") \/ pc[w] \in {"stop?", "drained?"}
      BY <2>2 DEF InLoop, InHand
    <3> QED  BY <1>t, <1>2, <1>3, <2>2, <3>1, LoopTable DEF InLoop, InHand
  <2>3. CASE pc[w] \in {"stop?", "done?", "drained?", "take"} /\ label \in InLoop
    <3>1. CASE pc[w] = "stop?" \/ pc[w] = "done?"
      <4>1. CASE pc[w] = "stop?"
        <5>1. ~stop /\ label = "done?" /\ seen'[w] = seen[w]
          BY <2>3, <4>1 DEF InLoop, InHand
        <5>2. LevelLeft("stop?") = 4 /\ BehindLeft("stop?") = 12
          BY ToHeadTable, LevelTable, BehindTable
        <5> QED  BY <1>t, <1>2, <1>3, <2>3, <4>1, <5>1, <5>2, LevelTable, BehindTable, ToHeadTable DEF InLoop
      <4>2. CASE pc[w] = "done?" /\ label = "drained?" /\ seen'[w] = seen[w]
        BY <1>t, <1>2, <1>3, <2>3, <4>2, ToHeadTable, LevelTable, BehindTable DEF InLoop
      <4>3. CASE pc[w] = "done?" /\ stop /\ label = "take"
        BY <1>t, <1>2, <1>3, <2>3, <4>3, ToHeadTable DEF InLoop
      <4> QED  BY <3>1, <4>1, <4>2, <4>3 DEF InLoop, InHand
    <3>2. CASE pc[w] = "drained?"
      BY <1>t, <1>2, <1>3, <2>3, <3>2, ToHeadTable, LevelTable, BehindTable DEF InLoop, InHand
    <3>3. CASE pc[w] = "take" /\ slot <= seen[w]
      BY <1>t, <1>2, <1>3, <2>3, <3>3, ToHeadTable, LevelTable DEF InLoop, InHand
    <3>4. CASE pc[w] = "take" /\ slot > seen[w]
      <4>1. label \in {"run", "face"} /\ seen'[w] = slot /\ slot' <= seen'[w]
        BY <1>t, <2>3, <3>4 DEF InLoop, InHand
      <4>2. LevelLeft(label) \in {7, 8} /\ ToHead(label) \in {3, 4}
        BY <4>1, ToHeadTable, LevelTable
      <4>3. before = IF stop THEN 2 + 5 ELSE 9
        BY <1>t, <1>2, <2>3, <3>4, ToHeadTable, BehindTable DEF InLoop
      <4>4. after = IF stop THEN 2 + ToHead(label) ELSE LevelLeft(label)
        BY <1>3, <2>3, <4>1
      <4> QED  BY <1>t, <4>2, <4>3, <4>4
    <3> QED  BY <1>t, <2>3, <3>1, <3>2, <3>3, <3>4
  <2>4. CASE /\ pc[w] \in InHand /\ label \in InHand \union {"stop?"}
             /\ ToHead(label) < ToHead(pc[w]) /\ seen'[w] = seen[w]
    <3>1. /\ LevelLeft(label) = 4 + ToHead(label) /\ LevelLeft(pc[w]) = 4 + ToHead(pc[w])
          /\ BehindLeft(label) = 12 + ToHead(label) /\ BehindLeft(pc[w]) = 12 + ToHead(pc[w])
          /\ ToHead(label) \in Int /\ ToHead(pc[w]) \in Int
      <4>1. label \notin {"done?", "drained?", "take"} /\ pc[w] \notin {"done?", "drained?", "take"}
        BY <2>4 DEF InHand
      <4>2. label \in InLoop /\ pc[w] \in InLoop
        BY <2>4 DEF InLoop, InHand
      <4> QED  BY <4>1, <4>2, LoopTable
    <3> QED  BY <1>t, <1>2, <1>3, <2>4, <3>1 DEF InLoop
  <2> QED  BY <2>1, <2>2, <2>3, <2>4 DEF InLoop, InHand
<1> QED  BY <1>1, <1>4

\* stop() is called once everything is spawned.
StopInv == stop => ctl \in {"joining", "stopped"}

LEMMA StopInvInductive ==
  /\ Init => StopInv
  /\ TypeOK /\ StopInv /\ [Next]_vars => StopInv'
<1>1. Init => StopInv
  BY DEF Init, StopInv
<1>2. ASSUME TypeOK, StopInv, [Next]_vars PROVE StopInv'
  <2>1. CASE Start
    BY <1>2, <2>1
       DEF Start, StartCapture, LoadObjects, LoadIdentity, LoadModel, SpawnDetect,
           SpawnObjects, SpawnIdentity, StopInv, flags
  <2>2. CASE Stop \/ Joined \/ Enrol
    BY <1>2, <2>2 DEF Stop, Joined, Enrol, StopInv, flags
  <2>3. CASE Capture \/ Detect \/ Objects \/ Identity
    BY <1>2, <2>3, Writers DEF StopInv, flags
  <2>4. CASE UNCHANGED vars
    BY <1>2, <2>4 DEF vars, flags, StopInv
  <2> QED  BY <1>2, <2>1, <2>2, <2>3, <2>4 DEF Next
<1> QED  BY <1>1, <1>2

\* A worker at the head of its loop comes nearer to its end by each look.
LEMMA LoopHeadDrops ==
  ASSUME TypeOK, NEW w \in Workers, LoopHead(w), stop \/ captureDone
  PROVE  WorkerLeft(w)' < WorkerLeft(w)
<1>t. seen \in [Workers -> Nat] /\ slot \in Nat
  BY DEF TypeOK
<1>1. CASE CheckStop(w)
  BY <1>t, <1>1, LeftDrops DEF CheckStop, LeaveLoop, bus, flags
<1>2. CASE CheckDone(w)
  BY <1>t, <1>2, LeftDrops DEF CheckDone, bus, flags
<1>3. CASE CheckDrained(w)
  BY <1>t, <1>3, LeftDrops DEF CheckDrained, LeaveLoop, bus, flags
<1>4. CASE TakeNew(w)
  <2>1. CASE slot <= seen[w]
    BY <1>t, <1>4, <2>1, LeftDrops DEF TakeNew, bus, flags
  <2>2. CASE ~(slot <= seen[w])
    <3>1. slot > seen[w] /\ seen'[w] = slot /\ FirstStep(w) \in {"run", "face"}
      BY <1>t, <1>4, <2>2 DEF TakeNew, FirstStep
    <3> QED  BY <1>t, <1>4, <2>2, <3>1, LeftDrops DEF TakeNew, bus, flags
  <2> QED  BY <2>1, <2>2
<1> QED  BY <1>1, <1>2, <1>3, <1>4 DEF LoopHead

\* So it does by each step with a frame in hand, and by its last.
LEMMA WorkDrops ==
  ASSUME TypeOK, NEW w \in Workers, NEW label, Goto(w, label), UNCHANGED <<seen, slot, stop>>,
         \/ pc[w] = "close" /\ label = "exited"
         \/ /\ pc[w] \in InHand /\ label \in InHand \union {"stop?"}
            /\ ToHead(label) < ToHead(pc[w])
  PROVE  WorkerLeft(w)' < WorkerLeft(w)
<1>1. seen'[w] = seen[w] /\ seen'[w] \in Nat
  BY DEF TypeOK
<1> QED  BY <1>1, LeftDrops

LEMMA WorkersDrop ==
  ASSUME TypeOK, stop \/ captureDone
  PROVE  /\ Detect => WorkerLeft("detect")' < WorkerLeft("detect")
         /\ Objects => WorkerLeft("objects")' < WorkerLeft("objects")
         /\ Identity => WorkerLeft("identity")' < WorkerLeft("identity")
<1>w. Workers = {"detect", "objects", "identity"}
  BY DEF Workers
<1>h. \A w \in Workers : LoopHead(w) => WorkerLeft(w)' < WorkerLeft(w)
  BY LoopHeadDrops
<1>1. ASSUME Detect PROVE WorkerLeft("detect")' < WorkerLeft("detect")
  <2>u. UNCHANGED <<slot, stop>>
    BY <1>1, Writers DEF bus, flags
  <2>1. CASE FaceModelFails
    BY <1>w, <2>u, <2>1, WorkDrops, ToHeadTable DEF FaceModelFails, InHand
  <2>2. CASE TakeResult("objects", "run", "identity")
    BY <1>w, <2>u, <2>2, WorkDrops, ToHeadTable DEF TakeResult, InHand
  <2>3. CASE TakeResult("identity", "identity", "store")
    BY <1>w, <2>u, <2>3, WorkDrops, ToHeadTable DEF TakeResult, InHand
  <2>4. CASE StoreLatest
    BY <1>w, <2>u, <2>4, WorkDrops, ToHeadTable DEF StoreLatest, InHand
  <2>5. CASE CloseSession
    BY <1>w, <2>u, <2>5, WorkDrops DEF CloseSession
  <2> QED  BY <1>w, <1>h, <1>1, <2>1, <2>2, <2>3, <2>4, <2>5 DEF Detect
<1>2. ASSUME Objects PROVE WorkerLeft("objects")' < WorkerLeft("objects")
  <2>u. UNCHANGED <<slot, stop>>
    BY <1>2, Writers DEF bus, flags
  <2>1. CASE RunObjects
    BY <1>w, <2>u, <2>1, WorkDrops, ToHeadTable DEF RunObjects, Publish, InHand
  <2> QED  BY <1>w, <1>h, <1>2, <2>1 DEF Objects
<1>3. ASSUME Identity PROVE WorkerLeft("identity")' < WorkerLeft("identity")
  <2>u. UNCHANGED <<slot, stop>>
    BY <1>3, Writers DEF bus, flags
  <2>1. CASE BorrowFace
    BY <1>w, <2>u, <2>1, WorkDrops, ToHeadTable DEF BorrowFace, Publish, InHand
  <2>2. CASE Embed
    BY <1>w, <2>u, <2>2, WorkDrops, ToHeadTable DEF Embed, Publish, InHand
  <2>3. CASE KeepReference
    BY <1>w, <2>u, <2>3, WorkDrops, ToHeadTable DEF KeepReference, InHand
  <2>4. CASE Compare
    BY <1>w, <2>u, <2>4, WorkDrops, ToHeadTable DEF Compare, Publish, InHand
  <2> QED  BY <1>w, <1>h, <1>3, <2>1, <2>2, <2>3, <2>4 DEF Identity
<1> QED  BY <1>1, <1>2, <1>3

\* What capture has left, at each place of its loop.
LEMMA CaptureLeftTable ==
  ASSUME TypeOK
  PROVE  /\ CaptureLeft \in 0..3 /\ CaptureLeft' \in 0..3
         /\ pc'["capture"] = pc["capture"] => CaptureLeft' = CaptureLeft
         /\ Capture /\ stop => CaptureLeft' < CaptureLeft
<1>1. /\ pc["capture"] = "read" => CaptureLeft = 3
      /\ pc["capture"] = "stop?" => CaptureLeft = 2
      /\ pc["capture"] = "finish" => CaptureLeft = 1
      /\ pc["capture"] \notin {"read", "stop?", "finish"} => CaptureLeft = 0
  BY Zenon DEF CaptureLeft
<1>2. /\ pc'["capture"] = "read" => CaptureLeft' = 3
      /\ pc'["capture"] = "stop?" => CaptureLeft' = 2
      /\ pc'["capture"] = "finish" => CaptureLeft' = 1
      /\ pc'["capture"] \notin {"read", "stop?", "finish"} => CaptureLeft' = 0
  BY Zenon DEF CaptureLeft
<1>3. ASSUME Capture, stop PROVE CaptureLeft' < CaptureLeft
  <2>1. \/ pc["capture"] = "stop?" /\ Goto("capture", "finish")
        \/ pc["capture"] = "read" /\ Goto("capture", "stop?")
        \/ pc["capture"] = "read" /\ Goto("capture", "finish")
        \/ pc["capture"] = "finish" /\ Goto("capture", "exited")
    BY <1>3 DEF Capture, CaptureCheckStop, CaptureFrame, CaptureBeyondBound, CaptureEnd,
                CaptureFinish
  <2>2. \A label : Goto("capture", label) => pc'["capture"] = label
    BY GotoOnly DEF Threads
  <2> QED  BY <1>1, <1>2, <2>1, <2>2
<1> QED  BY <1>1, <1>2, <1>3

LEMMA WindsDownStep ==
  ASSUME TypeOK, TypeOK', SpawnOrder, DrainInv, StreamInv, StopInv, [Next]_vars,
         stop \/ captureDone, pc' # pc
  PROVE  StepsLeft' < StepsLeft
<1>w. Workers = {"detect", "objects", "identity"}
  BY DEF Workers
<1>n. /\ \A w \in Workers : WorkerLeft(w) \in Int
      /\ CaptureLeft \in Int /\ CaptureLeft' \in Int
      /\ \A w \in Workers : WorkerLeft(w)' \in Int
  <2>1. \A w \in Workers : WorkerLeft(w) \in Int
    BY LeftOf
  <2>2. \A w \in Workers : WorkerLeft(w)' \in Int
    BY LeftOf
  <2> QED  BY <2>1, <2>2, CaptureLeftTable
\* One thread has less left, and the others what they had.
<1>s. \/ CaptureLeft' < CaptureLeft /\ \A w \in Workers : WorkerLeft(w)' = WorkerLeft(w)
      \/ /\ CaptureLeft' = CaptureLeft
         /\ \E w \in Workers : /\ WorkerLeft(w)' < WorkerLeft(w)
                               /\ \A x \in Workers \ {w} : WorkerLeft(x)' = WorkerLeft(x)
      => StepsLeft' < StepsLeft
  BY <1>w, <1>n DEF StepsLeft
<1>1. CASE Start
  <2>1. ~stop /\ captureDone /\ pc["capture"] = "exited" /\ stop' = stop
    BY <1>1 DEF Start, StartCapture, LoadObjects, LoadIdentity, LoadModel, SpawnDetect,
           SpawnObjects, SpawnIdentity, StopInv, DrainInv, flags
  <2>2. UNCHANGED <<seen, slot>>
    BY <1>1, Writers DEF bus
  <2>3. PICK w \in Workers : pc[w] = "none" /\ Goto(w, "stop?")
    BY <1>1, <1>w, <2>1
       DEF Start, StartCapture, LoadObjects, LoadIdentity, LoadModel, SpawnDetect,
           SpawnObjects, SpawnIdentity, StreamInv, SpawnOrder
  <2>4. seen'[w] \in Nat
    BY <2>2 DEF TypeOK
  <2>5. WorkerLeft(w)' < WorkerLeft(w)
    BY <2>1, <2>2, <2>3, <2>4, LeftDrops
  <2>6. \A x \in Threads \ {w} : pc'[x] = pc[x]
    BY <2>3, GotoOnly DEF Threads
  <2>7. \A x \in Workers \ {w} : WorkerLeft(x)' = WorkerLeft(x)
    BY <2>1, <2>2, <2>6, LeftStays DEF Threads
  <2>8. CaptureLeft' = CaptureLeft
    BY <2>6, CaptureLeftTable DEF Threads, Workers
  <2> QED  BY <1>s, <2>5, <2>7, <2>8
<1>2. CASE Stop \/ Joined \/ Enrol \/ UNCHANGED vars
  BY <1>2 DEF Stop, Joined, Enrol, vars
<1>3. CASE Capture
  <2>1. stop /\ stop' = stop
    BY <1>3, Writers
       DEF DrainInv, Capture, CaptureCheckStop, CaptureFrame, CaptureBeyondBound, CaptureEnd,
           CaptureFinish
  <2>2. \A w \in Workers : WorkerLeft(w)' = WorkerLeft(w)
    BY <1>w, <1>3, <2>1, ThreadSteps, LeftStays
  <2> QED  BY <1>s, <1>3, <2>1, <2>2, CaptureLeftTable
<1>4. CASE Detect \/ Objects \/ Identity
  <2>1. UNCHANGED <<slot, stop>>
    BY <1>4, Writers DEF bus, flags
  <2>2. CaptureLeft' = CaptureLeft
    BY <1>4, ThreadSteps, CaptureLeftTable
  <2>3. /\ Detect => WorkerLeft("objects")' = WorkerLeft("objects")
                     /\ WorkerLeft("identity")' = WorkerLeft("identity")
        /\ Objects => WorkerLeft("detect")' = WorkerLeft("detect")
                      /\ WorkerLeft("identity")' = WorkerLeft("identity")
        /\ Identity => WorkerLeft("detect")' = WorkerLeft("detect")
                       /\ WorkerLeft("objects")' = WorkerLeft("objects")
    BY <1>w, <2>1, ThreadSteps, OwnCursor, LeftStays
  <2> QED  BY <1>w, <1>s, <1>4, <2>2, <2>3, WorkersDrop
<1> QED  BY <1>1, <1>2, <1>3, <1>4 DEF Next

\* After a stop, or once the source has ended, every step of a thread brings them
\* all nearer to their end, for any number of frames: no thread goes round its
\* loop for ever while others wait (workers.rs:51-53, 110-116).
THEOREM ThreadsWindDown == Spec => WindsDown
<1>1. Init => DrainInv
  BY LabelsOf DEF Init, DrainInv, Drained, Workers
<1>2. TypeOK /\ TypeOK' /\ SpawnOrder /\ DrainInv /\ StreamInv /\ StopInv /\ [Next]_vars =>
        [(stop \/ captureDone) /\ pc' # pc => StepsLeft' < StepsLeft]_vars
  BY WindsDownStep
<1> QED
  BY <1>1, <1>2, DrainInductive, StreamInvInductive, StopInvInductive, TypeCorrect,
     SpawnOrderHolds, PTL DEF Spec, WindsDown

\* And there are never more than 54 steps to go.
THEOREM StepsLeftAreFew == Spec => [](StepsLeft \in 0..54)
<1>1. ASSUME TypeOK PROVE StepsLeft \in 0..54
  <2>1. \A w \in Workers : WorkerLeft(w) \in 0..17
    BY <1>1, LeftOf
  <2>2. CaptureLeft \in 0..3
    BY <1>1, CaptureLeftTable
  <2> QED  BY <2>1, <2>2 DEF StepsLeft, Workers
<1> QED  BY <1>1, TypeCorrect, PTL
=============================================================================
