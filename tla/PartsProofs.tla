----------------------------- MODULE PartsProofs -----------------------------
(***************************************************************************)
(* Proofs about the parts that share no state: the composition behaves as  *)
(* each of them, a replay is of what was recorded, suppression keeps what  *)
(* the order determines, and a summary is of its window.                   *)
(***************************************************************************)
EXTENDS Parts, DirectionProofs, SettingsProofs, FiniteSetTheorems, WellFoundedInduction

-----------------------------------------------------------------------------
(* Five owners.                                                            *)

\* A behaviour of the program is a behaviour of each part.
THEOREM PartsCompose ==
  Spec => DirectionSpec /\ LatenciesSpec /\ SuppressionSpec /\ SettingsSpec /\ RecordingSpec
<1>1. Init => DirectionInit /\ LatenciesInit /\ SuppressionInit /\ SettingsInit /\ RecordingInit
  BY DEF Init
<1>2. ASSUME [Next]_vars
      PROVE  /\ [DirectionNext]_directionVars /\ [LatenciesNext]_latencyVars
             /\ [SuppressionNext]_suppressionVars /\ [SettingsNext]_settingsVars
             /\ [RecordingNext]_recordingVars
  BY <1>2 DEF Next, vars, Direct, Measure, Suppress, Configure, Record
<1> QED
  BY <1>1, <1>2, PTL DEF Spec, DirectionSpec, LatenciesSpec, SuppressionSpec, SettingsSpec,
                         RecordingSpec

\* Two sequences of one length are equal if their elements are.
LEMMA SequencesEqual ==
  ASSUME NEW S, NEW p \in Seq(S), NEW q \in Seq(S), Len(p) = Len(q),
         \A k \in 1..Len(p) : p[k] = q[k]
  PROVE  p = q
OBVIOUS

-----------------------------------------------------------------------------
(* A corpus.                                                               *)

GateWords == {"none", "low_face_score", "degenerate_box", "eyes_too_close", "eyes_too_far",
              "no_face"}
SlotWords == {"absent", "gated", "produced", "failed"}
FaceSets == {{}} \union {{f} : f \in Faces}

CorpusRows ==
  [seq : Nat, face : FaceSets, pose : SlotWords, gaze : SlotWords, objects : SlotWords,
   eye : BOOLEAN, gate : GateWords]

\* What a row says of gaze is what the gate said of its face.
GazeTold(row) ==
  /\ row.gaze = "produced" =>
       row.face # {} /\ row.gate = "none" /\ \A f \in row.face : GateReason(f) = "none"
  /\ "gaze" \in setup => row.gaze \in {"produced", "failed"} \/ row.gate # "none"

\* Elements of p are the first of q.
Begins(p, q) == Len(p) <= Len(q) /\ \A k \in 1..Len(p) : p[k] = q[k]

RecordingTypes ==
  /\ frame \in Nat /\ torn \in BOOLEAN
  /\ buffer \in Seq(CorpusRows) /\ disk \in Seq(CorpusRows)
  /\ computed \in Seq(CorpusRows) /\ replayed \in Seq(CorpusRows)
  /\ outcome \in {"none", "recording", "written", "failed", "killed"}
  /\ verdict \in {"none", "accepted", "refused"}

\* The rows there were, numbered; the disk has the first of them, the buffer the rest
\* for as long as the recorder runs.
RowsAccounted ==
  /\ Len(computed) = frame
  /\ \A k \in 1..frame : computed[k].seq = k - 1 /\ GazeTold(computed[k])
  /\ outcome = "none" => frame = 0
  /\ Begins(disk, computed)
  /\ outcome \in {"none", "recording"} =>
       /\ Len(disk) + Len(buffer) = frame
       /\ \A k \in 1..Len(buffer) : buffer[k] = computed[Len(disk) + k]

EndTold ==
  /\ outcome = "written" => Len(disk) = frame /\ ~torn
  /\ verdict = "accepted" => replayed = disk /\ outcome \notin {"none", "recording"}

CorpusInv == RecordingTypes /\ RowsAccounted /\ EndTold

\* The gate has one of its reasons, or none.
LEMMA GateReasonWord ==
  ASSUME NEW face
  PROVE  GateReason(face) \in GateWords \ {"no_face"}
BY DEF GateReason, GateWords

\* Every row a frame can give is one, and says of gaze what the gate did.
LEMMA RowsForRows ==
  ASSUME frame \in Nat, NEW face \in FaceSets, NEW row \in RowsFor(face)
  PROVE  row \in CorpusRows /\ row.seq = frame /\ GazeTold(row)
<1>1. PICK pose \in PoseStates(face), gaze \in GazeStates(face), objects \in ObjectStates :
        row = [seq |-> frame, face |-> face, pose |-> pose, gaze |-> gaze,
               objects |-> objects, eye |-> gaze = "produced" /\ pose = "produced",
               gate |-> Gate(face, gaze)]
  BY DEF RowsFor
<1>2. pose \in SlotWords /\ gaze \in SlotWords /\ objects \in SlotWords
  BY DEF PoseStates, GazeStates, ObjectStates, Runs, SlotWords
<1>3. Gate(face, gaze) \in GateWords
  BY GateReasonWord DEF Gate, GateWords
<1>4. row \in CorpusRows /\ row.seq = frame
  BY <1>1, <1>2, <1>3 DEF CorpusRows
<1>5. ASSUME gaze = "produced"
      PROVE  face # {} /\ Gate(face, gaze) = "none" /\ \A f \in face : GateReason(f) = "none"
  BY <1>5 DEF GazeStates, Gate
<1>6. ASSUME "gaze" \in setup, gaze \notin {"produced", "failed"}
      PROVE  Gate(face, gaze) # "none"
  <2>1. gaze = "gated" /\ (face = {} \/ \E f \in face : GateReason(f) # "none")
    BY <1>6 DEF GazeStates, Runs
  <2>2. CASE face = {}
    BY <2>1, <2>2 DEF Gate
  <2>3. CASE face # {}
    <3>1. PICK f \in Faces : face = {f}
      BY <2>3 DEF FaceSets
    <3>2. (CHOOSE g \in face : TRUE) = f /\ GateReason(f) # "none"
      BY <2>1, <2>3, <3>1
    <3> QED  BY <2>1, <2>3, <3>2 DEF Gate
  <2> QED  BY <2>2, <2>3
<1>7. GazeTold(row)
  BY <1>1, <1>5, <1>6 DEF GazeTold
<1> QED  BY <1>4, <1>7

LEMMA InitCorpus == RecordingInit => CorpusInv
<1> SUFFICES ASSUME RecordingInit PROVE CorpusInv
  OBVIOUS
<1> USE DEF RecordingInit
<1>0. <<>> \in Seq(CorpusRows)
  OBVIOUS
<1>1. RecordingTypes
  BY <1>0 DEF RecordingTypes
<1>2. RowsAccounted /\ EndTold
  BY DEF RowsAccounted, EndTold, Begins
<1> QED  BY <1>1, <1>2 DEF CorpusInv

\* Some rows of the buffer are written out: the disk has more of the first, and the rest
\* follows it.
LEMMA SpillStep ==
  ASSUME CorpusInv, outcome \in {"none", "recording"},
         NEW n \in 0..Len(buffer), Spill(n), UNCHANGED computed
  PROVE  /\ disk' \in Seq(CorpusRows) /\ torn' \in BOOLEAN
         /\ Begins(disk', computed) /\ Len(disk') = Len(disk) + n
         /\ SubSeq(buffer, n + 1, Len(buffer)) \in Seq(CorpusRows)
         /\ Len(SubSeq(buffer, n + 1, Len(buffer))) = Len(buffer) - n
         /\ \A k \in 1..Len(buffer) - n :
              SubSeq(buffer, n + 1, Len(buffer))[k] = computed[Len(disk') + k]
<1> DEFINE rest == SubSeq(buffer, n + 1, Len(buffer))
           first == SubSeq(buffer, 1, n)
<1>1. /\ buffer \in Seq(CorpusRows) /\ disk \in Seq(CorpusRows) /\ computed \in Seq(CorpusRows)
      /\ torn \in BOOLEAN
      /\ Len(disk) \in Nat /\ Len(buffer) \in Nat /\ Len(computed) \in Nat /\ n \in Nat
  BY DEF CorpusInv, RecordingTypes
<1>2. /\ Len(disk) + Len(buffer) = Len(computed)
      /\ \A k \in 1..Len(disk) : disk[k] = computed[k]
      /\ \A k \in 1..Len(buffer) : buffer[k] = computed[Len(disk) + k]
  BY DEF CorpusInv, RowsAccounted, Begins
<1>3. /\ first \in Seq(CorpusRows) /\ Len(first) = n /\ \A k \in 1..n : first[k] = buffer[k]
  BY <1>1
<1>4. /\ rest \in Seq(CorpusRows) /\ Len(rest) = Len(buffer) - n
      /\ \A k \in 1..Len(buffer) - n : rest[k] = buffer[n + k]
  BY <1>1
<1>5. disk' = disk \o first
  BY DEF Spill
<1> HIDE DEF first, rest
<1>6. /\ disk' \in Seq(CorpusRows) /\ Len(disk') = Len(disk) + n
      /\ \A k \in 1..Len(disk) : disk'[k] = disk[k]
      /\ \A k \in 1..n : disk'[Len(disk) + k] = first[k]
  <2>1. disk \o first \in Seq(CorpusRows) /\ Len(disk \o first) = Len(disk) + n
    BY <1>1, <1>3
  <2>2. /\ \A k \in 1..Len(disk) : (disk \o first)[k] = disk[k]
        /\ \A k \in 1..n : (disk \o first)[Len(disk) + k] = first[k]
    BY <1>1, <1>3
  <2> QED  BY <1>5, <2>1, <2>2
<1>7. \A k \in 1..Len(disk) + n : disk'[k] = computed[k]
  <2> TAKE k \in 1..Len(disk) + n
  <2>1. CASE k <= Len(disk)
    BY <1>1, <1>2, <1>6, <2>1
  <2>2. CASE k > Len(disk)
    <3>1. k - Len(disk) \in 1..n /\ k = Len(disk) + (k - Len(disk))
      BY <1>1, <2>2
    <3>2. k - Len(disk) \in 1..Len(buffer)
      BY <1>1, <3>1
    <3> QED  BY <1>2, <1>3, <1>6, <3>1, <3>2
  <2> QED  BY <1>1, <2>1, <2>2
<1>8. Begins(disk', computed)
  <2>1. Len(disk') <= Len(computed)
    BY <1>1, <1>2, <1>6
  <2> QED  BY <1>6, <1>7, <2>1 DEF Begins
<1>9. \A k \in 1..Len(buffer) - n : rest[k] = computed[Len(disk') + k]
  <2> TAKE k \in 1..Len(buffer) - n
  <2>1. n + k \in 1..Len(buffer) /\ Len(disk') + k = Len(disk) + (n + k)
    BY <1>1, <1>6
  <2> QED  BY <1>2, <1>4, <2>1
<1>10. torn' \in BOOLEAN
  <2>1. n = Len(buffer) \/ (n < Len(buffer) /\ n # Len(buffer))
    BY <1>1
  <2>2. n = Len(buffer) => ~(n < Len(buffer))
    BY <1>1
  <2>3. n = Len(buffer) => torn' \in {torn /\ n = 0}
    BY <2>2, Zenon DEF Spill
  <2>4. n < Len(buffer) /\ n # Len(buffer) => torn' \in {torn /\ n = 0, TRUE}
    BY Zenon DEF Spill
  <2> QED  BY <1>1, <2>1, <2>3, <2>4
<1> QED  BY <1>4, <1>6, <1>8, <1>9, <1>10 DEF rest

\* One more row, last in the buffer.
LEMMA RecordFrameStep ==
  ASSUME CorpusInv, RecordFrame
  PROVE  CorpusInv'
<1>0. PICK face \in FaceSets : \E row \in RowsFor(face) :
        buffer' = Append(buffer, row) /\ computed' = Append(computed, row)
  BY Zenon DEF RecordFrame, FaceSets
<1>1. PICK row \in RowsFor(face) :
        buffer' = Append(buffer, row) /\ computed' = Append(computed, row)
  BY <1>0
<1>2. /\ outcome = "recording" /\ frame' = frame + 1
      /\ UNCHANGED <<setup, disk, torn, outcome, verdict, replayed>>
  BY DEF RecordFrame
<1>3. /\ frame \in Nat /\ buffer \in Seq(CorpusRows) /\ computed \in Seq(CorpusRows)
      /\ disk \in Seq(CorpusRows) /\ Len(disk) \in Nat /\ Len(buffer) \in Nat
      /\ Len(computed) = frame /\ Len(disk) + Len(buffer) = frame
      /\ \A k \in 1..frame : computed[k].seq = k - 1 /\ GazeTold(computed[k])
      /\ \A k \in 1..Len(disk) : disk[k] = computed[k]
      /\ \A k \in 1..Len(buffer) : buffer[k] = computed[Len(disk) + k]
  BY <1>2 DEF CorpusInv, RecordingTypes, RowsAccounted, Begins
<1>4. row \in CorpusRows /\ row.seq = frame /\ GazeTold(row)
  BY <1>3, RowsForRows
<1>5. /\ buffer' \in Seq(CorpusRows) /\ Len(buffer') = Len(buffer) + 1
      /\ \A k \in 1..Len(buffer) : buffer'[k] = buffer[k]
      /\ buffer'[Len(buffer) + 1] = row
  BY <1>1, <1>3, <1>4
<1>6. /\ computed' \in Seq(CorpusRows) /\ Len(computed') = frame + 1
      /\ \A k \in 1..frame : computed'[k] = computed[k]
      /\ computed'[frame + 1] = row
  BY <1>1, <1>3, <1>4
<1>7. RecordingTypes'
  BY <1>2, <1>3, <1>5, <1>6 DEF CorpusInv, RecordingTypes
<1>8. \A k \in 1..frame + 1 : computed'[k].seq = k - 1 /\ GazeTold(computed[k])'
  <2> TAKE k \in 1..frame + 1
  <2>1. k \in 1..frame \/ k = frame + 1
    BY <1>3
  <2>2. GazeTold(computed'[k])
    BY <1>3, <1>4, <1>6, <2>1
  <2>3. computed'[k].seq = k - 1
    BY <1>3, <1>4, <1>6, <2>1
  <2> QED  BY <1>2, <2>2, <2>3 DEF GazeTold
<1>9. Begins(disk', computed')
  <2>1. \A k \in 1..Len(disk) : k \in 1..frame
    BY <1>3
  <2> QED  BY <1>2, <1>3, <1>6, <2>1 DEF Begins
<1>10. \A k \in 1..Len(buffer) + 1 : buffer'[k] = computed'[Len(disk) + k]
  <2> TAKE k \in 1..Len(buffer) + 1
  <2>1. CASE k \in 1..Len(buffer)
    <3>1. Len(disk) + k \in 1..frame
      BY <1>3, <2>1
    <3> QED  BY <1>3, <1>5, <1>6, <2>1, <3>1
  <2>2. CASE k = Len(buffer) + 1
    <3>1. Len(disk) + k = frame + 1
      BY <1>3, <2>2
    <3> QED  BY <1>5, <1>6, <2>2, <3>1
  <2> QED  BY <1>3, <2>1, <2>2
<1>11. RowsAccounted'
  <2>0. Len(disk) + (Len(buffer) + 1) = frame + 1
    BY <1>3
  <2>1. Len(computed') = frame' /\ Len(disk') + Len(buffer') = frame'
    BY <1>2, <1>5, <1>6, <2>0
  <2>2. (\A k \in 1..frame : computed[k].seq = k - 1 /\ GazeTold(computed[k]))'
    BY <1>2, <1>8
  <2>3. (\A k \in 1..Len(buffer) : buffer[k] = computed[Len(disk) + k])'
    BY <1>2, <1>5, <1>10
  <2> QED  BY <1>2, <1>9, <2>1, <2>2, <2>3 DEF RowsAccounted
<1>12. EndTold'
  BY <1>2 DEF CorpusInv, EndTold
<1> QED  BY <1>7, <1>11, <1>12 DEF CorpusInv

\* The recorder's other steps, and replay, add no row.
LEMMA NextCorpus == CorpusInv /\ [RecordingNext]_recordingVars => CorpusInv'
<1> SUFFICES ASSUME CorpusInv, [RecordingNext]_recordingVars PROVE CorpusInv'
  OBVIOUS
<1>t. RecordingTypes /\ RowsAccounted /\ EndTold
  BY DEF CorpusInv
<1>l. /\ Len(disk) \in Nat /\ Len(buffer) \in Nat /\ Len(computed) \in Nat
      /\ Len(computed) = frame
  BY <1>t DEF RecordingTypes, RowsAccounted
\* A step that keeps the rows keeps what they say.
<1>k. ASSUME UNCHANGED <<setup, frame, computed>>
      PROVE  /\ Len(computed') = frame'
             /\ (\A k \in 1..frame : computed[k].seq = k - 1 /\ GazeTold(computed[k]))'
  BY <1>k, <1>t DEF RowsAccounted, GazeTold
<1>1. CASE StartRecording
  <2>1. frame = 0 /\ UNCHANGED <<frame, buffer, disk, torn, computed, verdict, replayed>>
    BY <1>1, <1>t DEF StartRecording, RowsAccounted
  <2>2. outcome = "none" /\ outcome' = "recording"
    BY <1>1 DEF StartRecording
  <2>3. RecordingTypes'
    BY <1>t, <2>1, <2>2 DEF RecordingTypes
  <2>4. RowsAccounted'
    BY <1>t, <2>1, <2>2 DEF RowsAccounted
  <2>5. EndTold'
    BY <1>t, <2>1, <2>2 DEF EndTold
  <2> QED  BY <2>3, <2>4, <2>5 DEF CorpusInv
<1>2. CASE RecordFrame
  BY <1>2, RecordFrameStep
<1>3. CASE BufferSpills
  <2>1. PICK n \in 0..Len(buffer) : Spill(n) /\ buffer' = SubSeq(buffer, n + 1, Len(buffer))
    BY <1>3 DEF BufferSpills
  <2>2. outcome = "recording" /\ UNCHANGED <<setup, frame, outcome, computed, verdict, replayed>>
    BY <1>3 DEF BufferSpills
  <2>3. /\ disk' \in Seq(CorpusRows) /\ torn' \in BOOLEAN /\ Begins(disk', computed)
        /\ Len(disk') = Len(disk) + n
        /\ buffer' \in Seq(CorpusRows) /\ Len(buffer') = Len(buffer) - n
        /\ \A k \in 1..Len(buffer) - n : buffer'[k] = computed[Len(disk') + k]
    BY <2>1, <2>2, SpillStep
  <2>4. RecordingTypes'
    BY <1>t, <2>2, <2>3 DEF RecordingTypes
  <2>5. RowsAccounted'
    <3>1. Len(disk') + Len(buffer') = frame'
      <4>1. Len(disk) + Len(buffer) = frame
        BY <1>t, <2>2 DEF RowsAccounted
      <4> QED  BY <1>l, <2>2, <2>3, <4>1
    <3>2. (\A k \in 1..Len(buffer) : buffer[k] = computed[Len(disk) + k])'
      BY <2>2, <2>3
    <3>3. Begins(disk', computed')
      BY <2>2, <2>3
    <3> QED  BY <1>k, <2>2, <3>1, <3>2, <3>3 DEF RowsAccounted
  <2>6. EndTold'
    BY <1>t, <2>2 DEF EndTold
  <2> QED  BY <2>4, <2>5, <2>6 DEF CorpusInv
<1>4. CASE RecordingEnds
  <2>1. /\ outcome = "recording" /\ outcome' = "written" /\ torn' = FALSE
        /\ disk' = disk \o buffer /\ buffer' = <<>>
        /\ UNCHANGED <<setup, frame, computed, verdict, replayed>>
    BY <1>4 DEF RecordingEnds
  <2>2. /\ disk' \in Seq(CorpusRows) /\ Len(disk') = Len(disk) + Len(buffer)
        /\ \A k \in 1..Len(disk) : disk'[k] = disk[k]
        /\ \A k \in 1..Len(buffer) : disk'[Len(disk) + k] = buffer[k]
    <3>1. disk \in Seq(CorpusRows) /\ buffer \in Seq(CorpusRows)
      BY <1>t DEF RecordingTypes
    <3>2. /\ disk \o buffer \in Seq(CorpusRows)
          /\ Len(disk \o buffer) = Len(disk) + Len(buffer)
      BY <3>1
    <3>3. /\ \A k \in 1..Len(disk) : (disk \o buffer)[k] = disk[k]
          /\ \A k \in 1..Len(buffer) : (disk \o buffer)[Len(disk) + k] = buffer[k]
      BY <3>1
    <3> QED  BY <2>1, <3>2, <3>3
  <2>3. /\ Len(disk) + Len(buffer) = frame
        /\ \A k \in 1..Len(disk) : disk[k] = computed[k]
        /\ \A k \in 1..Len(buffer) : buffer[k] = computed[Len(disk) + k]
    BY <1>t, <2>1 DEF RowsAccounted, Begins
  <2>4. \A k \in 1..frame : disk'[k] = computed[k]
    <3> TAKE k \in 1..frame
    <3>1. CASE k \in 1..Len(disk)
      BY <2>2, <2>3, <3>1
    <3>2. CASE k \notin 1..Len(disk)
      <4>1. k - Len(disk) \in 1..Len(buffer) /\ k = Len(disk) + (k - Len(disk))
        BY <1>l, <2>3, <3>2
      <4> QED  BY <2>2, <2>3, <4>1
    <3> QED  BY <3>1, <3>2
  <2>5. Begins(disk', computed')
    BY <1>l, <2>1, <2>2, <2>3, <2>4 DEF Begins
  <2>6. RecordingTypes'
    <3>1. <<>> \in Seq(CorpusRows)
      OBVIOUS
    <3>2. buffer' \in Seq(CorpusRows) /\ disk' \in Seq(CorpusRows)
      BY <2>1, <2>2, <3>1
    <3> QED  BY <1>t, <2>1, <3>2 DEF RecordingTypes
  <2>7. RowsAccounted' /\ EndTold'
    BY <1>k, <1>t, <2>1, <2>2, <2>3, <2>5 DEF RowsAccounted, EndTold
  <2> QED  BY <2>6, <2>7 DEF CorpusInv
<1>5. CASE RecordingFails
  <2>1. PICK n \in 0..Len(buffer) : Spill(n)
    BY <1>5 DEF RecordingFails
  <2>2. /\ outcome = "recording" /\ outcome' = "failed" /\ buffer' = <<>>
        /\ UNCHANGED <<setup, frame, computed, verdict, replayed>>
    BY <1>5 DEF RecordingFails
  <2>3. disk' \in Seq(CorpusRows) /\ torn' \in BOOLEAN /\ Begins(disk', computed)
    BY <2>1, <2>2, SpillStep
  <2>4. RecordingTypes'
    BY <1>t, <2>2, <2>3 DEF RecordingTypes
  <2>5. RowsAccounted' /\ EndTold'
    BY <1>k, <1>t, <2>2, <2>3 DEF RowsAccounted, EndTold
  <2> QED  BY <2>4, <2>5 DEF CorpusInv
<1>6. CASE RecorderKilled
  <2>1. /\ outcome = "recording" /\ outcome' = "killed" /\ buffer' = <<>>
        /\ UNCHANGED <<setup, frame, disk, torn, computed, verdict, replayed>>
    BY <1>6 DEF RecorderKilled
  <2>2. RecordingTypes'
    BY <1>t, <2>1 DEF RecordingTypes
  <2>3. RowsAccounted' /\ EndTold'
    BY <1>k, <1>t, <2>1 DEF RowsAccounted, EndTold
  <2> QED  BY <2>2, <2>3 DEF CorpusInv
<1>7. CASE Replay
  <2>1. /\ outcome \notin {"none", "recording"}
        /\ UNCHANGED <<setup, frame, buffer, disk, torn, outcome, computed>>
        /\ \/ verdict' = "refused" /\ replayed' = replayed
           \/ verdict' = "accepted" /\ replayed' = disk
    BY <1>7 DEF Replay
  <2>2. RecordingTypes'
    BY <1>t, <2>1 DEF RecordingTypes
  <2>3. RowsAccounted' /\ EndTold'
    BY <1>k, <1>t, <2>1 DEF RowsAccounted, EndTold
  <2> QED  BY <2>2, <2>3 DEF CorpusInv
<1>8. CASE UNCHANGED recordingVars
  <2>1. UNCHANGED <<setup, frame, buffer, disk, torn, outcome, computed, verdict, replayed>>
    BY <1>8 DEF recordingVars
  <2>2. RecordingTypes'
    BY <1>t, <2>1 DEF RecordingTypes
  <2>3. RowsAccounted' /\ EndTold'
    BY <1>k, <1>t, <2>1 DEF RowsAccounted, EndTold
  <2> QED  BY <2>2, <2>3 DEF CorpusInv
<1> QED
  BY <1>1, <1>2, <1>3, <1>4, <1>5, <1>6, <1>7, <1>8 DEF RecordingNext

\* A replay is of the first frames there were, as they were computed, and of all of them
\* if the recorder said it was done (detect-cli.rs:519-526, 654-664, 828-853), however
\* it ended and whatever the buffer held.
THEOREM ReplaysAreFaithful == Spec => []ReplayIsFaithful
<1>1. CorpusInv => ReplayIsFaithful
  <2> SUFFICES ASSUME CorpusInv PROVE ReplayIsFaithful
    OBVIOUS
  <2>1. /\ disk \in Seq(CorpusRows) /\ computed \in Seq(CorpusRows) /\ frame \in Nat
        /\ Len(disk) \in Nat /\ Len(computed) = frame /\ Len(disk) <= frame
        /\ \A k \in 1..Len(disk) : disk[k] = computed[k]
        /\ \A k \in 1..frame : computed[k].seq = k - 1
    <3>1. disk \in Seq(CorpusRows) /\ computed \in Seq(CorpusRows) /\ frame \in Nat
      BY DEF CorpusInv, RecordingTypes
    <3>2. /\ Len(computed) = frame /\ Begins(disk, computed)
          /\ \A k \in 1..frame : computed[k].seq = k - 1
      BY DEF CorpusInv, RowsAccounted
    <3> QED  BY <3>1, <3>2 DEF Begins
  <2>2. disk = SubSeq(computed, 1, Len(disk))
    <3>1. /\ SubSeq(computed, 1, Len(disk)) \in Seq(CorpusRows)
          /\ Len(SubSeq(computed, 1, Len(disk))) = Len(disk)
          /\ \A k \in 1..Len(disk) : SubSeq(computed, 1, Len(disk))[k] = computed[k]
      BY <2>1
    <3> QED  BY <2>1, <3>1, SequencesEqual
  <2>3. ASSUME verdict = "accepted"
        PROVE  /\ replayed = SubSeq(computed, 1, Len(replayed))
               /\ \A k \in DOMAIN replayed : replayed[k].seq = k - 1
    <3>1. replayed = disk
      BY <2>3 DEF CorpusInv, EndTold
    <3>2. \A k \in DOMAIN disk : disk[k].seq = k - 1
      <4> TAKE k \in DOMAIN disk
      <4>1. k \in 1..Len(disk) /\ k \in 1..frame
        BY <2>1
      <4> QED  BY <2>1, <4>1
    <3> QED  BY <2>2, <3>1, <3>2
  <2>4. ASSUME outcome = "written"
        PROVE  disk = computed /\ ~torn
    <3>1. Len(disk) = frame /\ ~torn
      BY <2>4 DEF CorpusInv, EndTold
    <3>2. disk = computed
      BY <2>1, <3>1, SequencesEqual
    <3> QED  BY <3>1, <3>2
  <2> QED  BY <2>3, <2>4 DEF ReplayIsFaithful
<1> QED  BY <1>1, InitCorpus, NextCorpus, PartsCompose, PTL DEF RecordingSpec

\* Every frame that counts as one gaze ran on had a face that passed the gate, and every
\* other one of a recording with gaze has a reason or a failure (gaze.rs:205-228,
\* detect-cli.rs:587-616, 896-905).
THEOREM GazeRowsAreAccountedFor == Spec => []GazeIsAccountedFor
<1>1. CorpusInv => GazeIsAccountedFor
  <2> SUFFICES ASSUME CorpusInv, verdict = "accepted"
               PROVE  /\ GazeRan \subseteq WithFace /\ GazeRan \cap GateReasons = {}
                      /\ "gaze" \in setup =>
                           \A k \in DOMAIN replayed \ (GazeRan \union GateReasons) :
                             replayed[k].gaze = "failed"
                      /\ \A k \in GazeRan : \A face \in replayed[k].face :
                           /\ face.score >= MinFaceScore
                           /\ face.eyes # NoEyes =>
                                face.width > 0 /\ 100 * face.eyes \in
                                                    (15 * face.width)..(75 * face.width)
    BY DEF GazeIsAccountedFor
  <2>1. \A k \in DOMAIN replayed : replayed[k] \in CorpusRows /\ GazeTold(replayed[k])
    <3>1. replayed = disk /\ disk \in Seq(CorpusRows) /\ frame \in Nat
      BY DEF CorpusInv, EndTold, RecordingTypes
    <3>2. Len(disk) <= frame /\ \A k \in 1..Len(disk) : disk[k] = computed[k]
      BY DEF CorpusInv, RowsAccounted, Begins
    <3> TAKE k \in DOMAIN replayed
    <3>3. k \in 1..Len(disk) /\ k \in 1..frame
      BY <3>1, <3>2
    <3>4. GazeTold(computed[k])
      BY <3>3 DEF CorpusInv, RowsAccounted
    <3> QED  BY <3>1, <3>2, <3>3, <3>4
  <2>2. GazeRan \subseteq WithFace /\ GazeRan \cap GateReasons = {}
    BY <2>1 DEF GazeTold, GazeRan, WithFace, GateReasons
  <2>3. ASSUME "gaze" \in setup
        PROVE  \A k \in DOMAIN replayed \ (GazeRan \union GateReasons) :
                 replayed[k].gaze = "failed"
    BY <2>1, <2>3 DEF GazeTold, GazeRan, GateReasons
  <2>4. ASSUME NEW k \in GazeRan, NEW face \in replayed[k].face
        PROVE  /\ face.score >= MinFaceScore
               /\ face.eyes # NoEyes =>
                    face.width > 0 /\ 100 * face.eyes \in (15 * face.width)..(75 * face.width)
    <3>1. GateReason(face) = "none"
      BY <2>1, <2>4 DEF GazeRan, GazeTold
    <3>2. face \in Faces
      BY <2>1, <2>4 DEF GazeRan, CorpusRows, FaceSets
    <3>3. /\ face.score \in Int /\ face.width \in Int /\ MinFaceScore \in Int
          /\ face.eyes # NoEyes => face.eyes \in Nat
      BY <3>2, RecordingAssumption
    <3>4. ~(face.score < MinFaceScore)
      BY <3>1 DEF GateReason
    <3>5. ASSUME face.eyes # NoEyes
          PROVE  /\ ~(face.width <= 0) /\ ~(100 * face.eyes < 15 * face.width)
                 /\ ~(100 * face.eyes > 75 * face.width)
      BY <3>1, <3>5 DEF GateReason
    <3> QED  BY <3>3, <3>4, <3>5
  <2> QED  BY <2>2, <2>3, <2>4
<1> QED  BY <1>1, InitCorpus, NextCorpus, PartsCompose, PTL DEF RecordingSpec

-----------------------------------------------------------------------------
(* Ranks.                                                                  *)

\* What comes before i in S.
Down(R, S, i) == {j \in S : <<j, i>> \in R}

StrictOrder(R, S) ==
  /\ \A x \in S : <<x, x>> \notin R
  /\ \A x, y, z \in S : <<x, y>> \in R /\ <<y, z>> \in R => <<x, z>> \in R
  /\ \A x, y \in S : x # y => <<x, y>> \in R \/ <<y, x>> \in R

\* Whoever comes before has fewer before it.
LEMMA RankGrows ==
  ASSUME NEW S, IsFiniteSet(S), NEW R, StrictOrder(R, S),
         NEW x \in S, NEW y \in S, <<x, y>> \in R
  PROVE  Cardinality(Down(R, S, x)) < Cardinality(Down(R, S, y))
<1>1. /\ Down(R, S, x) \in SUBSET S /\ x \notin Down(R, S, x)
      /\ Down(R, S, y) \in SUBSET S
      /\ Down(R, S, x) \union {x} \in SUBSET Down(R, S, y)
  BY DEF Down, StrictOrder
<1>2. IsFiniteSet(Down(R, S, x)) /\ IsFiniteSet(Down(R, S, y))
  BY <1>1, FS_Subset
<1>3. Cardinality(Down(R, S, x) \union {x}) = Cardinality(Down(R, S, x)) + 1
  BY <1>1, <1>2, FS_AddElement
<1>4. Cardinality(Down(R, S, x) \union {x}) <= Cardinality(Down(R, S, y))
  BY <1>1, <1>2, FS_Subset
<1>5. Cardinality(Down(R, S, x)) \in Nat /\ Cardinality(Down(R, S, y)) \in Nat
  BY <1>2, FS_CardinalityType
<1> QED  BY <1>3, <1>4, <1>5

\* In a finite set that is strictly ordered every place is taken, by one element.
LEMMA RankIsPlace ==
  ASSUME NEW S, IsFiniteSet(S), NEW R, StrictOrder(R, S)
  PROVE  /\ Cardinality(S) \in Nat
         /\ \A x \in S : Cardinality(Down(R, S, x)) \in 0..Cardinality(S) - 1
         /\ \A x, y \in S :
              <<x, y>> \in R <=> Cardinality(Down(R, S, x)) < Cardinality(Down(R, S, y))
         /\ \A x, y \in S : Cardinality(Down(R, S, x)) = Cardinality(Down(R, S, y)) => x = y
         /\ \A r \in 0..Cardinality(S) - 1 : \E x \in S : Cardinality(Down(R, S, x)) = r
<1> DEFINE rank(x) == Cardinality(Down(R, S, x))
           places == 0..Cardinality(S) - 1
           f == [x \in S |-> rank(x)]
<1>1. Cardinality(S) \in Nat
  BY FS_CardinalityType
<1>2. ASSUME NEW x \in S
      PROVE  rank(x) \in places
  <2>1. Down(R, S, x) \in SUBSET (S \ {x})
    BY DEF Down, StrictOrder
  <2>2. IsFiniteSet(S \ {x}) /\ Cardinality(S \ {x}) = Cardinality(S) - 1
    BY FS_RemoveElement
  <2>3. IsFiniteSet(Down(R, S, x)) /\ rank(x) <= Cardinality(S) - 1
    BY <2>1, <2>2, FS_Subset
  <2>4. rank(x) \in Nat
    BY <2>3, FS_CardinalityType
  <2> QED  BY <1>1, <2>3, <2>4
<1>3. ASSUME NEW x \in S, NEW y \in S
      PROVE  <<x, y>> \in R <=> rank(x) < rank(y)
  <2>1. rank(x) \in Int /\ rank(y) \in Int
    BY <1>2
  <2>2. <<x, y>> \in R => rank(x) < rank(y)
    BY RankGrows
  <2>3. <<y, x>> \in R => rank(y) < rank(x)
    BY RankGrows
  <2>4. x = y \/ <<x, y>> \in R \/ <<y, x>> \in R
    BY DEF StrictOrder
  <2> HIDE DEF rank
  <2> QED  BY <2>1, <2>2, <2>3, <2>4 DEF StrictOrder
<1>4. ASSUME NEW x \in S, NEW y \in S, rank(x) = rank(y)
      PROVE  x = y
  <2>1. rank(x) \in Int /\ rank(y) \in Int
    BY <1>2
  <2>2. ~(<<x, y>> \in R) /\ ~(<<y, x>> \in R)
    BY <1>3, <1>4, <2>1
  <2> QED  BY <2>2 DEF StrictOrder
<1>5. f \in Injection(S, places)
  <2> HIDE DEF rank, places
  <2>1. f \in [S -> places]
    BY <1>2
  <2>2. \A x, y \in S : f[x] = f[y] => x = y
    BY <1>4
  <2> QED  BY <2>1, <2>2 DEF Injection, IsInjective
<1>6. IsFiniteSet(places) /\ Cardinality(places) = Cardinality(S)
  <2>1. 0 \in Int /\ Cardinality(S) - 1 \in Int
    BY <1>1
  <2>2. /\ IsFiniteSet(0..Cardinality(S) - 1)
        /\ Cardinality(0..Cardinality(S) - 1) =
             IF 0 > Cardinality(S) - 1 THEN 0 ELSE Cardinality(S) - 1 - 0 + 1
    BY <2>1, FS_Interval
  <2> QED  BY <1>1, <2>2
<1>7. f \in Surjection(S, places)
  BY <1>5, <1>6, FS_Injection
<1>8. ASSUME NEW r \in places
      PROVE  \E x \in S : rank(x) = r
  <2> HIDE DEF rank, places
  <2>1. \E x \in S : f[x] = r
    <3> HIDE DEF f
    <3> QED  BY <1>7, <1>8 DEF Surjection
  <2> QED  BY <2>1
<1> QED  BY <1>1, <1>2, <1>3, <1>4, <1>8

-----------------------------------------------------------------------------
(* Suppression.                                                            *)

CellsType == \E n \in Nat : cells \in [1..n -> Cells]

Passing == {i \in DOMAIN cells : Passes(i)}

\* The order of the cells, as pairs.
Ranking(S) == {pair \in S \X S : Before(pair[1], pair[2])}

Waiting == {queue[k] : k \in 1..Len(queue)}
Chosen == {kept[k] : k \in 1..Len(kept)}
Judged == Contenders \ Waiting

\* j takes the place from i.
Beats(j, i) == Before(j, i) /\ cells[j].class = cells[i].class /\ Overlap(j, i)

\* Contenders are gone through best first; what is kept of those gone through is what the
\* order and the overlaps determine.
HalfDone ==
  /\ Waiting \subseteq Contenders /\ Chosen \subseteq Judged
  /\ \A k, l \in 1..Len(queue) : k < l => Before(queue[k], queue[l])
  /\ \A i \in Judged : \A k \in 1..Len(queue) : Before(i, queue[k])
  /\ \A i \in Judged : i \in Chosen <=> ~\E j \in Chosen : Beats(j, i)
  /\ \A k \in 1..Len(kept) - 1 : Before(kept[k], kept[k + 1])

SuppressionInv ==
  /\ CellsType /\ topK \in Nat
  /\ queue \in Seq(Nat) /\ kept \in Seq(Nat)
  /\ stage \in {"idle", "raw", "suppressing", "done"}
  /\ stage \in {"idle", "raw"} => kept = <<>>
  /\ stage = "done" => queue = <<>>
  /\ stage \in {"suppressing", "done"} => HalfDone

\* Cells are strictly ordered, by score and then by place in the output.
LEMMA BeforeOrders ==
  ASSUME CellsType
  PROVE  /\ DOMAIN cells \subseteq Nat
         /\ \A i \in DOMAIN cells : ~Before(i, i)
         /\ \A i, j, k \in DOMAIN cells : Before(i, j) /\ Before(j, k) => Before(i, k)
         /\ \A i, j \in DOMAIN cells : i # j => Before(i, j) \/ Before(j, i)
<1>1. PICK n \in Nat : cells \in [1..n -> Cells]
  BY DEF CellsType
<1>2. \A i \in DOMAIN cells : i \in Nat /\ cells[i].score \in Int
  BY <1>1, SuppressionAssumption
<1> QED  BY <1>2 DEF Before

LEMMA RankingOrders ==
  ASSUME CellsType, NEW S \in SUBSET DOMAIN cells
  PROVE  /\ IsFiniteSet(S) /\ StrictOrder(Ranking(S), S)
         /\ \A i \in S : Down(Ranking(S), S, i) = {j \in S : Before(j, i)}
<1>1. IsFiniteSet(S)
  <2>1. PICK n \in Nat : cells \in [1..n -> Cells]
    BY DEF CellsType
  <2>2. IsFiniteSet(1..n) /\ S \in SUBSET (1..n)
    BY <2>1, FS_Interval
  <2> QED  BY <2>2, FS_Subset
<1>2. \A i, j \in S : <<i, j>> \in Ranking(S) <=> Before(i, j)
  BY DEF Ranking
<1>3. StrictOrder(Ranking(S), S)
  BY <1>2, BeforeOrders DEF StrictOrder
<1>4. \A i \in S : Down(Ranking(S), S, i) = {j \in S : Before(j, i)}
  BY <1>2 DEF Down
<1> QED  BY <1>1, <1>3, <1>4

\* How many of the passing cells come before one.
Rank(i) == Cardinality({j \in Passing : Before(j, i)})

\* The sort puts every passing cell at its rank (models/mod.rs:281-304).
LEMMA RankedIsRanking ==
  ASSUME CellsType
  PROVE  /\ Cardinality(Passing) \in Nat
         /\ Ranked(Passing) \in Seq(Passing) /\ Len(Ranked(Passing)) = Cardinality(Passing)
         /\ \A p \in 1..Cardinality(Passing) : Rank(Ranked(Passing)[p]) = p - 1
         /\ \A i \in Passing : Rank(i) \in 0..Cardinality(Passing) - 1
         /\ \A i, j \in Passing : Before(i, j) <=> Rank(i) < Rank(j)
         /\ \A i, j \in Passing : Rank(i) = Rank(j) => i = j
<1> DEFINE S == Passing
           N == Cardinality(S)
<1>1. /\ IsFiniteSet(S) /\ StrictOrder(Ranking(S), S)
      /\ \A i \in S : Down(Ranking(S), S, i) = {j \in S : Before(j, i)}
  <2>1. S \in SUBSET DOMAIN cells
    BY DEF Passing
  <2> QED  BY <2>1, RankingOrders
<1>2. \A i \in S : Cardinality(Down(Ranking(S), S, i)) = Rank(i)
  BY <1>1 DEF Rank
<1>3. \A i, j \in S : <<i, j>> \in Ranking(S) <=> Before(i, j)
  BY DEF Ranking
<1> HIDE DEF S
<1>4. /\ N \in Nat
      /\ \A i \in S : Rank(i) \in 0..N - 1
      /\ \A i, j \in S : Before(i, j) <=> Rank(i) < Rank(j)
      /\ \A i, j \in S : Rank(i) = Rank(j) => i = j
      /\ \A r \in 0..N - 1 : \E i \in S : Rank(i) = r
  <2> DEFINE rank(i) == Cardinality(Down(Ranking(S), S, i))
  <2>1. /\ N \in Nat
        /\ \A i \in S : rank(i) \in 0..N - 1
        /\ \A i, j \in S : <<i, j>> \in Ranking(S) <=> rank(i) < rank(j)
        /\ \A i, j \in S : rank(i) = rank(j) => i = j
        /\ \A r \in 0..N - 1 : \E i \in S : rank(i) = r
    BY <1>1, RankIsPlace
  <2>2. \A i \in S : rank(i) = Rank(i)
    BY <1>2
  <2> HIDE DEF rank, N
  <2>3. \A i \in S : Rank(i) \in 0..N - 1
    BY <2>1, <2>2
  <2>4. ASSUME NEW i \in S, NEW j \in S
        PROVE  Before(i, j) <=> Rank(i) < Rank(j)
    <3>1. Before(i, j) <=> <<i, j>> \in Ranking(S)
      BY <1>3
    <3>2. <<i, j>> \in Ranking(S) <=> rank(i) < rank(j)
      BY <2>1
    <3>3. rank(i) = Rank(i) /\ rank(j) = Rank(j)
      BY <2>2
    <3> QED  BY <3>1, <3>2, <3>3
  <2>5. \A i, j \in S : Rank(i) = Rank(j) => i = j
    BY <2>1, <2>2
  <2>6. \A r \in 0..N - 1 : \E i \in S : Rank(i) = r
    BY <2>1, <2>2
  <2> QED  BY <2>1, <2>3, <2>4, <2>5, <2>6
<1>5. Ranked(S) = [place \in 1..N |-> CHOOSE i \in S : Rank(i) = place - 1]
  BY DEF Ranked, Rank, S
<1> HIDE DEF N
<1>6. ASSUME NEW p \in 1..N
      PROVE  Ranked(S)[p] \in S /\ Rank(Ranked(S)[p]) = p - 1
  <2>1. p - 1 \in 0..N - 1
    BY <1>4
  <2>2. \E i \in S : Rank(i) = p - 1
    BY <1>4, <2>1
  <2> QED  BY <1>5, <2>2
<1>7. Ranked(S) \in Seq(S) /\ Len(Ranked(S)) = N
  <2>1. Ranked(S) \in [1..N -> S]
    BY <1>5, <1>6
  <2> QED  BY <1>4, <2>1
<1> QED  BY <1>4, <1>6, <1>7 DEF S, N

LEMMA InitSuppression == SuppressionInit => SuppressionInv
<1> SUFFICES ASSUME SuppressionInit PROVE SuppressionInv
  OBVIOUS
<1>1. CellsType
  <2>1. cells \in [1..0 -> Cells]
    BY DEF SuppressionInit
  <2> QED  BY <2>1 DEF CellsType
<1> QED  BY <1>1 DEF SuppressionInit, SuppressionInv

\* The cut leaves exactly the contenders, best first.
LEMMA DecodeStep ==
  ASSUME SuppressionInv, DecodeAndSort
  PROVE  SuppressionInv'
<1> DEFINE N == Cardinality(Passing)
           cut == IF topK < N THEN topK ELSE N
<1>1. /\ CellsType /\ topK \in Nat /\ kept = <<>>
      /\ stage' = "suppressing" /\ UNCHANGED <<cells, topK, kept>>
  BY DEF SuppressionInv, DecodeAndSort
<1>2. /\ N \in Nat
      /\ Ranked(Passing) \in Seq(Passing) /\ Len(Ranked(Passing)) = N
      /\ \A p \in 1..N : Rank(Ranked(Passing)[p]) = p - 1
      /\ \A i \in Passing : Rank(i) \in 0..N - 1
      /\ \A i, j \in Passing : Before(i, j) <=> Rank(i) < Rank(j)
      /\ \A i, j \in Passing : Rank(i) = Rank(j) => i = j
  BY <1>1, RankedIsRanking
<1>3. queue' = SubSeq(Ranked(Passing), 1, IF topK < Len(Ranked(Passing)) THEN topK
                                          ELSE Len(Ranked(Passing)))
  BY DEF DecodeAndSort, Passing
<1> HIDE DEF N
<1>4. cut \in Nat /\ cut <= N /\ queue' = SubSeq(Ranked(Passing), 1, cut)
  BY <1>1, <1>2, <1>3
<1> HIDE DEF cut
<1>5. /\ queue' \in Seq(Passing) /\ Len(queue') = cut
      /\ \A p \in 1..cut : queue'[p] = Ranked(Passing)[p]
  BY <1>2, <1>4
<1>6. \A p \in 1..cut : queue'[p] \in Passing /\ Rank(queue'[p]) = p - 1
  <2> TAKE p \in 1..cut
  <2>1. p \in 1..N /\ p \in 1..Len(queue')
    BY <1>2, <1>4, <1>5
  <2>2. queue'[p] \in Passing
    BY <1>5, <2>1
  <2> QED  BY <1>2, <1>5, <2>1, <2>2
<1>7. Contenders = {i \in Passing : Rank(i) < topK} /\ Contenders' = Contenders
  BY <1>1 DEF Contenders, Rank, Passing, Passes, Before
<1>8. \A i \in Contenders : \E p \in 1..cut : queue'[p] = i
  <2> TAKE i \in Contenders
  <2>1. i \in Passing /\ Rank(i) \in 0..N - 1 /\ Rank(i) < topK
    BY <1>2, <1>7
  <2>2. Rank(i) + 1 \in 1..cut
    BY <1>1, <1>2, <2>1 DEF cut
  <2>3. queue'[Rank(i) + 1] \in Passing /\ Rank(queue'[Rank(i) + 1]) = Rank(i)
    BY <1>6, <2>1, <2>2
  <2> QED  BY <1>2, <2>1, <2>2, <2>3
<1>9. \A p \in 1..cut : queue'[p] \in Contenders
  <2> TAKE p \in 1..cut
  <2>1. p - 1 < topK
    BY <1>1, <1>2 DEF cut
  <2> QED  BY <1>6, <1>7, <2>1
<1>10. Waiting' = Contenders
  BY <1>5, <1>8, <1>9 DEF Waiting
<1>11. \A k, l \in 1..cut : k < l => Before(queue[k], queue[l])'
  <2> TAKE k, l \in 1..cut
  <2>1. k < l => Rank(queue'[k]) < Rank(queue'[l])
    BY <1>4, <1>6
  <2>2. Before(queue[k], queue[l])' <=> Before(queue'[k], queue'[l])
    BY <1>1 DEF Before
  <2> QED  BY <1>2, <1>6, <2>1, <2>2
<1>12. HalfDone'
  <2>1. Judged' = {} /\ Chosen' = {}
    BY <1>1, <1>7, <1>10 DEF Judged, Chosen
  <2>2. 1..Len(kept') - 1 = {}
    BY <1>1
  <2>3. (\A k, l \in 1..Len(queue) : k < l => Before(queue[k], queue[l]))'
    BY <1>5, <1>11
  <2> QED  BY <1>7, <1>10, <2>1, <2>2, <2>3 DEF HalfDone
<1>13. CellsType' /\ queue' \in Seq(Nat)
  <2>1. Passing \subseteq Nat
    BY <1>1, BeforeOrders DEF Passing
  <2>2. queue' \in Seq(Nat)
    <3>1. \A p \in 1..Len(queue') : queue'[p] \in Nat
      BY <1>5, <1>6, <2>1
    <3> QED  BY <1>5, <3>1
  <2>3. CellsType'
    BY <1>1 DEF CellsType
  <2> QED  BY <2>2, <2>3
<1> QED  BY <1>1, <1>12, <1>13 DEF SuppressionInv

\* One turn of the loop (models/mod.rs:281-304) judges the best of those that wait.
LEMMA SuppressStep ==
  ASSUME SuppressionInv, SuppressNext
  PROVE  SuppressionInv'
<1> DEFINE h == queue[1]
           n == Len(queue)
<1>1. /\ CellsType /\ topK \in Nat /\ queue \in Seq(Nat) /\ kept \in Seq(Nat)
      /\ stage = "suppressing" /\ queue # <<>> /\ HalfDone
      /\ UNCHANGED <<cells, topK, stage>>
      /\ queue' = Tail(queue)
      /\ kept' = IF Suppressed(h) THEN kept ELSE Append(kept, h)
  BY DEF SuppressionInv, SuppressNext
<1>2. /\ n \in Nat /\ n >= 1 /\ h \in Nat
      /\ queue' \in Seq(Nat) /\ Len(queue') = n - 1
      /\ \A k \in 1..n - 1 : queue'[k] = queue[k + 1]
  BY <1>1
<1>h. /\ Waiting \subseteq Contenders /\ Chosen \subseteq Judged
      /\ \A k, l \in 1..n : k < l => Before(queue[k], queue[l])
      /\ \A i \in Judged : \A k \in 1..n : Before(i, queue[k])
      /\ \A i \in Judged : i \in Chosen <=> ~\E j \in Chosen : Beats(j, i)
      /\ \A k \in 1..Len(kept) - 1 : Before(kept[k], kept[k + 1])
  BY <1>1 DEF HalfDone
<1>c. /\ Contenders' = Contenders
      /\ \A i, j : Before(i, j)' <=> Before(i, j)
      /\ \A i, j : Beats(i, j)' <=> Beats(i, j)
      /\ Contenders \subseteq DOMAIN cells
  BY <1>1 DEF Contenders, Passes, Before, Beats, Overlap
<1>o. /\ \A i \in DOMAIN cells : ~Before(i, i)
      /\ \A i, j \in DOMAIN cells : ~(Before(i, j) /\ Before(j, i))
  <2>1. /\ \A i \in DOMAIN cells : ~Before(i, i)
        /\ \A i, j, k \in DOMAIN cells : Before(i, j) /\ Before(j, k) => Before(i, k)
    BY <1>1, BeforeOrders
  <2> QED  BY <2>1
<1> HIDE DEF h, n
<1>3. Waiting = {queue[k] : k \in 1..n} /\ Waiting' = {queue[k + 1] : k \in 1..n - 1}
  BY <1>2 DEF Waiting, n
<1>4. h \in Waiting /\ h \notin Waiting' /\ Waiting = Waiting' \union {h}
  <2>1. 1 \in 1..n /\ queue[1] = h
    BY <1>2 DEF h
  <2>2. \A k \in 1..n - 1 : k + 1 \in 1..n /\ Before(h, queue[k + 1])
    BY <1>2, <1>h, <2>1
  <2>3. \A k \in 1..n : k = 1 \/ (k - 1 \in 1..n - 1 /\ queue[k] = queue[(k - 1) + 1])
    BY <1>2
  <2>4. h \in Waiting /\ h \in DOMAIN cells
    BY <1>3, <1>h, <1>c, <2>1
  <2>5. h \notin Waiting'
    BY <1>3, <1>o, <2>2, <2>4
  <2>6. Waiting' \subseteq Waiting
    BY <1>3, <2>2
  <2>7. Waiting \subseteq Waiting' \union {h}
    BY <1>3, <2>1, <2>3
  <2> QED  BY <2>4, <2>5, <2>6, <2>7
<1>5. /\ Judged' = Judged \union {h} /\ h \notin Judged /\ h \in DOMAIN cells
      /\ \A i \in Judged : Before(i, h) /\ i \in DOMAIN cells
  <2>1. Judged = Contenders \ Waiting /\ Judged' = Contenders \ Waiting'
    BY <1>c DEF Judged
  <2>2. h \in Contenders
    BY <1>4, <1>h
  <2>3. 1 \in 1..n /\ queue[1] = h
    BY <1>2 DEF h
  <2> QED  BY <1>4, <1>h, <1>c, <2>1, <2>2, <2>3
<1>6. Suppressed(h) <=> \E j \in Chosen : Beats(j, h)
  <2>1. DOMAIN kept = 1..Len(kept)
    BY <1>1
  <2>2. Suppressed(h) <=>
          \E j \in Chosen : cells[j].class = cells[h].class /\ Overlap(j, h)
    BY <2>1 DEF Suppressed, Chosen
  <2> QED  BY <1>h, <1>5, <2>2 DEF Beats
<1>7. /\ kept' \in Seq(Nat)
      /\ Chosen' = IF Suppressed(h) THEN Chosen ELSE Chosen \union {h}
      /\ \A k \in 1..Len(kept') - 1 : Before(kept'[k], kept'[k + 1])
  <2>1. CASE Suppressed(h)
    <3>1. kept' = kept
      BY <1>1, <2>1
    <3> QED  BY <1>1, <1>h, <2>1, <3>1 DEF Chosen
  <2>2. CASE ~Suppressed(h)
    <3>0. Len(kept) \in Nat
      BY <1>1
    <3>1. /\ kept' \in Seq(Nat) /\ Len(kept') = Len(kept) + 1
          /\ \A k \in 1..Len(kept) : kept'[k] = kept[k]
          /\ kept'[Len(kept) + 1] = h
      BY <1>1, <1>2, <2>2
    <3>2. Chosen' = Chosen \union {h}
      <4>1. Chosen' = {kept'[k] : k \in 1..Len(kept) + 1}
        BY <3>1 DEF Chosen
      <4>2. \A k \in 1..Len(kept) + 1 : k \in 1..Len(kept) \/ k = Len(kept) + 1
        BY <3>0
      <4>3. Len(kept) + 1 \in 1..Len(kept) + 1 /\ \A k \in 1..Len(kept) : k \in 1..Len(kept) + 1
        BY <3>0
      <4>4. Chosen' \subseteq Chosen \union {h}
        BY <3>1, <4>1, <4>2 DEF Chosen
      <4>5. Chosen \union {h} \subseteq Chosen'
        BY <3>1, <4>1, <4>3 DEF Chosen
      <4> QED  BY <4>4, <4>5
    <3>3. \A k \in 1..Len(kept') - 1 : Before(kept'[k], kept'[k + 1])
      <4> TAKE k \in 1..Len(kept') - 1
      <4>1. CASE k \in 1..Len(kept) - 1
        <5>1. k \in 1..Len(kept) /\ k + 1 \in 1..Len(kept)
          BY <3>0, <4>1
        <5> QED  BY <1>h, <3>1, <4>1, <5>1
      <4>2. CASE k \notin 1..Len(kept) - 1
        <5>1. k = Len(kept) /\ k \in 1..Len(kept)
          BY <3>0, <3>1, <4>2
        <5>2. kept[k] \in Chosen
          BY <5>1 DEF Chosen
        <5>3. Before(kept[k], h)
          BY <1>h, <1>5, <5>2
        <5> QED  BY <3>1, <5>1, <5>3
      <4> QED  BY <4>1, <4>2
    <3> QED  BY <2>2, <3>1, <3>2, <3>3
  <2> QED  BY <2>1, <2>2
<1>8. HalfDone'
  <2>1. Waiting' \subseteq Contenders' /\ Chosen' \subseteq Judged'
    BY <1>4, <1>5, <1>7, <1>h, <1>c
  <2>2. (\A k, l \in 1..Len(queue) : k < l => Before(queue[k], queue[l]))'
    <3>1. \A k \in 1..n - 1 : k + 1 \in 1..n /\ queue'[k] = queue[k + 1]
      BY <1>2
    <3>2. \A k, l \in 1..n - 1 : k < l => k + 1 < l + 1
      BY <1>2
    <3>3. \A k, l \in 1..n - 1 : k < l => Before(queue'[k], queue'[l])
      BY <1>h, <3>1, <3>2
    <3> QED  BY <1>2, <1>c, <3>3
  <2>3. (\A i \in Judged : \A k \in 1..Len(queue) : Before(i, queue[k]))'
    <3>1. \A k \in 1..n - 1 : k + 1 \in 1..n /\ queue'[k] = queue[k + 1] /\ 1 < k + 1
      BY <1>2
    <3>2. \A k \in 1..n - 1 : Before(h, queue'[k])
      <4>1. 1 \in 1..n
        BY <1>2
      <4> QED  BY <1>h, <3>1, <4>1 DEF h
    <3>3. \A i \in Judged : \A k \in 1..n - 1 : Before(i, queue'[k])
      BY <1>h, <3>1
    <3> QED  BY <1>2, <1>5, <1>c, <3>2, <3>3
  <2>4. (\A i \in Judged : i \in Chosen <=> ~\E j \in Chosen : Beats(j, i))'
    <3>1. \A i \in Judged : ~Before(h, i) /\ i # h
      BY <1>5, <1>o
    <3>2. ASSUME NEW i \in Judged
          PROVE  i \in Chosen' <=> ~\E j \in Chosen' : Beats(j, i)
      <4>1. ~Beats(h, i) /\ i # h
        BY <3>1, <3>2 DEF Beats
      <4>2. i \in Chosen <=> ~\E j \in Chosen : Beats(j, i)
        BY <1>h, <3>2
      <4> QED  BY <1>7, <4>1, <4>2
    <3>3. h \in Chosen' <=> ~\E j \in Chosen' : Beats(j, h)
      <4>1. h \notin Chosen /\ ~Beats(h, h)
        BY <1>h, <1>5, <1>o DEF Beats
      <4> QED  BY <1>6, <1>7, <4>1
    <3> QED  BY <1>5, <1>c, <3>2, <3>3
  <2>5. (\A k \in 1..Len(kept) - 1 : Before(kept[k], kept[k + 1]))'
    BY <1>7, <1>c
  <2> QED  BY <2>1, <2>2, <2>3, <2>4, <2>5 DEF HalfDone
<1>9. CellsType'
  BY <1>1 DEF CellsType
<1> QED  BY <1>1, <1>2, <1>7, <1>8, <1>9 DEF SuppressionInv

LEMMA NextSuppression ==
  ASSUME SuppressionInv, [SuppressionNext]_suppressionVars
  PROVE  SuppressionInv'
<1>1. CASE ModelPutsOut
  <2>1. PICK n \in 1..MaxCells : cells' \in [1..n -> Cells]
    BY <1>1 DEF ModelPutsOut
  <2>2. n \in Nat
    BY SuppressionAssumption
  <2>3. CellsType'
    BY <2>1, <2>2 DEF CellsType
  <2>4. topK' \in Nat
    BY <1>1, SuppressionAssumption DEF ModelPutsOut
  <2>5. /\ stage = "idle" /\ stage' = "raw" /\ queue' = queue /\ kept' = kept
    BY <1>1 DEF ModelPutsOut
  <2> QED  BY <2>3, <2>4, <2>5 DEF SuppressionInv
<1>2. CASE DecodeAndSort
  BY <1>2, DecodeStep
<1>3. CASE SuppressNext
  BY <1>3, SuppressStep
<1>4. ASSUME UNCHANGED <<cells, topK, queue, kept>>
      PROVE  (CellsType => CellsType') /\ (HalfDone => HalfDone')
  <2>1. CellsType => CellsType'
    BY <1>4 DEF CellsType
  <2>2. Waiting' = Waiting /\ Chosen' = Chosen
    BY <1>4 DEF Waiting, Chosen
  <2>3. /\ Contenders' = Contenders
        /\ \A i, j : Before(i, j)' <=> Before(i, j)
        /\ \A i, j : Beats(i, j)' <=> Beats(i, j)
    BY <1>4 DEF Contenders, Passes, Before, Beats, Overlap
  <2>4. Judged' = Judged
    BY <2>2, <2>3 DEF Judged
  <2>5. HalfDone => HalfDone'
    BY <1>4, <2>2, <2>3, <2>4 DEF HalfDone
  <2> QED  BY <2>1, <2>5
<1>5. CASE SuppressionDone
  <2>1. /\ UNCHANGED <<cells, topK, queue, kept>> /\ stage = "suppressing" /\ queue = <<>>
        /\ stage' = "done"
    BY <1>5 DEF SuppressionDone
  <2> QED  BY <1>4, <2>1 DEF SuppressionInv
<1>6. CASE UNCHANGED suppressionVars
  <2>1. UNCHANGED <<cells, topK, queue, kept, stage>>
    BY <1>6 DEF suppressionVars
  <2> QED  BY <1>4, <2>1 DEF SuppressionInv
<1> QED  BY <1>1, <1>2, <1>3, <1>5, <1>6 DEF SuppressionNext

\* Whatever the model puts out and whatever the limit, the list a worker gets is the one the
\* order of the scores and the overlaps determine.
THEOREM SuppressionKeepsKernel == Spec => []KeptIsKernel
<1>1. SuppressionInv => KeptIsKernel
  <2> SUFFICES ASSUME SuppressionInv, stage = "done"
               PROVE  LET chosen == {kept[k] : k \in DOMAIN kept}
                      IN  /\ chosen \subseteq Contenders
                          /\ \A i \in Contenders :
                               i \in chosen <=> ~ \E j \in chosen :
                                                    /\ Before(j, i)
                                                    /\ cells[j].class = cells[i].class
                                                    /\ Overlap(j, i)
                          /\ \A k \in 1..(Len(kept) - 1) : Before(kept[k], kept[k + 1])
    BY DEF KeptIsKernel
  <2>1. HalfDone /\ queue = <<>> /\ kept \in Seq(Nat)
    BY DEF SuppressionInv
  <2>2. Judged = Contenders
    <3>1. 1..Len(queue) = {}
      BY <2>1
    <3> QED  BY <3>1 DEF Judged, Waiting
  <2>3. {kept[k] : k \in DOMAIN kept} = Chosen
    BY <2>1 DEF Chosen
  <2> QED  BY <2>1, <2>2, <2>3 DEF HalfDone, Beats
<1>2. SuppressionSpec => []KeptIsKernel
  <2>1. SuppressionSpec => []SuppressionInv
    BY InitSuppression, NextSuppression, PTL DEF SuppressionSpec
  <2> QED  BY <1>1, <2>1, PTL
<1> QED  BY <1>2, PartsCompose, PTL

-----------------------------------------------------------------------------
(* Latencies.                                                              *)

LatenciesInv == LatenciesTypeOK /\ WindowIsRecent

LEMMA InitLatencies == LatenciesInit => LatenciesInv
<1> SUFFICES ASSUME LatenciesInit PROVE LatenciesInv
  OBVIOUS
<1>1. /\ window = Unbounded /\ samples = <<>> /\ workload = <<>> /\ given = 0
      /\ samples \in Seq(Nat) /\ workload \in Seq(Nat) /\ Len(samples) = 0 /\ Len(workload) = 0
  BY DEF LatenciesInit
<1>2. Oldest = 1
  BY <1>1 DEF Oldest
<1> QED  BY <1>1, <1>2 DEF LatenciesInv, LatenciesTypeOK, WindowIsRecent

LEMMA NewLatenciesStep ==
  ASSUME LatenciesInv, NewLatencies
  PROVE  LatenciesInv'
<1>1. /\ workload = <<>> /\ given \in 0..Len(workload) /\ samples \in Seq(Nat)
      /\ WindowIsRecent
  BY DEF LatenciesInv, LatenciesTypeOK, NewLatencies
<1>2. /\ window' \in (Nat \ {0}) \union {Unbounded} /\ workload' \in Seq(Nat)
      /\ UNCHANGED <<samples, given>>
  BY LatenciesAssumption DEF NewLatencies
<1>3. given = 0
  BY <1>1
<1>4. Oldest = 1 /\ Oldest' = 1
  <2>1. Oldest = 1
    <3>1. window = Unbounded \/ 0 <= window
      BY DEF LatenciesInv, LatenciesTypeOK
    <3> QED  BY <1>3, <3>1 DEF Oldest
  <2>2. window' = Unbounded \/ 0 <= window'
    BY <1>2
  <2> QED  BY <1>2, <1>3, <2>1, <2>2 DEF Oldest
<1>5. Len(samples) = 0
  BY <1>1, <1>3, <1>4 DEF WindowIsRecent
<1>6. given' \in 0..Len(workload')
  <2>1. Len(workload') \in Nat
    BY <1>2
  <2> QED  BY <1>2, <1>3, <2>1
<1>7. WindowIsRecent'
  BY <1>2, <1>3, <1>4, <1>5 DEF WindowIsRecent
<1> QED  BY <1>1, <1>2, <1>6, <1>7 DEF LatenciesInv, LatenciesTypeOK

\* A full window loses its oldest sample, one that is not full none (report.rs:115-122).
LEMMA RecordSampleStep ==
  ASSUME LatenciesInv, RecordSample
  PROVE  LatenciesInv'
<1> DEFINE n == Len(samples)
           sample == workload[given + 1]
<1>1. /\ window \in (Nat \ {0}) \union {Unbounded} /\ samples \in Seq(Nat)
      /\ workload \in Seq(Nat) /\ given \in Nat /\ Len(workload) \in Nat
      /\ given < Len(workload)
      /\ samples' = Append(Room, sample) /\ given' = given + 1
      /\ UNCHANGED <<window, workload>>
  BY DEF LatenciesInv, LatenciesTypeOK, RecordSample
<1>2. sample \in Nat
  <2>1. given + 1 \in 1..Len(workload)
    BY <1>1
  <2> QED  BY <1>1, <2>1
<1>3. n \in Nat /\ n = given - Oldest + 1
      /\ \A i \in 1..n : samples[i] = workload[Oldest + i - 1]
  BY <1>1 DEF LatenciesInv, WindowIsRecent
<1>4. Oldest \in Nat /\ Oldest' \in Nat
  BY <1>1, LatenciesAssumption DEF Oldest
<1> HIDE DEF n, sample
<1>5. CASE window = Unbounded \/ n < window
  <2>1. Room = samples
    BY <1>5 DEF Room, n
  <2>2. Oldest' = Oldest
    <3>1. CASE window = Unbounded
      BY <1>1, <3>1 DEF Oldest
    <3>2. CASE window # Unbounded
      <4>1. window \in Nat /\ n < window
        BY <1>1, <1>5, <3>2
      <4>2. given <= window /\ Oldest = 1
        BY <1>1, <1>3, <3>2, <4>1 DEF Oldest
      <4>3. given' <= window
        BY <1>1, <1>3, <4>1, <4>2
      <4> QED  BY <1>1, <3>2, <4>2, <4>3 DEF Oldest
    <3> QED  BY <3>1, <3>2
  <2>3. /\ samples' \in Seq(Nat) /\ Len(samples') = n + 1
        /\ \A i \in 1..n : samples'[i] = samples[i]
        /\ samples'[n + 1] = sample
    BY <1>1, <1>2, <2>1 DEF n
  <2>4. Len(samples') = given' - Oldest' + 1
    BY <1>1, <1>3, <1>4, <2>2, <2>3
  <2>5. \A i \in 1..n + 1 : samples'[i] = workload[Oldest + i - 1]
    <3> TAKE i \in 1..n + 1
    <3>1. CASE i \in 1..n
      BY <1>3, <2>3, <3>1
    <3>2. CASE i \notin 1..n
      <4>1. i = n + 1 /\ Oldest + i - 1 = given + 1
        BY <1>1, <1>3, <1>4, <3>2
      <4> QED  BY <2>3, <4>1 DEF sample
    <3> QED  BY <3>1, <3>2
  <2>6. WindowIsRecent'
    BY <1>1, <2>2, <2>3, <2>4, <2>5 DEF WindowIsRecent
  <2>7. LatenciesTypeOK'
    <3>1. given' \in 0..Len(workload')
      BY <1>1
    <3> QED  BY <1>1, <2>3, <3>1 DEF LatenciesTypeOK
  <2> QED  BY <2>6, <2>7 DEF LatenciesInv
<1>6. CASE window # Unbounded /\ ~(n < window)
  <2>1. window \in Nat /\ window >= 1 /\ n >= window
    BY <1>1, <1>3, <1>6
  <2>2. n = window /\ Oldest = given - window + 1
    BY <1>1, <1>3, <1>6, <2>1 DEF Oldest
  <2>3. Oldest' = Oldest + 1
    <3>1. given >= window
      BY <1>1, <1>3, <1>4, <2>1, <2>2, <1>6 DEF Oldest
    <3>2. ~(given' <= window) /\ given' - window + 1 = Oldest + 1
      BY <1>1, <2>1, <2>2, <3>1
    <3> QED  BY <1>1, <1>6, <3>2 DEF Oldest
  <2>4. Room = SubSeq(samples, 2, n)
    <3>1. n - window + 2 = 2
      BY <1>3, <2>2
    <3> QED  BY <1>6, <3>1 DEF Room, n
  <2>5. /\ Room \in Seq(Nat) /\ Len(Room) = n - 1
        /\ \A i \in 1..n - 1 : Room[i] = samples[i + 1]
    <3>1. n \in Nat /\ n >= 1 /\ n = Len(samples) /\ samples \in Seq(Nat)
      BY <1>1, <1>3, <2>1, <2>2 DEF n
    <3>2. SubSeq(samples, 2, n) \in Seq(Nat)
      BY <3>1
    <3>3. Len(SubSeq(samples, 2, n)) = n - 1
      BY <3>1
    <3>4. \A i \in 1..n - 1 : SubSeq(samples, 2, n)[i] = samples[i + 1]
      BY <3>1
    <3> QED  BY <2>4, <3>2, <3>3, <3>4
  <2>6. samples' \in Seq(Nat) /\ Len(samples') = Len(Room) + 1
    BY <1>1, <1>2, <2>5
  <2>7. /\ \A i \in 1..Len(Room) : samples'[i] = Room[i]
        /\ samples'[Len(Room) + 1] = sample
    BY <1>1, <1>2, <2>5
  <2>8. Len(samples') = n
    BY <1>3, <2>5, <2>6
  <2>9. \A i \in 1..n : samples'[i] = workload[Oldest' + i - 1]
    <3> TAKE i \in 1..n
    <3>1. CASE i \in 1..n - 1
      <4>1. i + 1 \in 1..n /\ Oldest + (i + 1) - 1 = Oldest' + i - 1
        BY <1>3, <1>4, <2>3, <3>1
      <4>2. samples'[i] = samples[i + 1]
        BY <2>5, <2>7, <3>1
      <4> QED  BY <1>3, <4>1, <4>2
    <3>2. CASE i \notin 1..n - 1
      <4>1. i = n /\ n = (n - 1) + 1 /\ Oldest' + i - 1 = given + 1
        BY <1>1, <1>3, <1>4, <2>3, <3>2
      <4>2. samples'[n] = sample
        BY <2>5, <2>7, <4>1
      <4> QED  BY <4>1, <4>2 DEF sample
    <3> QED  BY <3>1, <3>2
  <2>10. WindowIsRecent'
    <3>1. Len(samples') = given' - Oldest' + 1
      BY <1>1, <1>3, <1>4, <2>3, <2>8
    <3> QED  BY <1>1, <2>8, <2>9, <3>1 DEF WindowIsRecent
  <2>11. LatenciesTypeOK'
    <3>1. given' \in 0..Len(workload')
      BY <1>1
    <3> QED  BY <1>1, <2>6, <3>1 DEF LatenciesTypeOK
  <2> QED  BY <2>10, <2>11 DEF LatenciesInv
<1> QED  BY <1>5, <1>6

LEMMA NextLatencies ==
  ASSUME LatenciesInv, [LatenciesNext]_latencyVars
  PROVE  LatenciesInv'
<1>1. CASE UNCHANGED latencyVars
  BY <1>1 DEF latencyVars, LatenciesInv, LatenciesTypeOK, WindowIsRecent, Oldest
<1> QED  BY <1>1, NewLatenciesStep, RecordSampleStep DEF LatenciesNext

\* Sample i comes before sample j.
Earlier(i, j) == samples[i] < samples[j] \/ (samples[i] = samples[j] /\ i < j)

Place(i) == Cardinality({j \in DOMAIN samples : Earlier(j, i)})

\* The sort (report.rs:140-141) only moves the samples, each to a place of its own.
LEMMA SortedIsSorted ==
  ASSUME NEW n, n = Len(samples), samples \in Seq(Nat)
  PROVE  \E f \in Injection(1..n, 1..n) :
           /\ Len(Sorted) = n
           /\ \A k \in 1..n : Sorted[k] = samples[f[k]]
           /\ \A k, l \in 1..n : k <= l => Sorted[k] <= Sorted[l]
<1> DEFINE S == 1..n
           R == {pair \in S \X S : Earlier(pair[1], pair[2])}
           f == [k \in S |-> CHOOSE i \in S : Place(i) = k - 1]
<1>0. n \in Nat /\ DOMAIN samples = S /\ \A i \in S : i \in Nat /\ samples[i] \in Nat
  OBVIOUS
<1>1. \A i, j \in S : <<i, j>> \in R <=> Earlier(i, j)
  OBVIOUS
<1>2. \A i \in S : Place(i) = Cardinality(Down(R, S, i))
  BY <1>0 DEF Place, Down
<1>3. IsFiniteSet(S) /\ Cardinality(S) = n
  <2>1. 1 \in Int /\ n \in Int
    BY <1>0
  <2>2. /\ IsFiniteSet(1..n)
        /\ Cardinality(1..n) = IF 1 > n THEN 0 ELSE n - 1 + 1
    BY <2>1, FS_Interval, Zenon
  <2> QED  BY <1>0, <2>2
<1> HIDE DEF R
<1>4. StrictOrder(R, S)
  BY <1>0, <1>1 DEF StrictOrder, Earlier
<1>5. /\ \A i \in S : Place(i) \in 0..n - 1
      /\ \A i, j \in S : Earlier(i, j) <=> Place(i) < Place(j)
      /\ \A i, j \in S : Place(i) = Place(j) => i = j
      /\ \A r \in 0..n - 1 : \E i \in S : Place(i) = r
  <2> DEFINE rank(i) == Cardinality(Down(R, S, i))
  <2>1. /\ \A i \in S : rank(i) \in 0..n - 1
        /\ \A i, j \in S : <<i, j>> \in R <=> rank(i) < rank(j)
        /\ \A i, j \in S : rank(i) = rank(j) => i = j
        /\ \A r \in 0..n - 1 : \E i \in S : rank(i) = r
    <3> HIDE DEF S, f, rank
    <3>1. /\ \A x \in S : Cardinality(Down(R, S, x)) \in 0..Cardinality(S) - 1
          /\ \A x, y \in S : <<x, y>> \in R
                               <=> Cardinality(Down(R, S, x)) < Cardinality(Down(R, S, y))
          /\ \A x, y \in S :
               Cardinality(Down(R, S, x)) = Cardinality(Down(R, S, y)) => x = y
          /\ \A r \in 0..Cardinality(S) - 1 : \E x \in S : Cardinality(Down(R, S, x)) = r
      BY <1>3, <1>4, RankIsPlace
    <3> QED  BY <1>3, <3>1, Zenon DEF rank
  <2>2. \A i \in S : rank(i) = Place(i)
    BY <1>2
  <2> HIDE DEF rank, S
  <2>3. \A i \in S : Place(i) \in 0..n - 1
    BY <2>1, <2>2, Zenon
  <2>4. \A i, j \in S : Earlier(i, j) <=> Place(i) < Place(j)
    BY <1>1, <2>1, <2>2
  <2>5. \A i, j \in S : Place(i) = Place(j) => i = j
    BY <2>1, <2>2
  <2>6. \A r \in 0..n - 1 : \E i \in S : Place(i) = r
    BY <2>1, <2>2
  <2> QED  BY <2>3, <2>4, <2>5, <2>6
<1>6. \A k \in S : f[k] \in S /\ Place(f[k]) = k - 1
  <2> TAKE k \in S
  <2>1. k - 1 \in 0..n - 1
    BY <1>0
  <2>2. \E i \in S : Place(i) = k - 1
    BY <1>5, <2>1
  <2> QED  BY <2>2
<1>7. f \in Injection(S, S)
  <2>1. f \in [S -> S]
    BY <1>6
  <2>2. \A k, l \in S : f[k] = f[l] => k = l
    <3> TAKE k, l \in S
    <3> HIDE DEF f
    <3> QED  BY <1>0, <1>6
  <2> HIDE DEF f
  <2> QED  BY <2>1, <2>2 DEF Injection, IsInjective
<1>8. Sorted = [k \in S |-> samples[f[k]]]
  BY <1>0 DEF Sorted, Place, Earlier
<1> HIDE DEF f
<1>9. Len(Sorted) = n
  BY <1>0, <1>6, <1>8
<1>10. \A k, l \in S : k <= l => Sorted[k] <= Sorted[l]
  <2> TAKE k, l \in S
  <2>1. CASE k < l
    <3>1. f[k] \in S /\ f[l] \in S /\ Place(f[k]) < Place(f[l])
      BY <1>0, <1>6, <2>1
    <3>2. samples[f[k]] \in Nat /\ samples[f[l]] \in Nat /\ Earlier(f[k], f[l])
      BY <1>0, <1>5, <3>1
    <3> QED  BY <1>8, <3>2 DEF Earlier
  <2>2. CASE k = l
    BY <1>0, <1>6, <1>8, <2>2
  <2> QED  BY <1>0, <2>1, <2>2
<1> QED  BY <1>7, <1>8, <1>9, <1>10

\* In values that are in order, as many are at or below the one at a place as the place
\* says, and fewer are below it.
LEMMA PlaceCounts ==
  ASSUME NEW n \in Nat, IsFiniteSet(Oldest..given), Cardinality(Oldest..given) = n,
         \A i \in Oldest..given : workload[i] \in Nat,
         NEW g \in Injection(1..n, Oldest..given),
         \A k \in 1..n : Sorted[k] = workload[g[k]],
         \A k, l \in 1..n : k <= l => Sorted[k] <= Sorted[l],
         NEW r \in 1..n
  PROVE  /\ AtMost(Sorted[r]) \in Nat /\ Below(Sorted[r]) \in Nat
         /\ r <= AtMost(Sorted[r]) /\ Below(Sorted[r]) <= r - 1
         /\ r = n => AtMost(Sorted[r]) = n
         /\ g[r] \in Oldest..given
<1> DEFINE I == Oldest..given
           A == {i \in I : workload[i] <= Sorted[r]}
           B == {i \in I : workload[i] < Sorted[r]}
<1>1. IsFiniteSet(A) /\ IsFiniteSet(B)
  <2>1. A \in SUBSET I /\ B \in SUBSET I
    OBVIOUS
  <2> QED  BY <2>1, FS_Subset
<1>2. Cardinality(A) \in Nat /\ Cardinality(B) \in Nat
  BY <1>1, FS_CardinalityType
<1>3. \A m \in Nat : IsFiniteSet(1..m) /\ Cardinality(1..m) = m
  <2> TAKE m \in Nat
  <2>1. /\ IsFiniteSet(1..m)
        /\ Cardinality(1..m) = IF 1 > m THEN 0 ELSE m - 1 + 1
    BY FS_Interval
  <2> QED  BY <2>1
<1>4. /\ g \in [1..n -> I]
      /\ \A k, l \in 1..n : g[k] = g[l] => k = l
  BY DEF Injection, IsInjective
<1>5. \A i \in I : \E k \in 1..n : g[k] = i
  <2>1. g \in Surjection(1..n, I)
    BY <1>3, FS_Injection
  <2> QED  BY <2>1 DEF Surjection
<1>6. \A k \in 1..n : Sorted[k] \in Nat /\ g[k] \in I
  BY <1>4
<1>7. r <= Cardinality(A)
  <2> DEFINE h == [k \in 1..r |-> g[k]]
  <2>1. \A k \in 1..r : k \in 1..n /\ g[k] \in A
    <3> TAKE k \in 1..r
    <3>1. k \in 1..n /\ k <= r
      OBVIOUS
    <3> QED  BY <1>6, <3>1
  <2>2. h \in [1..r -> A] /\ \A k, l \in 1..r : h[k] = h[l] => k = l
    BY <1>4, <2>1
  <2>3. h \in Injection(1..r, A)
    <3> HIDE DEF h
    <3> QED  BY <2>2 DEF Injection, IsInjective
  <2>4. Cardinality(1..r) <= Cardinality(A)
    BY <1>1, <2>3, FS_Injection
  <2> QED  BY <1>3, <2>4
<1>8. Cardinality(B) <= r - 1
  <2> DEFINE h == [i \in B |-> CHOOSE k \in 1..n : g[k] = i]
  <2>1. \A i \in B : h[i] \in 1..n /\ g[h[i]] = i
    BY <1>5
  <2>2. \A i \in B : h[i] \in 1..r - 1
    <3> TAKE i \in B
    <3>1. h[i] \in 1..n /\ Sorted[h[i]] = workload[i] /\ workload[i] < Sorted[r] /\ workload[i] \in Nat
      BY <2>1
    <3>2. ~(r <= h[i])
      <4> HIDE DEF h
      <4> QED  BY <1>6, <3>1
    <3> HIDE DEF h
    <3> QED  BY <3>1, <3>2
  <2>3. h \in [B -> 1..r - 1] /\ \A i, j \in B : h[i] = h[j] => i = j
    <3>1. h \in [B -> 1..r - 1]
      BY <2>2
    <3>2. \A i, j \in B : h[i] = h[j] => i = j
      <4> HIDE DEF h
      <4> QED  BY <2>1
    <3> QED  BY <3>1, <3>2
  <2>4. h \in Injection(B, 1..r - 1)
    <3> HIDE DEF h
    <3> QED  BY <2>3 DEF Injection, IsInjective
  <2>5. r - 1 \in Nat /\ IsFiniteSet(1..r - 1) /\ Cardinality(1..r - 1) = r - 1
    BY <1>3
  <2> QED  BY <2>4, <2>5, FS_Injection
<1>9. ASSUME r = n
      PROVE  A = I
  <2>1. \A k \in 1..n : Sorted[k] <= Sorted[r]
    BY <1>9
  <2> QED  BY <1>5, <2>1
<1>10. AtMost(Sorted[r]) = Cardinality(A) /\ Below(Sorted[r]) = Cardinality(B)
  BY DEF AtMost, Below
<1> HIDE DEF A, B
<1>11. r = n => AtMost(Sorted[r]) = n
  BY <1>9, <1>10, Zenon
<1> QED  BY <1>2, <1>6, <1>7, <1>8, <1>10, <1>11

\* The nearest rank (report.rs:154-160) is a place, and as near as a place can be.
LEMMA RankIsNearest ==
  ASSUME NEW n \in Nat, n >= 1, NEW percent \in {50, 95}
  PROVE  LET r == (percent * n + 99) \div 100
         IN  r \in 1..n /\ r * 100 >= percent * n /\ (r - 1) * 100 < percent * n
<1>1. CASE percent = 50
  BY <1>1
<1>2. CASE percent = 95
  BY <1>2
<1> QED  BY <1>1, <1>2

LEMMA NearestRankSample ==
  ASSUME NEW sorted, NEW n \in Nat, n = Len(sorted), n >= 1, NEW percent \in {50, 95}
  PROVE  NearestRank(sorted, percent) = sorted[(percent * n + 99) \div 100]
<1> DEFINE r == (percent * n + 99) \div 100
<1>1. r \in 1..n
  BY RankIsNearest
<1> HIDE DEF r
<1>2. r # 0 /\ ~(r > n)
  BY <1>1
<1>3. (CASE r = 0 -> 1 [] r > n -> n [] OTHER -> r) = r
  BY <1>2, Zenon
<1>4. NearestRank(sorted, percent) = sorted[CASE r = 0 -> 1 [] r > n -> n [] OTHER -> r]
  BY Zenon DEF NearestRank, r
<1> QED  BY <1>3, <1>4, Zenon DEF r

LEMMA SummaryIsRight ==
  ASSUME LatenciesInv, given > 0
  PROVE  /\ Quantile(Summary.p50, 50) /\ Quantile(Summary.p95, 95)
         /\ Summary.max \in {workload[i] : i \in Oldest..given}
         /\ AtMost(Summary.max) = Summary.count
         /\ Summary.count = given - Oldest + 1
<1>0. PICK n \in Nat : n = Len(samples)
  BY DEF LatenciesInv, LatenciesTypeOK
<1>1. /\ samples \in Seq(Nat) /\ workload \in Seq(Nat) /\ given \in Nat
      /\ given <= Len(workload) /\ Len(workload) \in Nat
      /\ window \in (Nat \ {0}) \union {Unbounded}
  BY DEF LatenciesInv, LatenciesTypeOK
<1>2. Oldest \in Nat /\ Oldest >= 1 /\ Oldest <= given
  BY <1>1 DEF Oldest
<1>3. /\ n = given - Oldest + 1 /\ n >= 1
      /\ \A i \in 1..n : samples[i] = workload[Oldest + i - 1]
  BY <1>0, <1>1, <1>2 DEF LatenciesInv, WindowIsRecent
<1> DEFINE I == Oldest..given
<1>4. \A i \in I : workload[i] \in Nat
  <2> TAKE i \in I
  <2>1. i \in 1..Len(workload)
    BY <1>1, <1>2
  <2> QED  BY <1>1, <2>1
<1>5. IsFiniteSet(I) /\ Cardinality(I) = n
  <2>1. Oldest \in Int /\ given \in Int /\ ~(Oldest > given)
    BY <1>1, <1>2
  <2>2. /\ IsFiniteSet(Oldest..given)
        /\ Cardinality(Oldest..given) = IF Oldest > given THEN 0 ELSE given - Oldest + 1
    BY <2>1, FS_Interval, Zenon
  <2> QED  BY <1>3, <2>1, <2>2
<1>6. PICK f \in Injection(1..n, 1..n) :
        /\ Len(Sorted) = n
        /\ \A k \in 1..n : Sorted[k] = samples[f[k]]
        /\ \A k, l \in 1..n : k <= l => Sorted[k] <= Sorted[l]
  BY <1>0, <1>1, SortedIsSorted
<1> DEFINE g == [k \in 1..n |-> Oldest + f[k] - 1]
<1>7. /\ g \in Injection(1..n, I)
      /\ \A k \in 1..n : Sorted[k] = workload[g[k]]
  <2>1. f \in [1..n -> 1..n] /\ \A k, l \in 1..n : f[k] = f[l] => k = l
    BY <1>6 DEF Injection, IsInjective
  <2>2. \A k \in 1..n : f[k] \in 1..n /\ g[k] = Oldest + f[k] - 1
    BY <2>1
  <2>3. \A k \in 1..n : g[k] \in I
    BY <1>1, <1>2, <1>3, <2>2
  <2>4. g \in [1..n -> I]
    BY <2>3
  <2> HIDE DEF g
  <2>5. \A k, l \in 1..n : g[k] = g[l] => f[k] = f[l]
    BY <1>2, <2>2
  <2>6. g \in Injection(1..n, I)
    BY <2>1, <2>4, <2>5 DEF Injection, IsInjective
  <2>7. \A k \in 1..n : Sorted[k] = workload[g[k]]
    BY <1>3, <1>6, <2>2
  <2> QED  BY <2>6, <2>7
<1> HIDE DEF g
<1>8. ASSUME NEW r \in 1..n
      PROVE  /\ AtMost(Sorted[r]) \in Nat /\ Below(Sorted[r]) \in Nat
             /\ r <= AtMost(Sorted[r]) /\ Below(Sorted[r]) <= r - 1
             /\ r = n => AtMost(Sorted[r]) = n
             /\ Sorted[r] \in {workload[i] : i \in I}
  <2>1. /\ AtMost(Sorted[r]) \in Nat /\ Below(Sorted[r]) \in Nat
        /\ r <= AtMost(Sorted[r]) /\ Below(Sorted[r]) <= r - 1
        /\ r = n => AtMost(Sorted[r]) = n
        /\ g[r] \in I
    BY <1>4, <1>5, <1>6, <1>7, PlaceCounts
  <2>2. Sorted[r] \in {workload[i] : i \in I}
    BY <1>7, <2>1
  <2> QED  BY <2>1, <2>2
<1>9. ASSUME NEW percent \in {50, 95}
      PROVE  Quantile(NearestRank(Sorted, percent), percent)
  <2> DEFINE r == (percent * n + 99) \div 100
  <2>1. r \in 1..n /\ r * 100 >= percent * n /\ (r - 1) * 100 < percent * n
    BY <1>3, RankIsNearest
  <2>2. NearestRank(Sorted, percent) = Sorted[r]
    <3> HIDE DEF r
    <3>1. Len(Sorted) = n /\ n >= 1
      BY <1>3, <1>6
    <3>2. NearestRank(Sorted, percent) = Sorted[(percent * n + 99) \div 100]
      BY <3>1, NearestRankSample, Zenon
    <3> QED  BY <3>2 DEF r
  <2> HIDE DEF r
  <2>3. /\ AtMost(Sorted[r]) \in Nat /\ Below(Sorted[r]) \in Nat
        /\ r <= AtMost(Sorted[r]) /\ Below(Sorted[r]) <= r - 1
    BY <1>8, <2>1
  <2>4. /\ AtMost(Sorted[r]) * 100 >= percent * n
        /\ Below(Sorted[r]) * 100 < percent * n
    <3>1. CASE percent = 50
      BY <2>1, <2>3, <3>1
    <3>2. CASE percent = 95
      BY <2>1, <2>3, <3>2
    <3> QED  BY <3>1, <3>2
  <2> QED  BY <1>3, <2>2, <2>4 DEF Quantile
<1>10. /\ Summary.p50 = NearestRank(Sorted, 50) /\ Summary.p95 = NearestRank(Sorted, 95)
       /\ Summary.max = Sorted[n] /\ Summary.count = n
  BY <1>6 DEF Summary
<1>11. n \in 1..n
  BY <1>3
<1> QED  BY <1>3, <1>8, <1>9, <1>10, <1>11

\* However long the session has been and however the timings came, a summary is of the last
\* window of them.
THEOREM SummariesDescribeTheWindow == Spec => []SummaryDescribesWindow
<1>1. LatenciesInv => SummaryDescribesWindow
  BY SummaryIsRight DEF SummaryDescribesWindow, LatenciesInv
<1>2. LatenciesSpec => []SummaryDescribesWindow
  <2>1. LatenciesSpec => []LatenciesInv
    BY InitLatencies, NextLatencies, PTL DEF LatenciesSpec
  <2> QED  BY <1>1, <2>1, PTL
<1> QED  BY <1>2, PartsCompose, PTL
=============================================================================
