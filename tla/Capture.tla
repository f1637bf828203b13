------------------------------ MODULE Capture ------------------------------
(***************************************************************************)
(* One frame source (src/src/capture): opening it, a call of next_frame,   *)
(* and dropping it.  A camera and a video file are an ffmpeg process with  *)
(* raw frames on its stdout, which next_frame reads, and messages on its   *)
(* stderr, which a thread drains; a directory is a list of pictures.       *)
(*                                                                         *)
(* Frames come in reads of arbitrary size: a chunk is the smallest, a      *)
(* frame is ChunksPerFrame of them.  Pixels, formats and pacing are left   *)
(* out.  Who calls next_frame is the business of the extending module.     *)
(***************************************************************************)
EXTENDS Integers, Sequences

CONSTANTS
  Kinds,           \* of sources: camera, file, dir
  Directories,     \* what a directory may hold, in the order of the names
  ChunksPerFrame,
  PipeRoom,        \* chunks that fit into the stdout pipe
  StderrRoom,      \* messages that fit into the stderr pipe
  MaxChunks,       \* bound: a child that wrote this many falls silent or exits
  MaxMessages      \* bound on the messages of a child

Entries == {"picture", "resized", "undecodable", "not_an_image"}

ASSUME CaptureAssumption ==
  /\ Kinds \subseteq {"camera", "file", "dir"}
  /\ Directories \subseteq Seq(Entries)
  /\ {ChunksPerFrame, PipeRoom, StderrRoom} \subseteq Nat \ {0}
  /\ {MaxChunks, MaxMessages} \subseteq Nat

VARIABLES
  kind,
  phase,    \* of the source: "closed", "priming", "open", "refused", "dropped"
  child,    \* "none", "running", "silent", "exited", "failed", "killed"
  wants,    \* the child has a message to write before it does anything else
  wrote, taken,        \* chunks written to stdout, and read from it
  said, heard, text,   \* messages written, drained, and left for next_frame
  drain,    \* the thread on stderr: "none", "reading", "ended"
  filled,   \* chunks of the frame being read
  done, seq,
  cut,      \* auxiliary: the stream stopped inside a frame
  primed,   \* the camera's first frame, read by open
  files, next,         \* a directory's pictures, and the index of the next one
  call,     \* a call of next_frame: "idle", "reading", "joining", "returned"
  ret       \* what it returned

childVars == <<child, wants, wrote, said>>
drainVars == <<heard, text, drain>>
readVars == <<taken, filled, done, seq, cut>>
sourceVars == <<kind, phase, primed, files, next>>
captureVars == <<childVars, drainVars, readVars, sourceVars, call, ret>>

\* from: the first chunk of the frame, or the place of its file
Outcome(what, number, from, message) ==
  [kind |-> what, seq |-> number, from |-> from, text |-> message]
Nothing == Outcome("nothing", 0, 0, 0)
End == Outcome("end", 0, 0, 0)
Broken == Outcome("broken", 0, 0, 0)   \* an error that is not the end of a stream
Errors == {"error", "broken"}

CaptureInit ==
  /\ kind = "none" /\ phase = "closed"
  /\ child = "none" /\ wants = FALSE /\ wrote = 0 /\ said = 0
  /\ heard = 0 /\ text = 0 /\ drain = "none"
  /\ taken = 0 /\ filled = 0 /\ done = FALSE /\ seq = 0 /\ cut = FALSE
  /\ primed = Nothing /\ files = <<>> /\ next = 1
  /\ call = "idle" /\ ret = Nothing

Alive == child \in {"running", "silent"}
Gone == child \in {"exited", "failed", "killed"}

-----------------------------------------------------------------------------
(* The ffmpeg process, and the thread on its stderr.                       *)

ChildWrites ==
  /\ child = "running" /\ ~wants
  /\ wrote < MaxChunks /\ wrote - taken < PipeRoom
  /\ wrote' = wrote + 1
  /\ UNCHANGED <<child, wants, said, drainVars, readVars, sourceVars, call, ret>>

ChildWantsToSay ==
  /\ child = "running" /\ ~wants
  /\ said < MaxMessages
  /\ wants' = TRUE
  /\ UNCHANGED <<child, wrote, said, drainVars, readVars, sourceVars, call, ret>>

\* The write blocks while stderr is full, and the frames wait behind it.
ChildSays ==
  /\ child = "running" /\ wants
  /\ said - heard < StderrRoom
  /\ said' = said + 1
  /\ wants' = FALSE
  /\ UNCHANGED <<child, wrote, drainVars, readVars, sourceVars, call, ret>>

\* The end of the clip, a device unplugged, a crash.
ChildExits ==
  /\ child = "running" /\ ~wants
  /\ child' \in {"exited", "failed"}
  /\ UNCHANGED <<wants, wrote, said, drainVars, readVars, sourceVars, call, ret>>

\* A camera that delivers nothing any more, and does not say so.
ChildFallsSilent ==
  /\ kind = "camera"
  /\ child = "running"
  /\ child' = "silent"
  /\ UNCHANGED <<wants, wrote, said, drainVars, readVars, sourceVars, call, ret>>

\* Mutant: stderr is read once the process is over.
DrainReadsLate ==
  /\ drain = "reading" /\ heard < said /\ Gone
  /\ heard' = said
  /\ UNCHANGED <<text, drain, childVars, readVars, sourceVars, call, ret>>

DrainReads ==
  /\ drain = "reading" /\ heard < said
  /\ heard' = said
  /\ UNCHANGED <<text, drain, childVars, readVars, sourceVars, call, ret>>

\* read_to_string is through: the whole of it goes where next_frame looks.
DrainEnds ==
  /\ drain = "reading" /\ heard = said /\ Gone
  /\ drain' = "ended"
  /\ text' = heard
  /\ UNCHANGED <<heard, childVars, readVars, sourceVars, call, ret>>

-----------------------------------------------------------------------------
(* Opening and dropping.                                                   *)

\* A source at its start; RawRgbPipe::spawn where there is a process.
Begin(k, state, process, pictures) ==
  /\ kind' = k /\ phase' = state
  /\ child' = process /\ wants' = FALSE /\ wrote' = 0 /\ said' = 0
  /\ drain' = (IF process = "none" THEN "none" ELSE "reading") /\ heard' = 0 /\ text' = 0
  /\ taken' = 0 /\ filled' = 0 /\ done' = FALSE /\ seq' = 0 /\ cut' = FALSE
  /\ primed' = Nothing /\ ret' = Nothing
  /\ files' = pictures /\ next' = 1
  /\ call' = IF state = "priming" THEN "reading" ELSE "idle"

\* No such device, file or picture, no ffmpeg, nothing to read the size of.
Refuse(k) == Begin(k, "refused", "none", <<>>)

OpenFile == Refuse("file") \/ Begin("file", "open", "running", <<>>)

\* CameraSource::open spawns ffmpeg and reads one frame before it returns.
OpenCamera == Refuse("camera") \/ Begin("camera", "priming", "running", <<>>)

\* Mutant: the frame read by open is not kept.
CameraOpenedUnprimed ==
  /\ phase = "priming" /\ call = "returned"
  /\ call' = "idle"
  /\ IF ret.kind \in Errors
     THEN phase' = "refused" /\ child' = (IF Alive THEN "killed" ELSE child)
     ELSE phase' = "open" /\ UNCHANGED child
  /\ UNCHANGED <<wants, wrote, said, drainVars, readVars, kind, primed, files, next, ret>>

\* An error refuses the camera and drops its pipe; the end of the stream does not.
CameraOpened ==
  /\ phase = "priming" /\ call = "returned"
  /\ call' = "idle"
  /\ IF ret.kind \in Errors
     THEN /\ phase' = "refused" /\ child' = (IF Alive THEN "killed" ELSE child)
          /\ UNCHANGED primed
     ELSE /\ phase' = "open" /\ UNCHANGED child
          /\ primed' = IF ret.kind = "frame" THEN ret ELSE Nothing
  /\ UNCHANGED <<wants, wrote, said, drainVars, readVars, kind, files, next, ret>>

\* The files of a directory with a picture's extension, in the order of their names.
Pictures(entries) == SelectSeq(entries, LAMBDA entry : entry # "not_an_image")

\* A fact about SelectSeq, for every Directories.
PicturesAreEntries == \A entries \in Directories : Pictures(entries) \in Seq(Entries)

OpenDirectory ==
  \E entries \in Directories :
    LET pictures == Pictures(entries)
    IN  IF pictures = <<>> \/ pictures[1] = "undecodable"
        THEN Refuse("dir")
        ELSE Begin("dir", "open", "none", pictures)

\* A source is opened when there is none, or the last one is gone.
OpenSource ==
  /\ phase \in {"closed", "refused", "dropped"}
  /\ \/ "camera" \in Kinds /\ OpenCamera
     \/ "file" \in Kinds /\ OpenFile
     \/ "dir" \in Kinds /\ OpenDirectory

\* Drop: the process is killed and waited for, and what the source held is gone;
\* the thread on stderr is left alone.
DropSource ==
  /\ phase' = "dropped"
  /\ child' = IF Alive THEN "killed" ELSE child
  /\ wants' = FALSE /\ wrote' = 0
  /\ taken' = 0 /\ filled' = 0 /\ done' = FALSE /\ seq' = 0 /\ cut' = FALSE
  /\ primed' = Nothing /\ files' = <<>> /\ next' = 1
  /\ call' = "idle" /\ ret' = Nothing
  /\ UNCHANGED <<said, drainVars, kind>>

-----------------------------------------------------------------------------
(* next_frame.                                                             *)

Return(outcome) == ret' = outcome /\ call' = "returned"

\* ImageDirSource: the index moves on before the picture is known to be good.
\* The first one set the size, whatever it is.
NextPicture ==
  /\ UNCHANGED <<childVars, drainVars, taken, filled, done, cut, kind, phase, primed, files>>
  /\ IF next > Len(files)
     THEN Return(End) /\ UNCHANGED <<next, seq>>
     ELSE /\ next' = next + 1
          /\ IF files[next] = files[1]
             THEN Return(Outcome("frame", seq, next, 0)) /\ seq' = seq + 1
             ELSE Return(Broken) /\ UNCHANGED seq

\* RawRgbPipe, and the frame a camera was primed with before it.
NextFromPipe ==
  /\ UNCHANGED <<childVars, drainVars, taken, done, seq, cut, kind, phase, files, next>>
  /\ primed' = Nothing
  /\ \/ primed # Nothing /\ Return(primed) /\ UNCHANGED filled
     \/ primed = Nothing /\ done /\ Return(End) /\ UNCHANGED filled
     \/ primed = Nothing /\ ~done /\ call' = "reading" /\ filled' = 0 /\ UNCHANGED ret

NextFrame ==
  /\ phase = "open" /\ call = "idle"
  /\ IF kind = "dir" THEN NextPicture ELSE NextFromPipe

\* Mutant: the next read starts anywhere.
ReadSomeOverrun ==
  /\ call = "reading"
  /\ \E n \in 1..ChunksPerFrame :
       /\ n <= wrote - taken
       /\ taken' = taken + n
       /\ IF filled + n # ChunksPerFrame
          THEN filled' = filled + n /\ UNCHANGED <<seq, call, ret>>
          ELSE /\ filled' = 0
               /\ seq' = seq + 1
               /\ Return(Outcome("frame", seq, taken + n - ChunksPerFrame, 0))
  /\ UNCHANGED <<childVars, drainVars, done, cut, sourceVars>>

\* A read returns some of what is there; the last one completes the frame.
ReadSome ==
  /\ call = "reading"
  /\ \E n \in 1..(ChunksPerFrame - filled) :
       /\ n <= wrote - taken
       /\ taken' = taken + n
       /\ IF filled + n < ChunksPerFrame
          THEN filled' = filled + n /\ UNCHANGED <<seq, call, ret>>
          ELSE /\ filled' = 0
               /\ seq' = seq + 1
               /\ Return(Outcome("frame", seq, taken + n - ChunksPerFrame, 0))
  /\ UNCHANGED <<childVars, drainVars, done, cut, sourceVars>>

\* Mutant: whatever was read is a frame.
ReadEndKeepsPartial ==
  /\ call = "reading" /\ taken = wrote /\ Gone
  /\ done' = TRUE
  /\ IF filled = 0
     THEN call' = "joining" /\ UNCHANGED <<ret, cut, seq>>
     ELSE Return(Outcome("frame", seq, taken - filled, 0)) /\ cut' = TRUE /\ seq' = seq + 1
  /\ UNCHANGED <<childVars, drainVars, taken, filled, sourceVars>>

\* Mutant: nothing to read, try again.
ReadEndRetries ==
  /\ call = "reading" /\ taken = wrote /\ Gone /\ filled # 0
  /\ done' = TRUE /\ cut' = TRUE
  /\ Return(End)
  /\ UNCHANGED <<childVars, drainVars, taken, filled, seq, sourceVars>>

\* A read of nothing, before a frame or inside one.
ReadEnd ==
  /\ call = "reading" /\ taken = wrote /\ Gone
  /\ done' = TRUE
  /\ IF filled = 0 THEN call' = "joining" /\ UNCHANGED <<ret, cut>>
                   ELSE Return(End) /\ cut' = TRUE
  /\ UNCHANGED <<childVars, drainVars, taken, filled, seq, sourceVars>>

ReadFails ==
  /\ call = "reading"
  /\ done' = TRUE
  /\ Return(Broken)
  /\ UNCHANGED <<childVars, drainVars, taken, filled, seq, cut, sourceVars>>

StreamEnd(message) ==
  IF child = "failed" \/ kind = "camera" THEN Outcome("error", 0, 0, message) ELSE End

\* Mutant: the message is read before the thread that collects it is done.
ReportEndEarly ==
  /\ call = "joining"
  /\ Return(StreamEnd(text))
  /\ UNCHANGED <<childVars, drainVars, readVars, sourceVars>>

\* Mutant: a camera may end like a file.
ReportEndQuietly ==
  /\ call = "joining" /\ drain = "ended"
  /\ Return(IF child = "failed" THEN Outcome("error", 0, 0, text) ELSE End)
  /\ UNCHANGED <<childVars, drainVars, readVars, sourceVars>>

\* The process is reaped, the thread joined, and only then its message read.
ReportEnd ==
  /\ call = "joining" /\ drain = "ended"
  /\ Return(StreamEnd(text))
  /\ UNCHANGED <<childVars, drainVars, readVars, sourceVars>>

ChildGoesOn == ChildWrites \/ ChildSays \/ ChildExits
Drain == DrainReads \/ DrainEnds
Reading == ReadSome \/ ReadEnd \/ ReportEnd

-----------------------------------------------------------------------------
(* Properties                                                              *)

CaptureTypeOK ==
  /\ kind \in {"none", "camera", "file", "dir"}
  /\ phase \in {"closed", "priming", "open", "refused", "dropped"}
  /\ child \in {"none", "running", "silent", "exited", "failed", "killed"}
  /\ {wants, done, cut} \subseteq BOOLEAN
  /\ {wrote, taken, said, heard, text, filled, seq} \subseteq Nat
  /\ taken <= wrote /\ heard <= said /\ text <= heard /\ filled < ChunksPerFrame
  /\ drain \in {"none", "reading", "ended"}
  /\ files \in Seq(Entries) /\ next \in 1..(Len(files) + 1)
  /\ call \in {"idle", "reading", "joining", "returned"}
  /\ \A outcome \in {ret, primed} :
       /\ outcome.kind \in {"nothing", "frame", "end", "error", "broken"}
       /\ {outcome.seq, outcome.from, outcome.text} \subseteq Nat

\* A frame is all of one frame's bytes and nothing of another's, however the
\* reads were cut (ffmpeg.rs:132-148, 170-188); a directory's pictures are numbered
\* in the order of their names (replay.rs:228-261).
FramesAreWhole ==
  \A frame \in {ret, primed} : frame.kind = "frame" =>
    IF kind = "dir"
    THEN frame.seq = frame.from - 1
    ELSE /\ frame.from = frame.seq * ChunksPerFrame
         /\ frame.from + ChunksPerFrame <= taken

\* An error at the end of a stream carries everything ffmpeg said, which is the
\* whole diagnosis, although another thread collects it (ffmpeg.rs:45-49, 146-168).
EndIsExplained ==
  ret.kind = "error" => ret.text = said
=============================================================================
