----------------------------- MODULE FrameStream -----------------------------
(***************************************************************************)
(* What the frame bus promises between one capture thread and the readers  *)
(* behind it (src/src/pipeline/frame_bus.rs and the loops of workers.rs):  *)
(* frames are numbered without a gap, a reader takes the newest frame and  *)
(* never one twice, what it hands on is of the frame in its hand, it       *)
(* leaves of its own accord only when it has taken the last one, and a     *)
(* stop lets everyone finish at most what it was about to begin.           *)
(*                                                                         *)
(* Pipeline, which has all the threads, and Lifecycle, which has the       *)
(* source and the caller, are both shown to implement it.                  *)
(***************************************************************************)
EXTENDS Integers

CONSTANT Readers

\* The thread that publishes; no reader has its name.
Source == "capture"

VARIABLES
  published,   \* frames published so far
  newest,      \* number of the frame in the slot; the empty slot has 0
  closed,      \* nothing will be published any more
  stopping,    \* stop() was called
  late,        \* who had passed its look at the flag when it was raised
  place,       \* of a reader: "away", "reading", "holding" a frame, "left"
  cursor,      \* the last frame a reader took
  handed       \* the last frame a reader handed something on for

streamVars == <<published, newest, closed, stopping, late, place, cursor, handed>>

FInit ==
  /\ published = 0 /\ newest = 0 /\ closed = FALSE
  /\ stopping = FALSE /\ late = {}
  /\ place = [r \in Readers |-> "away"]
  /\ cursor = [r \in Readers |-> 0]
  /\ handed = [r \in Readers |-> 0]

\* After the stop only those who did not see it may begin something, and once.
MayBegin(who) == stopping => who \in late
Begun(who) == late' = late \ {who}

-----------------------------------------------------------------------------
Publish ==
  /\ ~closed
  /\ MayBegin(Source) /\ Begun(Source)
  /\ newest' = published
  /\ published' = published + 1
  /\ UNCHANGED <<closed, stopping, place, cursor, handed>>

Close ==
  /\ ~closed /\ Source \notin late
  /\ closed' = TRUE
  /\ UNCHANGED <<published, newest, stopping, late, place, cursor, handed>>

\* A reader that comes, or comes again, has seen nothing; after a stop it only leaves.
Join(r) ==
  /\ place[r] \in {"away", "left"}
  /\ r \notin late
  /\ place' = [place EXCEPT ![r] = "reading"]
  /\ cursor' = [cursor EXCEPT ![r] = 0]
  /\ UNCHANGED <<published, newest, closed, stopping, late, handed>>

Take(r) ==
  /\ place[r] = "reading"
  /\ newest > cursor[r]
  /\ MayBegin(r) /\ Begun(r)
  /\ place' = [place EXCEPT ![r] = "holding"]
  /\ cursor' = [cursor EXCEPT ![r] = newest]
  /\ UNCHANGED <<published, newest, closed, stopping, handed>>

\* What a reader made of its frame is handed on, or there is nothing to hand on.
PutDown(r) ==
  /\ place[r] = "holding"
  /\ place' = [place EXCEPT ![r] = "reading"]
  /\ \/ handed' = [handed EXCEPT ![r] = cursor[r]]
     \/ UNCHANGED handed
  /\ UNCHANGED <<published, newest, closed, stopping, late, cursor>>

Leave(r) ==
  /\ place[r] = "reading"
  /\ stopping \/ (closed /\ cursor[r] = newest)
  /\ place' = [place EXCEPT ![r] = "left"]
  /\ Begun(r)
  /\ UNCHANGED <<published, newest, closed, stopping, cursor, handed>>

\* The flag is raised; those between their look at it and what follows are late.
RaiseStop ==
  /\ ~stopping
  /\ stopping' = TRUE
  /\ late' \in SUBSET ({r \in Readers : place[r] = "reading"} \union {Source})
  /\ UNCHANGED <<published, newest, closed, place, cursor, handed>>

\* Someone late finds nothing to begin: no new frame, or the end of the source.
ComeToNothing(who) ==
  /\ Begun(who)
  /\ UNCHANGED <<published, newest, closed, stopping, place, cursor, handed>>

FNext ==
  \/ Publish \/ Close \/ RaiseStop
  \/ \E r \in Readers : Join(r) \/ Take(r) \/ PutDown(r) \/ Leave(r)
  \/ \E who \in Readers \union {Source} : ComeToNothing(who)

FSpec == FInit /\ [][FNext]_streamVars
=============================================================================
