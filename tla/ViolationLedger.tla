--------------------------- MODULE ViolationLedger ---------------------------
(***************************************************************************)
(* What a session promises about the violations it reports: one row per    *)
(* violation, opened once, closed once, never two open rows for one        *)
(* stream, and none open when the session is over (LSpec).  This is the    *)
(* contract the comments of src/src/pipeline/workers.rs (detect_loop) and  *)
(* src/src/fusion/mod.rs (apply, finish) state.  What the code keeps of it *)
(* when its configuration is reloaded is LossySpec: a reload loses sight   *)
(* of the violations then open, and nothing else.  DetectSession is shown  *)
(* to implement both, each in the sessions it is about.                    *)
(***************************************************************************)
EXTENDS Integers

CONSTANTS
  Streams,    \* the (kind, subject) pairs a violation may have
  Times       \* the times at which something may be reported

Never == -1

VARIABLES
  rows,     \* every violation so far: [key, tStart, tEnd]
  lost,     \* open rows that nobody will close
  clock,    \* time of the last report
  ended     \* the session is over

lvars == <<rows, lost, clock, ended>>

Row == [key : Streams, tStart : Times, tEnd : Times \union {Never}]

OpenRows == {row \in rows : row.tEnd = Never}
Watched == OpenRows \ lost

LInit == rows = {} /\ lost = {} /\ clock = 0 /\ ended = FALSE

CloseAll(closing, t) == {[row EXCEPT !.tEnd = t] : row \in closing}

\* Some violations start and some watched ones end, all of them at time t.
Record(starting, closing, t) ==
  /\ ~ended
  /\ t > clock
  /\ clock' = t
  /\ \A row \in Watched : row.key \notin starting
  /\ rows' = (rows \ closing)
               \union CloseAll(closing, t)
               \union {[key |-> key, tStart |-> t, tEnd |-> Never] : key \in starting}
  /\ UNCHANGED <<lost, ended>>

\* The session ends: whatever is watched ends with it.
EndSession(t) ==
  /\ ~ended
  /\ t > clock
  /\ clock' = t
  /\ rows' = (rows \ Watched) \union CloseAll(Watched, t)
  /\ ended' = TRUE
  /\ UNCHANGED lost

\* Whatever is open is lost sight of: its rows stay as they are.
Lose ==
  /\ ~ended
  /\ lost' = OpenRows
  /\ UNCHANGED <<rows, clock, ended>>

LNext ==
  \E t \in Times :
    \/ \E starting \in SUBSET Streams, closing \in SUBSET Watched :
         Record(starting, closing, t)
    \/ EndSession(t)

LSpec == LInit /\ [][LNext]_lvars

LossySpec == LInit /\ [][LNext \/ Lose]_lvars

-----------------------------------------------------------------------------
LTypeOK ==
  /\ rows \subseteq Row /\ lost \subseteq rows
  /\ clock \in Times \union {0} /\ ended \in BOOLEAN

\* Two violations of one stream never overlap, but for the lost ones: the first
\* has ended before the second starts.
Disjoint ==
  \A r1, r2 \in rows \ lost :
    r1.key = r2.key /\ r1 # r2 =>
      \/ r1.tEnd # Never /\ r1.tEnd < r2.tStart
      \/ r2.tEnd # Never /\ r2.tEnd < r1.tStart

\* A session that is over has no open violation but the lost ones.
NothingLeftOpen == ended => OpenRows \subseteq lost

\* A closed row is final.
ClosedRowsStay ==
  [][\A row \in rows : row.tEnd # Never => row \in rows']_lvars
=============================================================================
