--------------------------- MODULE SessionProofs ---------------------------
(***************************************************************************)
(* Proofs about DetectSession: the violation log of a session, with any    *)
(* number of reloads, and, in a session without one, the log as an         *)
(* implementation of ViolationLedger.                                      *)
(*                                                                         *)
(* A frame and the end of the session do the same to the log: violations   *)
(* start, and open ones end, at a time later than any in the log (Report). *)
(* FusionProofs says which (LatchInv), and StepReports and FinishReports   *)
(* say it in that form.                                                    *)
(***************************************************************************)
EXTENDS DetectSession, FusionProofs

\* The row of an open violation, before and after its end.
RowAt(key) == [key |-> key, tStart |-> open[key].tStart, tEnd |-> Never]
EndedRowAt(key, t) == [key |-> key, tStart |-> open[key].tStart, tEnd |-> t]
NewRow(key, t) == [key |-> key, tStart |-> t, tEnd |-> Never]

RowType == [key : Keys, tStart : Nat, tEnd : Nat \union {Never}]

Falling == {key \in Keys : IsOpen(key) /\ ~IsOpen(key)'}
Rising == {key \in Keys : ~IsOpen(key) /\ IsOpen(key)'}

\* What one call of step() or finish() reports at time t.
Report(t) ==
  /\ events' = {Started(key, t) : key \in Rising} \union {Ended(key, t) : key \in Falling}
  /\ \A key \in Keys : IsOpen(key)' =>
       open'[key].tStart = IF IsOpen(key) THEN open[key].tStart ELSE t
  /\ t \in Nat /\ t > now /\ now' = t

-----------------------------------------------------------------------------
(* What the engine reports                                                 *)

\* The edges of the latches are the edges of `open`.
LEMMA EdgesOfOpen ==
  ASSUME LatchInv, LatchInv', ~finished, ~finished', NEW key \in Keys
  PROVE  /\ VerdictEdge(key) = "Rose" <=> ~IsOpen(key) /\ IsOpen(key)'
         /\ VerdictEdge(key) = "Fell" <=> IsOpen(key) /\ ~IsOpen(key)'
         /\ VerdictEdge(key) \in {"Rose", "Fell", "Steady"}
<1>1. Latched(key) \in BOOLEAN /\ Latched(key)' \in BOOLEAN
  <2>1. Latched(key) \in BOOLEAN
    BY LatchedType DEF LatchInv
  <2>2. Latched(key)' \in BOOLEAN
    BY LatchedTypeNext DEF LatchInv
  <2> QED
    BY <2>1, <2>2
<1>2. (IsOpen(key) <=> Latched(key)) /\ (IsOpen(key)' <=> Latched(key)')
  BY DEF LatchInv, OpenMatchesLatch
<1> QED
  BY <1>1, <1>2 DEF VerdictEdge, Edge

LEMMA StepReports ==
  ASSUME LatchInv, NEW s \in Signals, NEW gap \in Gaps, gap > 0, Step(s, gap)
  PROVE  Report(now + gap) /\ LatchInv' /\ ~finished /\ ~finished'
<1> DEFINE t == now + gap
<1>1. LatchInv'
  BY NextLatch DEF Next
<1>2. ~finished /\ ~finished' /\ Apply(s, t) /\ now' = t
  BY DEF Step, StepAt
<1>3. t \in Nat /\ t > now
  BY InputAssumption DEF LatchInv, TypeOK
<1>4. ASSUME NEW key \in Keys
      PROVE  /\ VerdictEdge(key) = "Rose" <=> key \in Rising
             /\ (VerdictEdge(key) = "Fell" /\ IsOpen(key)) <=> key \in Falling
  BY <1>1, <1>2, EdgesOfOpen DEF Rising, Falling
<1>5. events' = {Started(key, t) : key \in Rising} \union {Ended(key, t) : key \in Falling}
  <2>1. {k \in Keys : VerdictEdge(k) = "Rose"} = Rising
    BY <1>4, Zenon DEF Rising
  <2>2. {k \in Keys : VerdictEdge(k) = "Fell" /\ IsOpen(k)} = Falling
    BY <1>4, Zenon DEF Falling
  <2> QED
    BY <1>2, <2>1, <2>2, Zenon DEF Apply
<1>6. ASSUME NEW key \in Keys, IsOpen(key)'
      PROVE  open'[key].tStart = IF IsOpen(key) THEN open[key].tStart ELSE t
  <2>1. CASE IsOpen(key)
    <3>1. VerdictEdge(key) = "Steady"
      BY <1>1, <1>2, <1>6, <2>1, EdgesOfOpen
    <3>2. TypeOK
      BY DEF LatchInv
    <3> QED
      BY <1>2, <2>1, <3>1, <3>2, ApplyCases
  <2>2. CASE ~IsOpen(key)
    <3>1. VerdictEdge(key) = "Rose"
      BY <1>1, <1>2, <1>6, <2>2, EdgesOfOpen
    <3>2. TypeOK
      BY DEF LatchInv
    <3> QED
      BY <1>2, <2>2, <3>1, <3>2, ApplyCases
  <2> QED
    BY <2>1, <2>2
<1> QED
  BY <1>1, <1>2, <1>3, <1>5, <1>6 DEF Report

LEMMA FinishReports ==
  ASSUME LatchInv, NEW gap \in Gaps, gap > 0, Finish(gap)
  PROVE  /\ Report(now + gap) /\ LatchInv' /\ finished'
         /\ Rising = {} /\ Falling = {key \in Keys : IsOpen(key)}
<1> DEFINE t == now + gap
<1>1. LatchInv'
  BY NextLatch DEF Next
<1>2. /\ open' = NothingOpen /\ finished' /\ now' = t
      /\ events' = {Ended(key, t) : key \in {k \in Keys : IsOpen(k)}}
  BY Zenon DEF Finish
<1>3. t \in Nat /\ t > now
  BY InputAssumption DEF LatchInv, TypeOK
<1>4. \A key \in Keys : ~IsOpen(key)'
  BY <1>2 DEF IsOpen, NothingOpen
<1>5. Rising = {} /\ Falling = {key \in Keys : IsOpen(key)}
  BY <1>4 DEF Rising, Falling
<1> QED
  BY <1>1, <1>2, <1>3, <1>4, <1>5, Zenon DEF Report

-----------------------------------------------------------------------------
(* What the log does with it                                               *)

\* Rows are of the past, closed ones run forwards; an open violation has its row, after
\* every closed one of its stream.
Booked ==
  /\ log \subseteq RowType
  /\ \A row \in log :
       /\ row.tStart \in 1..now
       /\ row.tEnd # Never => row.tStart < row.tEnd /\ row.tEnd <= now
  /\ \A key \in Keys : IsOpen(key) =>
       /\ RowAt(key) \in log
       /\ \A row \in log : row.key = key /\ row.tEnd # Never => row.tEnd < open[key].tStart

\* The rows as they are found by key and start time.
Rebooked ==
  {row \in log : ~\E v \in events' : SameRow(row, v)} \union {RowOf(v) : v \in events'}

\* The search finds the open rows of what ends, and nothing else.
LEMMA RowsFound ==
  ASSUME Booked, NEW t, Report(t), now \in Nat,
         NEW row \in log
  PROVE  (\E v \in events' : SameRow(row, v)) <=> row \in {RowAt(key) : key \in Falling}
<1>1. /\ row \in RowType /\ row.tStart \in 1..now
      /\ row.tEnd # Never => row.tStart < row.tEnd
  BY DEF Booked
<1>2. ASSUME NEW v \in events', SameRow(row, v)
      PROVE  row \in {RowAt(key) : key \in Falling}
  <2>1. CASE \E key \in Rising : v = Started(key, t)
    BY <1>1, <1>2, <2>1 DEF Started, SameRow, Report
  <2>2. CASE \E key \in Falling : v = Ended(key, t)
    <3>1. PICK key \in Falling : v = Ended(key, t)
      BY <2>2
    <3>2. row.key = key /\ row.tStart = open[key].tStart
      BY <1>2, <3>1 DEF Ended, SameRow
    <3>3. row.tEnd = Never
      BY <1>1, <3>2 DEF Booked, Falling, RowType, Never
    <3>4. row = RowAt(key)
      BY <1>1, <3>2, <3>3 DEF RowAt, RowType
    <3> QED
      BY <3>4
  <2> QED
    BY <1>2, <2>1, <2>2 DEF Report
<1>3. ASSUME NEW key \in Falling, row = RowAt(key)
      PROVE  \E v \in events' : SameRow(row, v)
  <2>1. Ended(key, t) \in events'
    BY DEF Report
  <2>2. SameRow(row, Ended(key, t))
    BY <1>3 DEF RowAt, Ended, SameRow
  <2> QED
    BY <2>1, <2>2
<1> QED
  BY <1>2, <1>3

LEMMA LogUpdate ==
  ASSUME Booked, NEW t, Report(t), now \in Nat
  PROVE  Rebooked = (log \ {RowAt(key) : key \in Falling})
                      \union {EndedRowAt(key, t) : key \in Falling}
                      \union {NewRow(key, t) : key \in Rising}
<1>1. {row \in log : ~\E v \in events' : SameRow(row, v)}
        = log \ {RowAt(key) : key \in Falling}
  BY RowsFound
<1>2. {RowOf(v) : v \in events'} =
        {EndedRowAt(key, t) : key \in Falling} \union {NewRow(key, t) : key \in Rising}
  <2>1. \A key : RowOf(Ended(key, t)) = EndedRowAt(key, t)
    BY DEF RowOf, Ended, EndedRowAt
  <2>2. \A key : RowOf(Started(key, t)) = NewRow(key, t)
    BY DEF RowOf, Started, NewRow
  <2> QED
    BY <2>1, <2>2, Zenon DEF Report
<1> QED
  BY <1>1, <1>2 DEF Rebooked

\* What the log holds after a report.
LEMMA RowsAfter ==
  ASSUME Booked, NEW t, Report(t), now \in Nat, log' = Rebooked, NEW row \in log'
  PROVE  \/ row \in log /\ \A key \in Falling : row # RowAt(key)
         \/ \E key \in Falling : row = EndedRowAt(key, t)
         \/ \E key \in Rising : row = NewRow(key, t)
BY LogUpdate

LEMMA BookedStep ==
  ASSUME Booked, NEW t, Report(t), now \in Nat, log' = Rebooked
  PROVE  Booked'
<1>t. t \in Nat /\ t > now /\ now' = t /\ t # Never
  BY DEF Report, Never
<1>1. ASSUME NEW row \in log'
      PROVE  /\ row \in RowType /\ row.tStart \in 1..t
             /\ row.tEnd # Never => row.tStart < row.tEnd /\ row.tEnd <= t
  <2>1. CASE row \in log
    BY <1>t, <2>1 DEF Booked, RowType
  <2>2. CASE \E key \in Falling : row = EndedRowAt(key, t)
    <3>1. PICK key \in Falling : row = EndedRowAt(key, t)
      BY <2>2
    <3>2. key \in Keys /\ RowAt(key) \in log
      BY DEF Booked, Falling
    <3>3. open[key].tStart \in 1..now
      BY <3>2 DEF Booked, RowAt
    <3> QED
      BY <1>t, <3>1, <3>2, <3>3 DEF EndedRowAt, RowType
  <2>3. CASE \E key \in Rising : row = NewRow(key, t)
    BY <1>t, <2>3 DEF NewRow, Rising, RowType
  <2> QED
    BY <2>1, <2>2, <2>3, RowsAfter
<1>2. ASSUME NEW key \in Keys, IsOpen(key)'
      PROVE  /\ [key |-> key, tStart |-> open'[key].tStart, tEnd |-> Never] \in log'
             /\ \A row \in log' :
                  row.key = key /\ row.tEnd # Never => row.tEnd < open'[key].tStart
  <2>1. key \notin Falling
    BY <1>2 DEF Falling
  <2>2. CASE IsOpen(key)
    <3>1. open'[key].tStart = open[key].tStart
      BY <1>2, <2>2 DEF Report
    <3>2. RowAt(key) \in log /\ \A k \in Falling : RowAt(key) # RowAt(k)
      BY <2>1, <2>2 DEF Booked, RowAt
    <3>3. RowAt(key) \in log'
      BY <3>2, LogUpdate
    <3>4. ASSUME NEW row \in log', row.key = key, row.tEnd # Never
          PROVE  row.tEnd < open[key].tStart
      <4>1. row \in log
        BY <2>1, <3>4, RowsAfter DEF EndedRowAt, NewRow
      <4> QED
        BY <2>2, <3>4, <4>1 DEF Booked
    <3> QED
      BY <3>1, <3>3, <3>4 DEF RowAt
  <2>3. CASE ~IsOpen(key)
    <3>1. key \in Rising /\ open'[key].tStart = t
      BY <1>2, <2>3 DEF Rising, Report
    <3>2. NewRow(key, t) \in log'
      BY <3>1, LogUpdate
    <3>3. ASSUME NEW row \in log', row.key = key, row.tEnd # Never
          PROVE  row.tEnd < t
      <4>1. row \in log
        BY <2>1, <3>3, RowsAfter DEF EndedRowAt, NewRow
      <4> QED
        BY <1>t, <3>3, <4>1 DEF Booked, RowType
    <3> QED
      BY <3>1, <3>2, <3>3 DEF NewRow
  <2> QED
    BY <2>2, <2>3
<1> QED
  BY <1>t, <1>1, <1>2 DEF Booked, RowAt

LEMMA DisjointStep ==
  ASSUME Booked, ClosedRowsAreDisjoint, NEW t, Report(t), now \in Nat, log' = Rebooked
  PROVE  ClosedRowsAreDisjoint'
<1>t. t \in Nat /\ t > now
  BY DEF Report
<1>1. ASSUME NEW row \in log', row.tEnd # Never
      PROVE  row \in log \/ \E key \in Falling : row = EndedRowAt(key, t)
  BY <1>1, RowsAfter DEF NewRow
<1>2. ASSUME NEW key \in Falling
      PROVE  /\ open[key].tStart \in 1..now
             /\ \A row \in log : row.key = key /\ row.tEnd # Never =>
                  row.tEnd < open[key].tStart
  <2>1. key \in Keys /\ IsOpen(key) /\ RowAt(key) \in log
    BY DEF Booked, Falling
  <2> QED
    BY <2>1 DEF Booked, RowAt
<1>3. ASSUME NEW row \in log', row.tEnd # Never
      PROVE  row.tStart < row.tEnd
  <2>1. CASE row \in log
    BY <1>3, <2>1 DEF Booked
  <2>2. CASE \E key \in Falling : row = EndedRowAt(key, t)
    BY <1>t, <1>2, <2>2 DEF EndedRowAt
  <2> QED
    BY <1>1, <1>3, <2>1, <2>2
<1>4. ASSUME NEW r1 \in log', NEW r2 \in log', r1.tEnd # Never, r2.tEnd # Never,
             r1.key = r2.key, r1 # r2
      PROVE  r1.tEnd < r2.tStart \/ r2.tEnd < r1.tStart
  <2>1. CASE r1 \in log /\ r2 \in log
    BY <1>4, <2>1 DEF ClosedRowsAreDisjoint
  <2>2. CASE r1 \in log /\ \E key \in Falling : r2 = EndedRowAt(key, t)
    BY <1>2, <1>4, <2>2 DEF EndedRowAt
  <2>3. CASE r2 \in log /\ \E key \in Falling : r1 = EndedRowAt(key, t)
    BY <1>2, <1>4, <2>3 DEF EndedRowAt
  <2>4. CASE /\ \E key \in Falling : r1 = EndedRowAt(key, t)
             /\ \E key \in Falling : r2 = EndedRowAt(key, t)
    BY <1>4, <2>4 DEF EndedRowAt
  <2> QED
    BY <1>1, <1>4, <2>1, <2>2, <2>3, <2>4
<1> QED
  BY <1>3, <1>4 DEF ClosedRowsAreDisjoint

-----------------------------------------------------------------------------
(* The session                                                             *)

SessionInv ==
  /\ LatchInv
  /\ finished <=> pc = "done"
  /\ sharedCfg \in Configs /\ stale \in BOOLEAN
  /\ Booked /\ ClosedRowsAreDisjoint

\* A frame.
LEMMA FrameBooks ==
  ASSUME SessionInv, NEW s \in Signals, NEW gap \in Gaps, FrameDetected(s, gap)
  PROVE  /\ SessionInv'
         /\ Report(now + gap) /\ log' = Rebooked /\ ~finished /\ ~finished'
<1>1. gap > 0 /\ Step(s, gap) /\ LatchInv /\ now \in Nat
  BY SessionAssumption, InputAssumption
  DEF FrameDetected, SessionInv, LatchInv, TypeOK
<1>2. Report(now + gap) /\ LatchInv' /\ ~finished /\ ~finished'
  BY <1>1, StepReports
<1>3. log' = Rebooked
  BY Zenon DEF FrameDetected, Rebooked
<1>4. Booked' /\ ClosedRowsAreDisjoint'
  BY <1>1, <1>2, <1>3, BookedStep, DisjointStep DEF SessionInv
<1>5. pc' = "top" /\ UNCHANGED <<sharedCfg, stale>>
  BY DEF FrameDetected
<1> QED
  BY <1>2, <1>3, <1>4, <1>5 DEF SessionInv

\* The end: everything that ends is found in the log, so nothing is dropped.
LEMMA EndBooks ==
  ASSUME SessionInv, NEW gap \in Gaps, EndOfSession(gap)
  PROVE  /\ SessionInv'
         /\ Report(now + gap) /\ log' = Rebooked /\ ~finished /\ finished'
         /\ Rising = {} /\ Falling = {key \in Keys : IsOpen(key)}
<1>1. gap > 0 /\ Finish(gap) /\ LatchInv /\ now \in Nat /\ ~finished
  BY SessionAssumption, InputAssumption
  DEF EndOfSession, SessionInv, LatchInv, TypeOK, Finish
<1>2. /\ Report(now + gap) /\ LatchInv' /\ finished'
      /\ Rising = {} /\ Falling = {key \in Keys : IsOpen(key)}
  BY <1>1, FinishReports
<1>3. \A v \in events' : \E row \in log : SameRow(row, v)
  <2>1. ASSUME NEW v \in events' PROVE \E row \in log : SameRow(row, v)
    <3>1. PICK key \in Falling : v = Ended(key, now + gap)
      BY <1>2 DEF Report
    <3>2. RowAt(key) \in log
      BY <1>2 DEF SessionInv, Booked
    <3> QED
      BY <3>1, <3>2 DEF SameRow, RowAt, Ended
  <2> QED
    BY <2>1
<1>4. {e \in events' : \E row \in log : SameRow(row, e)} = events'
  BY <1>3
<1>5. log' = Rebooked
  BY <1>4, Zenon DEF EndOfSession, Rebooked
<1>6. Booked' /\ ClosedRowsAreDisjoint'
  BY <1>1, <1>2, <1>5, BookedStep, DisjointStep DEF SessionInv
<1>7. pc' = "done" /\ UNCHANGED <<sharedCfg, stale>>
  BY DEF EndOfSession
<1> QED
  BY <1>1, <1>2, <1>5, <1>6, <1>7 DEF SessionInv

LEMMA FreshLatchNext == Fresh' => LatchInv'
<1>1. Fresh => LatchInv
  BY FreshLatch
<1> QED
  BY <1>1, PTL

\* A reload: nothing is open any more, and the rows stay as they are.
LEMMA ReloadBooks ==
  ASSUME SessionInv, CheckConfig
  PROVE  SessionInv' /\ UNCHANGED <<log, now, finished>>
<1>1. /\ pc = "top" /\ pc' = "take" /\ stale' = FALSE
      /\ UNCHANGED <<configured, sharedCfg, now, events, finished, log>>
  BY DEF CheckConfig, books
<1>2. ~finished /\ finished = FALSE /\ finished' = FALSE /\ TypeOK
  BY <1>1 DEF SessionInv, LatchInv, TypeOK
<1>3. CASE stale
  <2>1. ReplaceEngine(sharedCfg)
    BY <1>3 DEF CheckConfig
  <2>2. (\E c \in Configs : NewEngine(c))'
    BY <2>1 DEF ReplaceEngine, NewEngine, SessionInv
  <2>3. Fresh'
    BY <1>1, <1>2, <2>2 DEF Fresh, TypeOK
  <2>4. LatchInv'
    BY <2>3, FreshLatchNext
  <2>5. \A key \in Keys : ~IsOpen(key)'
    BY <2>1 DEF ReplaceEngine, NothingOpen, IsOpen
  <2>6. Booked' /\ ClosedRowsAreDisjoint'
    BY <1>1, <2>5 DEF SessionInv, Booked, ClosedRowsAreDisjoint
  <2> QED
    BY <1>1, <1>2, <2>4, <2>6 DEF SessionInv
<1>4. CASE ~stale
  <2>1. UNCHANGED vars
    BY <1>1, <1>4 DEF CheckConfig, vars
  <2>2. LatchInv'
    BY <2>1, NextLatch DEF SessionInv
  <2>3. Booked' /\ ClosedRowsAreDisjoint'
    BY <1>1, <2>1
    DEF SessionInv, Booked, ClosedRowsAreDisjoint, RowAt, IsOpen, vars, engine
  <2> QED
    BY <1>1, <1>2, <2>2, <2>3 DEF SessionInv
<1> QED
  BY <1>1, <1>3, <1>4 DEF SessionInv

\* Whatever else the worker or a caller does.
LEMMA IdleBooks ==
  ASSUME SessionInv, UNCHANGED <<vars, log>>,
         sharedCfg' \in Configs, stale' \in BOOLEAN, pc' = "done" <=> pc = "done"
  PROVE  SessionInv'
<1>1. LatchInv'
  BY NextLatch DEF SessionInv
<1>2. Booked' /\ ClosedRowsAreDisjoint'
  BY DEF SessionInv, Booked, ClosedRowsAreDisjoint, RowAt, IsOpen, vars, engine
<1> QED
  BY <1>1, <1>2 DEF SessionInv, vars

LEMMA SessionStep ==
  ASSUME SessionInv, [SNext]_svars
  PROVE  SessionInv'
<1>1. ASSUME NEW c \in Configs, UpdateConfig(c)
      PROVE  SessionInv'
  BY <1>1, IdleBooks DEF UpdateConfig, books
<1>2. CASE CheckConfig
  BY <1>2, ReloadBooks
<1>3. CASE NoNewFrame \/ FrameFailed
  BY <1>3, IdleBooks DEF NoNewFrame, FrameFailed, books, SessionInv
<1>4. ASSUME NEW s \in Signals, NEW gap \in Gaps, FrameDetected(s, gap)
      PROVE  SessionInv'
  BY <1>4, FrameBooks
<1>5. ASSUME NEW gap \in Gaps, EndOfSession(gap)
      PROVE  SessionInv'
  BY <1>5, EndBooks
<1>6. CASE UNCHANGED svars
  BY <1>6, IdleBooks DEF svars, worker, books, SessionInv
<1> QED
  BY <1>1, <1>2, <1>3, <1>4, <1>5, <1>6 DEF SNext

LEMMA SessionInit ==
  ASSUME SInit
  PROVE  SessionInv
<1>1. LatchInv
  BY InitLatch DEF SInit
<1>2. \A key \in Keys : ~IsOpen(key)
  BY DEF SInit, Init, NewEngine, NothingOpen, IsOpen
<1>3. cfg \in Configs /\ ~finished
  BY DEF SInit, Init, NewEngine
<1> QED
  BY <1>1, <1>2, <1>3 DEF SInit, SessionInv, Booked, ClosedRowsAreDisjoint

\* The books, which no rule of the engine reads.
BooksTyped ==
  /\ pc \in {"top", "take", "done"}
  /\ reloads \in 0..MaxReloads
  /\ active \subseteq Keys
  /\ faceFailures \in 0..MaxFailures
  /\ degraded \in BOOLEAN /\ faceSeen \in BOOLEAN
  /\ notices \subseteq {"recovered", "degraded"}

LEMMA BooksStep ==
  ASSUME BooksTyped, [SNext]_svars
  PROVE  BooksTyped'
<1> USE SessionAssumption DEF BooksTyped
<1>1. ASSUME NEW c \in Configs, UpdateConfig(c)
      PROVE  BooksTyped'
  BY <1>1 DEF UpdateConfig, books
<1>2. CASE CheckConfig \/ NoNewFrame
  BY <1>2 DEF CheckConfig, NoNewFrame, books
<1>3. CASE FrameFailed
  <2>1. /\ pc' = "top" /\ faceFailures' \in 0..MaxFailures
        /\ UNCHANGED <<reloads, active, faceSeen>>
    BY <1>3 DEF FrameFailed
  <2>2. degraded' \in BOOLEAN
    <3>1. degraded' = (degraded \/ faceFailures' >= 3)
      BY <1>3 DEF FrameFailed
    <3>2. (faceFailures' >= 3) \in BOOLEAN
      OBVIOUS
    <3> QED
      BY <3>1, <3>2, Zenon
  <2>3. notices' \subseteq {"recovered", "degraded"}
    <3>1. notices' \in {{}, {"degraded"}}
      BY <1>3, Zenon DEF FrameFailed
    <3> QED
      BY <3>1
  <2> QED
    BY <2>1, <2>2, <2>3
<1>4. ASSUME NEW s \in Signals, NEW gap \in Gaps, FrameDetected(s, gap)
      PROVE  BooksTyped'
  <2>1. /\ pc' = "top" /\ faceFailures' = 0 /\ degraded' = FALSE
        /\ active' = {key \in Keys : IsOpen(key)'}
        /\ faceSeen' = (faceSeen \/ s.faces > 0)
        /\ UNCHANGED reloads
    BY <1>4, Zenon DEF FrameDetected
  <2>2. notices' \in {{}, {"recovered"}}
    BY <1>4, Zenon DEF FrameDetected
  <2>3. active' \subseteq Keys
    BY <2>1
  <2>4. faceSeen' \in BOOLEAN
    <3>1. (s.faces > 0) \in BOOLEAN
      OBVIOUS
    <3> QED
      BY <2>1, <3>1, Zenon
  <2>5. notices' \subseteq {"recovered", "degraded"} /\ faceFailures' \in 0..MaxFailures
    BY <2>1, <2>2
  <2>6. pc' \in {"top", "take", "done"} /\ reloads' \in 0..MaxReloads
    BY <2>1
  <2>7. degraded' \in BOOLEAN
    BY <2>1
  <2> QED
    BY <2>3, <2>4, <2>5, <2>6, <2>7, Zenon
<1>5. ASSUME NEW gap \in Gaps, EndOfSession(gap)
      PROVE  BooksTyped'
  BY <1>5 DEF EndOfSession
<1>6. CASE UNCHANGED svars
  BY <1>6 DEF svars, worker, books
<1> QED
  BY <1>1, <1>2, <1>3, <1>4, <1>5, <1>6 DEF SNext

LEMMA SessionKeepsInv == SSpec => [](SessionInv /\ BooksTyped)
<1>1. SInit => SessionInv /\ BooksTyped
  <2> SUFFICES ASSUME SInit PROVE SessionInv /\ BooksTyped
    OBVIOUS
  <2>1. SessionInv
    BY SessionInit
  <2>2. /\ pc = "top" /\ reloads = 0 /\ active = {} /\ faceFailures = 0
        /\ degraded = FALSE /\ notices = {} /\ faceSeen = FALSE
    BY Zenon DEF SInit
  <2>3. BooksTyped
    <3>1. 0 \in 0..MaxReloads /\ 0 \in 0..MaxFailures
      BY SessionAssumption
    <3> QED
      BY <2>2, <3>1, Zenon DEF BooksTyped
  <2> QED
    BY <2>1, <2>3
<1>2. SessionInv /\ BooksTyped /\ [SNext]_svars => SessionInv' /\ BooksTyped'
  BY SessionStep, BooksStep
<1> QED
  BY <1>1, <1>2, PTL DEF SSpec

\* The worker's fields and its log keep their types, reloads included.
THEOREM SessionTypeCorrect == SSpec => []STypeOK
<1>1. SessionInv /\ BooksTyped => STypeOK
  BY DEF SessionInv, LatchInv, Booked, RowType, BooksTyped, STypeOK
<1> QED
  BY <1>1, SessionKeepsInv, PTL

\* Reloads included, an open violation of the engine has its own open row, where its
\* end will find it (workers.rs:255-262, 319-325).
THEOREM OpenViolationsAreLogged == SSpec => []EngineRowsInLog
<1>1. SessionInv => EngineRowsInLog
  BY DEF SessionInv, Booked, RowAt, EngineRowsInLog
<1> QED
  BY <1>1, SessionKeepsInv, PTL

\* Reloads included, ended rows of one stream never overlap and never run backwards
\* (workers.rs:250-266).
THEOREM RowsStayDisjoint == SSpec => []ClosedRowsAreDisjoint
<1>1. SessionInv => ClosedRowsAreDisjoint
  BY DEF SessionInv
<1> QED
  BY <1>1, SessionKeepsInv, PTL

-----------------------------------------------------------------------------
(* The log as a ledger                                                     *)

\* Until the first reload, every open row is the row of an open violation.
Kept ==
  /\ SessionInv
  /\ reloads = 0 /\ ~stale
  /\ \A row \in log : row.tEnd = Never => IsOpen(row.key) /\ row = RowAt(row.key)

LEMMA KeptStep ==
  ASSUME MaxReloads = 0, Kept, [SNext]_svars
  PROVE  Kept'
<1> USE DEF Kept
<1>0. SessionInv'
  BY SessionStep
<1>1. ASSUME NEW c \in Configs, UpdateConfig(c)
      PROVE  Kept'
  BY <1>1 DEF UpdateConfig
<1>2. CASE CheckConfig \/ NoNewFrame \/ FrameFailed \/ UNCHANGED svars
  <2>1. UNCHANGED <<open, log, reloads>> /\ ~stale'
    BY <1>2 DEF CheckConfig, NoNewFrame, FrameFailed, svars, vars, engine, worker, books
  <2> QED
    BY <1>0, <2>1 DEF IsOpen, RowAt
<1>3. ASSUME NEW t, Report(t), log' = Rebooked, UNCHANGED <<reloads, stale>>
      PROVE  Kept'
  <2>1. now \in Nat /\ Booked
    BY InputAssumption DEF SessionInv, LatchInv, TypeOK
  <2>2. ASSUME NEW row \in log', row.tEnd = Never
        PROVE  /\ IsOpen(row.key)'
               /\ row = [key |-> row.key, tStart |-> open'[row.key].tStart, tEnd |-> Never]
    <3>1. t # Never
      BY <1>3 DEF Report, Never
    <3>2. CASE row \in log /\ \A key \in Falling : row # RowAt(key)
      <4>1. row.key \in Keys /\ IsOpen(row.key) /\ row = RowAt(row.key)
        BY <2>1, <2>2, <3>2 DEF Booked, RowType
      <4>2. IsOpen(row.key)'
        BY <3>2, <4>1 DEF Falling
      <4> QED
        BY <1>3, <4>1, <4>2 DEF Report, RowAt
    <3>3. CASE \E key \in Falling : row = EndedRowAt(key, t)
      BY <2>2, <3>1, <3>3 DEF EndedRowAt
    <3>4. CASE \E key \in Rising : row = NewRow(key, t)
      BY <1>3, <3>4 DEF NewRow, Rising, Report
    <3> QED
      BY <1>3, <2>1, <3>2, <3>3, <3>4, RowsAfter
  <2> QED
    BY <1>0, <1>3, <2>2 DEF RowAt
<1>4. ASSUME NEW s \in Signals, NEW gap \in Gaps, FrameDetected(s, gap)
      PROVE  Kept'
  <2>1. Report(now + gap) /\ log' = Rebooked
    BY <1>4, FrameBooks
  <2>2. UNCHANGED <<reloads, stale>>
    BY <1>4 DEF FrameDetected
  <2> QED
    BY <1>3, <2>1, <2>2
<1>5. ASSUME NEW gap \in Gaps, EndOfSession(gap)
      PROVE  Kept'
  <2>1. Report(now + gap) /\ log' = Rebooked
    BY <1>5, EndBooks
  <2>2. UNCHANGED <<reloads, stale>>
    BY <1>5 DEF EndOfSession
  <2> QED
    BY <1>3, <2>1, <2>2
<1> QED
  BY <1>1, <1>2, <1>4, <1>5 DEF SNext

\* The rows the ledger still watches are those of the open violations.
LEMMA WatchedRows ==
  ASSUME SessionInv
  PROVE  Ledger!Watched = {RowAt(key) : key \in {k \in Keys : IsOpen(k)}}
<1>1. \A row \in log : row.key \in Keys /\ row = [key |-> row.key, tStart |-> row.tStart,
                                                  tEnd |-> row.tEnd]
  BY DEF SessionInv, Booked, RowType
<1>2. Ledger!Watched =
        {row \in log : row.tEnd = Never /\ IsOpen(row.key)
                         /\ row.tStart = open[row.key].tStart}
  BY DEF Ledger!Watched, Ledger!OpenRows, Ledger!Never, Never, Orphans
<1>3. ASSUME NEW row \in Ledger!Watched
      PROVE  row.key \in {k \in Keys : IsOpen(k)} /\ row = RowAt(row.key)
  BY <1>1, <1>2 DEF RowAt
<1>4. ASSUME NEW key \in Keys, IsOpen(key)
      PROVE  RowAt(key) \in Ledger!Watched
  <2>1. RowAt(key) \in log
    BY <1>4 DEF SessionInv, Booked
  <2> QED
    BY <1>2, <1>4, <2>1 DEF RowAt
<1> QED
  BY <1>3, <1>4

\* The rows that end, as the ledger sees them.
LEMMA ClosingRows ==
  ASSUME SessionInv, NEW t, Report(t)
  PROVE  LET closing == {RowAt(key) : key \in Falling}
         IN  /\ closing \in SUBSET Ledger!Watched
             /\ Ledger!CloseAll(closing, t) = {EndedRowAt(key, t) : key \in Falling}
<1>1. Falling \subseteq {key \in Keys : IsOpen(key)}
  BY DEF Falling
<1>2. \A key : [RowAt(key) EXCEPT !.tEnd = t] = EndedRowAt(key, t)
  BY DEF RowAt, EndedRowAt
<1>3. Ledger!CloseAll({RowAt(key) : key \in Falling}, t)
        = {EndedRowAt(key, t) : key \in Falling}
  BY <1>2 DEF Ledger!CloseAll
<1> QED
  BY <1>1, <1>3, WatchedRows

\* A report makes no orphan and no orphan ends by one.
LEMMA OrphansStay ==
  ASSUME SessionInv, NEW t, Report(t), log' = Rebooked
  PROVE  Orphans' = Orphans
<1>t. t \in Nat /\ t > now /\ t # Never /\ now \in Nat /\ Booked
  BY InputAssumption DEF Report, Never, SessionInv, LatchInv, TypeOK
<1>o. /\ \A row : row \in Orphans <=>
           /\ row \in log /\ row.tEnd = Never
           /\ ~(IsOpen(row.key) /\ row.tStart = open[row.key].tStart)
      /\ \A row : row \in Orphans' <=>
           /\ row \in log' /\ row.tEnd = Never
           /\ ~(IsOpen(row.key)' /\ row.tStart = open'[row.key].tStart)
  BY DEF Orphans, IsOpen
<1>r. ASSUME NEW row \in log, row.tEnd = Never
      PROVE  /\ row.key \in Keys /\ row.tStart \in 1..now
             /\ IsOpen(row.key) /\ row.tStart = open[row.key].tStart => row = RowAt(row.key)
  BY <1>t, <1>r DEF Booked, RowType, RowAt
<1>k. ASSUME NEW key \in Keys
      PROVE  /\ key \in Falling <=> IsOpen(key) /\ ~IsOpen(key)'
             /\ key \in Rising <=> ~IsOpen(key) /\ IsOpen(key)'
             /\ IsOpen(key)' => open'[key].tStart = IF IsOpen(key) THEN open[key].tStart ELSE t
  BY DEF Falling, Rising, Report
<1>1. ASSUME NEW row \in Orphans' PROVE row \in Orphans
  <2>1. row \in log' /\ row.tEnd = Never
    BY <1>o
  <2>2. row \in log /\ \A key \in Falling : row # RowAt(key)
    <3>1. ASSUME NEW key \in Rising, row = NewRow(key, t) PROVE FALSE
      <4>1. row.key = key /\ row.tStart = t /\ key \in Keys
        BY <3>1 DEF NewRow, Rising
      <4> QED
        BY <1>o, <1>k, <4>1
    <3>2. ASSUME NEW key \in Falling, row = EndedRowAt(key, t) PROVE FALSE
      BY <1>t, <2>1, <3>2 DEF EndedRowAt
    <3> QED
      BY <1>t, <2>1, <3>1, <3>2, RowsAfter
  <2> QED
    BY <1>o, <1>k, <1>r, <2>1, <2>2
<1>2. ASSUME NEW row \in Orphans PROVE row \in Orphans'
  <2>1. row \in log /\ row.tEnd = Never /\ row.key \in Keys /\ row.tStart < t
    BY <1>t, <1>o, <1>r
  <2>2. \A key \in Falling : row # RowAt(key)
    BY <1>o DEF Falling, RowAt
  <2>3. row \in log'
    BY <1>t, <2>1, <2>2, LogUpdate
  <2>4. ~(IsOpen(row.key)' /\ row.tStart = open'[row.key].tStart)
    <3>1. CASE IsOpen(row.key)
      BY <1>o, <1>k, <2>1, <3>1
    <3>2. CASE ~IsOpen(row.key)
      <4>1. IsOpen(row.key)' => open'[row.key].tStart = t
        BY <1>k, <2>1, <3>2
      <4> QED
        BY <1>r, <1>t, <2>1, <4>1
    <3> QED
      BY <3>1, <3>2
  <2> QED
    BY <1>o, <2>1, <2>3, <2>4
<1> QED
  BY <1>1, <1>2

LEMMA LedgerTime ==
  ASSUME SessionInv, NEW t, Report(t), TypeOK'
  PROVE  t \in 1..MaxTime /\ t > now /\ now' = t
BY InputAssumption DEF SessionInv, LatchInv, TypeOK, Report

LEMMA FrameRecords ==
  ASSUME SessionInv, NEW s \in Signals, NEW gap \in Gaps, FrameDetected(s, gap)
  PROVE  Ledger!LNext
<1> DEFINE t == now + gap
           closing == {RowAt(key) : key \in Falling}
<1>1. Report(t) /\ log' = Rebooked /\ finished = FALSE /\ finished' = FALSE /\ SessionInv'
  BY FrameBooks DEF SessionInv, LatchInv, TypeOK
<1>2. t \in 1..MaxTime /\ t > now /\ now' = t
  BY <1>1, LedgerTime DEF SessionInv, LatchInv
<1>3. /\ closing \in SUBSET Ledger!Watched
      /\ Ledger!CloseAll(closing, t) = {EndedRowAt(key, t) : key \in Falling}
  BY <1>1, ClosingRows
<1>4. Rising \in SUBSET Keys
  BY DEF Rising
<1>5. \A row \in Ledger!Watched : row.key \notin Rising
  <2>1. ASSUME NEW key \in Keys, IsOpen(key) PROVE RowAt(key).key \notin Rising
    BY <2>1 DEF RowAt, Rising
  <2> QED
    BY <2>1, WatchedRows
<1>6. now \in Nat /\ Booked
  BY InputAssumption DEF SessionInv, LatchInv, TypeOK
<1>7. log' = (log \ closing) \union Ledger!CloseAll(closing, t)
               \union {[key |-> key, tStart |-> t, tEnd |-> Ledger!Never] : key \in Rising}
  BY <1>1, <1>3, <1>6, LogUpdate DEF NewRow, Ledger!Never, Never
<1>8. Orphans' = Orphans
  BY <1>1, OrphansStay
<1>9. Ledger!Record(Rising, closing, t)
  BY <1>1, <1>2, <1>5, <1>7, <1>8 DEF Ledger!Record
<1> QED
  BY <1>2, <1>3, <1>4, <1>9 DEF Ledger!LNext

LEMMA EndRecords ==
  ASSUME SessionInv, NEW gap \in Gaps, EndOfSession(gap)
  PROVE  Ledger!LNext
<1> DEFINE t == now + gap
           closing == {RowAt(key) : key \in Falling}
<1>1. /\ Report(t) /\ log' = Rebooked /\ finished = FALSE /\ finished' = TRUE /\ SessionInv'
      /\ Rising = {} /\ Falling = {key \in Keys : IsOpen(key)}
  BY EndBooks DEF SessionInv, LatchInv, TypeOK
<1>2. t \in 1..MaxTime /\ t > now /\ now' = t
  BY <1>1, LedgerTime DEF SessionInv, LatchInv
<1>3. Ledger!CloseAll(closing, t) = {EndedRowAt(key, t) : key \in Falling}
  BY <1>1, ClosingRows
<1>4. now \in Nat /\ Booked
  BY InputAssumption DEF SessionInv, LatchInv, TypeOK
<1>5. closing = Ledger!Watched
  BY <1>1, WatchedRows
<1>6. log' = (log \ closing) \union Ledger!CloseAll(closing, t)
  BY <1>1, <1>3, <1>4, LogUpdate
<1>7. Orphans' = Orphans
  BY <1>1, OrphansStay
<1>8. Ledger!EndSession(t)
  BY <1>1, <1>2, <1>5, <1>6, <1>7 DEF Ledger!EndSession
<1> QED
  BY <1>2, <1>8 DEF Ledger!LNext

\* The worker takes up the configuration it finds: if it is a new one, every open
\* row becomes an orphan.
LEMMA ReloadLoses ==
  ASSUME SessionInv, CheckConfig
  PROVE  Ledger!Lose \/ UNCHANGED Ledger!lvars
<1>1. UNCHANGED <<log, now, finished>> /\ finished = FALSE
  BY ReloadBooks DEF CheckConfig, SessionInv, LatchInv, TypeOK
<1>2. CASE stale
  <2>1. \A key \in Keys : ~IsOpen(key)'
    <3>1. open' = NothingOpen
      BY <1>2, Zenon DEF CheckConfig, ReplaceEngine
    <3> QED
      BY <3>1 DEF NothingOpen, IsOpen
  <2>2. Orphans' = {row \in log : row.tEnd = Never}
    <3>1. \A row \in log : row.key \in Keys
      BY DEF SessionInv, Booked, RowType
    <3>2. Orphans' = {row \in log : row.tEnd = Never
                        /\ ~(IsOpen(row.key)' /\ row.tStart = open'[row.key].tStart)}
      BY <1>1 DEF Orphans, IsOpen
    <3> QED
      BY <2>1, <3>1, <3>2
  <2> QED
    BY <1>1, <2>2 DEF Ledger!Lose, Ledger!OpenRows, Ledger!Never, Never
<1>3. CASE ~stale
  <2>1. open' = open
    BY <1>3 DEF CheckConfig, engine
  <2> QED
    BY <1>1, <2>1 DEF Orphans, IsOpen, Ledger!lvars
<1> QED
  BY <1>2, <1>3

LEMMA LossyLedgerStep ==
  ASSUME SessionInv, [SNext]_svars
  PROVE  [Ledger!LNext \/ Ledger!Lose]_(Ledger!lvars)
<1>1. CASE (\E c \in Configs : UpdateConfig(c)) \/ NoNewFrame \/ FrameFailed \/ UNCHANGED svars
  <2>1. UNCHANGED <<open, log, now, finished>>
    BY <1>1 DEF UpdateConfig, NoNewFrame, FrameFailed, svars, vars, engine, books
  <2> QED
    BY <2>1 DEF Orphans, IsOpen, Ledger!lvars
<1>2. CASE CheckConfig
  BY <1>2, ReloadLoses
<1>3. ASSUME NEW s \in Signals, NEW gap \in Gaps, FrameDetected(s, gap)
      PROVE  Ledger!LNext
  BY <1>3, FrameRecords
<1>4. ASSUME NEW gap \in Gaps, EndOfSession(gap)
      PROVE  Ledger!LNext
  BY <1>4, EndRecords
<1> QED
  BY <1>1, <1>2, <1>3, <1>4 DEF SNext

\* With nothing to reload, no row is ever lost.
LEMMA LedgerStep ==
  ASSUME MaxReloads = 0, Kept, [SNext]_svars
  PROVE  [Ledger!LNext]_(Ledger!lvars)
<1>1. CASE CheckConfig
  <2>1. UNCHANGED <<open, log, now, finished>>
    BY <1>1 DEF CheckConfig, Kept, engine, books
  <2> QED
    BY <2>1 DEF Orphans, IsOpen, Ledger!lvars
<1>2. CASE ~CheckConfig
  <2>1. SessionInv
    BY DEF Kept
  <2>2. CASE (\E c \in Configs : UpdateConfig(c)) \/ NoNewFrame \/ FrameFailed
             \/ UNCHANGED svars
    <3>1. UNCHANGED <<open, log, now, finished>>
      BY <2>2 DEF UpdateConfig, NoNewFrame, FrameFailed, svars, vars, engine, books
    <3> QED
      BY <3>1 DEF Orphans, IsOpen, Ledger!lvars
  <2> QED
    BY <1>2, <2>1, <2>2, FrameRecords, EndRecords DEF SNext
<1> QED
  BY <1>1, <1>2

LEMMA SessionIsKept ==
  ASSUME MaxReloads = 0
  PROVE  SSpec => []Kept
<1>1. SInit => Kept
  BY SessionInit DEF SInit, Kept
<1>2. Kept /\ [SNext]_svars => Kept'
  BY KeptStep
<1> QED
  BY <1>1, <1>2, PTL DEF SSpec

\* Without a reload, every violation of a finished session has its end
\* (workers.rs:313-315); with one, the run find_reload shows that it may not.
THEOREM UnreloadedViolationsEnd ==
  ASSUME MaxReloads = 0
  PROVE  SSpec => []EveryViolationEnds
<1>1. Kept => EveryViolationEnds
  BY DEF Kept, SessionInv, LatchInv, NothingOpenAtTheEnd, NothingOpen, IsOpen, Booked, RowType,
     EveryViolationEnds
<1> QED
  BY <1>1, SessionIsKept, PTL

\* Without a reload, the log of a session is the ledger its readers expect: every start
\* gets its own end, and nothing is left open (workers.rs:250-266, 313-331).
THEOREM LogIsLedger ==
  ASSUME MaxReloads = 0
  PROVE  SSpec => LedgerSpec
<1>1. SInit => Ledger!LInit
  BY DEF SInit, Init, Ledger!LInit, Orphans
<1>2. Kept /\ [SNext]_svars => [Ledger!LNext]_(Ledger!lvars)
  BY LedgerStep
<1> QED
  BY <1>1, <1>2, SessionIsKept, PTL DEF SSpec, LedgerSpec, Ledger!LSpec

\* With any number of reloads, it is that ledger but for the violations open at one
\* (workers.rs:122-126): no row but theirs stays open, and nothing is closed twice.
THEOREM LogIsLossyLedger == SSpec => ReloadLedgerSpec
<1>1. SInit => Ledger!LInit
  BY DEF SInit, Init, Ledger!LInit, Orphans
<1>2. SessionInv /\ [SNext]_svars => [Ledger!LNext \/ Ledger!Lose]_(Ledger!lvars)
  BY LossyLedgerStep
<1> QED
  BY <1>1, <1>2, SessionKeepsInv, PTL DEF SSpec, ReloadLedgerSpec, Ledger!LossySpec

\* What a reader of the log has from it, reloads included: rows that no reload
\* orphaned never overlap within a stream, a finished session leaves only orphans
\* open, and a closed row is final.
THEOREM LedgerPromisesKept ==
  SSpec => []Ledger!Disjoint /\ []Ledger!NothingLeftOpen /\ Ledger!ClosedRowsStay
<1>1. SessionInv => Ledger!Disjoint
  <2> SUFFICES ASSUME SessionInv, NEW r1 \in log \ Orphans, NEW r2 \in log \ Orphans,
                      r1.key = r2.key, r1 # r2
               PROVE  \/ r1.tEnd # Never /\ r1.tEnd < r2.tStart
                      \/ r2.tEnd # Never /\ r2.tEnd < r1.tStart
    BY DEF Ledger!Disjoint, Ledger!Never, Never
  <2>1. ASSUME NEW row \in log \ Orphans, row.tEnd = Never
        PROVE  row.key \in Keys /\ IsOpen(row.key) /\ row = RowAt(row.key)
    BY <2>1 DEF Orphans, RowAt, SessionInv, Booked, RowType
  <2>2. ASSUME NEW row \in log \ Orphans, row.tEnd = Never,
               NEW other \in log, other.key = row.key, other.tEnd # Never
        PROVE  other.tEnd < row.tStart
    <3>1. row.tStart = open[row.key].tStart
      BY <2>1, <2>2 DEF RowAt
    <3> QED
      BY <2>1, <2>2, <3>1 DEF SessionInv, Booked
  <2>3. CASE r1.tEnd # Never /\ r2.tEnd # Never
    BY <2>3 DEF SessionInv, ClosedRowsAreDisjoint
  <2>4. CASE r1.tEnd = Never /\ r2.tEnd = Never
    <3>1. r1 = RowAt(r1.key) /\ r2 = RowAt(r1.key)
      BY <2>1, <2>4
    <3> QED
      BY <3>1
  <2>5. CASE (r1.tEnd = Never) # (r2.tEnd = Never)
    BY <2>2, <2>5
  <2> QED
    BY <2>3, <2>4, <2>5
<1>2. SessionInv => Ledger!NothingLeftOpen
  <2> SUFFICES ASSUME SessionInv, finished, NEW row \in log, row.tEnd = Never
               PROVE  row \in Orphans
    BY DEF Ledger!NothingLeftOpen, Ledger!OpenRows, Ledger!Never, Never
  <2>1. row.key \in Keys
    BY DEF SessionInv, Booked, RowType
  <2>2. ~IsOpen(row.key)
    BY <2>1 DEF SessionInv, LatchInv, NothingOpenAtTheEnd, NothingOpen, IsOpen
  <2> QED
    BY <2>2 DEF Orphans
<1>3. [Ledger!LNext \/ Ledger!Lose]_(Ledger!lvars) =>
        [\A row \in log : row.tEnd # Ledger!Never => row \in log']_(Ledger!lvars)
  BY DEF Ledger!LNext, Ledger!Record, Ledger!EndSession, Ledger!Lose, Ledger!Watched,
         Ledger!OpenRows, Ledger!lvars
<1> QED
  BY <1>1, <1>2, <1>3, SessionKeepsInv, LogIsLossyLedger, PTL
     DEF ReloadLedgerSpec, Ledger!LossySpec, Ledger!ClosedRowsStay

-----------------------------------------------------------------------------
(* The degraded window.                                                    *)

\* The flag tells the failures in a row.
FlagTells == faceFailures \in Nat /\ degraded \in BOOLEAN /\ (degraded <=> faceFailures >= 3)

Announced ==
  LET sent(notice) == notice \in notices' /\ pc = "take" /\ notices' # {}
                        /\ (faceFailures' # faceFailures)
  IN  /\ sent("degraded") => faceFailures < 3 /\ faceFailures' = 3
      /\ sent("recovered") => faceFailures >= 3 /\ faceFailures' = 0
      /\ faceFailures' = 3 /\ faceFailures = 2 => sent("degraded")
      /\ faceFailures' = 0 /\ faceFailures >= 3 => sent("recovered")

\* What an iteration does to the flag and to the channel (workers.rs:137-144, 289-302).
LEMMA FlagStep ==
  ASSUME FlagTells, [SNext]_svars
  PROVE  FlagTells' /\ Announced
<1>1. ASSUME UNCHANGED <<faceFailures, degraded>>
      PROVE  FlagTells' /\ Announced
  BY <1>1 DEF FlagTells, Announced
<1>2. ASSUME NEW s \in Signals, NEW gap \in Gaps, FrameDetected(s, gap)
      PROVE  FlagTells' /\ Announced
  <2>1. /\ pc = "take" /\ faceFailures' = 0 /\ degraded' = FALSE
        /\ notices' = IF degraded THEN {"recovered"} ELSE {}
    BY <1>2, Zenon DEF FrameDetected
  <2>2. FlagTells'
    <3>1. faceFailures' \in Nat /\ ~(faceFailures' >= 3)
      BY <2>1
    <3> QED  BY <2>1, <3>1, Zenon DEF FlagTells
  <2>3. CASE degraded
    <3>1. notices' = {"recovered"} /\ faceFailures >= 3 /\ faceFailures \in Nat
      BY <2>1, <2>3 DEF FlagTells
    <3> QED  BY <2>1, <2>2, <3>1 DEF Announced
  <2>4. CASE ~degraded
    <3>1. notices' = {} /\ ~(faceFailures >= 3)
      BY <2>1, <2>4 DEF FlagTells
    <3> QED  BY <2>1, <2>2, <3>1 DEF Announced
  <2> QED  BY <2>3, <2>4
<1>3. CASE FrameFailed
  <2>1. /\ pc = "take" /\ faceFailures' = faceFailures + 1
        /\ degraded' = (degraded \/ faceFailures' >= 3)
        /\ notices' = IF degraded' /\ ~degraded THEN {"degraded"} ELSE {}
    BY <1>3, Zenon DEF FrameFailed
  <2>2. FlagTells'
    <3>1. faceFailures \in Nat /\ faceFailures' \in Nat /\ degraded \in BOOLEAN
      BY <2>1 DEF FlagTells
    <3>2. faceFailures >= 3 => faceFailures' >= 3
      BY <2>1, <3>1
    <3>3. (faceFailures' >= 3) \in BOOLEAN
      OBVIOUS
    <3> QED  BY <2>1, <3>1, <3>2, <3>3, Zenon DEF FlagTells
  <2>3. CASE degraded' /\ ~degraded
    <3>1. notices' = {"degraded"} /\ faceFailures < 3 /\ faceFailures' = 3
      BY <2>1, <2>2, <2>3 DEF FlagTells
    <3> QED  BY <2>1, <2>2, <3>1 DEF FlagTells, Announced
  <2>4. CASE ~(degraded' /\ ~degraded)
    <3>1. notices' = {} /\ ~(faceFailures' = 3 /\ faceFailures = 2) /\ faceFailures' # 0
      BY <2>1, <2>2, <2>4 DEF FlagTells
    <3> QED  BY <2>1, <2>2, <3>1 DEF FlagTells, Announced
  <2> QED  BY <2>3, <2>4, <2>2
<1>4. CASE UNCHANGED svars
  BY <1>1, <1>4 DEF svars, books
<1>5. CASE \E c \in Configs : UpdateConfig(c)
  BY <1>1, <1>5 DEF UpdateConfig, books
<1>6. CASE CheckConfig
  BY <1>1, <1>6 DEF CheckConfig, books
<1>7. CASE NoNewFrame
  BY <1>1, <1>7 DEF NoNewFrame, books
<1>8. CASE \E gap \in Gaps : EndOfSession(gap)
  BY <1>1, <1>8 DEF EndOfSession
<1> QED  BY <1>2, <1>3, <1>4, <1>5, <1>6, <1>7, <1>8 DEF SNext

\* However often the face model fails and recovers, and whatever is reloaded in between, a
\* degraded window is announced once and its end once.
THEOREM DegradedWindowsAreAnnounced == SSpec => DegradedIsAnnounced
<1>1. SInit => FlagTells
  <2> SUFFICES ASSUME SInit PROVE FlagTells
    OBVIOUS
  <2>1. faceFailures = 0 /\ degraded = FALSE
    BY Zenon DEF SInit
  <2>2. faceFailures \in Nat /\ ~(faceFailures >= 3)
    BY <2>1
  <2> QED  BY <2>1, <2>2, Zenon DEF FlagTells
<1>2. FlagTells /\ [SNext]_svars => FlagTells'
  BY FlagStep
<1>3. FlagTells /\ [SNext]_svars => Announced
  BY FlagStep
<1>4. DegradedIsAnnounced <=> [][Announced]_svars
  BY DEF DegradedIsAnnounced, Announced
<1> QED  BY <1>1, <1>2, <1>3, <1>4, PTL DEF SSpec
=============================================================================
