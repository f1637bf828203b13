---------------------------- MODULE DetectSession ----------------------------
(***************************************************************************)
(* The detect worker (detect_loop in src/src/pipeline/workers.rs) around   *)
(* the fusion engine it owns, over one session: the iterations of its      *)
(* loop, hot reload of the configuration, frames the face model fails on,  *)
(* the violation log, and the end of the session.  How frames reach the    *)
(* worker is the business of module Pipeline: here an iteration finds a    *)
(* new frame or does not.                                                  *)
(***************************************************************************)
EXTENDS Fusion

CONSTANTS
  MaxReloads,    \* bound on calls to Detector::update_config
  MaxFailures    \* bound on consecutive failures of the face model

ASSUME SessionAssumption ==
  /\ MaxReloads \in Nat /\ MaxFailures \in Nat
  \* two frames are at least a millisecond apart: the loop holds its cadence
  /\ \A gap \in Gaps : gap > 0

VARIABLES
  pc,            \* where the loop is: "top", "take" or "done"
  sharedCfg,     \* shared.config
  stale,         \* shared.config is not the Arc the worker holds
  reloads,       \* calls to update_config so far
  log,           \* violation_log, as the set of its rows
  active,        \* active_violations
  faceFailures,  \* consecutive_failures
  degraded,      \* the worker's flag
  notices,       \* what the last iteration sent besides violations
  faceSeen       \* auxiliary: some frame of the session showed a face

worker == <<pc, sharedCfg, stale, reloads>>
books == <<log, active, faceFailures, degraded, notices, faceSeen>>
svars == <<vars, worker, books>>

SInit ==
  /\ Init
  /\ pc = "top"
  /\ sharedCfg = cfg
  /\ stale = FALSE
  /\ reloads = 0
  /\ log = {}
  /\ active = {}
  /\ faceFailures = 0
  /\ degraded = FALSE
  /\ notices = {}
  /\ faceSeen = FALSE

-----------------------------------------------------------------------------
\* Mutant: update_config stores what it was given without validating it.
UpdateConfigUnchecked(c) ==
  /\ pc # "done"
  /\ reloads < MaxReloads
  /\ sharedCfg' = [c EXCEPT !.clearScore = c.enterScore + 1]
  /\ stale' = TRUE
  /\ reloads' = reloads + 1
  /\ UNCHANGED <<vars, pc, books>>

\* Detector::update_config, by any thread at any time.  The worker compares
\* pointers, so storing an equal configuration is a change too.
UpdateConfig(c) ==
  /\ pc # "done"
  /\ reloads < MaxReloads
  /\ sharedCfg' = c
  /\ stale' = TRUE
  /\ reloads' = reloads + 1
  /\ UNCHANGED <<vars, pc, books>>

\* fusion = FusionEngine::new(&current_cfg): the old engine is dropped as it is.
ReplaceEngine(c) ==
  /\ cfg' = c
  /\ presence' = "never_seen"
  /\ timer' = NewTimers
  /\ ema' = NewFilters
  /\ gate' = NewGates
  /\ score' = NewScores
  /\ bucketActive' = NoBuckets
  /\ failures' = 0
  /\ identityActive' = FALSE
  /\ open' = NothingOpen

\* The iteration goes on: reload if the configuration was replaced.
CheckConfig ==
  /\ pc = "top"
  /\ pc' = "take"
  /\ stale' = FALSE
  /\ UNCHANGED <<configured, sharedCfg, reloads, now, events, finished, books>>
  /\ IF stale THEN ReplaceEngine(sharedCfg) ELSE UNCHANGED engine

\* take_new returns None.
NoNewFrame ==
  /\ pc = "take"
  /\ pc' = "top"
  /\ UNCHANGED <<vars, sharedCfg, stale, reloads, books>>

\* Mutant: rows are found by their stream alone.
SameStream(row, v) == row.key = v.key

\* A start is replaced by its own end: rows are found by key and start time.
SameRow(row, v) == row.key = v.key /\ row.tStart = v.tStart

RowOf(v) == [key |-> v.key, tStart |-> v.tStart, tEnd |-> v.tEnd]

FrameDetected(s, gap) ==
  /\ pc = "take"
  /\ pc' = "top"
  /\ Step(s, gap)
  /\ log' = {row \in log : ~\E v \in events' : SameRow(row, v)}
              \union {RowOf(v) : v \in events'}
  /\ active' = {key \in Keys : IsOpen(key)'}
  /\ faceFailures' = 0
  /\ degraded' = FALSE
  /\ notices' = IF degraded THEN {"recovered"} ELSE {}
  /\ faceSeen' = (faceSeen \/ s.faces > 0)
  /\ UNCHANGED <<sharedCfg, stale, reloads>>

\* Mutant: the degraded window is announced again on every failing frame.
FrameFailedRepeats ==
  /\ pc = "take"
  /\ faceFailures < MaxFailures
  /\ pc' = "top"
  /\ faceFailures' = faceFailures + 1
  /\ degraded' = (faceFailures' >= 3)
  /\ notices' = IF degraded' THEN {"degraded"} ELSE {}
  /\ UNCHANGED <<vars, sharedCfg, stale, reloads, log, active, faceSeen>>

\* models.face.detect_timed errs: nothing reaches fusion.
FrameFailed ==
  /\ pc = "take"
  /\ faceFailures < MaxFailures
  /\ pc' = "top"
  /\ faceFailures' = faceFailures + 1
  /\ degraded' = (degraded \/ faceFailures' >= 3)
  /\ notices' = IF degraded' /\ ~degraded THEN {"degraded"} ELSE {}
  /\ UNCHANGED <<vars, sharedCfg, stale, reloads, log, active, faceSeen>>

\* stop, or nothing new after the capture ended: close what is open and leave.
EndOfSession(gap) ==
  /\ pc = "top"
  /\ pc' = "done"
  /\ Finish(gap)
  /\ log' = {row \in log : ~\E v \in events' : SameRow(row, v)}
              \union {RowOf(v) : v \in {e \in events' : \E row \in log : SameRow(row, e)}}
  /\ active' = {}
  /\ UNCHANGED <<sharedCfg, stale, reloads, faceFailures, degraded, notices, faceSeen>>

SNext ==
  \/ \E c \in Configs : UpdateConfig(c)
  \/ CheckConfig
  \/ NoNewFrame
  \/ \E s \in Signals, gap \in Gaps : FrameDetected(s, gap)
  \/ FrameFailed
  \/ \E gap \in Gaps : EndOfSession(gap)

SSpec == SInit /\ [][SNext]_svars

-----------------------------------------------------------------------------
(* Properties                                                              *)

STypeOK ==
  /\ TypeOK
  /\ pc \in {"top", "take", "done"}
  /\ sharedCfg \in Configs
  /\ stale \in BOOLEAN
  /\ reloads \in 0..MaxReloads
  /\ log \subseteq [key : Keys, tStart : Nat, tEnd : Nat \union {Never}]
  /\ active \subseteq Keys
  /\ faceFailures \in 0..MaxFailures
  /\ degraded \in BOOLEAN
  /\ notices \subseteq {"recovered", "degraded"}
  /\ faceSeen \in BOOLEAN

\* Open rows that no engine knows of: their violations were open at a reload.
Orphans ==
  {row \in log : row.tEnd = Never /\ ~(IsOpen(row.key) /\ row.tStart = open[row.key].tStart)}

Ledger == INSTANCE ViolationLedger
            WITH Streams <- Keys, Times <- 1..MaxTime,
                 rows <- log, lost <- Orphans, clock <- now, ended <- finished

\* Without a reload, the log is the ledger a reader of the session expects
\* (workers.rs:250-266, 313-331).
LedgerSpec == Ledger!LSpec

\* With any number of them, it is that ledger but for the violations open at a
\* reload, whose rows stay open: the others are still closed once, by their own
\* end, and a stream that is lost may start again (workers.rs:122-126, 250-266,
\* 313-331).
ReloadLedgerSpec == Ledger!LossySpec

\* Whatever happens, reloads included, a violation the engine holds open has
\* its own open row, so its end will find it (the search by key and start
\* time, workers.rs:255-262 and 319-325).
EngineRowsInLog ==
  \A key \in Keys :
    IsOpen(key) => \E row \in log :
      row.key = key /\ row.tStart = open[key].tStart /\ row.tEnd = Never

\* Reloads included, ended rows of one stream never overlap and never run
\* backwards: a row once closed is final, and a stream's next row starts after
\* its last closed one ended.
ClosedRowsAreDisjoint ==
  \A r1, r2 \in {row \in log : row.tEnd # Never} :
    /\ r1.tStart < r1.tEnd
    /\ r1.key = r2.key /\ r1 # r2 => r1.tEnd < r2.tStart \/ r2.tEnd < r1.tStart

\* A degraded window is announced once, when the third frame in a row fails,
\* and the first frame the face model reads again announces the recovery
\* (workers.rs:137-144, 289-302): the notices on the channel alternate.
DegradedIsAnnounced ==
  [][LET sent(notice) == notice \in notices' /\ pc = "take" /\ notices' # {}
                           /\ (faceFailures' # faceFailures)
     IN  /\ sent("degraded") => faceFailures < 3 /\ faceFailures' = 3
         /\ sent("recovered") => faceFailures >= 3 /\ faceFailures' = 0
         /\ faceFailures' = 3 /\ faceFailures = 2 => sent("degraded")
         /\ faceFailures' = 0 /\ faceFailures >= 3 => sent("recovered")]_svars

\* workers.rs:313-315: "Close anything still open. A session that ends
\* mid-violation would otherwise record a start with no end".
EveryViolationEnds ==
  pc = "done" => \A row \in log : row.tEnd # Never

\* types.rs:313: NeverSeen is "A face was never seen at all"; its event says
\* "no face has ever been detected" (mod.rs:292).
NeverSeenIsNeverSeen ==
  faceSeen => ~IsOpen(NeverSeen)
=============================================================================
