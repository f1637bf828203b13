# vigilo-core in TLA+

`vigilo-core` watches an exam candidate through a camera: a capture thread
publishes frames, workers run neural models over them, and a fusion engine turns
the per-frame signals into violations with a start and an end.  What matters is
that a violation is reported when, and only when, the recording justifies it,
that every start gets its end, and that no thread stalls, double-counts or loses
what another one hands over.  These modules model that: the fusion rules, the
worker that owns them and its violation log, the threads with the slots between
them, the sources with the process behind them, a detector as its caller sees it,
and the parts around: labels, latencies, suppression, settings, recordings.
Neural inference appears as the outcomes it may have.

Paths below are relative to the repository (`src/fusion/mod.rs` and so on).

## The system

| Part | State | Operations | What is hard |
| --- | --- | --- | --- |
| Temporal primitives (`src/fusion/temporal.rs`) | time stamps, a flag, a filtered value, a decaying sum | `update`, `decay_to`, `add` | flickers, gaps between frames, boundaries |
| Fusion engine (`src/fusion/mod.rs`) | presence, timers, filters, latches, bucket scores, failure count, open violations | `new`, `step`, `finish` | verdicts depend on long histories; slots that skip, fail or are gated |
| Detect worker (`src/pipeline/workers.rs`, `detect_loop`) | the engine, configuration in use, failure count, cursors | one loop iteration, end of session | hot reload between start and end of a violation; log search |
| Object and identity workers (`object_loop`, `identity_loop`) | own cursor; reference embedding | one loop iteration | results for other frames than the detect worker's; enrolment swapped and stored in two steps |
| Capture (`capture_loop`, `frame_bus.rs`) | one frame slot, counter | publish, end, fail | overwriting readers; end of stream raced by readers |
| Detector (`src/pipeline/mod.rs`) | threads, shared flags, result slots | `start`, `stop`, `enrol`, `update_config`, readers | threads spawned while models load; joins; a second `start`; readers between two writes |
| Capture sources (`src/capture/`) | an ffmpeg process, its two pipes, a thread on one of them, a frame read ahead; or a list of files | `open`, `next_frame`, drop | process dying mid-frame, end against error, a full stderr, the message of a process that died at once |
| Configuration, settings (`config.rs`, `config_store.rs`) | thresholds, a file | `load`, `validate`, `apply_to`, `save` | a refused payload already applied; a crash while the file is written |
| Direction readout (`direction.rs`) | six axis latches | `update` | hysteresis between three states, frames without a reading |
| Report (`report.rs`) | latency window, counters | `record`, `summary` | a full window, a rank at its ends |
| Models (`src/models/`) | sessions | `detect`, `estimate`, `embed` | suppression depends on order, cut and class; the gaze gate |
| Command line (`src/bin/detect-cli.rs`) | rows in a buffer, tallies | live, record, replay | a recorder that fails or is killed; what a share is a share of |

Capture and the three workers share state only through atomics, small mutexes
and swapped pointers: the frame slot (`FrameBus`), the two result slots, `latest`,
the configuration, the flags `stop` and `capture_done`, the log.  Events leave on
an unbounded channel.  Fusion and the direction readout have a single owner, the
detect worker; a source belongs to the capture thread once `start` was called, and
its ffmpeg process to it.  Settings and recordings are used by one thread each.

## Modules

* **`Temporal`** -- the primitives as pure operators.  `Hysteresis` is `Latch`,
  the others keep the source's names.
* **`Fusion`** -- one `FusionEngine`.  `Step(s, gap)` is a whole call of `step()`:
  every rule, in terms of the state the previous rule left, and `apply`; `Finish`
  is `finish()`.  The eight rules with a `HoldTimer` share `AdvanceTimers` and
  differ in `Condition`, as they do in the code.  `Signals` is what `detect_loop`
  can assemble: without a face, pose and gaze read *gated*; a slot with no model
  reads *not_configured*; objects and identity also skip by cadence.
* **`FusionHistory`** -- `Fusion` with an auxiliary record of every signal, so the
  engine's verdicts can be compared with definitions over the whole recording
  that use none of its state.
* **`ViolationLedger`** -- abstract: what a reader of the log is promised (`LSpec`), and
  what of it a hot reload leaves (`LossySpec`: the violations open at a reload are lost
  sight of, the rest is as promised).
* **`FrameStream`** -- abstract: what the frame bus promises between one thread that
  publishes and the readers behind it, up to the last frame and after a stop.
* **`DetectSession`** -- `detect_loop` around `Fusion`: the head of an iteration
  with hot reload, a frame that was read (`FrameDetected`), a frame the face model
  failed on, and the end.  `Ledger` maps it to `ViolationLedger`; `Orphans`, the open rows no
  engine knows of, are what that has lost.
* **`Pipeline`** -- the four threads and their shared state, `start`, `stop` and
  `enrol`.  One action is one access to shared state with the local work around it and
  the counters that go with it: storing a frame and counting it (`CaptureFrame`), taking
  one and counting the missed (`TakeNew`), and storing `latest` after fusion and the log
  (`StoreLatest`, which `DetectSession` and `Lifecycle` take apart) are one step each.
  `pc` holds the place in each loop; `taken` and `answered` only record which calls of
  `enrol` a swap took up and the reference answers.  Whether a worker took a frame, ran or
  published is kept; what it computed is not.  `Stream` maps it to `FrameStream`: the
  labels of a loop are the places of a reader (`PlaceAt`), and threads between their
  look at the flag and what it lets them begin are late for a stop (`PastTheFlag`).
* **`Capture`** -- one source.  The ffmpeg process writes chunks and messages, dies or
  falls silent at any moment; `next_frame` reads what is there, in parts of any
  size; a thread drains stderr.  `OpenCamera` reads a frame ahead, `OpenDirectory`
  lists pictures, `DropSource` is the `Drop`.  Who calls is left to the next module.
* **`Lifecycle`** -- extends `Capture` with a caller: `cmd_live` of the command line,
  which opens a source, starts a detector, polls `is_running`, `latest` and
  `snapshot`, and stops it, and here may open another and start again.  The capture
  thread calls `next_frame` through `Capture`; the detect worker is reduced to the
  order in which it fuses, lists violations and publishes.  The optional workers are
  in `Pipeline` only.  It implements `FrameStream` too, with one reader: what the two
  modules have of the bus agrees, though one has every thread and the other every cause.
* **`Direction`** -- the readout with a record of the angles it was given.
* **`Latencies`** -- the rolling window and its summary.
* **`Suppression`** -- from the cells of a model to the list a worker gets, for faces
  and objects.
* **`Settings`** -- payloads, `validate`, `build`, `update_config`, and the settings file
  line by line, with a write that fails or a crash at any moment.
* **`Recording`** -- `cmd_record` row by row through its buffer, and what `cmd_replay`
  reads and counts; the gaze gate and eye-in-head.
* **`Parts`** -- the last five in one state space: they share nothing, so a behaviour is
  of one of them (`part`).
* **`FusionProofs`**, **`FusionHistoryProofs`** and **`SessionProofs`** (which extend it),
  **`PipelineProofs`**, **`LifecycleProofs`**, **`DirectionProofs`**, **`SettingsProofs`** and
  **`PartsProofs`** (which extends the last two) -- theorems.
* **`MCFusion`, `MCFusionHistory`, `MCDetectSession`, `MCLifecycle`, `MCParts`** -- constants
  for TLC.  `Pipeline`'s constants fit in its configuration files.

### Abstractions and their consequences

* Time is in ticks and only gaps matter.  Angles are whole degrees, scores
  hundredths; the filter and the decay round down, and `ScoreMatchesRecording`
  allows for it.  The share of a score that survives a gap is the constant
  `Retained`, given to TLC as a table of a half-life of two ticks.
* Between two frames the worker read, the clock moves by a positive gap in
  `DetectSession` (the loop holds its cadence, at least a millisecond).  `Fusion`
  itself and its theorems also allow a gap of zero.
* A frame the face model fails on does not reach fusion (`workers.rs:289-302`), so
  `Signals` always has a face reading.
* Memory accesses in `Pipeline` are sequentially consistent, although the code
  uses relaxed atomics for the flags.
* Severity, contributing signals, wording, logging, latencies and frame rates are
  left out; no rule reads them.
* In `Capture` a frame is a few chunks, a picture its verdict (`picture`, `resized`,
  `undecodable`), a message a number.  Device listings, formats, pacing and the size
  of frames are left out; a source that cannot be opened is `Refuse`.
* A killed process has released its pipes when `wait` returns.  `ReadFails` stands for
  any error of a read that is not the end of the stream.
* `Lifecycle` takes the head of `detect_loop` in one step (`Pipeline` has the accesses)
  and does not have fusion's verdicts: `active` is the frame whose step the list of
  violations reflects.
* `Settings` keeps four of the sixty settings, those whose place in the file or in
  `validate` matters.  A line that was being written when the program died is no
  line, or a value that lost its last digits; so may a line be whose write failed
  (`SaveFails`).  Nothing of the library forbids a
  caller to ignore an error of `apply_to`, so the model's caller may.
* In `Suppression` two boxes overlap by more than the threshold when their places are
  at most one apart, the smallest relation that is not transitive.  Scores are
  numbers: NaN, which the comparison in `nms` treats as equal to everything, is left
  out, and so is the rounding of a percentile's rank in `Latencies`.  A cell stands for its
  most probable class: the choice of it and the early reject by objectness
  (`objects.rs:267-270`) are left out, so `KeptIsKernel` says that a class does not lose to
  another between cells, and nothing of the classes inside one.
* `Latencies` assumes a window of at least one sample, or none at all (unbounded).  With
  a window of 0 the loop at `report.rs:117` would not end; no caller asks for one.
* `Direction` takes its angles in degrees, leaving out the conversion of gaze from radians
  (`direction.rs:201-212`), and assumes that the exit bar is above the negated enter bar.  `validate` does
  not ask for it, and without it a swing to the far side counts as staying.
* A source in `Pipeline` gives numbered frames starting at 0, as every source of
  the repository does, and then ends, fails, or goes on for ever unobserved
  (`CaptureBeyondBound`), so a long-lived camera is not mistaken for one that ends.

## Runs

| Run | Bounds | Shows |
| --- | --- | --- |
| `fusion_presence` | six ticks, gaps of 1 and 2, faces 0 to 2, pose model, two configurations (holds and clears of 0 to 4 ticks) | `OpenMatchesLatch`, `OneAbsenceVerdict`, `TimersMatchRecording`, `MinimumDuration` |
| `fusion_models` | six ticks, gaps of 1 and 4 (past the filter's reset), three angles around both thresholds, four detection results (two labels of one bucket at once, one below the floor), scores below, between and above the identity bars; each model on its own | `TypeOK`, `TurnsWereMeasured`, `ScoreMatchesRecording`, `AccusationNeedsSightings`, `IdentityMatchesRecording`, `IdentityEdges` |
| `session_ledger` | six ticks (two violations of one stream), holds of 1, one failing frame | `LedgerSpec`: the refinement of `ViolationLedger` |
| `session_reload` | five ticks, two reloads, four failures in a row | `STypeOK`, `ReloadLedgerSpec` (the refinement of `ViolationLedger` that loses what a reload loses), `DegradedIsAnnounced` |
| `pipeline_safety` | three frames, both optional models, each loading or not | `TypeOK`, `AttachedOnce`, `FramesAccountedFor`, `StreamSpec` (the refinement of `FrameStream`) |
| `pipeline_ends` | two frames, two calls of `enrol` | `StopReturns`, `SourceEndDrains` under fairness; `WindsDown`, `EnrolmentNotLost`, `NoScoreBeforeEnrolment` |
| `lifecycle` | two sources of any kind in a row, frames of two chunks, four chunks, two messages, room for two chunks on stdout and one message on stderr; four directories with good, resized, undecodable and other entries | `TypeOK`, `FramesAreWhole`, `StreamSpec`, `EndIsExplained`, `LossIsAnError`, `NoOrphan`, `SnapshotNotOlder`, `StopIsFinal`; `StopReturns` and `LossIsNoticed` under fairness |
| `parts` | three frames of readings around and past both bars, three pairs of bars; windows of 1, 3, 20 and unbounded, workloads of up to 24 samples; up to three cells of 14 kinds, two limits; two saves of three payloads (one invalid), any failed write or crash; two frames, six faces at the edges of the gate, four sets of models | `DirectionMatchesRecording`, `SummaryDescribesWindow`, `KeptIsKernel`, `InForceIsValid`, `LoadedIsOneSave`, `ReplayIsFaithful`, `GazeIsAccountedFor` |
| `find_reload` | one reload | `EveryViolationEnds` fails |
| `find_blinking` | gaze only | `BlinkingIsNotCompliance` fails |
| `find_consecutive` | identity only | `AccusationIsConsecutive` fails |
| `find_one_frame` | no optional model | `LastFrameIsRead` fails |

Six ticks let every timer fire, clear, and fire again with holds of one to two
ticks, and let a violation outlast a gap longer than the filter's reset; the rules
do not read each other's state, so each family is run with the others quiet.
Three frames are the smallest number for which a result can be taken and offered
again: frame 0 is never handed out, and the other two are.  Two calls of `enrol` are the
fewest of which one can come after the swap that took up the other and before its
reference is stored.

In `lifecycle`, two sources are a second `start`, or one after a refused open; frames
of two chunks can be cut in the middle; two messages with room for one block
ffmpeg on its stderr; two frames are one read ahead and one read by the thread.
In `parts`, three cells are the fewest for which what is kept depends on the order
(the middle one suppressed by the first must not suppress the last), two saves are
the fewest that could be mixed, three frames take a label in, hold it and drop it,
and windows of 1, 3, 20 and unbounded under 24 samples are overrun, never full,
and long enough for p95 and p99 to differ from the maximum or be it.

Deadlock is not checked because everything modelled ends: after `finish()`, after the
threads have left and no source is opened any more, after a recording is replayed.

**Fairness.**  `Pipeline!Fairness`: weak fairness of each thread, of `start` and of the
joins.  Each thread is a loop without a lock held across an iteration, so the
scheduler is all it needs; capture's share includes that `next_frame` returns.
`Lifecycle!Fairness` replaces that by its causes: weak fairness of the caller's code, of
the capture thread inside and outside `next_frame`, of the worker, of the thread on
stderr, and of the ffmpeg process, which goes on when its pipes let it and nothing
made it silent.  Falling silent, having something to say and an error of a read are
never obliged to happen, nor is opening another source.  A camera that is silent
without closing its stream does hold the capture thread, and with it `stop()`;
`StopReturns` names that exception and has no other, so it does not count as covering
that hang: the hazard at `mod.rs:483` is listed without a property.  Nothing obliges a caller to stop,
reload or enrol.

### What disagrees

* **Hot reload loses ends** (`workers.rs:119-125`).  The engine is replaced with its
  open violations; their log rows stay open and no end is sent.  The comment at
  `workers.rs:313-315` says why that is not acceptable at the end of a session.
  What does survive a reload is checked and proved (`ReloadLedgerSpec`): nothing but the
  violations open at one is lost, and the others are still closed once, by their own
  end.  The new engine also starts in
  `Presence::NeverSeen`, so an absence right after a reload is reported as a candidate
  who was never there (`NeverSeenIsNeverSeen` in `DetectSession`, the same cause).
* **Gated frames restart the gaze hold** (`fusion/mod.rs:396`), so blinking reads as
  compliance, which the comment at 389-392 rules out.
* **"Consecutive" failures need not be** (`fusion/mod.rs:586-590` against
  `config.rs:512`).
* **Frame 0 is never read** (`frame_bus.rs:56`): a cursor at 0 cannot tell it from
  the empty frame.  A one-frame source ends unread.

Those four are runs.  `Pipeline` also states three claims of comments that its threads
break (`ResultsFollowTheirFrame`, `StillRunning`, `EnrolsAFace`); they are listed among
the hazards of `PROJECT.json`.  Met while modelling, and described only:

* **A camera may end like a file** (`ffmpeg.rs:170`).  A stream that dies inside a frame
  returns `Ok(None)` whatever the source, although `capture/mod.rs:130-131` and
  `workers.rs:61-67` say that a camera never does: the session ends as exhausted, with
  no error.  `LossIsAnError` is what holds, with the exception (`cut`) in it.  While a
  camera is being opened, the open then succeeds without a frame.
* **A second `start` does nothing** (`mod.rs:341-344`): after `stop()` the flags stay set,
  the new threads leave at once, and no error says so.  `StopIsFinal` states it.
* **Some cadences change at runtime** (`config.rs:893-896` says none does): a reload
  recomputes the face period (`workers.rs:124`).  What loaded models copied --
  `min_score`, the suppression threshold, the gaze gate's bar -- stays.  `start()` loads
  models from the configuration `build()` was given, so an `update_config` between
  the two reaches fusion and not them.
* **A torn settings file may load** (`config_store.rs:22-25` has a corrupt file count as
  absent): a prefix that ends after the last section header parses, with defaults
  for the rest and possibly a shorter number at its end.  `LoadedIsOneSave` says
  exactly how much of it can be wrong.
* **A refused payload has been applied** (`config.rs:950-954`): `apply_to` writes before it
  validates.  `update_config` validates again, so `InForceIsValid` holds.
* **`validate` admits** an exit bar at or below the negated enter bar, bars that are
  NaN, and zero consecutive failures; with zero, an identity verdict may fall
  without a failure before it, which `IdentityEdges` leaves out.
* **The report** (`mod.rs:564-627`): the active fraction of objects divides the samples of
  a rolling window by the frames of the whole session, so it shrinks for ever;
  pose, gaze and identity always read inactive; `violations` is always empty; and
  the failures a session survives reach the event channel only, although
  `error.rs:1-6` has them recorded in the report.
* **"remote" is named twice and kept once** (`config.rs:491`, 495): the default buckets of
  fusion count it, the default allowlist of the object model drops it.  Two defaults that
  disagree, with no state behind them.
* **`--max-frames 0` writes one frame** (`detect-cli.rs:659`): the bound is compared after the
  row is written.

## Proofs

`FusionProofs` proves, for every set of configurations that passes `validate`
(with a positive object bar), every set of inputs, every decay table of percentages
and every bound on time:

* `TypeCorrect` -- `Spec => []TypeOK`.  The work is in the operators (`HoldUpdateType`,
  `EmaUpdateType`, `AddEvidenceType`, `IntensityType`) and in `BestIsGreatest`: a set of
  percentages has a greatest element, from the well-foundedness of the naturals.
  A stamp is a natural or `Never`; without that the decay table would be consulted
  outside its range.
* `OpenFollowsLatch` -- `Spec => []OpenMatchesLatch`.  Not inductive alone: a stream
  open with no start time could be closed by a refreshed confidence.  `LatchInv`
  adds that open streams are stamped and that nothing is open after `finish()`; each
  edge of `apply` is one case (`ApplyCases`).
* `NeverSeenExcludesNoFace` -- `Spec => []OneAbsenceVerdict`.  `AbsenceInv` adds what
  the two timers say before the first face: `never_seen` can only be fired then, as
  its clear hold is zero, and `no_face` cannot.
* `ViolationsLastTheirClear` -- `Spec => MinimumDuration`, from `DurationInv`: the absence
  a timer is counting began after the violation it would end.
* `BucketsFollowEvidence`, `IdentityMovesOnChecks` -- the action properties of the object
  buckets and of identity, each by cases on what the slot reported (`BucketsJudged`,
  `IdentityJudged`).  A bucket without evidence only decays, and a decayed score is
  no greater, so it cannot pass the bar on its way up.

The assumptions are `ConfigAssumption`, `InputAssumption` and `DecayAssumption` in `Fusion`;
TLC evaluates them on every run over `Fusion`.

`PipelineProofs` proves every invariant the runs of `Pipeline` check, for any number
of frames and enrolments, any set of faced frames, and every interleaving.  No
assumption on the constants is needed beyond their being sets and numbers.

* `TypeCorrect` -- `Spec => []TypeOK`: each thread stays on the labels of its own loop.
* `SpawnOrderHolds` -- threads that are not spawned yet have no place.  Without it,
  `start()` could be thought to drop the frame or the enrolment of a running worker.
* `FramesAreAccountedFor` -- inductive with the two above.
* `WorkersDrain` -- `DrainedBeforeExit` says nothing of a worker about to leave, so it
  is not inductive.  `DrainInv` adds that no cursor passes the slot, that a worker
  asking whether the slot is drained has seen `capture_done`, and that capture
  raises it as its last step: the slot is final by then.
* `UnenrolledIsUnscored` -- from what one step of the identity worker may do to the
  reference and its result (`IdentitySteps`).
* `EnrolmentIsKept` -- no call of `enrol` is lost, the second or the tenth no more than the
  first.  `EnrolInv` is the inductive part: while no request is pending the swap has
  taken up the last call, and unless a reference is about to be stored the enrolled
  one answers all that was taken up (`IdentityEnrols` has the steps).
* `PipelineIsFrameStream` -- `Spec => StreamSpec`.  Each step of a thread is a step of
  `FrameStream` or a stutter, by its label (`GotoPlaced`, `PlaceTable`).  The invariants
  above do the rest, with `StreamInv`: as many frames were captured as the next one's
  number says, and a worker not spawned yet has no cursor and no result.
* `ThreadsWindDown`, `StepsLeftAreFew` -- the safety half of the liveness that TLC checks.
  `StepsLeft` counts the steps the threads may have left; after a stop or the end of the
  source every step of a thread makes it less (`Spec => WindsDown`), and it is never
  more than 54.  So no thread can keep another from leaving, and what is left
  to fairness is that each is scheduled.  `StopInv` (a stop comes after every spawn) keeps
  a worker from being added to the count.
* `ResultsAttachOnce` -- `AttachInv` adds that the cursors are past every attached
  result, so one that counts as new was never attached.

`FusionHistoryProofs` compares the engine with the whole recording, of any length, under the
assumptions of `Fusion`.  The definitions over the recording are existentials over its
frames, so each invariant names, for the state a rule keeps, the frames it stands
for, and one more frame only moves the last of them; no induction over data is
needed.  `RecordingInv` (the recording is typed, its times go forward and are none of them
in the future) is common to them.

* `RecordedSessionIsSession` -- `HSpec => Spec`: the recording observes the engine and does
  not steer it, so what is proved with it holds of the engine.
* `TimersTellTheRecording` -- `HSpec => []TimersMatchRecording`.  `TimersInv` says of each
  timer that its stamp is the start of the present run of frames with its condition
  (`RunFrom`), or of the run without it, and that its flag is what the recording
  says (`HeldOn`).  What `presence` says is first tied to the recording
  (`PresenceTells`), as two conditions read it.
* `TurnsComeFromMeasurements` -- `HSpec => []TurnsWereMeasured`.  `TurnInv` adds that as long as no angle
  past the bar was measured, neither the latch nor the smoothed angle is past it
  (`FilterTells`; a blend of two numbers is between them, `BlendWithin`), and that a hold
  being counted began in the present run of measured frames (`HoldWasMeasured`).
* `AccusationCountsFailures` -- `HSpec => []IdentityMatchesRecording`.  `IdentityInv`: the counter
  is the number of failed checks since the last recovery.  With zero consecutive
  failures, which `validate` admits, the accusation stands with none, so the property
  leaves that out, as `IdentityEdges` does.
* `SightingsCarryAccusations` -- `HSpec => []AccusationNeedsSightings`.  `SightingsInv` has
  every score carried by the sightings so far, at one whole point each, and the verdict
  by those it rose on: a share of a score is no greater (`ShareWithin`), a frame adds at
  most a point however many boxes it has, and one without the bucket adds nothing.

`SessionProofs` carries the invariants of `Fusion` into `DetectSession`, under the
assumptions of `Fusion` and `SessionAssumption` (positive gaps).  A frame and the end of a
session do the same to the log: violations start, and open ones end, at a time
later than any in it (`Report`).

* `OpenViolationsAreLogged`, `RowsStayDisjoint` -- any number of reloads.  `Booked` is the
  inductive part: an open violation has its open row, the closed rows of its stream
  ended before it began, and every time in the log is past, so a new time finds
  none of them.
* `SessionTypeCorrect` -- `SSpec => []STypeOK`.
* `DegradedWindowsAreAnnounced` -- `SSpec => DegradedIsAnnounced`, from `FlagTells`: the flag
  stands exactly when three frames or more in a row have failed.
* `UnreloadedViolationsEnd`, `LogIsLedger` -- with no reload.  `Kept` adds that the open rows
  are those of open violations and nothing else; then the log empties of them at
  the end, and each step of the worker is a step of `ViolationLedger` or a stutter.
  With a reload both fail, as `find_reload` shows, so the assumption is needed.
* `LogIsLossyLedger` -- `SSpec => ReloadLedgerSpec`, with any number of reloads.  A reload is
  `Lose`: the new engine has nothing open, so every open row is an orphan then; any
  other step leaves the orphans alone, as an end is looked for by the start of a
  violation the engine holds.
* `LedgerPromisesKept` -- the safety of the abstract module, of the log: violations of one
  stream that are not lost never overlap, none is left open at the end, closed
  rows are final.

`LifecycleProofs` proves every safety property of `lifecycle`, for
sources of any length, frames of any number of chunks, pipes of any size and any
number of sources.  Everything rests on who may touch the source (`Places`): its
opener, then the capture thread, never both.  The parts after it are independent:

* `OneSession` -- `Spec => StopIsFinal`, from `Finished`: after `stop()` the flag stays up, and
  every thread spawned then looks at it before anything else.
* `ErrorsAreExplained` -- `Explained`: an error of a stream is made only after the thread on
  stderr was joined, and that thread ends only when all was drained.
* `NoProcessOutlives` -- `Reaped`: a source that is closed, refused or dropped has no process.
* `LossesAreErrors` -- `Ends`: what a source must have gone through for its end to be
  returned, among it that the process was not killed by the reader itself.
* `NumbersFollow` -- `Numbered`: the number of the next frame, less the one read ahead,
  is the number of frames published.
* `FramesStayWhole` -- `InStep`: what was read of the stream is whole frames and the part
  of one being filled.
* `SnapshotsAreFresh` -- `Fresh`: the worker lists violations before it publishes, and a
  snapshot reads in the opposite order.
* `LifecycleIsFrameStream` -- `Spec => StreamSpec`.  `Streamed` adds to the numbering that the
  slot has the newest frame, that the worker is not ahead of it, and that capture is
  not called again once it was done, but for a session after a stop.
* `ValuesStayTyped` -- `Spec => []TypeOK`.  `CountsInOrder` adds that the part of a frame that
  is held has been read, so a frame's first chunk has a number.  Its hypothesis,
  `PicturesAreEntries`, is a fact about the library's `SelectSeq`, into which no prover
  sees: filtering a sequence of entries gives a sequence of entries.  It is true of all
  directories; TLC evaluates it on those of `lifecycle`.

`DirectionProofs` proves `LabelsFollowRecording`, `DirectionMatchesRecording` for recordings of
any length and any bars with `DirectionAssumption`.  The definition over the recording
is an existential, so no induction over data is needed: a frame either holds the label
(`HeldStep`) or sets it (`LabelStep`).

`SettingsProofs` proves, for any payloads, any number of saves and a failed write or a
crash at any step,
`SavesAreNotMixed`, from `OneSave` (the file is a prefix of the last payload and at most
one cut line), and `ForceIsValidated`.

`PartsProofs` first proves that a behaviour of `Parts` is one of each part (`PartsCompose`), then:

* `ReplaysAreFaithful`, `GazeRowsAreAccountedFor` -- for recordings of any length, a buffer
  that is flushed at any moment, and a recorder that dies at any step.  In `CorpusInv`
  the rows on disk and in the buffer are, one after the other, the first rows
  computed (`RowsAccounted`), and how it ended tells how many (`EndTold`).
* `SuppressionKeepsKernel` -- for any number of cells, any classes, places and limits.  The
  sort is a ranking: in a finite set with a strict order every rank is taken by one
  element (`RankIsPlace`, from the injection of elements into ranks), so the queue
  after the cut is the contenders, best first (`DecodeStep`).  `HalfDone` says of every
  turn of the loop that the cells judged so far are before the waiting ones and are
  kept exactly when nothing kept beats them; the one judged next cannot change that,
  as it beats none of those before it.
* `SummariesDescribeTheWindow` -- for any workload and any window.  `LatenciesInv`
  has the samples as the last ones given (`WindowIsRecent`); the sort moves them one to
  one (`SortedIsSorted`, again by `RankIsPlace`), so as many are at or below a sorted
  sample as its place says, and fewer below it (`PlaceCounts`); the nearest rank is the
  least place with the share (`RankIsNearest`).  The sum of the mean is not read.

Model-checked only:

* `ScoreMatchesRecording` of `FusionHistory`: it sums over a recording of any length, which
  is induction over data, and its rounding bound is a fact about the decay table given
  to TLC, not about every table of percentages;
* liveness (`StopReturns`, `SourceEndDrains`, `LossIsNoticed`), which is out of the prover's
  reach.

## Plan

1. Done: the engine, the session around it, the threads, the sources and the
   detector as its caller sees it, the direction readout, settings, latencies,
   suppression, recordings; every invariant and action property the runs check is
   proved but `ScoreMatchesRecording`.
   `Pipeline` and `Lifecycle` are both shown to implement `FrameStream`.
2. `ScoreMatchesRecording` with a rounding bound for every decay table, if the sum over a
   recording is restated without one.

## Not modelled

* Tensor decoding, inference, alignment of crops and the angles of a rotation matrix
  (`src/models/`): floating-point arithmetic with no control of its own.  Their outcomes
  are inputs of the modules above.
* `SessionReport` (`mod.rs:564-627`): a copy of counters; what is wrong with it is above.
* Listings of devices and their formats, the pacer, pixel conversion (`src/capture/`).
* `Config::load` and `fill_missing_from_dir`: plain reads before anything runs.
* `devices`, `inspect`, `bench`, `config`, the syntax of expectations and all printing of the
  command line.
