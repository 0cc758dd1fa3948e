# EdgeAI defect inspection: specifications

TLA+ specifications of the C++ core of this repository (`src/include/edgeai`, `src/src`) and of
the dashboard that reads its data, checked with TLC on small instances and, where section 5
says so, proved with TLAPS for every value of the constants. File names below are relative to
the repository root; line numbers of every definition are in `PROJECT.json` under `map`.

## 1. The system

One process inspects parts on a conveyor. `main.cpp` builds the parts below, starts the
pipeline, polls it once a second and stops it on a signal or when a run has ended.

| Component | State | Operations | Talks to |
|---|---|---|---|
| `BoundedQueue` (`pipeline/frame_queue.h`) | deque, `stopped_`, mutex, two condition variables | push, pop, try_pop (with deadlines), stop, reset | capture thread pushes, inference thread pops, caller stops and resets |
| `DefectPipeline` (`pipeline/defect_pipeline.cpp`) | `running_`, four threads, statistics, heartbeat, display slot | initialize, start, stop, the four loops | everything |
| `CameraManager` (`camera/camera_manager.cpp`) | the OpenCV capture, video mode, frame counter | open, close, grab_frame, is_open | the capture thread; the caller opens and closes it |
| `OnnxEngine`, `Postprocessor`, `DecisionEngine` | thresholds, the loaded model | infer, process, apply_nms, decide | inference thread |
| `DefectDatabase` (`db/defect_database.cpp`) | two SQLite tables, one connection, a mutex | insert_result, prune, reading queries | inference thread; the dashboard reads the file from another process |
| `GpioController` (`io/gpio_controller.cpp`) | pending flag, stop flag, a worker thread, the pin | initialize, trigger_reject, cleanup | inference thread triggers, destructor cleans up |
| main program (`main.cpp`) | the stop flag of the signal handler, the objects it builds | parse_args, run_single_image, run_pipeline, main, signal_handler | builds, starts, polls, stops and destroys the pipeline |
| `ConfigLoader` (`common/config_loader.h`) | none | load | main, once |
| `Logger` (`common/logger.h`) | one file and its backups, a mutex | set_file, log | everyone |
| dashboard (`python/dashboard/app.py`) | none | the `/api` endpoints | reads the database and the image files from another process |
| timers, capture tool, benchmark, training scripts | none that the core reads | | the model file |

What is hard in it:

* *Threads.* Five threads share a queue, an atomic flag, a display slot and a heartbeat; the
  GPIO controller adds a sixth. Each wait has its own way to end (notification, deadline, flag).
* *Shutdown.* `stop()` must get four threads out of any state and finish the frame in hand.
  It may race ESC in the display window, which clears the same flag.
* *Partial failure.* Inserting, rejecting and counting a frame are separate steps, each of
  which can fail or throw; nobody looks at the results of COMMIT, of the DELETEs, or of a
  write to the pin.
* *Crashes.* The database is written statement by statement and read by another process; image
  files are written and removed apart from the rows that name them; the log is rotated by a
  chain of renames.
* *Ways out.* A failed initialization, the end of a video, ESC, a signal at any moment: each leaves
  other parts open, and the destructors have to find all of them.
* *Unstable input to an order-sensitive loop.* NMS runs over a sort that is not stable.

What makes each component correct is stated by its properties, section 4. The full list of
what can go wrong, by line, is `hazards` in `PROJECT.json`, with the properties that would
catch it or the reason why none does.

## 2. Modules

| Module | Models | Checked by | Proved in |
|---|---|---|---|
| `FrameChannel` | what the queue promises: a bounded FIFO channel that can be closed and cleared | as a property of `FrameQueue` | implemented: `FrameQueueProofs` |
| `FrameQueue` | `BoundedQueue`, one step per critical section | `MCFrameQueue` | `FrameQueueProofs` |
| `PipelineThreads` | what the program relies on the pipeline for: threads that test `running_` between rounds of work, and a `stop()` that joins them | as a property of `DefectPipeline` | implemented, fairness apart: `DefectPipelineProofs` |
| `DefectPipeline` | `DefectPipeline` with its four threads, over a `FrameChannel` | `MCDefectPipeline` | `DefectPipelineProofs` |
| `GpioController` | `GpioController`, caller and worker | `MCGpioController` | `GpioControllerProofs` |
| `DefectDatabase` | the writing side of `DefectDatabase`, one SQL statement per step | `MCDefectDatabase` | `DefectDatabaseProofs` |
| `Inspection` | model output to verdict | `MCInspection` | `InspectionProofs` |
| `Records` | image files next to the rows of `DefectDatabase`, restarts of the process, the dashboard as a reader | `MCRecords` | `RecordsProofs` |
| `CameraManager` | `CameraManager`: live, video, looped video | within `Inspector` | within `InspectorProofs` |
| `ConfigLoader` | `ConfigLoader::load` as an operator from a file to the settings | within `Inspector` | `InspectorProofs` |
| `Inspector` | `main.cpp`, over `PipelineThreads`, `CameraManager` and `ConfigLoader` | `MCInspector` | `InspectorProofs` |
| `Logger` | `Logger`, one file operation per step | `MCLogger` | `LoggerProofs` |

**Composition.** `DefectPipeline` instantiates `FrameChannel`, not `FrameQueue`: every step of
the queue's clients is one step of the channel, and `FrameQueue` is shown to implement the
channel (run `frame_queue`, theorem `QueueImplementsChannel`). The pipeline sees the store and
the rejector through what their calls can do: an insert that may fail, a prune that may fail,
a trigger that returns at once. `Inspection` is what the pipeline's step `Infer` stands for.
`Inspector` in turn instantiates `PipelineThreads` for the pipeline, which `DefectPipeline` is shown
to implement (`ImplementsThreads` of run `pipeline_shutdown`: liveness included), and `CameraManager` for
the camera; a round of its capture thread is a `grab_frame()`. `Records` extends `DefectDatabase` by the
thread that calls it and by the files that thread writes.

Each of these seams is a theorem, fairness apart. `QueueImplementsChannel`: the queue's steps are the channel's.
`StepsAreThreads`: the pipeline's steps are those of `PipelineThreads`. `CallsFitThePipeline`: what `main.cpp` does to the
pipeline is `PipelineThreads` as well, so that both sides agree on the interface. `RecordsUsesDatabase`: the inference
thread's calls, restarts included, are behaviours of `DefectDatabase`, whose theorems therefore hold in
`Records` (`RecordsKeepTheTables`). That a `FrameQueue` may take the place of the channel inside the
pipeline follows from the first by hand; no module states it.

**FrameQueue.** `queue`, `stopped` are the members; `call[t]` says whether a thread is outside
the queue, wants the mutex (`"ready"`) or sleeps on its condition variable (`"blocked"`).
`wait_for` with a predicate evaluates it, sleeps, and after a deadline evaluates it one last time:
that is `due`. `notify_one` (`WakeOne`) picks any sleeper; wake-ups without reason are allowed.
`delivered` is a history variable that the refinement needs.

**DefectPipeline.** `pc[t]` is where a thread is, between two accesses to shared state; `main` is
where the caller is. `accepted`, `taken`, `closed`, `reply` are the channel. A frame is the
number of its grab. History variables (`dropped`, `lost`, `faulted`, `rejected`, `counted`) record what
became of each frame. Time is one bit, `overdue`: the heartbeat is older than the timeout. The
image directory, drawing and averages are left out.

**GpioController.** The caller's steps are cut where it holds the mutex or has just released it
(`TriggerReject`, then `TriggerNotify`). `Hardware` is the build option: a sysfs write may fail,
and nobody looks (`Write`).

**DefectDatabase.** `view` is what the connection sees and `db` what is committed. Inside a
transaction only `view` moves. `Crash` and `Close` fall back to `db`. A failed COMMIT either rolls
back or leaves the transaction open; both happen in SQLite.

**Inspection.** Confidences and thresholds are levels, boxes are integers in pixels of the
original image; scaling and letterbox offsets are left out, clipping is not. `kept` and
`suppressed` are sets of indices into the sorted vector. `topScore` is a history variable.

**Records.** `step` is what the inference thread does next: save the image, insert the row (the statements
of `DefectDatabase`), prune rows, prune files. `EndProcess` comes anywhere; a new run starts with frame
id 1 and with the files and the committed rows that are there. An image is a name (the second and
the frame id) and a history field that says which frame it shows. `request` is what the
dashboard has asked or been answered. Three assumptions: a restart takes longer than a second (names
would collide otherwise) and the clock does not go back, which local time does once a year; no two files have the same write time; and
a frame is rejected exactly if it has detections, as `main.cpp` gives one threshold to the filter and the decision. Answers
are looked at at once (`Noted`), a choice among interleavings that differ only in when nobody reads.

**CameraManager.** `capture` is the OpenCV object, `opened` and `isVideo` the members. A failing `open()`
leaves `opened_` as it was; a video that ends closes the camera, a looped one is rewound.

**ConfigLoader.** A file is its sequence of keys and values. `Load` gives every key its default,
its parsed value, or the fallback that `load()` passes to `safe_stoi` or `safe_stof`. `Garbage`, `NaN` and
`Blank` are the values that are not numbers.

**Inspector.** `at` is where `main` is: parsing, initialization part by part, the loop, `stop()`, the destructors in
the reverse order of the members. Of the parts only being open counts. Signals come at any step.

**Logger.** Threads do not appear: `log()` and `rotate_files()` hold the mutex throughout. A line is its
number and a file the set of its lines; each remove, rename and open is a step that may fail (`Try`),
and the process may die between any two and start again.

Definitions marked "Faulty variant" are no part of any specification. Each is a plausible bug
in the definition that follows it, and is there so that one can check that the properties
notice it (`mutants` in `PROJECT.json`).

## 3. Fairness

* Queue: a thread that wants the mutex gets it. No deadline is assumed to pass, nobody to call.
* Pipeline: weak fairness of each thread's step and of a `stop()` that has begun. It is justified
  by the scheduler, by the deadlines of all waits in the loops (5, 50, 50 and 100 ms), and by the
  assumption that camera, engine, store and callback return. Where they do not, `stop()` does not
  return either. Nobody is assumed to call `start()` or `stop()` or to press ESC, and time
  need not pass.
* GPIO: the worker's step and a call that has begun. The worker's sleep ends.
* Program: the main thread, and each thread of the pipeline, whose rounds end as `ImplementsThreads` shows under the
  pipeline's own fairness. Nobody is assumed to send a signal or to press ESC.
* Database, Records, Logger and Inspection: safety only.

## 4. Runs

| Run | Question | Bounds, and why they suffice |
|---|---|---|
| `frame_queue` | lost wake-ups, stop, FIFO and capacity | 2 pushers, 2 poppers, capacity 2, 4 pushes: `notify_one` has a choice of sleepers on either side, the queue gets full and empty, and one notification can go to a thread that is leaving |
| `pipeline_frames` | the fate of every frame, the counters, the store's bound | capacity 2, 4 frames, 1 run, pruning every 2 frames to 1 record: the queue fills, drops, wraps a prune interval twice |
| `pipeline_shutdown` | start, stop, ESC, restart, watchdog | all 4 threads, 2 runs, 2 frames, capacity 1: stop meets every combination of thread positions, and the second run finds what the first left |
| `gpio` | hand-over and cleanup | hardware mode, 4 triggers: one served, one in the pulse, two that coalesce |
| `database` | statements that fail, crashes | 4 inserts of 0 to 2 detections, pruned to 2: a prune removes two rows, also within a transaction that stayed open |
| `records` | do rows and files agree | 2 inserts, 3 runs, 3 seconds, 1 image and 1 record kept, pruned after each frame: frame ids collide between runs, a pruning is cut short and taken up by the next run, the dashboard reads a row before its file is removed |
| `inspector` | exits, signals, settings | 8 command lines: live camera, video, loop, single image, help, and files with values that are malformed, repeated, empty, out of range or NaN; every initialization step may fail |
| `logger` | rotation | 2 backups of 2 lines, 9 lines, 2 crashes: the chain fills, the oldest goes, and two rotations in a row are cut short |
| `inspection` | filter, clip, sort, NMS, decide | 3 rows, 2 classes, levels 0 to 3 with a threshold at each of 1, 2, 3; five boxes, three of them a chain, one hanging over two edges, one without area |

Bounded counters: `MaxPushes`, `MaxFrames`, `MaxRuns`, `MaxTriggers`, `MaxInits`, `MaxInserts`,
`MaxDetections`, `MaxSeconds`, `MaxLogged`, `MaxCrashes`. They are guards of the calls that start something and of nothing else.

All properties of these runs hold. Worth knowing about them:

* `NobodyLeftAsleep`: one `notify_one` per operation is enough only because
  as many threads are awake as there is work. `Items` in a queue with sleepers are matched by
  threads on their way.
* `FramesAccountedFor` is the conservation law of the pipeline: drop, queue, restart,
  hands, exception, or counted under one verdict, and never two of them.
* `StoreBounded` has `started * (PruneInterval - 1)` in it because `frames_since_prune` is a local
  variable: every restart forgets up to an interval of inserts.
* `AckedIsDurable` is conditional on COMMIT: `insert_result` returns true without looking at it.
* `VerdictFitsScores`: the verdict depends only on the greatest raw score. An inference that
  fails is the exception, and passes the part.
* `SentImageIsTheRows` needs the time in the file's name: frame ids start over with the process.
* `NewestImagesKept` excepts files that could not be removed, and holds although a pruning that a crash cut
  short has a list of files that the next one knows nothing of.
* `AnswerWithinCommits`: rejects and passes of `/api/stats` need not add up to its total. They are
  off by no more than the rows that were committed or pruned between the three SELECTs.
* `ReleasedAtExit` is what the destructors make good: after ESC `stop()` skips the cleanup, and only
  `~CameraManager` closes the camera.
* `PartsOutliveThreads` rests on `stop()` joining even when it was not running any more.
* `OnlyOldestLost`: a crash within a rotation costs one backup at most, as long as no operation fails. With failures
  a rename may overwrite a newer backup than the oldest; the order of the lines survives even then (`FilesInOrder`).

### Disagreements between the code and its own words

Each is a run that TLC stops with a counterexample; `findings` quotes the lines.

| Run | Statement | What happens |
|---|---|---|
| `prune_crash` | a crash leaves no orphaned inspection rows | between the two DELETEs of `prune()` it does |
| `log_disk_full` | the log is rotated when it exceeds its size | a failed write makes `tellp()` -1, and the log is rotated at any size |
| `config_fallback` | a malformed value falls back to its default | the fallbacks of the two thresholds, 0.5 and 0.45, are not the defaults, 0.98 and 0.15 |

Five more are stated in the modules, under "What the code's own words promise and the code does not
keep", and have no run:

| Module, definition | Statement | What happens |
|---|---|---|
| `DefectPipeline`, `StopClosesCamera` | `stop()` skips its cleanup only when already stopped (`defect_pipeline.cpp:112`) | after ESC it skips it although the camera is open; the destructor closes it |
| `DefectPipeline`, `NoGrabAfterEnd` | the capture loop sees the camera closed at the end of a video (`camera_manager.cpp:118`) | it never asks, and goes on grabbing |
| `DefectPipeline`, `EveryStallIsReported` | a stall is warned about (`README.md:445`) | not before the first frame of a run |
| `GpioController`, `InitializedIsOperational` | an initialized controller is operational (`ireject_controller.h:29`) | after `cleanup()` and `initialize()` its worker leaves at once |
| `Inspection`, `BorderlineIsReviewed` | borderline confidence goes to review (`types.h:107`) | `main.cpp` uses one threshold to filter and to reject |

## 5. Proofs

The theorems hold for every value of the constants that the named ASSUMEs of the module admit.

* `FrameQueueProofs`. `NoLostWakeUp`: `NobodyLeftAsleep` consists of two invariants, one for poppers and
  one for pushers, which are inductive together with the type. A return removes one ready thread and one item, a notification adds one ready thread;
  both are arithmetic on cardinalities, stated once for a set of threads `S` and a need `n`
  (`AwakeStays`, `AwakeReturn`, `AwakeNotify`) and used for both sides.
  `QueueImplementsChannel`: step simulation under `accepted <- delivered \o queue`.
* `DefectPipelineProofs`. `TypeCorrect` by groups of steps. `StopComplete`: `StopInv` adds that
  `running_` is clear from `stop()` on, and that a thread's step does not create threads.
  `RejectsMatch`: the sets `rejected` and `counted` differ by at most the frame between the two
  steps. `FramesAreAccountedFor`: inductive as "every number is in exactly one place", with one
  strengthening: no frame waits twice in the queue. `FinishedInOrder` (`OrderInv`): the channel delivers the accepted
  frames in turn and they were accepted as they were grabbed, so that what has been handled is below the hand, and the hand
  below what waits. `StoreStaysBounded` (`StoreInv`): a prune takes the
  store back to its limit (`NewestAreFew`, by cardinality), each frame counted since or stored and not counted yet adds one,
  and each earlier run has left up to `PruneInterval - 1` that nobody remembers (`Forgotten`). `StepsAreThreads`: step simulation, with `stop()` as
  the joining of threads one by one.
* `GpioControllerProofs`. Types, the arm at rest, no worker after `cleanup()`, no pulse
  without a trigger, and `NoTriggerIsSleptOn`: the worker sleeps through a pending trigger or a stop only as long as the caller
  that set the flag has not got to its `notify_one()`. It is what the liveness properties of `gpio` rest on.
* `DefectDatabaseProofs`. `ViewInv` says at each statement in what the connection's view may differ from
  the committed tables, and is inductive with the types. From it: the tables agree
  (`AgreeInv`, with the half-pruned state between the two DELETEs), what is acknowledged is durable
  (`AckInv`: without a failed COMMIT a transaction is open only within `insert_result()`), and a prune
  removes the oldest (`OldestComeFirst`, by cardinality of the rows before a row). `PruneLeavesTheLimit`: the
  excess that `prune()` counted is still the excess when it deletes (`CountedInv`), and "ORDER BY id LIMIT n" yields
  n rows of a table that has as many (`OldestAreMany`).
* `InspectionProofs`. `LoopInv` is the loop invariant of NMS: every index before `index` is kept
  or suppressed and not both, the kept ones have suppressed all their losers, and every suppressed one
  has a winner in front. `ScoreInv`: the vector's maximum is the frame's greatest score. With
  the sort this gives the verdict: index 1 holds the maximum and is never suppressed. The symmetry of IoU
  and the clipping are lemmas about integers.
* `RecordsProofs`. First the step simulation of `DefectDatabase`, which brings its invariants along. `RightImageIsSent`
  (`TagInv`): a name is a second and a frame id, and frames that were named in the same second are of the
  same run, so that wherever a name is found, in files, rows or the request, it is one frame's (`NamesAreOfOneFrame`).
  `NewestAreKept` (`WrittenInv`, `LoopInv`, `KeptInv`): the files lie in the order they were written, the rest of a pruning's list is a
  prefix of the files but for those it failed to remove, and a new file's name is new (`NameIsNew`).
  `StatsWithinCommits` (`CountInv`): between its SELECTs a request's bounds move by the rows that come and go, and any
  count of some of the rows moves by no more (`CountsMove`), as a committed row keeps the number of its detections (`SizesAreSettled`).
* `InspectorProofs`, for every command line and file of `CommandLinesAssumption`. `ThreadsAreJoinedFirst` is inductive as it stands.
  The types are proved after it: `TypeOK` says where `main` is while a part waits to be opened, which an abort
  over a joinable thread would break. `ExitReleasesAll` (`PartsInv`):
  what is open at each position of `main` and of the destructors. `SettingsStayInRange`: every value that `load()` puts in
  force is a default, a fallback or a parsed value that passed its range test (`SafeNumberInRange`), and the command line's own
  camera number is tested again.
* `LoggerProofs`. `FilesStayInOrder` (`LinesInv`): along the chain of backups line numbers fall, for any set of failing renames, because
  a rename moves a whole file onto the next place. `FilesStayBounded` (`SizeInv`): a file that is appended to has
  less than `MaxLines` lines and one per crash, which may come between a write and its rotation. `RotationLosesOnlyTheOldest` (`KeptInv`): without failures the chain has at most one gap, what is lost is older than what is
  kept (`OldestInv`), and a file `t` places up the chain has at least `t` full files of newer lines below it, one less per crash (`CountInv`).

Each invariant and action property that a run checks is a theorem's conclusion. Five theorems state
properties that no run lists: `PulsesHaveTriggers` (no more pulses than triggers), `NoTriggerIsSleptOn`, `BoxesStayInImage`,
`PruneLeavesTheLimit` and `StepsAreThreads`.

Only model-checked: all liveness (`SleepersAreServed`, `StopEndsCalls`, `StopReturns`, `InspectionEnds`,
`StallIsReported`, `TriggersAreServed`, `CleanupReturns`, `RequestsEndProgram`, and the fairness within
`ImplementsThreads`), which with fairness is out of the proof system's reach.

## 6. Not modelled

* Image data: preprocessing, drawing, encoding; floating point (levels stand for confidences, hundredths for
  thresholds in a file).
* The reading queries of `DefectDatabase`, and the dashboard's endpoints that run a single SELECT: they
  keep no state, and see one commit each.
* Moving a `CameraManager`, which leaves `is_video_` behind (`camera_manager.cpp:20`): nothing moves one.
* `process_frame`: the steps of `Inspection` in one thread, without store and rejector.
* The number that `prune()` returns, which only a log line shows.
* The capture tool: one thread in a loop over camera, keyboard and files, and no state that another part reads.
  The benchmark, the timers, the training scripts, packaging and mocks: no part of the running system.
* Undefined behaviour: `initialized_` of the GPIO controller is a plain flag, written by the caller and
  the destructor only, and the model has one caller. The logger's level is a plain member, set before any thread starts.
* Loss of power: a crash is one of the process. `synchronous=NORMAL` may lose commits on a power loss.

## 7. Plan

1. Done: the modules above, with the proofs of section 5.
2. Done: theorems for every invariant and action property that a run checks, and for the seams between the modules.
3. Open: the safety facts under the liveness properties, as was done for `NoTriggerIsSleptOn` (that a thread in a loop of
   the pipeline is never blocked without a deadline, that a request to end is never overwritten in `Inspector`); the queue
   inside the pipeline in place of the channel; image directories that several runs share with other files.
