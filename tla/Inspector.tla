------------------------------ MODULE Inspector ------------------------------
(***************************************************************************)
(* The program of src/main.cpp: command line, configuration, composition,  *)
(* main loop, signals and exit.  The pipeline's threads are those of       *)
(* PipelineThreads, which DefectPipeline implements, and the camera is     *)
(* that of CameraManager.  Of the other parts only their being open counts *)
(* here.                                                                   *)
(***************************************************************************)
EXTENDS ConfigLoader

CONSTANTS CommandLines   \* the command lines to try, as sequences of options

ASSUME CommandLinesAssumption ==
  \A line \in CommandLines :
    /\ Len(line) \in Nat /\ DOMAIN line = 1 .. Len(line)
    /\ \A i \in DOMAIN line : line[i][1] = "--config" => IsFile(line[i][2])

VARIABLES
  command,     \* argv: a sequence of <<option>> and <<option, value>>
  at,          \* where the main thread is
  mode,        \* "image" for a single image, "line" for the camera
  config,      \* the PipelineConfig in force
  code,        \* what main returns
  signalled,   \* ~g_running
  wasRunning,  \* stop()'s local was_running
  store,       \* "none", "closed" or "open"
  rejector,    \* "none", "off" or "ready"
  phase, running, thread,                     \* PipelineThreads
  source, capture, opened, isVideo, grabbed   \* CameraManager

Threads == {"capture", "inference", "display", "watchdog"}
Pipeline == INSTANCE PipelineThreads WITH Quitter <- "display"
Camera == INSTANCE CameraManager

partVars == <<store, rejector>>
threadVars == <<phase, running, thread>>
cameraVars == <<source, capture, opened, isVideo, grabbed>>
setupVars == <<command, mode, config>>
vars == <<setupVars, at, code, signalled, wasRunning, partVars,
          threadVars, cameraVars>>

-----------------------------------------------------------------------------
(* parse_args.  Of an option given twice the last one counts; a camera     *)
(* number that is none or out of range asks for help.                      *)
Given(option) == {i \in DOMAIN command : command[i][1] = option}
Flag(option) == Given(option) # {}
Option(option, default) ==
  IF Flag(option) THEN command[Max(Given(option))][2] ELSE default

ValidCameras ==
  {i \in Given("--camera") : command[i][2] # Garbage /\ command[i][2] \in 0 .. 255}
CameraId == IF ValidCameras = {} THEN 0 ELSE command[Max(ValidCameras)][2]
Help == Flag("--help") \/ Given("--camera") # ValidCameras

ConfigFile == Option("--config", NoFile)

(* run_pipeline: the model, the camera and the display come from the       *)
(* command line or its defaults, whatever the file says, the video only if *)
(* one is given.  run_single_image takes over the model alone.             *)
Configure ==
  LET loaded == [Load(ConfigFile) EXCEPT
                   !.inference_model_path = Option("--model", Text.inference_model_path)]
      wired == [loaded EXCEPT
                  !.camera_device_id = CameraId,
                  !.pipeline_enable_display = Flag("--display")]
  IN  IF Flag("--image") THEN loaded
      ELSE IF Option("--video", "") = "" THEN wired
      ELSE [wired EXCEPT !.camera_video_path = Option("--video", ""),
                         !.camera_loop_video = Flag("--loop")]

Init ==
  /\ command \in CommandLines
  /\ at = "launch" /\ mode = "line" /\ code = 0
  /\ config = Load(NoFile)
  /\ signalled = FALSE /\ wasRunning = FALSE
  /\ store = "none" /\ rejector = "none"
  /\ Pipeline!Init
  /\ Camera!Init /\ source = "live"

-----------------------------------------------------------------------------
(* Where main goes on, with what else it leaves alone.                     *)
MainGoes(from, to) ==
  /\ at = from
  /\ at' = to
  /\ UNCHANGED <<setupVars, signalled>>

(* The composition root: what the pipeline is built of.  A single image    *)
(* needs no camera, no store and no rejector.                              *)
Compose(c) ==
  /\ store' = "closed"
  /\ rejector' = IF c.pipeline_enable_gpio THEN "off" ELSE "none"
  /\ source' = IF c.camera_video_path = "" THEN "live"
               ELSE IF c.camera_loop_video THEN "loop" ELSE "video"

(* main: the arguments, the mode, and the objects that are constructed.    *)
Launch ==
  /\ at = "launch"
  /\ mode' = IF Flag("--image") THEN "image" ELSE "line"
  /\ config' = Configure
  /\ at' = IF Help THEN "exit" ELSE IF Flag("--image") THEN "read image" ELSE "open camera"
  /\ IF Help \/ Flag("--image") THEN UNCHANGED <<partVars, source>> ELSE Compose(config')
  /\ UNCHANGED <<command, code, signalled, wasRunning, threadVars,
                 capture, opened, isVideo, grabbed>>

(* run_single_image: an image that cannot be read is the end of it.        *)
ReadImage ==
  /\ \/ MainGoes("read image", "load model") /\ UNCHANGED code
     \/ MainGoes("read image", "exit") /\ code' = 1
  /\ UNCHANGED <<wasRunning, partVars, threadVars, cameraVars>>

(* DefectPipeline::initialize, part by part.                               *)
OpenCamera ==
  /\ \/ MainGoes("open camera", "load model") /\ Camera!OpenSucceeds /\ UNCHANGED code
     \/ MainGoes("open camera", "destroy threads") /\ Camera!OpenFails /\ code' = 1
  /\ UNCHANGED <<wasRunning, partVars, threadVars>>

(* A model file that is missing, too small or of another kind, or that     *)
(* ONNX Runtime cannot load, ends the initialization with the camera open. *)
LoadModel ==
  /\ \/ MainGoes("load model", "open store") /\ UNCHANGED code
     \/ MainGoes("load model", "destroy threads") /\ code' = 1
  /\ UNCHANGED <<wasRunning, partVars, threadVars, cameraVars>>

(* A store that does not open is dropped, and so is a rejector.            *)
OpenStore ==
  /\ MainGoes("open store", "initialize rejector")
  /\ store' \in (IF store = "none" THEN {"none"} ELSE {"open", "none"})
  /\ UNCHANGED <<code, wasRunning, rejector, threadVars, cameraVars>>

InitializeRejector ==
  /\ MainGoes("initialize rejector", "make directory")
  /\ rejector' \in (IF rejector = "none" THEN {"none"} ELSE {"ready", "none"})
  /\ UNCHANGED <<code, wasRunning, store, threadVars, cameraVars>>

(* fs::create_directories throws where it fails, and nobody catches it.    *)
MakeDirectory ==
  /\ \/ MainGoes("make directory", IF mode = "image" THEN "inspect" ELSE "start")
     \/ config.pipeline_save_defect_images /\ MainGoes("make directory", "aborted")
  /\ UNCHANGED <<code, wasRunning, partVars, threadVars, cameraVars>>

(* run_single_image: process_frame, and 0 only for a part that passes.     *)
InspectImage ==
  /\ MainGoes("inspect", "destroy threads")
  /\ code' \in {0, 2}
  /\ UNCHANGED <<wasRunning, partVars, threadVars, cameraVars>>

Initialization ==
  \/ Launch \/ ReadImage \/ OpenCamera \/ LoadModel \/ OpenStore
  \/ InitializeRejector \/ MakeDirectory \/ InspectImage

-----------------------------------------------------------------------------
(* run_pipeline: start, poll, stop.  A signal that came before start() is  *)
(* noticed at the first poll.                                              *)
StartPipeline ==
  /\ MainGoes("start", "poll")
  /\ Pipeline!Start(IF config.pipeline_enable_display THEN Threads
                    ELSE Threads \ {"display"})
  /\ UNCHANGED <<code, wasRunning, partVars, cameraVars>>

(* Faulty variant: the main loop does not ask whether the pipeline runs.   *)
PollSignalOnly ==
  /\ MainGoes("poll", IF ~signalled THEN "sleep" ELSE "stop")
  /\ UNCHANGED <<code, wasRunning, partVars, threadVars, cameraVars>>

Poll ==
  /\ MainGoes("poll", IF ~signalled /\ running THEN "sleep" ELSE "stop")
  /\ UNCHANGED <<code, wasRunning, partVars, threadVars, cameraVars>>

Sleep ==
  /\ MainGoes("sleep", "poll")
  /\ UNCHANGED <<code, wasRunning, partVars, threadVars, cameraVars>>

(* Faulty variant: stop() returns before it joins if the pipeline has      *)
(* already been stopped.                                                   *)
StopUnlessStopped ==
  /\ MainGoes("stop", IF running THEN "joining" ELSE "cleanup")
  /\ wasRunning' = running
  /\ running' = FALSE
  /\ phase' = IF running THEN "stopping" ELSE phase
  /\ UNCHANGED <<code, partVars, thread, cameraVars>>

StopCall ==
  /\ MainGoes("stop", "joining")
  /\ wasRunning' = running
  /\ Pipeline!StopCall
  /\ UNCHANGED <<code, partVars, cameraVars>>

Join(t) ==
  /\ MainGoes("joining", "joining")
  /\ Pipeline!Join(t)
  /\ UNCHANGED <<code, wasRunning, partVars, cameraVars>>

StopReturn ==
  /\ MainGoes("joining", "cleanup")
  /\ Pipeline!StopReturn
  /\ UNCHANGED <<code, wasRunning, partVars, cameraVars>>

(* Only a stop() that found the pipeline running closes the camera.        *)
Cleanup ==
  /\ MainGoes("cleanup", "destroy threads")
  /\ IF wasRunning THEN Camera!Close ELSE UNCHANGED cameraVars
  /\ UNCHANGED <<code, wasRunning, partVars, threadVars>>

MainLoop ==
  \/ StartPipeline \/ Poll \/ Sleep \/ StopCall \/ (\E t \in Threads : Join(t))
  \/ StopReturn \/ Cleanup

-----------------------------------------------------------------------------
(* ~DefectPipeline: its stop() finds nothing to join, then the members go  *)
(* in the reverse of their order, and a thread that is still joinable      *)
(* would terminate the program.                                            *)
DestroyThreads ==
  /\ MainGoes("destroy threads",
              IF Pipeline!NoThreads THEN "destroy rejector" ELSE "aborted")
  /\ UNCHANGED <<code, wasRunning, partVars, threadVars, cameraVars>>

DestroyRejector ==
  /\ MainGoes("destroy rejector", "destroy store")
  /\ rejector' = IF rejector = "ready" THEN "off" ELSE rejector
  /\ UNCHANGED <<code, wasRunning, store, threadVars, cameraVars>>

DestroyStore ==
  /\ MainGoes("destroy store", "destroy camera")
  /\ store' = IF store = "open" THEN "closed" ELSE store
  /\ UNCHANGED <<code, wasRunning, rejector, threadVars, cameraVars>>

(* Faulty variant: the destructor trusts stop() to have closed the camera. *)
DestroyWithoutClose ==
  /\ MainGoes("destroy camera", "exit")
  /\ UNCHANGED <<code, wasRunning, partVars, threadVars, cameraVars>>

DestroyCamera ==
  /\ MainGoes("destroy camera", "exit")
  /\ Camera!Close
  /\ UNCHANGED <<code, wasRunning, partVars, threadVars>>

Destruction == DestroyThreads \/ DestroyRejector \/ DestroyStore \/ DestroyCamera

MainStep == Initialization \/ MainLoop \/ Destruction

-----------------------------------------------------------------------------
mainVars == <<setupVars, at, code, wasRunning, partVars>>

(* signal_handler: SIGINT or SIGTERM, at any time.                         *)
Signal ==
  /\ at \notin {"exit", "aborted"}
  /\ signalled' = TRUE
  /\ UNCHANGED <<mainVars, threadVars, cameraVars>>

(* The pipeline's threads.  A round of the capture thread is a grab_frame. *)
ThreadTests(t) ==
  /\ Pipeline!Check(t)
  /\ UNCHANGED <<mainVars, signalled, cameraVars>>

CaptureWorks ==
  /\ Pipeline!Work("capture")
  /\ Camera!Grab
  /\ UNCHANGED <<mainVars, signalled>>

OtherWorks(t) ==
  /\ Pipeline!Work(t)
  /\ UNCHANGED <<mainVars, signalled, cameraVars>>

ThreadStep(t) ==
  \/ ThreadTests(t)
  \/ t = "capture" /\ CaptureWorks
  \/ t # "capture" /\ OtherWorks(t)

Next == MainStep \/ Signal \/ \E t \in Threads : ThreadStep(t)

(* The main thread and the others are scheduled, and every round of work   *)
(* ends, as DefectPipeline implements PipelineThreads.  Nobody has to send *)
(* a signal or press ESC.                                                  *)
Fairness == WF_vars(MainStep) /\ \A t \in Threads : WF_vars(ThreadStep(t))

Spec == Init /\ [][Next]_vars /\ Fairness
-----------------------------------------------------------------------------
Positions ==
  {"launch", "read image", "open camera", "load model", "open store",
   "initialize rejector", "make directory", "inspect", "start", "poll", "sleep",
   "stop", "joining", "cleanup", "destroy threads", "destroy rejector",
   "destroy store", "destroy camera", "exit", "aborted"}

(* Every variable has its type; the pipeline runs only in the main loop,   *)
(* and an open store or a ready rejector is there only in between its      *)
(* opening and its destruction.                                            *)
TypeOK ==
  /\ command \in CommandLines
  /\ at \in Positions /\ mode \in {"image", "line"} /\ code \in 0 .. 2
  /\ DOMAIN config = Keys
  /\ signalled \in BOOLEAN /\ wasRunning \in BOOLEAN
  /\ store \in {"none", "closed", "open"} /\ rejector \in {"none", "off", "ready"}
  /\ phase \in {"idle", "stopping"} /\ running \in BOOLEAN
  /\ thread \in [Threads -> {"none", "check", "work", "done"}]
  /\ source \in Camera!Sources /\ capture \in {"none", "shut", "open"}
  /\ opened \in BOOLEAN /\ isVideo \in BOOLEAN /\ grabbed \in {"valid", "invalid"}
  /\ running => at \in {"poll", "sleep", "stop"}
  /\ store = "closed" =>
       at \in {"open camera", "load model", "open store", "destroy threads",
               "destroy rejector", "destroy store", "destroy camera", "exit"}

(* A signal, or ESC in the display window, ends the program, whichever     *)
(* comes first and whatever the main thread is doing.                      *)
RequestsEndProgram ==
  (signalled \/ (at \in {"poll", "sleep"} /\ ~running)) ~> (at \in {"exit", "aborted"})

(* A program that returns from main leaves no thread behind, the camera    *)
(* released, the database closed and the arm's controller cleaned up: also *)
(* when it was ended by ESC, so that stop() skipped its cleanup, when the  *)
(* initialization failed half way, and when a video had ended before.      *)
ReleasedAtExit ==
  at = "exit" => /\ Pipeline!NoThreads
                 /\ capture # "open"
                 /\ store # "open" /\ rejector # "ready"

(* While a thread of the pipeline exists, the main thread is in its loop   *)
(* or in stop(): it neither opens, closes nor destroys what the thread     *)
(* works with, and it never runs into std::terminate over a thread that    *)
(* it did not join.                                                        *)
PartsOutliveThreads ==
  ~Pipeline!NoThreads => at \in {"poll", "sleep", "stop", "joining"}

(* Whatever the file says, no setting leaves its range; a threshold given  *)
(* as "nan" is the one exception.                                          *)
SettingsInRange ==
  \A key \in NumericKeys :
    \/ config[key] = NaN /\ key \in FloatKeys
    \/ config[key] \in Numeric(key).min .. Numeric(key).max
-----------------------------------------------------------------------------
(* What the code's own words promise and the code does not keep.           *)

(* "malformed values fall back to defaults with a warning instead of       *)
(* crashing" (config_loader.h:10): a value that does not parse, or is out  *)
(* of range, has the same effect as leaving the line out.                  *)
Malformed(key, value) ==
  \/ value = Garbage
  \/ value # NaN /\ value \notin Numeric(key).min .. Numeric(key).max
MalformedIsDefault ==
  at # "launch" /\ ConfigFile # NoFile =>
    \A key \in NumericKeys \ {"camera_device_id"} :
      Lines(ConfigFile, key) # {} /\ Malformed(key, Last(ConfigFile, key)) =>
        config[key] = Default(key)
=============================================================================
