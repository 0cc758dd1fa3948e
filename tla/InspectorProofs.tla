-------------------------- MODULE InspectorProofs --------------------------
(***************************************************************************)
(* Proofs about Inspector, for all command lines and files that            *)
(* CommandLinesAssumption admits.                                          *)
(***************************************************************************)
EXTENDS Inspector, WellFoundedInduction, TLAPS

(* A set of positions within a sequence has a last one.                    *)
LEMMA LastPosition ==
  ASSUME NEW n \in Nat, NEW S \in SUBSET (1 .. n), S # {}
  PROVE  Max(S) \in S
<1> DEFINE T == {n - i : i \in S}
<1>1. T \subseteq Nat /\ T # {}
  OBVIOUS
<1>2. PICK d \in T : \A e \in T : ~ (<<e, d>> \in OpToRel(<, Nat))
  BY <1>1, NatLessThanWellFounded, WFMin, Zenon
<1>3. \A e \in T : ~ (e < d)
  BY <1>1, <1>2, Zenon DEF OpToRel
<1>4. PICK i \in S : d = n - i
  BY <1>2
<1>5. \A j \in S : i >= j
  BY <1>3, <1>4
<1>6. \E x \in S : \A y \in S : x >= y
  BY <1>5
<1> QED  BY <1>6 DEF Max

-----------------------------------------------------------------------------
(* The settings.                                                           *)
InRange(key, value) ==
  \/ value = NaN /\ key \in FloatKeys
  \/ value \in Numeric(key).min .. Numeric(key).max

LEMMA IntegerSettings ==
  ASSUME NEW key \in IntegerKeys
  PROVE  /\ Integer[key].min \in Int /\ Integer[key].max \in Int
         /\ Integer[key].default \in Integer[key].min .. Integer[key].max
         /\ Integer[key].fallback \in Integer[key].min .. Integer[key].max
BY DEF IntegerKeys, Integer, Setting

LEMMA FloatSettings ==
  ASSUME NEW key \in FloatKeys
  PROVE  /\ Float[key].min \in Int /\ Float[key].max \in Int
         /\ Float[key].default \in Float[key].min .. Float[key].max
         /\ Float[key].fallback \in Float[key].min .. Float[key].max
BY DEF FloatKeys, Float, Setting

LEMMA NumericSettings ==
  ASSUME NEW key \in NumericKeys
  PROVE  /\ Numeric(key).min \in Int /\ Numeric(key).max \in Int
         /\ Numeric(key).default \in Numeric(key).min .. Numeric(key).max
         /\ Numeric(key).fallback \in Numeric(key).min .. Numeric(key).max
BY IntegerSettings, FloatSettings DEF NumericKeys, Numeric

(* safe_stoi and safe_stof return a value in the range, whatever they are  *)
(* given.                                                                  *)
LEMMA SafeNumberInRange ==
  ASSUME NEW key \in NumericKeys, NEW value, value \in {Garbage, NaN} \/ value \in Int
  PROVE  InRange(key, SafeNumber(key, value))
<1>1. key \in IntegerKeys \/ key \in FloatKeys
  BY DEF NumericKeys
<1>2. CASE SafeNumber(key, value) = Numeric(key).fallback
  BY <1>2, NumericSettings DEF InRange
<1>3. CASE /\ SafeNumber(key, value) = value
           /\ value # Garbage /\ ~(value = NaN /\ key \in IntegerKeys)
           /\ value = NaN \/ ~(value < Numeric(key).min \/ value > Numeric(key).max)
  <2>1. CASE value = NaN
    BY <1>1, <1>3, <2>1 DEF InRange
  <2>2. CASE value # NaN
    BY <1>3, <2>2, NumericSettings DEF InRange
  <2> QED  BY <2>1, <2>2
<1> QED  BY <1>2, <1>3 DEF SafeNumber

LEMMA LoadInRange ==
  ASSUME NEW file, IsFile(file), NEW key \in NumericKeys
  PROVE  InRange(key, Load(file)[key])
<1>1. key \in Keys /\ Default(key) = Numeric(key).default
  BY DEF Keys, Default
<1>2. CASE file = NoFile \/ Lines(file, key) = {}
  <2>1. Load(file)[key] = Default(key)
    BY <1>1, <1>2 DEF Load
  <2> QED  BY <1>1, <2>1, NumericSettings DEF InRange
<1>3. CASE file # NoFile /\ Lines(file, key) # {}
  <2>1. Load(file)[key] = SafeNumber(key, Last(file, key))
    BY <1>1, <1>3 DEF Load, Parse
  <2>2. Len(file) \in Nat /\ Lines(file, key) \in SUBSET (1 .. Len(file))
    BY <1>3 DEF IsFile, Lines
  <2>3. Max(Lines(file, key)) \in Lines(file, key)
    BY <1>3, <2>2, LastPosition
  <2>4. Last(file, key) \in {Garbage, NaN} \/ Last(file, key) \in Int
    BY <1>3, <2>3 DEF IsFile, Lines, Last
  <2> QED  BY <2>1, <2>4, SafeNumberInRange
<1> QED  BY <1>2, <1>3

(* The option that counts is one that is there.                            *)
LEMMA LastOption ==
  ASSUME command \in CommandLines, NEW S \in SUBSET DOMAIN command, S # {}
  PROVE  Max(S) \in S
<1>1. Len(command) \in Nat /\ S \in SUBSET (1 .. Len(command))
  BY CommandLinesAssumption
<1> QED  BY <1>1, LastPosition

LEMMA ConfigFileIsFile ==
  ASSUME command \in CommandLines
  PROVE  IsFile(ConfigFile)
<1>1. Given("--config") \in SUBSET DOMAIN command
  BY DEF Given
<1>2. CASE Given("--config") = {}
  BY <1>2 DEF ConfigFile, Option, Flag, IsFile
<1>3. CASE Given("--config") # {}
  <2>1. Max(Given("--config")) \in Given("--config")
    BY <1>1, <1>3, LastOption
  <2> QED  BY <1>3, <2>1, CommandLinesAssumption DEF ConfigFile, Option, Flag, Given
<1> QED  BY <1>2, <1>3

LEMMA CameraIdInRange ==
  ASSUME command \in CommandLines
  PROVE  CameraId \in 0 .. 255
<1>1. ValidCameras \in SUBSET DOMAIN command
  BY DEF ValidCameras, Given
<1>2. CASE ValidCameras = {}
  BY <1>2 DEF CameraId
<1>3. CASE ValidCameras # {}
  <2>1. Max(ValidCameras) \in ValidCameras
    BY <1>1, <1>3, LastOption
  <2> QED  BY <1>3, <2>1 DEF CameraId, ValidCameras
<1> QED  BY <1>2, <1>3

LEMMA TextIsNotNumeric ==
  /\ "inference_model_path" \notin NumericKeys /\ "pipeline_enable_display" \notin NumericKeys
  /\ "camera_video_path" \notin NumericKeys /\ "camera_loop_video" \notin NumericKeys
  /\ "camera_device_id" \in IntegerKeys
  /\ Integer["camera_device_id"].min = 0 /\ Integer["camera_device_id"].max = 255
BY DEF NumericKeys, IntegerKeys, FloatKeys, Integer, Float, Setting

LEMMA ConfigureKeys == DOMAIN Configure = Keys /\ \A file : DOMAIN Load(file) = Keys
BY DEF Configure, Load

LEMMA ConfigureInRange ==
  ASSUME command \in CommandLines, NEW key \in NumericKeys
  PROVE  InRange(key, Configure[key])
<1> DEFINE loaded == [Load(ConfigFile) EXCEPT
                        !.inference_model_path = Option("--model", Text.inference_model_path)]
           wired == [loaded EXCEPT
                       !.camera_device_id = CameraId,
                       !.pipeline_enable_display = Flag("--display")]
<1>1. key \in Keys /\ \A file : DOMAIN Load(file) = Keys
  BY ConfigureKeys DEF Keys
<1>2. loaded[key] = Load(ConfigFile)[key] /\ DOMAIN loaded = Keys
  BY <1>1, TextIsNotNumeric
<1>3. InRange(key, loaded[key])
  BY <1>2, ConfigFileIsFile, LoadInRange
<1>4. DOMAIN wired = Keys /\ wired[key] = IF key = "camera_device_id" THEN CameraId ELSE loaded[key]
  BY <1>1, <1>2, TextIsNotNumeric
<1>5. InRange(key, wired[key])
  <2>1. CASE key = "camera_device_id"
    BY <1>4, <2>1, CameraIdInRange, TextIsNotNumeric DEF InRange, Numeric
  <2>2. CASE key # "camera_device_id"
    BY <1>3, <1>4, <2>2
  <2> QED  BY <2>1, <2>2
<1>6. [wired EXCEPT !.camera_video_path = Option("--video", ""),
                    !.camera_loop_video = Flag("--loop")][key] = wired[key]
  BY <1>1, <1>4, TextIsNotNumeric
<1> QED  BY <1>3, <1>5, <1>6 DEF Configure

-----------------------------------------------------------------------------
(* The parts of the program.                                               *)

(* While a thread of the pipeline exists, the main thread stays in its     *)
(* loop or in stop(): nothing the thread works with is opened, closed or   *)
(* destroyed, and std::terminate is not called over a joinable thread.     *)
THEOREM ThreadsAreJoinedFirst == Spec => []PartsOutliveThreads
<1>1. Init => PartsOutliveThreads
  BY DEF Init, PartsOutliveThreads, Pipeline!Init, Pipeline!NoThreads
<1>2. PartsOutliveThreads /\ [Next]_vars => PartsOutliveThreads'
  <2> SUFFICES ASSUME PartsOutliveThreads, [Next]_vars PROVE PartsOutliveThreads'
    OBVIOUS
  <2> USE DEF Next, MainStep, Initialization, MainLoop, Destruction, ThreadStep, MainGoes,
              Launch, ReadImage, OpenCamera, LoadModel, OpenStore, InitializeRejector,
              MakeDirectory, InspectImage, StartPipeline, Poll, Sleep, StopCall, Join,
              StopReturn, Cleanup, DestroyThreads, DestroyRejector, DestroyStore,
              DestroyCamera, Signal, ThreadTests, CaptureWorks, OtherWorks,
              setupVars, partVars, threadVars, cameraVars, mainVars, vars
  <2>1. CASE StartPipeline
    BY <2>1 DEF PartsOutliveThreads
  <2>2. CASE \E t \in Threads : Join(t)
    BY <2>2 DEF PartsOutliveThreads
  <2>3. CASE StopReturn
    BY <2>3 DEF PartsOutliveThreads, Pipeline!StopReturn, Pipeline!NoThreads
  <2>4. CASE \E t \in Threads : ThreadStep(t)
    BY <2>4 DEF PartsOutliveThreads, Pipeline!NoThreads, Pipeline!Check, Pipeline!Work
  <2>5. CASE \/ Initialization \/ Poll \/ Sleep \/ StopCall \/ Cleanup \/ Destruction
             \/ Signal \/ UNCHANGED vars
    <3>1. /\ thread' = thread
          /\ at \in {"poll", "sleep", "stop", "joining"} =>
               at' \in {"poll", "sleep", "stop", "joining"}
      BY <2>5 DEF Pipeline!StopCall
    <3> HIDE DEF Next, vars
    <3> QED  BY <3>1 DEF PartsOutliveThreads, Pipeline!NoThreads
  <2> QED  BY <2>1, <2>2, <2>3, <2>4, <2>5
<1> QED  BY <1>1, <1>2, PTL DEF Spec

(* Every reachable state has the types TypeOK gives.                       *)
THEOREM TypeCorrect == Spec => []TypeOK
<1>1. Init => TypeOK
  <2> SUFFICES ASSUME Init PROVE TypeOK
    OBVIOUS
  <2>1. /\ command \in CommandLines /\ at \in Positions /\ mode = "line" /\ code \in 0 .. 2
        /\ store = "none" /\ rejector = "none" /\ source \in Camera!Sources
        /\ capture = "none" /\ grabbed = "invalid" /\ phase = "idle"
    BY DEF Init, Positions, Pipeline!Init, Camera!Init
  <2>2. DOMAIN config = Keys
    BY ConfigureKeys DEF Init
  <2>3. thread \in [Threads -> {"none", "check", "work", "done"}]
    BY DEF Init, Pipeline!Init
  <2>4. /\ signalled = FALSE /\ wasRunning = FALSE /\ running = FALSE
        /\ opened = FALSE /\ isVideo = FALSE
    BY DEF Init, Pipeline!Init, Camera!Init
  <2> QED  BY <2>1, <2>2, <2>3, <2>4, Zenon DEF TypeOK
<1>2. TypeOK /\ PartsOutliveThreads /\ [Next]_vars => TypeOK'
  <2> SUFFICES ASSUME TypeOK, PartsOutliveThreads, [Next]_vars PROVE TypeOK'
    OBVIOUS
  <2> USE DEF Next, MainStep, Initialization, MainLoop, Destruction, ThreadStep, MainGoes,
              Launch, ReadImage, OpenCamera, LoadModel, OpenStore, InitializeRejector,
              MakeDirectory, InspectImage, StartPipeline, Poll, Sleep, StopCall, Join,
              StopReturn, Cleanup, DestroyThreads, DestroyRejector, DestroyStore,
              DestroyCamera, Signal, ThreadTests, CaptureWorks, OtherWorks,
              setupVars, partVars, threadVars, cameraVars, mainVars, vars
  <2>1. at' \in Positions
    BY DEF TypeOK, Positions
  <2>2. command' \in CommandLines /\ mode' \in {"image", "line"} /\ DOMAIN config' = Keys
    BY ConfigureKeys DEF TypeOK
  <2>3. code' \in 0 .. 2
    <3>1. code' = code \/ code' \in {0, 1, 2}
      OBVIOUS
    <3> HIDE DEF Next, vars
    <3>2. code \in 0 .. 2
      BY DEF TypeOK
    <3>3. 0 \in 0 .. 2 /\ 1 \in 0 .. 2 /\ 2 \in 0 .. 2
      OBVIOUS
    <3> QED  BY <3>1, <3>2, <3>3, Zenon
  <2>4. signalled' \in BOOLEAN /\ wasRunning' \in BOOLEAN
    BY Zenon DEF TypeOK
  <2>5. /\ store' \in {"none", "closed", "open"} /\ rejector' \in {"none", "off", "ready"}
        /\ source' \in Camera!Sources
    BY DEF TypeOK, Compose, Camera!Sources, Camera!OpenSucceeds, Camera!OpenFails,
           Camera!Close, Camera!Grab, Camera!GrabClosed, Camera!GrabReads,
           Camera!GrabMisses, Camera!GrabRewinds, Camera!GrabEnds
  <2>6. capture' \in {"none", "shut", "open"} /\ grabbed' \in {"valid", "invalid"}
    BY DEF TypeOK, Camera!OpenSucceeds, Camera!OpenFails, Camera!Close, Camera!Grab,
           Camera!GrabClosed, Camera!GrabReads, Camera!GrabMisses, Camera!GrabRewinds,
           Camera!GrabEnds
  <2>7. opened' \in BOOLEAN /\ isVideo' \in BOOLEAN
    BY Zenon DEF TypeOK, Camera!OpenSucceeds, Camera!OpenFails, Camera!Close, Camera!Grab,
                 Camera!GrabClosed, Camera!GrabReads, Camera!GrabMisses,
                 Camera!GrabRewinds, Camera!GrabEnds
  <2>8. /\ phase' \in {"idle", "stopping"}
        /\ thread' \in [Threads -> {"none", "check", "work", "done"}]
    BY DEF TypeOK, Pipeline!Start, Pipeline!StopCall, Pipeline!Join, Pipeline!StopReturn,
           Pipeline!Check, Pipeline!Work
  <2>9. running' \in BOOLEAN
    BY Zenon DEF TypeOK, Pipeline!Start, Pipeline!StopCall, Pipeline!Join,
                 Pipeline!StopReturn, Pipeline!Check, Pipeline!Work
  <2>10. running' => at' \in {"poll", "sleep", "stop"}
    <3>1. CASE StartPipeline
      BY <3>1
    <3>2. CASE StopCall
      BY <3>2 DEF Pipeline!StopCall
    <3>3. CASE ~StartPipeline /\ ~StopCall
      <4>1. running' => running
        BY <3>3, Zenon DEF Pipeline!Join, Pipeline!StopReturn, Pipeline!Check, Pipeline!Work
      <4>2. at \in {"poll", "sleep"} => at' \in {"poll", "sleep", "stop"}
        BY <3>3
      <4>3. at = "stop" => at' = at
        BY <3>3
      <4> QED  BY <4>1, <4>2, <4>3 DEF TypeOK
    <3> QED  BY <3>1, <3>2, <3>3
  <2>11. store' = "closed" =>
           at' \in {"open camera", "load model", "open store", "destroy threads",
                    "destroy rejector", "destroy store", "destroy camera", "exit"}
    <3>1. CASE Launch
      BY <3>1 DEF Compose, TypeOK
    <3>2. CASE OpenStore
      BY <3>2
    <3>3. CASE Initialization /\ ~Launch /\ ~OpenStore
      BY <3>3 DEF TypeOK
    <3>4. CASE MainLoop
      <4>1. /\ store' = store
            /\ at \in {"start", "poll", "sleep", "stop", "joining", "cleanup"}
        BY <3>4
      <4> HIDE DEF Next
      <4> QED  BY <4>1 DEF TypeOK
    <3>5. CASE Destruction
      BY <3>5 DEF TypeOK, PartsOutliveThreads
    <3>6. CASE ~MainStep
      <4>1. store' = store /\ at' = at
        BY <3>6
      <4> HIDE DEF Next
      <4> QED  BY <4>1 DEF TypeOK
    <3> QED  BY <3>1, <3>2, <3>3, <3>4, <3>5, <3>6
  <2> QED  BY <2>1, <2>2, <2>3, <2>4, <2>5, <2>6, <2>7, <2>8, <2>9, <2>10,
             <2>11, Zenon DEF TypeOK
<1> QED  BY <1>1, <1>2, ThreadsAreJoinedFirst, PTL DEF Spec

-----------------------------------------------------------------------------
(* Where the main thread is while a part is open: initialization opens     *)
(* them in this order, and the destructors release them in the reverse.    *)
PartsInv ==
  /\ capture = "open" => at \notin {"launch", "read image", "open camera", "exit"}
  /\ store = "open" =>
       at \notin {"launch", "read image", "open camera", "load model", "open store",
                 "destroy camera", "exit"}
  /\ rejector = "ready" =>
       at \notin {"launch", "read image", "open camera", "load model", "open store",
                 "initialize rejector", "destroy store", "destroy camera", "exit"}

(* A program that returns from main has released everything, whichever way *)
(* it came there: by a signal, by ESC after which stop() skips its         *)
(* cleanup, or out of an initialization that failed half way.              *)
THEOREM ExitReleasesAll == Spec => []ReleasedAtExit
<1>1. Init => PartsInv
  BY DEF Init, PartsInv, Camera!Init
<1>2. TypeOK /\ PartsInv /\ PartsOutliveThreads /\ [Next]_vars => PartsInv'
  <2> SUFFICES ASSUME TypeOK, PartsInv, PartsOutliveThreads, [Next]_vars PROVE PartsInv'
    OBVIOUS
  <2> USE DEF Next, MainStep, Initialization, MainLoop, Destruction, ThreadStep, MainGoes,
              Launch, ReadImage, OpenCamera, LoadModel, OpenStore, InitializeRejector,
              MakeDirectory, InspectImage, StartPipeline, Poll, Sleep, StopCall, Join,
              StopReturn, Cleanup, DestroyThreads, DestroyRejector, DestroyStore,
              DestroyCamera, Signal, ThreadTests, CaptureWorks, OtherWorks,
              setupVars, partVars, threadVars, cameraVars, mainVars, vars
  <2>1. CASE Launch
    BY <2>1 DEF PartsInv, Compose
  <2>2. CASE OpenCamera
    BY <2>2 DEF PartsInv, Camera!OpenSucceeds, Camera!OpenFails
  <2>3. CASE ReadImage \/ LoadModel \/ OpenStore \/ InitializeRejector \/ MakeDirectory
             \/ InspectImage
    BY <2>3 DEF PartsInv
  <2>4. CASE MainLoop
    <3>1. /\ UNCHANGED partVars /\ (capture' = "open" => capture = "open")
          /\ at' \in {"poll", "sleep", "stop", "joining", "cleanup", "destroy threads"}
      BY <2>4 DEF Camera!Close
    <3> HIDE DEF Next, vars
    <3> QED  BY <3>1 DEF PartsInv
  <2>5. CASE Destruction
    BY <2>5 DEF PartsInv, PartsOutliveThreads, Camera!Close
  <2>6. CASE \E t \in Threads : ThreadStep(t)
    <3>1. /\ UNCHANGED <<at, store, rejector>> /\ (capture' = "open" => capture = "open")
      BY <2>6 DEF Camera!Grab, Camera!GrabClosed, Camera!GrabReads, Camera!GrabMisses,
                  Camera!GrabRewinds, Camera!GrabEnds
    <3> QED  BY <3>1 DEF PartsInv
  <2>7. CASE Signal \/ UNCHANGED vars
    BY <2>7 DEF PartsInv
  <2> QED  BY <2>1, <2>2, <2>3, <2>4, <2>5, <2>6, <2>7
<1>3. PartsInv /\ PartsOutliveThreads => ReleasedAtExit
  BY DEF PartsInv, PartsOutliveThreads, ReleasedAtExit
<1> QED  BY <1>1, <1>2, <1>3, TypeCorrect, ThreadsAreJoinedFirst, PTL DEF Spec

(* No setting that is in force ever leaves its range, whatever the file    *)
(* and the command line say, except for a threshold given as "nan".        *)
THEOREM SettingsStayInRange == Spec => []SettingsInRange
<1>1. Init => SettingsInRange
  <2> SUFFICES ASSUME Init, NEW key \in NumericKeys PROVE InRange(key, config[key])
    BY DEF SettingsInRange, InRange
  <2>1. config = Load(NoFile) /\ IsFile(NoFile)
    BY DEF Init, IsFile
  <2> QED  BY <2>1, LoadInRange
<1>2. TypeOK /\ SettingsInRange /\ [Next]_vars => SettingsInRange'
  <2> SUFFICES ASSUME TypeOK, SettingsInRange, [Next]_vars PROVE SettingsInRange'
    OBVIOUS
  <2>1. config' = config \/ config' = Configure
    <3> USE DEF Next, MainStep, Initialization, MainLoop, Destruction, ThreadStep, MainGoes,
                Launch, ReadImage, OpenCamera, LoadModel, OpenStore, InitializeRejector,
                MakeDirectory, InspectImage, StartPipeline, Poll, Sleep, StopCall, Join,
                StopReturn, Cleanup, DestroyThreads, DestroyRejector, DestroyStore,
                DestroyCamera, Signal, ThreadTests, CaptureWorks, OtherWorks,
                setupVars, partVars, threadVars, cameraVars, mainVars, vars
    <3> QED  OBVIOUS
  <2>2. CASE config' = config
    BY <2>2 DEF SettingsInRange
  <2>3. CASE config' = Configure
    <3> SUFFICES ASSUME NEW key \in NumericKeys PROVE InRange(key, config'[key])
      BY DEF SettingsInRange, InRange
    <3>1. command \in CommandLines
      BY DEF TypeOK
    <3> QED  BY <2>3, <3>1, ConfigureInRange
  <2> QED  BY <2>1, <2>2, <2>3
<1> QED  BY <1>1, <1>2, TypeCorrect, PTL DEF Spec
-----------------------------------------------------------------------------
(* The composition: all that main does to the pipeline is to call what     *)
(* PipelineThreads offers, when PipelineThreads allows it - start() on a   *)
(* pipeline at rest, stop() once - so that what DefectPipeline implements  *)
(* is what this program runs on.                                           *)
THEOREM CallsFitThePipeline ==
  Spec => Pipeline!Init /\ [][Pipeline!Next]_(Pipeline!threadVars)
<1>1. Init => Pipeline!Init
  BY DEF Init
<1>2. [Next]_vars => [Pipeline!Next]_(Pipeline!threadVars)
  <2> SUFFICES ASSUME [Next]_vars
               PROVE  Pipeline!Next \/ UNCHANGED Pipeline!threadVars
    OBVIOUS
  <2> USE DEF Pipeline!Next, Pipeline!StopStep, Pipeline!ThreadStep
  <2>1. CASE StartPipeline
    <3>1. \E enabled \in {Threads, Threads \ {"display"}} : Pipeline!Start(enabled)
      BY <2>1 DEF StartPipeline
    <3> QED  BY <3>1
  <2>2. CASE StopCall \/ StopReturn \/ \E t \in Threads : Join(t)
    BY <2>2 DEF StopCall, StopReturn, Join
  <2>3. CASE \E t \in Threads : ThreadStep(t)
    BY <2>3 DEF ThreadStep, ThreadTests, CaptureWorks, OtherWorks
  <2>4. CASE Initialization \/ Poll \/ Sleep \/ Cleanup \/ Destruction \/ Signal
             \/ UNCHANGED vars
    <3>1. UNCHANGED threadVars
      BY <2>4
      DEF Initialization, Launch, ReadImage, OpenCamera, LoadModel, OpenStore,
          InitializeRejector, MakeDirectory, InspectImage, Poll, Sleep, Cleanup,
          Destruction, DestroyThreads, DestroyRejector, DestroyStore, DestroyCamera,
          Signal, vars
    <3> QED  BY <3>1 DEF threadVars, Pipeline!threadVars
  <2> QED  BY <2>1, <2>2, <2>3, <2>4 DEF Next, MainStep, MainLoop
<1> QED  BY <1>1, <1>2, PTL DEF Spec
=============================================================================
