----------------------------- MODULE ConfigLoader -----------------------------
(***************************************************************************)
(* ConfigLoader::load of include/edgeai/common/config_loader.h, and how    *)
(* main.cpp puts the command line on top of it.                            *)
(*                                                                         *)
(* A file is the sequence of its lines <<key, value>>; comments and lines  *)
(* without a key or a "=" are left out.  The value of a numeric key is the *)
(* number std::stoi or std::stof finds at its start (so that "640px" is    *)
(* 640), in hundredths where it is a float, or Garbage where it finds none *)
(* or one that does not fit the type.                                      *)
(***************************************************************************)
EXTENDS Integers, Sequences, FiniteSets, FiniteSetsExt

CONSTANTS
  Garbage,   \* a text std::stoi and std::stof throw on
  NaN,       \* the text "nan", which std::stof reads as a float
  Blank,     \* nothing after the "="
  NoFile     \* a file that cannot be opened

(* The numeric settings: the default of the structure in types.h, what     *)
(* load() falls back to when the value does not parse, and the range.      *)
Setting(default, fallback, min, max) ==
  [default |-> default, fallback |-> fallback, min |-> min, max |-> max]

Integer == [camera_device_id         |-> Setting(0, 0, 0, 255),
            camera_width             |-> Setting(1920, 1920, 1, 7680),
            camera_height            |-> Setting(1080, 1080, 1, 4320),
            camera_fps               |-> Setting(30, 30, 1, 240),
            camera_exposure_us       |-> Setting(10000, 10000, 1, 10000000),
            inference_input_width    |-> Setting(640, 640, 32, 4096),
            inference_input_height   |-> Setting(640, 640, 32, 4096),
            inference_num_classes    |-> Setting(5, 5, 1, 10000),
            inference_num_threads    |-> Setting(4, 4, 1, 64),
            pipeline_queue_capacity  |-> Setting(32, 32, 1, 1024),
            pipeline_gpio_reject_pin |-> Setting(17, 17, 0, 255),
            pipeline_max_defect_images |-> Setting(10000, 10000, 0, 1000000),
            pipeline_max_db_records  |-> Setting(100000, 100000, 0, 10000000),
            pipeline_inference_watchdog_timeout_ms |-> Setting(10000, 10000, 0, 3600000)]

Float == [inference_conf_threshold |-> Setting(98, 50, 0, 100),
          inference_nms_threshold  |-> Setting(15, 45, 0, 100)]

Switch == [camera_trigger_mode |-> FALSE, camera_loop_video |-> FALSE,
           inference_use_gpu |-> FALSE, pipeline_save_defect_images |-> TRUE,
           pipeline_enable_display |-> FALSE, pipeline_enable_gpio |-> FALSE]

Text == [camera_backend |-> "v4l2", camera_video_path |-> "",
         inference_model_path |-> "models/defect_detector.onnx",
         inference_execution_provider |-> "cpu",
         pipeline_defect_image_dir |-> "data/defects",
         pipeline_database_path |-> "data/defects.db",
         pipeline_log_path |-> "edgeai.log"]

IntegerKeys == DOMAIN Integer
FloatKeys == DOMAIN Float
NumericKeys == IntegerKeys \cup FloatKeys
Numeric(key) == IF key \in IntegerKeys THEN Integer[key] ELSE Float[key]
Keys == NumericKeys \cup DOMAIN Switch \cup DOMAIN Text

(* What a file may be: the value of a numeric key is one of those above.   *)
IsFile(file) ==
  \/ file = NoFile
  \/ /\ Len(file) \in Nat /\ DOMAIN file = 1 .. Len(file)
     /\ \A i \in DOMAIN file : file[i][1] \in NumericKeys =>
          file[i][2] \in {Garbage, NaN, Blank} \/ file[i][2] \in Int

(* kv: the value of the last line of a key that has one.                   *)
Lines(file, key) == {i \in DOMAIN file : file[i][1] = key /\ file[i][2] # Blank}
Last(file, key) == file[Max(Lines(file, key))][2]

(* Faulty variant: the upper bound is not checked.                         *)
MinimumOnly(key, value) ==
  LET s == Numeric(key)
  IN  IF value = Garbage \/ (value # NaN /\ value < s.min)
      THEN s.fallback ELSE value

(* safe_stoi and safe_stof.  NaN is neither below the minimum nor above    *)
(* the maximum.                                                            *)
SafeNumber(key, value) ==
  LET s == Numeric(key)
  IN  IF \/ value = Garbage
         \/ value = NaN /\ key \in IntegerKeys
         \/ value # NaN /\ (value < s.min \/ value > s.max)
      THEN s.fallback ELSE value

Default(key) ==
  IF key \in NumericKeys THEN Numeric(key).default
  ELSE IF key \in DOMAIN Switch THEN Switch[key] ELSE Text[key]

Parse(key, value) ==
  IF key \in NumericKeys THEN SafeNumber(key, value)
  ELSE IF key \in DOMAIN Switch THEN value = "true" ELSE value

(* A missing file, like none at all, leaves every default.                 *)
Load(file) ==
  [key \in Keys |-> IF file = NoFile \/ Lines(file, key) = {} THEN Default(key)
                    ELSE Parse(key, Last(file, key))]
=============================================================================
