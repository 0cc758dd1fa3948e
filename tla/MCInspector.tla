----------------------------- MODULE MCInspector -----------------------------
(* The instances of Inspector that TLC checks.                             *)
EXTENDS Inspector

(* The arm and the window switched on in the file, a looped video, values  *)
(* that do not parse, are out of range, are set twice or set to nothing.   *)
Plant == <<<<"pipeline_enable_gpio", "true">>, <<"pipeline_enable_display", "true">>,
           <<"pipeline_save_defect_images", "false">>>>
Looped == <<<<"camera_video_path", "line.mp4">>, <<"camera_loop_video", "true">>,
            <<"pipeline_enable_gpio", "yes">>>>
Broken == <<<<"camera_width", 0>>, <<"camera_width", Blank>>, <<"camera_fps", 241>>,
            <<"pipeline_queue_capacity", 8>>, <<"pipeline_queue_capacity", 2000>>,
            <<"inference_nms_threshold", NaN>>, <<"inference_num_classes", NaN>>,
            <<"inference_conf_threshold", 100>>>>
Percent == <<<<"inference_conf_threshold", 9800>>>>

MCCommandLines ==
  {<<>>,
   <<<<"--config", Plant>>, <<"--display">>>>,
   <<<<"--config", Looped>>>>,
   <<<<"--config", Broken>>, <<"--video", "a.mp4">>, <<"--loop">>, <<"--display">>>>,
   <<<<"--config", NoFile>>, <<"--video", "a.mp4">>, <<"--display">>>>,
   <<<<"--config", Broken>>, <<"--image", "can.jpg">>>>,
   <<<<"--camera", 1>>, <<"--camera", 300>>>>,
   <<<<"--camera", 1>>, <<"--camera", Garbage>>>>}

MCPercent == {<<<<"--config", Percent>>>>}
=============================================================================
