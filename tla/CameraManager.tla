---------------------------- MODULE CameraManager ----------------------------
(***************************************************************************)
(* CameraManager of src/camera/camera_manager.cpp: a live camera, a video  *)
(* file played once, or one played in a loop.  OpenCV's VideoCapture may   *)
(* refuse to open and may fail to read at any time; a video that has been  *)
(* played to its end fails to read.  Numbers and times of frames are left  *)
(* out, as is the pause that plays a video at its own speed.               *)
(***************************************************************************)
VARIABLES
  source,    \* config_: "live", "video", or "loop" for a video to repeat
  capture,   \* capture_: "none", "shut", or "open"
  opened,    \* opened_
  isVideo,   \* is_video_
  grabbed    \* what the last grab_frame() returned: "valid" or "invalid"

cameraVars == <<source, capture, opened, isVideo, grabbed>>

Sources == {"live", "video", "loop"}

Init ==
  /\ source \in Sources
  /\ capture = "none" /\ opened = FALSE /\ isVideo = FALSE
  /\ grabbed = "invalid"

(* open() starts from a new VideoCapture, so that whatever the old one had *)
(* open is released; when it fails, opened_ and is_video_ keep their       *)
(* values.                                                                 *)
OpenSucceeds ==
  /\ capture' = "open"
  /\ opened' = TRUE
  /\ isVideo' = (isVideo \/ source # "live")
  /\ UNCHANGED <<source, grabbed>>

OpenFails ==
  /\ capture' = "shut"
  /\ UNCHANGED <<source, opened, isVideo, grabbed>>

(* close(), and the destructor, which calls it.                            *)
Close ==
  /\ capture' = IF capture = "open" THEN "shut" ELSE capture
  /\ opened' = FALSE
  /\ UNCHANGED <<source, isVideo, grabbed>>

(* grab_frame(): from a closed camera, and with a read that succeeds.      *)
GrabClosed ==
  /\ capture # "open"
  /\ grabbed' = "invalid"
  /\ UNCHANGED <<source, capture, opened, isVideo>>

GrabReads ==
  /\ capture = "open"
  /\ grabbed' = "valid"
  /\ UNCHANGED <<source, capture, opened, isVideo>>

(* A read that fails: a live camera goes on, a video is rewound and read   *)
(* again, which may fail as well, or is closed.                            *)
GrabMisses ==
  /\ capture = "open"
  /\ ~isVideo
  /\ grabbed' = "invalid"
  /\ UNCHANGED <<source, capture, opened, isVideo>>

GrabRewinds ==
  /\ capture = "open"
  /\ isVideo /\ source = "loop"
  /\ grabbed' \in {"valid", "invalid"}
  /\ UNCHANGED <<source, capture, opened, isVideo>>

GrabEnds ==
  /\ capture = "open"
  /\ isVideo /\ source # "loop"
  /\ capture' = "shut" /\ opened' = FALSE
  /\ grabbed' = "invalid"
  /\ UNCHANGED <<source, isVideo>>

Grab == GrabClosed \/ GrabReads \/ GrabMisses \/ GrabRewinds \/ GrabEnds
=============================================================================
