------------------------------- MODULE Records -------------------------------
(***************************************************************************)
(* What an inspected frame leaves behind and who reads it: the image file  *)
(* and the rows that DefectPipeline::handle_result writes, the pruning of  *)
(* both every prune_interval frames (src/pipeline/defect_pipeline.cpp),    *)
(* and the dashboard, a process of its own that asks the database and then *)
(* opens the files it names (python/dashboard/app.py).                     *)
(*                                                                         *)
(* DefectDatabase gives the statements; here the inference thread decides  *)
(* which operation comes next.  The process may stop or die anywhere and   *)
(* start again: frame ids and frames_since_prune start over, files and     *)
(* committed rows stay.  A frame with detections is a REJECT, since        *)
(* main.cpp gives one threshold to the filter and to the decision.         *)
(***************************************************************************)
EXTENDS DefectDatabase, Integers, Sequences, SequencesExt

CONSTANTS MaxImages,      \* max_defect_images, 0 for no limit
          PruneInterval,  \* prune_interval
          MaxRuns,        \* bound: starts of the process
          MaxSeconds      \* bound: the clock

ASSUME RecordsAssumption ==
  /\ MaxImages \in Nat
  /\ PruneInterval \in Nat \ {0}
  /\ MaxRuns \in Nat /\ MaxSeconds \in Nat

VARIABLES
  step,        \* what the inference thread does next, "down" if there is none
  found,       \* detections of the frame in hand
  name,        \* its store_result.image_path
  frame,       \* its frame_id
  sincePrune,  \* frames_since_prune
  second,      \* the system clock, when it was last read
  run,         \* history: how often the process has started
  path,        \* column image_path, per inspection
  picture,     \* history: the frame that an inspection is about
  images,      \* the files of defect_image_dir, by last_write_time
  doomed,      \* the files that the current pruning has yet to remove
  removed,     \* history: the latest frame whose file has been removed
  stubborn,    \* history: frames whose file could not be removed
  request      \* the dashboard's request in progress, or its answer

frameVars == <<step, found, name, frame, sincePrune>>
timeVars == <<second, run>>
rowVars == <<path, picture>>
fileVars == <<images, doomed, removed, stubborn>>
dbVars == vars
recordVars == <<dbVars, frameVars, timeVars, rowVars, fileVars, request>>

NoImage == <<>>     \* the empty image_path
NoFrame == <<0, 0>>
NoRequest == [asks |-> "nothing"]

RecordsInit ==
  /\ Init
  /\ step = "down" /\ found = 0 /\ name = NoImage /\ frame = 0 /\ sincePrune = 0
  /\ second = 0 /\ run = 0
  /\ path = [i \in Inspections |-> NoImage]
  /\ picture = [i \in Inspections |-> NoFrame]
  /\ images = <<>> /\ doomed = <<>>
  /\ removed = NoFrame /\ stubborn = {}
  /\ request = NoRequest

-----------------------------------------------------------------------------
(* While the dashboard counts, the rows that come and go are noted: how    *)
(* many rows there can have been at most, and how many at least.  Its      *)
(* answers are looked at once; nothing else happens meanwhile.             *)
Noted ==
  /\ request.asks \notin {"sent", "stats"}
  /\ request' =
       IF request.asks \in {"rejects", "passed"}
       THEN [request EXCEPT
               !.most = @ + Cardinality(db'.inspections \ db.inspections),
               !.least = @ - Cardinality(db.inspections \ db'.inspections)]
       ELSE request

(* Starting takes longer than a second.                                    *)
StartProcess ==
  /\ step = "down" /\ run < MaxRuns /\ second < MaxSeconds
  /\ Open
  /\ run' = run + 1 /\ second' = second + 1
  /\ step' = "frame"
  /\ UNCHANGED <<found, name, frame, sincePrune, rowVars, fileVars>>
  /\ Noted

(* The process dies, or ends between two operations of the database.       *)
EndProcess ==
  /\ step # "down"
  /\ Crash \/ Close
  /\ step' = "down" /\ found' = 0 /\ name' = NoImage /\ frame' = 0
  /\ sincePrune' = 0 /\ doomed' = <<>>
  /\ UNCHANGED <<timeVars, rowVars, images, removed, stubborn>>
  /\ Noted

-----------------------------------------------------------------------------
(* Faulty variant: a name without the time.                                *)
NameOfFrame(s, f) == <<0, f>>

(* The name of the file: the second and the frame id.                      *)
ImageName(s, f) == <<s, f>>

(* The files but for the one of that name, if there is one: two files of a *)
(* directory have different names.                                         *)
Without(n) ==
  IF \E i \in DOMAIN images : images[i].name = n
  THEN RemoveAt(images, CHOOSE i \in DOMAIN images : images[i].name = n)
  ELSE images

(* imwrite: a file of this name is replaced.                               *)
Written(file) == Append(Without(file.name), file)

(* handle_result, up to the insert: the image of a frame with detections   *)
(* is written first, and whatever came of that its name goes into the row. *)
SaveImage(k, now) ==
  /\ step = "frame" /\ now >= second
  /\ calls < MaxInserts
  /\ frame' = frame + 1
  /\ found' = k
  /\ second' = now
  /\ IF k > 0
     THEN /\ name' = ImageName(now, frame')
          /\ images' \in {images, Written([name |-> name', shows |-> <<run, frame'>>])}
     ELSE name' = NoImage /\ UNCHANGED images
  /\ step' = "record"
  /\ UNCHANGED <<dbVars, sincePrune, run, rowVars, doomed, removed, stubborn>>
  /\ Noted

(* store_->insert_result(store_result)                                     *)
StoreResult ==
  /\ step = "record"
  /\ BeginInsert(found)
  /\ step' = "insert"
  /\ UNCHANGED <<found, name, frame, sincePrune, timeVars, rowVars, fileVars>>
  /\ Noted

Insert ==
  /\ step = "insert"
  /\ \/ /\ InsertInspection
        /\ path' = [path EXCEPT ![calls] = name]
        /\ picture' = [picture EXCEPT ![calls] = <<run, frame>>]
     \/ (InsertDetection \/ InsertFails \/ Commit) /\ UNCHANGED rowVars
  /\ UNCHANGED <<frameVars, timeVars, fileVars>>
  /\ Noted

(* The result is handled; every PruneInterval frames comes a pruning.      *)
FrameDone ==
  /\ step = "insert" /\ at = "idle"
  /\ IF sincePrune + 1 >= PruneInterval
     THEN sincePrune' = 0 /\ step' = "prune rows"
     ELSE sincePrune' = sincePrune + 1 /\ step' = "frame"
  /\ found' = 0 /\ name' = NoImage
  /\ UNCHANGED <<dbVars, frame, timeVars, rowVars, fileVars>>
  /\ Noted

-----------------------------------------------------------------------------
(* prune_if_needed, first half: the database.                              *)
PruneRows ==
  /\ step = "prune rows"
  /\ \/ PruneCount /\ step' = "delete rows"
     \/ UNCHANGED dbVars /\ step' = "list images"
  /\ UNCHANGED <<found, name, frame, sincePrune, timeVars, rowVars, fileVars>>
  /\ Noted

DeleteRows ==
  /\ step = "delete rows"
  /\ DeleteDetections \/ DeleteInspections
  /\ step' = IF at' = "idle" THEN "list images" ELSE step
  /\ UNCHANGED <<found, name, frame, sincePrune, timeVars, rowVars, fileVars>>
  /\ Noted

(* Faulty variant: the newest first.                                       *)
NewestFiles(n) == SubSeq(Reverse(images), 1, n)

OldestFiles(n) == SubSeq(images, 1, n)

(* Second half: the directory is listed and sorted; the listing may fail.  *)
ListImages ==
  /\ step = "list images"
  /\ \/ /\ MaxImages > 0 /\ Len(images) > MaxImages
        /\ doomed' = OldestFiles(Len(images) - MaxImages)
        /\ step' = "remove images"
     \/ UNCHANGED doomed /\ step' = "frame"
  /\ UNCHANGED <<dbVars, found, name, frame, sincePrune, timeVars, rowVars,
                 images, removed, stubborn>>
  /\ Noted

Later(p, q) == p[1] > q[1] \/ (p[1] = q[1] /\ p[2] > q[2])

(* fs::remove, whose error nothing looks at.                               *)
RemoveImage ==
  /\ step = "remove images"
  /\ LET file == Head(doomed)
     IN  \/ /\ images' = Without(file.name)
            /\ removed' = IF Later(file.shows, removed) THEN file.shows ELSE removed
            /\ UNCHANGED stubborn
         \/ stubborn' = stubborn \cup {file.shows} /\ UNCHANGED <<images, removed>>
  /\ doomed' = Tail(doomed)
  /\ step' = IF doomed' = <<>> THEN "frame" ELSE step
  /\ UNCHANGED <<dbVars, found, name, frame, sincePrune, timeVars, rowVars>>
  /\ Noted

Pipeline ==
  \/ StartProcess \/ EndProcess
  \/ \E k \in 0 .. MaxDetections, now \in 0 .. MaxSeconds : SaveImage(k, now)
  \/ StoreResult \/ Insert \/ FrameDone
  \/ PruneRows \/ DeleteRows \/ ListImages \/ RemoveImage

-----------------------------------------------------------------------------
(* The dashboard.  Every SELECT sees the tables as last committed.         *)

(* api_defect_image: the row first ...                                     *)
AskImage(i) ==
  /\ request = NoRequest
  /\ i \in db.inspections /\ path[i] # NoImage
  /\ request' = [asks |-> "image", path |-> path[i], about |-> picture[i]]
  /\ UNCHANGED <<dbVars, frameVars, timeVars, rowVars, fileVars>>

(* ... then the file it names, as it is by then.                           *)
SendImage ==
  /\ request.asks = "image"
  /\ request' =
       [asks |-> "sent", about |-> request.about,
        shows |-> IF \E file \in ToSet(images) : file.name = request.path
                  THEN (CHOOSE file \in ToSet(images) :
                          file.name = request.path).shows
                  ELSE NoFrame]
  /\ UNCHANGED <<dbVars, frameVars, timeVars, rowVars, fileVars>>

(* Faulty variant: the count of a join with the detections.                *)
RowsOfJoin(reject) ==
  Cardinality({row \in db.inspections \X (1 .. MaxDetections) :
                 (size[row[1]] > 0) = reject /\ row[2] <= db.detections[row[1]]})

(* SELECT COUNT( * ) FROM inspections WHERE verdict = ...                  *)
RowsOf(reject) == Cardinality({i \in db.inspections : (size[i] > 0) = reject})

(* api_stats: the total, the rejects and the passes, by three SELECTs.     *)
(* What the rejects leave of the total is the range of the passes.         *)
AskStats ==
  /\ request = NoRequest
  /\ request' = [asks |-> "rejects", most |-> Cardinality(db.inspections),
                 least |-> Cardinality(db.inspections)]
  /\ UNCHANGED <<dbVars, frameVars, timeVars, rowVars, fileVars>>

CountRejects ==
  /\ request.asks = "rejects"
  /\ request' = [asks |-> "passed", most |-> request.most - RowsOf(TRUE),
                 least |-> request.least - RowsOf(TRUE)]
  /\ UNCHANGED <<dbVars, frameVars, timeVars, rowVars, fileVars>>

CountPassed ==
  /\ request.asks = "passed"
  /\ request' = [asks |-> "stats", most |-> request.most, least |-> request.least,
                 passed |-> RowsOf(FALSE)]
  /\ UNCHANGED <<dbVars, frameVars, timeVars, rowVars, fileVars>>

Answered ==
  /\ request.asks \in {"sent", "stats"}
  /\ request' = NoRequest
  /\ UNCHANGED <<dbVars, frameVars, timeVars, rowVars, fileVars>>

Dashboard ==
  \/ \E i \in Inspections : AskImage(i)
  \/ SendImage \/ AskStats \/ CountRejects \/ CountPassed \/ Answered

RecordsNext == Pipeline \/ Dashboard

RecordsSpec == RecordsInit /\ [][RecordsNext]_recordVars
-----------------------------------------------------------------------------
Steps == {"down", "frame", "record", "insert", "prune rows", "delete rows",
          "list images", "remove images"}
FrameNumbers == (0 .. MaxRuns) \X (0 .. MaxInserts)
Names == (0 .. MaxSeconds) \X (0 .. MaxInserts)
FileTypes == [name : Names, shows : FrameNumbers]
RequestTypes ==
  {NoRequest} \cup [asks : {"image"}, path : Names, about : FrameNumbers]
              \cup [asks : {"sent"}, about : FrameNumbers, shows : FrameNumbers]
              \cup [asks : {"rejects", "passed"}, most : Int, least : Int]
              \cup [asks : {"stats"}, most : Int, least : Int, passed : Nat]

(* Every variable has its type, and the inference thread is where the      *)
(* database is: the connection is open while the process runs, and an      *)
(* operation of the database is under way only inside its call; there are  *)
(* files to be removed only in the loop that removes them.                 *)
RecordsTypeOK ==
  /\ TypeOK
  /\ step \in Steps /\ (step = "down" <=> at = "closed")
  /\ at \in {"insert inspection", "insert detection", "commit"} => step = "insert"
  /\ at \in {"delete detections", "delete inspections"} <=> step = "delete rows"
  /\ found \in 0 .. MaxDetections /\ sincePrune \in 0 .. PruneInterval - 1
  /\ second \in 0 .. MaxSeconds /\ <<run, frame>> \in FrameNumbers
  /\ name \in Names \cup {NoImage}
  /\ path \in [Inspections -> Names \cup {NoImage}]
  /\ picture \in [Inspections -> FrameNumbers]
  /\ images \in Seq(FileTypes) /\ doomed \in Seq(FileTypes)
  /\ step = "remove images" <=> doomed # <<>>
  /\ removed \in FrameNumbers /\ stubborn \subseteq FrameNumbers
  /\ request \in RequestTypes

(* The pruning of the images keeps the newest: what it has removed is      *)
(* older than whatever is left, except for files that could not be         *)
(* removed, and it never leaves fewer than max_defect_images, over any     *)
(* number of prunings, crashes in the middle of one and failing removals.  *)
NewestImagesKept ==
  removed # NoFrame =>
    /\ \A file \in ToSet(images) :
         file.shows \in stubborn \/ Later(file.shows, removed)
    /\ Len(images) >= MaxImages

(* An image that the dashboard sends for an inspection is the image of     *)
(* that inspection, although frame ids start over with every process, the  *)
(* files are pruned apart from the rows that name them, and the row is     *)
(* read some time before the file is.                                      *)
SentImageIsTheRows ==
  request.asks = "sent" /\ request.shows # NoFrame =>
    request.shows = request.about

(* The three counts of /api/stats come from three moments, so that rejects *)
(* and passes need not add up to the total; they are off by no more than   *)
(* the rows that came and went in between.                                 *)
AnswerWithinCommits ==
  request.asks = "stats" =>
    request.passed \in request.least .. request.most
=============================================================================
