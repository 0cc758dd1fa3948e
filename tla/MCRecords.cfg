\* Two inserts, and frames that die before theirs, in up to three runs of
\* the process, pruned after every frame to one record and one image; frame
\* ids collide across the runs.  The system stops when the last run has ended.
CONSTANTS
  MaxRecords = 1
  MaxDetections = 1
  MaxInserts = 2
  MaxImages = 1
  PruneInterval = 1
  MaxRuns = 3
  MaxSeconds = 3
SPECIFICATION RecordsSpec
INVARIANTS
  RecordsTypeOK
  NewestImagesKept
  SentImageIsTheRows
  AnswerWithinCommits
CHECK_DEADLOCK FALSE
