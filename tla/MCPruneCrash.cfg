\* A crash between the two deletes of a prune.
CONSTANTS
  MaxRecords = 1
  MaxDetections = 1
  MaxInserts = 2
SPECIFICATION Spec
INVARIANT NoOrphansAfterCrash
