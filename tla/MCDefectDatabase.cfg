\* Four inserts of up to two detections, pruned to two records.
CONSTANTS
  MaxRecords = 2
  MaxDetections = 2
  MaxInserts = 4
SPECIFICATION Spec
INVARIANTS
  TypeOK
  TablesAgree
  AckedIsDurable
  PruneRemovesOldest
