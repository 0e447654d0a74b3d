SPECIFICATION Spec
CONSTANTS
  None = None
  Managed = {s1, s2, s3}
  Default = {d1}
  Overlap = FALSE
  MaxRevision = 4
SYMMETRY Lives
INVARIANTS
  NoCrashLoop
  TaskInv
PROPERTIES
  CompletionHears
CHECK_DEADLOCK FALSE
