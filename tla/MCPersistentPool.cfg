\* Two workers and the caller, on a machine with and without full fences.
SPECIFICATION Spec
CONSTANTS
  Lanes = 3
  JobSizes <- MCJobSizes
  MaxDispatch = 2
INVARIANTS
  TypeOK
  EachIndexOnce
  NoDanglingJob
  NoLostWakeup
PROPERTIES
  NoSkippedGeneration
  KeepsPromise
\* Drop ends the workers and the pool.
CHECK_DEADLOCK FALSE
