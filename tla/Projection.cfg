\* Two authors and the sweeper; one failure and one crash.
CONSTANTS
  eng = eng
  arch = arch
  Sweeper = Sweeper
  Authors = {eng, arch}
  Keep = 1
  MaxRounds = 3
  MaxFaults = 1
  MaxCrashes = 1
SPECIFICATION Spec
INVARIANT SequencesDistinct
INVARIANT MarkerIsHonest
PROPERTY LatestLands
CHECK_DEADLOCK FALSE
