\* A thread opened to one engineer or to two, replies overlapping or not; the watchdog reads two items.
CONSTANTS
  arch = arch
  eng = eng
  eng2 = eng2
  None = None
  Agents = {arch, eng, eng2}
  Role <- RoleOf
  MaxRounds = 3
  Keep = 3
  MaxAttempts = 2
  Openings <- ToOneOrPool
  Page = 2
  MaxItems = 3
SPECIFICATION Spec
INVARIANT OwedUnlessTorn
INVARIANT ClaimEndsTheRest
PROPERTY LadderEnds
CHECK_DEADLOCK FALSE
