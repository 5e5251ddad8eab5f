\* Two agents answer each other while the first reply is still under way.
CONSTANTS
  arch = arch
  eng = eng
  eng2 = eng2
  None = None
  Agents = {arch, eng, eng2}
  Role <- RoleOf
  MaxRounds = 4
  Keep = 3
  MaxAttempts = 2
  Openings <- Dialogue
  Page = 3
  MaxItems = 3
SPECIFICATION Spec
CHECK_DEADLOCK FALSE
INVARIANT OwedIsQueuedOrGivenUp
