\* One thread among three agents, with one crash, one fault and one steward call.
CONSTANTS
  arch = arch
  eng = eng
  eng2 = eng2
  None = None
  Replayer = Replayer
  Agents = {arch, eng, eng2}
  Role <- RoleOf
  MaxRounds = 3
  Keep = 1
  MaxAttempts = 1
  ReplyArgs <- SomeReplies
  Openings <- AllOpenings
  MaxFaults = 1
  MaxCrashes = 1
  MaxSteward = 1
SPECIFICATION Spec
INVARIANT TwoAgentsConverge
INVARIANT CounterpartyResolved
PROPERTY AuthorityWhenSeen
PROPERTY ClosedByCascadeIsComplete
PROPERTY ImplementsNegotiation
PROPERTY MarkedCascadeEnds
CHECK_DEADLOCK FALSE
