\* An arc that brackets a gated leaf: gates between rows, lapses and heartbeats, the cap.
CONSTANTS
  eng = eng
  eng2 = eng2
  arch = arch
  ver = ver
  arc = arc
  leaf = leaf
  seed = seed
  None = None
  Items = {arc, leaf, seed}
  Agents = {eng, ver}
  Stewards = {}
  Verifiers = {ver}
  Creator <- CreatedByEng
  Eligible <- EngWorksLeaf
  Gated = {leaf}
  Demand <- EachItsOwn
  DependsOn <- LeafAfterSeed
  CompletionDependsOn <- ArcBracketsLeaf
  Decisions = {}
  PauseOps = {}
  Ttl = 1
  PoisonCap = 2
  LegacyPaused = {}
  WipCap = 1
  MaxTime = 2
  MaxToken = 3
  MaxEvidence = 1
SPECIFICATION Spec
INVARIANT WipCapHolds
INVARIANT DoneIsGated
INVARIANT DependenciesStayMet
CHECK_DEADLOCK FALSE
PROPERTY LapsedStaysLapsed
