\* What the poison cap counts.
CONSTANTS
  eng = eng
  eng2 = eng2
  arch = arch
  ver = ver
  arc = arc
  leaf = leaf
  seed = seed
  None = None
  Items = {leaf}
  Agents = {eng, eng2, arch, ver}
  Stewards = {arch}
  Verifiers = {ver}
  Creator <- CreatedByEng
  Eligible <- EngineersMayClaim
  Gated = {}
  Demand <- ReviewWanted
  DependsOn <- NoEdges
  CompletionDependsOn <- NoEdges
  Decisions = {d1}
  PauseOps = {p1}
  Ttl = 1
  PoisonCap = 2
  LegacyPaused = {leaf}
  WipCap = 1
  MaxTime = 4
  MaxToken = 2
  MaxEvidence = 1
SPECIFICATION Spec
PROPERTY PoisonCountsCrashes
CHECK_DEADLOCK FALSE
