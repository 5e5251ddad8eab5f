\* One item through its whole life: all verbs, pauses, lapses, sweeps.
CONSTANTS
  eng = eng
  eng2 = eng2
  arch = arch
  ver = ver
  arc = arc
  leaf = leaf
  seed = seed
  None = None
  Items = {leaf}
  Agents = {eng, eng2, arch, ver}
  Stewards = {arch}
  Verifiers = {ver}
  Creator <- CreatedByEng
  Eligible <- EngineersMayClaim
  Gated = {}
  Demand <- ReviewWanted
  DependsOn <- NoEdges
  CompletionDependsOn <- NoEdges
  Decisions = {d1}
  PauseOps = {p1}
  Ttl = 1
  PoisonCap = 2
  LegacyPaused = {leaf}
  WipCap = 1
  MaxTime = 4
  MaxToken = 2
  MaxEvidence = 1
SPECIFICATION FairSpec
INVARIANT TypeOK
INVARIANT LeaseMatchesPhase
INVARIANT SuspensionOnRecord
INVARIANT WithdrawalOutranksHolder
INVARIANT BaselineIsOwn
INVARIANT EvidenceIsEarned
INVARIANT PauseTakesEffectOnce
CHECK_DEADLOCK FALSE
PROPERTY ClosedIsFinal
PROPERTY FullWindow
PROPERTY WithdrawnStaysPut
PROPERTY ReapsOnlyLapsed
PROPERTY ImplementsCustody
PROPERTY LapsedIsReaped
