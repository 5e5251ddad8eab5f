\* Two operations, a fenced call and the sweeper; one session lost.
CONSTANTS
  o1 = o1
  o2 = o2
  w1 = w1
  e1 = e1
  None = None
  Sweeper = Sweeper
  Origin = Origin
  Ops = {o1, o2}
  Writers = {w1}
  Edges = {e1}
  MaxHead = 2
  MaxNumber = 3
  MaxLosses = 1
SPECIFICATION Spec
INVARIANT HeadIsWhole
INVARIANT FencedWritesAreCurrent
INVARIANT StaleWriteIsReported
PROPERTY FenceIsReleased
