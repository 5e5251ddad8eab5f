\* One client, a host of either kind, and a hub that comes and goes.
CONSTANTS
  None = None
  Wires <- FiveWires
  MaxFaults = 3
  MaxStarts = 3
SPECIFICATION FairSpec
INVARIANT SessionHasOneWire
PROPERTY ReadyOnItsOwnWire
PROPERTY Reconnects
CHECK_DEADLOCK FALSE
