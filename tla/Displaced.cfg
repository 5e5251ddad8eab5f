\* A displaced client and the host's next idle moment.
CONSTANTS
  None = None
  Wires <- FiveWires
  MaxFaults = 1
  MaxStarts = 3
SPECIFICATION Spec
PROPERTY DisplacedNeverReturns
CHECK_DEADLOCK FALSE
