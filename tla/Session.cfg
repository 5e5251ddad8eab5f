\* Two sessions, of one caller, of two hosts, of two roles, or one that hides its host.
CONSTANTS
  s1 = s1
  s2 = s2
  None = None
  Sessions = {s1, s2}
  Roles <- TwoRoles
  Hosts <- TwoHosts
  Populations <- TwoCallers
  Cap = 1
  MaxClaims = 2
  MaxUpsets = 1
SPECIFICATION Spec
PROPERTY DisplacementEnds
CHECK_DEADLOCK FALSE
INVARIANT ResolvesOnlyOwner
INVARIANT DisplacedStaysOut
