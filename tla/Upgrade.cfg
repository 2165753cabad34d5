SPECIFICATION Spec
CONSTANTS
  Proc = {p1, p2}
  Published <- MCPublished
  Local <- MCLocal
  Order <- MCOrder
  Commits = 2
  MaxReleases = 1
  MaxFaults = 2
  None = None
  Partial = Partial
  Stable = Stable
  Rolling = Rolling
SYMMETRY Alike
INVARIANT BinaryWhole
PROPERTY InstallsForward
CHECK_DEADLOCK FALSE
