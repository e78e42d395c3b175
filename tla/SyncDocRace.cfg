\* Two pushes at the same time.
CONSTANTS
  None = None
  Snapshot = {x, y, z}
  ann = ann
  bob = bob
  s1 = s1
  s2 = s2
  Client = {ann, bob}
  Session = {s1, s2}
  OwnerOf <- OneSessionEach
  Skew <- SameClocks
  Handler = {h1, h2}
  Bootstrapped = TRUE
  FreshMillis = TRUE
  CarefulUser = TRUE
  Faults = FALSE
  Calls = {"start", "shutdown"}
  MaxVersions = 2
SYMMETRY SnapshotSymmetry
SPECIFICATION Spec
PROPERTY CloudReplacedKnowingly
