\* Progress from an empty cloud while nothing fails.
CONSTANTS
  None = None
  Snapshot = {x, y}
  ann = ann
  bob = bob
  s1 = s1
  s2 = s2
  Client = {ann, bob}
  Session = {s1, s2}
  OwnerOf <- OneSessionEach
  Skew <- FastClocks
  Handler = {h1, h2}
  Bootstrapped = FALSE
  FreshMillis = TRUE
  CarefulUser = TRUE
  Faults = FALSE
  Calls = {"now", "providers", "misconfigured"}
  MaxVersions = 2
SPECIFICATION FairSpec
PROPERTY SessionsEnd
PROPERTY PushSettles
