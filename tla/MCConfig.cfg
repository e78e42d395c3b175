\* Two devices, providers in every state but with an empty header map.
SPECIFICATION Spec
CONSTANTS
  p = p
  q = q
  a = a
  b = b
  ProviderName = {p, q}
  Alias = {a, b}
  Device = {laptop, desktop}
  Providers <- TidyProviders
  HandWritten <- Drafts
  MaxVersions = 2
SYMMETRY DeviceSymmetry
INVARIANT TypeOK
INVARIANT CopiesMatch
INVARIANT RoutesFollowWeights
