\* Two devices, providers with an empty header map.
SPECIFICATION Spec
CONSTANTS
  p = p
  q = q
  a = a
  b = b
  ProviderName = {p, q}
  Alias = {a, b}
  Device = {laptop, desktop}
  Providers <- EmptyHeaders
  HandWritten <- Drafts
  MaxVersions = 2
INVARIANT PushIsNotRefused
