\* Two requests, two launches, seconds of two ticks.
SPECIFICATION FairSpec
CONSTANTS
  old = old
  new = new
  short = short
  Second = 2
  Secret = {old, new, short}
  ShortSecret = {short}
  Configs <- MCConfigs
  Handler = {h1, h2}
  MaxTime = 5
  MaxTokens = 2
  MaxLaunches = 2
INVARIANT StoreOutlivesHandlers
INVARIANT TokensLastTheirTTL
PROPERTY SignalledServerExits
CHECK_DEADLOCK FALSE
