SPECIFICATION FairSpec
CONSTANTS
  Exchanges <- MCExchanges
  MaxTries = 2
  MaxChunks = 3
INVARIANT TypeOK
INVARIANT OneCallPerBody
INVARIANT SuccessIsGenuine
PROPERTY CallerIsAnswered
CHECK_DEADLOCK FALSE
INVARIANT BodiesWellFormed
