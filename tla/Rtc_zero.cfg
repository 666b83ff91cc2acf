SPECIFICATION FairSpec
CONSTANTS
  Terminals = {t0}
  t0 = t0
  MaxAsked = 2048
  Freqs = {0, 2}
PROPERTY WriteReturns
