SPECIFICATION FairSpec
CONSTANTS
  Terminals = {t0, t1}
  t0 = t0
  t1 = t1
  MaxAsked = 2048
  Freqs = {2, 3}
INVARIANTS HandledOpen NoneHeldUp RateSetUnlessHit
PROPERTY ReadReturns
