SPECIFICATION Spec
CONSTANTS
  Terminals = {t0}
  t0 = t0
  MaxAsked = 2048
  Freqs = {2, 1024}
\* One property at a time.
INVARIANT DisableMasks
\* INVARIANT OnlyHandledOpen
\* INVARIANT RateSet
