SPECIFICATION FairSpec
CONSTANTS
  Control = {c1, c2}
  Token = {t1, t2}
  Generation = {g1, g2, g3, g4}
  None = None
  MaxDeferrals = 2
INVARIANTS OneCallbackEach
PROPERTIES PromptWake NoStartBehindForeground NoStarvation
