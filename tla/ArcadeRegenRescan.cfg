\* A verify whose igir failed after it had copied, and one that promotes while the
\* operator's scan runs.
SPECIFICATION Spec
CONSTANTS
  Curators = {c1}
  Scenarios <- VerifyAndScan
INVARIANT
  PromotionsAlwaysServed
CHECK_DEADLOCK FALSE
