\* Two curators and the scenarios of MCArcadeRegen.
SPECIFICATION Spec
CONSTANTS
  Curators = {c1, c2}
  Scenarios <- MCScenarios
INVARIANTS
  NoEditForgotten
  OneDeferralPerEpisode
  PromotionsServed
PROPERTIES
  ServedNeverGoesBack
  EditsReachKiosks
CHECK_DEADLOCK FALSE
