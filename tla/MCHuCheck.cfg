\* Kinds on both sides of a suit boundary (19|21) and of the boundary
\* between the suits and the honours (39|41); eight tiles are a pair and
\* two groups.
CONSTANTS
    HandSize = 16
    Dealt = {12, 13, 14, 18, 19, 21, 39, 41, 42}
    MaxTiles = 8
SPECIFICATION Spec
INVARIANTS HuCheckExact AddHuExact EatOfferExact
CHECK_DEADLOCK FALSE
