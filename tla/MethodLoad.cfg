SPECIFICATION Spec
CONSTANTS Plans <- LoadPlans
INVARIANTS TypeOK Reclaimed NothingRawDropped Backed VerdictSound
CHECK_DEADLOCK FALSE
