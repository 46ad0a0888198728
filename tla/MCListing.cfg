SPECIFICATION ListingSpec
CONSTANTS
    Rows = {r1, r2, r3}
    Streak = 2
    Threshold = 2
    MinTracked = 3
    Grace = 2
    Interval = 1
    MaxCooldown = 2
INVARIANT ListingTypeOK
PROPERTIES FlaggedOnlyWhenGone AnomaliesGetTheirGrace RowsReconcile
CHECK_DEADLOCK FALSE
