\* A device whose clock runs three days ahead.
CONSTANTS
    DaysBack = 1
    DaysAhead = 2
    RetainDays = 2
    MaxSkew = 3
    MaxDay = 5
    Default = Default
SPECIFICATION Spec
INVARIANT AlwaysSafeToCall
