SPECIFICATION LearnSpec
CONSTANTS
    MaxVerdicts = 2
    MaxRetroSnapshots = 1
    PageSize = 2
    ListLimit = 1
    MaxSlips = 1
PROPERTY PendingExpires
CHECK_DEADLOCK FALSE
