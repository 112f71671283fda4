SPECIFICATION ThresholdSpec
CONSTANTS
    Bounds = {1, 2}
    EvalConcurrency = 1
    MaxEdits = 1
    MaxUnreadable = 1
INVARIANT BriefMalformedKeepsBreach
CHECK_DEADLOCK FALSE
