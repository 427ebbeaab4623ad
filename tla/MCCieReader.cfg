SPECIFICATION CieSpec
CONSTANTS
    MaxViews = 2
    MaxStarts = 3
INVARIANTS SuccessNeedsCard CompletedOnce OneListener
CHECK_DEADLOCK FALSE
