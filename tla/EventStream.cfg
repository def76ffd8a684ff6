SPECIFICATION Spec
CONSTANTS
    LiveCap = 2
    OutCap = 2
    PageSize = 2
    MaxEvents = 3
    MaxCrashes = 1
    DBErrors = TRUE
INVARIANT NoSilentGap
PROPERTIES CursorForward AnnouncedIsProcessed
