\* Four calls, two statements, up to four segments.
CONSTANTS
    MaxItems = 2
    MaxSegments = 4
    MaxCalls = 4
SPECIFICATION TransferSpec
INVARIANTS NothingLost SuccessIsWhole FaultlessSucceeds
\* The application makes no more calls.
CHECK_DEADLOCK FALSE
