\* Two programs, one of the faults; each fault that occurs at all occurs once.
CONSTANTS
    w1 = w1
    b1 = b1
    p1 = p1
    p2 = p2
    Person = {w1}
    BankAccount = {b1}
    Proc = {p1, p2}
    MaxUser = 1
    MaxAccount = 2
    MaxFault = 1
    Fault = {"id", "read", "write", "delete", "crash"}
    BadId = 9
SPECIFICATION Spec
SYMMETRY Symmetries
VIEW LiveState
INVARIANTS VisibleOnce SpecHasAccount
PROPERTIES UsedUserIsKept
\* Programs may stop starting operations.
CHECK_DEADLOCK FALSE
