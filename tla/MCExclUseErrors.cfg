\* Every kind of session; groups that cannot be read, written or unlocked.
CONSTANTS
    p1 = p1
    p2 = p2
    Proc = {p1, p2}
    u1 = u1
    u2 = u2
    User = {u1, u2}
    Nobody = Nobody
    MaxSession = 2
    Kind = {"edit", "send", "reopen"}
    Fault = {"read", "write", "unlock"}
SPECIFICATION Spec
INVARIANTS NoLeak
PROPERTIES SuccessReleases SessionEnds
\* Processes may stop starting sessions, or die.
CHECK_DEADLOCK FALSE
