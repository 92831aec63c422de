\* Sessions that read with doLock and doUnlock set, as provider_be.h allows.
CONSTANTS
    p1 = p1
    p2 = p2
    Proc = {p1, p2}
    u1 = u1
    u2 = u2
    User = {u1, u2}
    Nobody = Nobody
    MaxSession = 2
    Kind = {"edit", "reopen"}
    Fault = {}
SPECIFICATION Spec
PROPERTIES NoLostUpdate
\* Processes may stop starting sessions, or die.
CHECK_DEADLOCK FALSE
