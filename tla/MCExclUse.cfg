\* Every fault: two processes, two users, three sessions.
CONSTANTS
    p1 = p1
    p2 = p2
    Proc = {p1, p2}
    u1 = u1
    u2 = u2
    User = {u1, u2}
    Nobody = Nobody
    MaxSession = 3
    Kind = {"edit", "send"}
    Fault = {"lock", "read", "write", "unlock", "crash", "delete"}
SPECIFICATION Spec
SYMMETRY Symmetry
INVARIANTS IInv SendsWithAllLocks
PROPERTIES NoLostUpdate
\* Processes may stop starting sessions, or die.
CHECK_DEADLOCK FALSE
