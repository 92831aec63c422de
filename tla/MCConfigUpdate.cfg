\* Two programs, one account or none, one fault.
CONSTANTS
    a1 = a1
    u1 = u1
    p1 = p1
    p2 = p2
    Account = {a1}
    User = {u1}
    Owner <- OneOwner
    NoUser = NoUser
    Proc = {p1, p2}
    MaxFault = 1
SPECIFICATION FairSpec
INVARIANTS UserKeptByOneUpdate CurrentIsComplete
PROPERTIES NoGroupLost UpdateCompletes
