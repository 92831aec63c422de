\* Three backends with an account each; three commands, one fault.
CONSTANTS
    a1 = a1
    a2 = a2
    a3 = a3
    u1 = u1
    u2 = u2
    u3 = u3
    ofx = ofx
    paypal = paypal
    ebics = ebics
    Account = {a1, a2, a3}
    User = {u1, u2, u3}
    Provider = {ofx, paypal, ebics}
    NoAccount = NoAccount
    UserOf <- AllUserOf
    ProviderOf <- AllProviderOf
    Kind <- AllKind
    NumJobs = 3
    LastDate = 2
    Period <- AllPeriods
    Fault = {"noSpec", "noProvider", "noAccount", "noLock", "noSecrets", "noUnlock",
             "noDetails"}
    MaxFault = 1
SPECIFICATION Spec
INVARIANTS AcceptedWasAnswered NothingForgotten
PROPERTIES LockDiscipline
