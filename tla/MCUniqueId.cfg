CONSTANTS
    a1 = a1
    a2 = a2
    a3 = a3
    App = {a1, a2, a3}
    user = user
    jobid = jobid
    IdName = {user, jobid}
    Std = Std
    Nobody = Nobody
    MaxCalls = 3
SPECIFICATION Spec
INVARIANT OnlyErrorsLeak
PROPERTIES NoReissue ImplementsAbs CallReturns
\* Applications stop calling, or die.
CHECK_DEADLOCK FALSE
