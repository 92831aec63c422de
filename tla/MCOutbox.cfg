\* Two users, two orders, a request for data, a dialog job; two calls.
CONSTANTS
    u1 = u1
    u2 = u2
    order1 = order1
    order2 = order2
    fetch = fetch
    admin = admin
    User = {u1, u2}
    Job = {order1, order2, fetch, admin}
    NoJob = NoJob
    UserOf <- MCUserOf
    Class <- MCClass
    Fetch = {fetch}
    MaxCalls = 2
    MaxMore = 1
SPECIFICATION Spec
INVARIANTS RightDialog StopsOnFailure OrderSentOnce ReportedTruly
PROPERTIES ImplementsDelivery
\* After the last call nothing happens any more.
CHECK_DEADLOCK FALSE
