\* The events as their callers give them.
CONSTANTS
    c1 = c1
    c2 = c2
    c3 = c3
    u1 = u1
    u2 = u2
    All = All
    None = None
    Conns <- MCConns
    Owner <- MCOwner
    Users = {u1, u2}
    Topics = {"datapod"}
    Kinds = {"datapod.published", "purchase.completed", "payment.released"}
    Given <- CallersGive
    Limit = 2
    MaxLog = 1
    MaxSent = 2
SPECIFICATION Spec
INVARIANT EventsArePushed
CHECK_DEADLOCK FALSE
