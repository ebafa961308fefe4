\* Three connections, of two users and of nobody; two messages.
CONSTANTS
    c1 = c1
    c2 = c2
    c3 = c3
    u1 = u1
    u2 = u2
    All = All
    None = None
    Conns <- MCConns
    Owner <- MCOwner
    Users = {u1, u2}
    Topics = {"datapod"}
    Kinds = {"purchase.completed", "payment.released"}
    Given <- ChainGives
    Limit = 2
    MaxLog = 1
    MaxSent = 2
SPECIFICATION FairSpec
INVARIANT TypeOK
INVARIANT MapsAgree
INVARIANT Delivered
PROPERTY SilentIsDropped
CHECK_DEADLOCK FALSE
