\* Three chats and a deletion.
CONSTANTS
    r1 = r1
    r2 = r2
    r3 = r3
    d1 = d1
    u1 = u1
    u2 = u2
    None = None
    Chats <- MCChats
    Deletes <- MCDeletes
    Users = {u1, u2}
    By <- MCBy
    Keys = {"ip chat", "u1 chat"}
    Path <- MCPath
    Max <- MCMax
    MaxFaults = 1
SPECIFICATION FairSpec
INVARIANT TypeOK
INVARIANT CountersExpire
INVARIANT ExchangesOnRecord
PROPERTY DialogueSpec
PROPERTY LockoutEnds
CHECK_DEADLOCK FALSE
