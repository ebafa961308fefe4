\* Two purchases, one worker slot, one attempt for each job.
CONSTANTS
    p1 = p1
    p2 = p2
    buyer1 = buyer1
    buyer2 = buyer2
    seller1 = seller1
    seller2 = seller2
    d1 = d1
    d2 = d2
    d3 = d3
    Purchases <- MCPurchases
    Accounts <- MCAccounts
    Price <- MCPrice
    Buyer <- MCBuyer
    Seller <- MCSeller
    Trust = Trust
    Payments = {d1, d2, d3}
    Payer <- MCPayer
    Worth <- MCWorth
    Runs = {1, 2}
    None = None
    Attempts = 1
    DbTries = 1
    MaxStalls = 0
    Concurrency = 1
SPECIFICATION Spec
INVARIANT RecordsAreFunded
PROPERTY BackendChain
CHECK_DEADLOCK FALSE
