\* One purchase and one attempt at it: the promise of processFulfillmentJob.
CONSTANTS
    buyer = buyer
    seller = seller
    d1 = d1
    Purchases = {p1}
    Accounts <- MCAccounts
    Price <- MCPrice
    Buyer <- MCBuyer
    Seller <- MCSeller
    Trust = Trust
    Payments = {d1}
    Payer <- MCPayer
    Worth <- MCWorth
    Runs = {1}
    None = None
    Attempts = 1
    DbTries = 1
    MaxStalls = 0
    Concurrency = 5
SPECIFICATION Spec
INVARIANT FulfillmentIsAtomic
CHECK_DEADLOCK FALSE
