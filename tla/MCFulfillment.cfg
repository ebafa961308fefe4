\* One purchase through the whole of BullMQ's retries and one lost lock.
CONSTANTS
    buyer = buyer
    seller = seller
    d1 = d1
    Purchases = {p1}
    Accounts <- MCAccounts
    Price <- MCPrice
    Buyer <- MCBuyer
    Seller <- MCSeller
    Trust = Trust
    Payments = {d1}
    Payer <- MCPayer
    Worth <- MCWorth
    Runs = {1, 2, 3}
    None = None
    Attempts = 2
    DbTries = 2
    MaxStalls = 1
    Concurrency = 5
SPECIFICATION FairSpec
INVARIANT TypeOK
INVARIANT SellerPaidForDelivery
INVARIANT CompletedIsSettled
INVARIANT SalesFollowCompletion
PROPERTY DeliveryIsStable
PROPERTY ExchangeSpec
PROPERTY JobEnds
CHECK_DEADLOCK FALSE
