\* The promise of the idempotency check in createPurchase.
CONSTANTS
    p1 = p1
    p2 = p2
    buyer = buyer
    seller = seller
    d1 = d1
    Purchases <- MCPurchases
    Accounts <- MCAccounts
    Price <- MCPrice
    Buyer <- MCBuyer
    Seller <- MCSeller
    Trust = Trust
    Payments = {d1}
    Payer <- MCPayer
    Worth <- MCWorth
    Runs = {}
    None = None
SPECIFICATION CaptureSpec
INVARIANT PaymentUsedOnce
CHECK_DEADLOCK FALSE
