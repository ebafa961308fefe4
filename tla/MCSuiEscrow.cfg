\* Every behaviour the two Move modules allow the owner of the objects.
CONSTANTS
    p1 = p1
    p2 = p2
    buyer = buyer
    seller = seller
    sponsor = sponsor
    Purchases <- MCPurchases
    Accounts <- MCAccounts
    Price <- MCPrice
    Buyer <- MCBuyer
    Seller <- MCSeller
    Trust = Trust
SPECIFICATION SuiSpec
INVARIANT SuiTypeOK
INVARIANT FundsConserved
PROPERTY FundsSpec
PROPERTY VerdictsAreFinal
\* A settled escrow under a refunded or disputed purchase admits no further call.
CHECK_DEADLOCK FALSE
