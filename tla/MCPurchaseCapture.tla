------------------------- MODULE MCPurchaseCapture --------------------------
(***************************************************************************)
(* Two calls of createPurchase by one buyer, who made one payment.         *)
(***************************************************************************)
EXTENDS PurchaseCapture

CONSTANTS p1, p2, buyer, seller, d1

MCPurchases == {p1, p2}
MCAccounts == {buyer, seller}
MCPrice == [p \in MCPurchases |-> 1]
MCBuyer == [p \in MCPurchases |-> buyer]
MCSeller == [p \in MCPurchases |-> seller]
MCPayer == [d \in {d1} |-> buyer]
MCWorth == [d \in {d1} |-> 1]
=============================================================================
