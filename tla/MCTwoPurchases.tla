--------------------------- MODULE MCTwoPurchases ---------------------------
(***************************************************************************)
(* Two purchases that compete for one worker slot, by two buyers, from two *)
(* sellers, at two prices, with three payments to choose from: one that is *)
(* enough for either, one too small for the second purchase and one by the *)
(* other buyer.                                                            *)
(***************************************************************************)
EXTENDS Fulfillment

CONSTANTS p1, p2, buyer1, buyer2, seller1, seller2, d1, d2, d3

MCPurchases == {p1, p2}
MCAccounts == {buyer1, buyer2, seller1, seller2}
MCPrice == [p \in MCPurchases |-> IF p = p1 THEN 1 ELSE 2]
MCBuyer == [p \in MCPurchases |-> IF p = p1 THEN buyer1 ELSE buyer2]
MCSeller == [p \in MCPurchases |-> IF p = p1 THEN seller1 ELSE seller2]
MCPayer == [d \in {d1, d2, d3} |-> IF d = d1 THEN buyer1 ELSE buyer2]
MCWorth == [d \in {d1, d2, d3} |-> IF d = d3 THEN 1 ELSE 2]
=============================================================================
