---------------------------- MODULE MCSuiEscrow -----------------------------
(***************************************************************************)
(* Two purchases, three addresses (a buyer, a seller and the sponsor) and  *)
(* two different prices: enough for a call on one purchase to disturb the  *)
(* other, for a cap to be the wrong one, and for coins to go astray.       *)
(***************************************************************************)
EXTENDS SuiEscrow

CONSTANTS p1, p2, buyer, seller, sponsor

MCPurchases == {p1, p2}
MCAccounts == {buyer, seller, sponsor}
MCPrice == [p \in MCPurchases |-> IF p = p1 THEN 1 ELSE 2]
MCBuyer == [p \in MCPurchases |-> buyer]
MCSeller == [p \in MCPurchases |-> seller]
=============================================================================
