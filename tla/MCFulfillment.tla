--------------------------- MODULE MCFulfillment ----------------------------
(***************************************************************************)
(* Constants for Fulfillment: purchases that one payment each pays for.    *)
(* A job starts at most Attempts + MaxStalls runs, so that many runs for   *)
(* each purchase leave none wanting.                                       *)
(***************************************************************************)
EXTENDS Fulfillment

CONSTANTS buyer, seller, d1

MCAccounts == {buyer, seller}
MCPrice == [p \in Purchases |-> 1]
MCBuyer == [p \in Purchases |-> buyer]
MCSeller == [p \in Purchases |-> seller]
MCPayer == [d \in Payments |-> buyer]
MCWorth == [d \in Payments |-> 1]
=============================================================================
