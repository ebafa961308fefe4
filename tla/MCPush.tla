------------------------------- MODULE MCPush -------------------------------
(***************************************************************************)
(* Constants for Push: a connection of each of two users and one without a *)
(* good token.                                                             *)
(***************************************************************************)
EXTENDS Push

CONSTANTS c1, c2, c3, u1, u2

MCConns == {c1, c2, c3}
MCOwner == [c \in MCConns |-> CASE c = c1 -> u1 [] c = c2 -> u2 [] OTHER -> None]

(* The events of the callers, but for a payment as the contract's own event *)
(* has it.                                                                 *)
ChainGives == [CallersGive EXCEPT !["payment.released"] = {"seller_address", "amount"}]
=============================================================================
