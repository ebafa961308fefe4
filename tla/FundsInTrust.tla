---------------------------- MODULE FundsInTrust ----------------------------
(***************************************************************************)
(* What the marketplace promises about a buyer's payment, and nothing      *)
(* else: the price of a purchase is locked whole, it stays locked until    *)
(* somebody is paid, it is then paid whole to one account, and it never    *)
(* moves again.  SuiEscrow (the Move contracts) is shown to implement this *)
(* specification, and Fulfillment (the backend that drives the contracts)  *)
(* to make only calls that SuiEscrow allows.                               *)
(***************************************************************************)
EXTENDS Naturals

CONSTANTS
    Purchases,  \* one element per purchase that can ever be made
    Accounts,   \* the addresses that can be paid
    Trust,      \* the escrow, as a holder of coins: no account
    Price       \* Price[p], the coins locked for purchase p

VARIABLE coins  \* coins[p][h], the coins of purchase p that holder h has

Holders == Accounts \union {Trust}

Nothing == [h \in Holders |-> 0]

(* All the coins of p are with the holder h. *)
Whole(p, h) == [Nothing EXCEPT ![h] = Price[p]]

Init == coins = [p \in Purchases |-> Nothing]

Lock(p) ==
    /\ coins[p] = Nothing
    /\ coins' = [coins EXCEPT ![p] = Whole(p, Trust)]

Settle(p, to) ==
    /\ coins[p] = Whole(p, Trust)
    /\ coins' = [coins EXCEPT ![p] = Whole(p, to)]

Next == \E p \in Purchases : Lock(p) \/ \E to \in Accounts : Settle(p, to)

Spec == Init /\ [][Next]_coins
=============================================================================
