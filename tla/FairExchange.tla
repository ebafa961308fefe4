---------------------------- MODULE FairExchange ----------------------------
(***************************************************************************)
(* What the marketplace promises about a sale: money for data, in one step. *)
(* The price waits in trust until there is a copy for the buyer that is    *)
(* kept for good; then, and at once, the seller is paid the whole price    *)
(* and the copy is sold.  What the buyer is shown afterwards is that copy, *)
(* and no copy is sold twice.  The coins move as in FundsInTrust.          *)
(*                                                                         *)
(* Fulfillment is shown to implement this specification, although there    *)
(* the steps of a sale are spread over a database, a chain and a blob      *)
(* store, and over runs of a job that crash and overlap.                   *)
(***************************************************************************)
EXTENDS FundsInTrust

CONSTANTS
    Seller,  \* Seller[p], who is paid for purchase p
    Copies,  \* the copies that can ever be made, each for one buyer
    None

VARIABLES
    kept,    \* the copies that can be downloaded
    sold,    \* sold[p], the copy the seller of p was paid for
    shown    \* shown[p], the copy the buyer of p is given

ExchangeInit ==
    /\ Init
    /\ kept = {}
    /\ sold = [p \in Purchases |-> None]
    /\ shown = [p \in Purchases |-> None]

Buy(p) == Lock(p) /\ UNCHANGED <<kept, sold, shown>>

Keep(c) == kept' = kept \union {c} /\ UNCHANGED <<coins, sold, shown>>

Sell(p, c) ==
    /\ c \in kept /\ \A q \in Purchases : sold[q] # c
    /\ Settle(p, Seller[p])
    /\ sold' = [sold EXCEPT ![p] = c]
    /\ UNCHANGED <<kept, shown>>

Show(p) ==
    /\ sold[p] # None
    /\ shown' = [shown EXCEPT ![p] = sold[p]]
    /\ UNCHANGED <<coins, kept, sold>>

ExchangeNext ==
    \/ \E p \in Purchases : Buy(p) \/ Show(p)
    \/ \E c \in Copies : Keep(c)
    \/ \E p \in Purchases, c \in Copies : Sell(p, c)

ExchangeSpec == ExchangeInit /\ [][ExchangeNext]_<<coins, kept, sold, shown>>
=============================================================================
