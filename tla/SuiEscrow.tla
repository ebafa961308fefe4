----------------------------- MODULE SuiEscrow ------------------------------
(***************************************************************************)
(* The Move modules sourcenet::escrow and sourcenet::purchase, with the    *)
(* two programmable transactions the backend builds from them              *)
(* (src/services/blockchain.service.ts).                                   *)
(*                                                                         *)
(* A purchase p stands for the pair of objects that one purchase           *)
(* transaction creates: the shared PurchaseRequest and the Escrow object,  *)
(* which the sponsor owns.  A Move call either takes effect as a whole or  *)
(* aborts without a trace, so a call is an action guarded by its asserts;  *)
(* a programmable transaction is the conjunction of its calls.             *)
(*                                                                         *)
(* Next holds every public entry function, called by whoever owns the      *)
(* objects it needs.  The backend makes only the calls in BackendNext.     *)
(***************************************************************************)
EXTENDS Naturals

CONSTANTS
    Purchases,  \* purchases, see above
    Accounts,   \* Sui addresses
    Price,      \* Price[p], the price_sui (in MIST) of purchase p
    Buyer,      \* Buyer[p] and Seller[p], the parties recorded in both objects
    Seller,
    Trust       \* a name for the escrow among the holders of coins

(* create_purchase asserts price_sui > 0 and create_escrow asserts that the *)
(* coin it is given, of that same value, is not empty.                     *)
ASSUME PriceAssumption == Price \in [Purchases -> Nat \ {0}]
ASSUME PartiesAssumption ==
    /\ Buyer \in [Purchases -> Accounts]
    /\ Seller \in [Purchases -> Accounts]
    /\ Trust \notin Accounts

VARIABLES
    escrow,     \* escrow[p], the Escrow object: its status and its balance
    purchase,   \* purchase[p], the status of the PurchaseRequest object
    paid        \* paid[p][a], the coins of p's escrow transferred to account a

chainVars == <<escrow, purchase, paid>>

EscrowStatus   == {"none", "pending", "released", "refunded"}
PurchaseStatus == {"none", "pending", "completed", "refunded", "disputed"}

SuiTypeOK ==
    /\ escrow \in [Purchases -> [status : EscrowStatus, balance : Nat]]
    /\ purchase \in [Purchases -> PurchaseStatus]
    /\ paid \in [Purchases -> [Accounts -> Nat]]

SuiInit ==
    /\ escrow = [p \in Purchases |-> [status |-> "none", balance |-> 0]]
    /\ purchase = [p \in Purchases |-> "none"]
    /\ paid = [p \in Purchases |-> [a \in Accounts |-> 0]]

-----------------------------------------------------------------------------
(* The entry functions.  Each says what it does to its own object only.    *)

create_purchase(p) ==
    /\ purchase[p] = "none"
    /\ Price[p] > 0
    /\ purchase' = [purchase EXCEPT ![p] = "pending"]

create_escrow(p) ==
    /\ escrow[p].status = "none"
    /\ Price[p] > 0
    /\ escrow' = [escrow EXCEPT ![p] = [status |-> "pending", balance |-> Price[p]]]

\* Mutant of PayOut: the new status is not written back.
PayOutKeepsStatus(p, status, to) ==
    /\ escrow[p].balance >= Price[p]
    /\ escrow' = [escrow EXCEPT ![p].balance = @ - Price[p]]
    /\ paid' = [paid EXCEPT ![p][to] = @ + Price[p]]

\* Mutant of PayOut: the coin is not split off the escrow's balance.
PayOutKeepsBalance(p, status, to) ==
    /\ escrow[p].balance >= Price[p]
    /\ escrow' = [escrow EXCEPT ![p].status = status]
    /\ paid' = [paid EXCEPT ![p][to] = @ + Price[p]]

(* balance::split aborts when the balance is short; the coin it yields is  *)
(* transferred to the address the caller passes.                           *)
PayOut(p, status, to) ==
    /\ escrow[p].balance >= Price[p]
    /\ escrow' = [escrow EXCEPT ![p] = [status |-> status, balance |-> @.balance - Price[p]]]
    /\ paid' = [paid EXCEPT ![p][to] = @ + Price[p]]

release_escrow(p, to) ==
    /\ escrow[p].status = "pending"
    /\ PayOut(p, "released", to)

refund_escrow(p, to) ==
    /\ escrow[p].status = "pending"
    /\ PayOut(p, "refunded", to)

\* Mutant of complete_purchase: the escrow's word for the verdict.
CompleteAsReleased(p, cap) ==
    /\ purchase[p] = "pending"
    /\ cap = p
    /\ purchase' = [purchase EXCEPT ![p] = "released"]

(* cap names the purchase a PurchaseOwnerCap was made for.                 *)
complete_purchase(p, cap) ==
    /\ purchase[p] = "pending"
    /\ cap = p
    /\ purchase' = [purchase EXCEPT ![p] = "completed"]

refund_purchase(p, cap) ==
    /\ purchase[p] = "pending"
    /\ cap = p
    /\ purchase' = [purchase EXCEPT ![p] = "refunded"]

\* Mutant of dispute_purchase: the status is not asserted.
DisputeAnything(p, sender) ==
    /\ purchase[p] # "none"
    /\ sender \in {Buyer[p], Seller[p]}
    /\ purchase' = [purchase EXCEPT ![p] = "disputed"]

dispute_purchase(p, sender) ==
    /\ purchase[p] \in {"pending", "completed"}
    /\ sender \in {Buyer[p], Seller[p]}
    /\ purchase' = [purchase EXCEPT ![p] = "disputed"]

-----------------------------------------------------------------------------
(* The two programmable transactions.                                      *)

(* buildPurchasePTB: the PurchaseRequest is shared, its cap, the escrow and *)
(* the escrow's cap go to the sponsor, whose gas coin funds the escrow.    *)
PurchasePTB(p) ==
    /\ create_purchase(p)
    /\ create_escrow(p)
    /\ UNCHANGED paid

\* Mutant of ReleasePaymentPTB: the second call is left out.
ReleaseOnlyPTB(p, cap, to) ==
    /\ release_escrow(p, to)
    /\ UNCHANGED purchase

(* buildReleasePaymentPTB: if either call aborts, neither takes effect.    *)
ReleasePaymentPTB(p, cap, to) ==
    /\ release_escrow(p, to)
    /\ complete_purchase(p, cap)

(* A party of the purchase disputes it.  The object is shared, so this     *)
(* needs no help from the backend.                                         *)
Dispute(p) ==
    /\ \E a \in Accounts : dispute_purchase(p, a)
    /\ UNCHANGED <<escrow, paid>>

(* What the backend and the parties do ...                                 *)
BackendNext ==
    \E p \in Purchases :
        \/ PurchasePTB(p)
        \/ ReleasePaymentPTB(p, p, Seller[p])
        \/ Dispute(p)

(* ... and what the contracts allow the owner of the objects to do: the    *)
(* calls one by one, in any order, to any address, with any cap it holds.  *)
SuiNext ==
    \/ BackendNext
    \/ \E p \in Purchases, to \in Accounts :
          /\ release_escrow(p, to) \/ refund_escrow(p, to)
          /\ UNCHANGED purchase
    \/ \E p, cap \in Purchases :
          /\ complete_purchase(p, cap) \/ refund_purchase(p, cap)
          /\ UNCHANGED <<escrow, paid>>

SuiSpec == SuiInit /\ [][SuiNext]_chainVars

-----------------------------------------------------------------------------
NothingPaid == [a \in Accounts |-> 0]

PaidWhole(p, to) == [NothingPaid EXCEPT ![to] = Price[p]]

InOnePlace(p) ==
    CASE escrow[p].status = "none" ->
            escrow[p].balance = 0 /\ paid[p] = NothingPaid
      [] escrow[p].status = "pending" ->
            escrow[p].balance = Price[p] /\ paid[p] = NothingPaid
      [] OTHER ->
            /\ escrow[p].balance = 0
            /\ \E to \in Accounts : paid[p] = PaidWhole(p, to)

(* The coins of a purchase are never lost, split or paid twice: as long as *)
(* the escrow is pending it holds the whole price and nobody has been paid, *)
(* and once it is released or refunded it is empty and exactly one account *)
(* has got the price, once.  (Escrow.balance against Escrow.status through *)
(* create_escrow, release_escrow and refund_escrow.)                       *)
FundsConserved == \A p \in Purchases : InOnePlace(p)

(* Where the coins are, read off the objects' balances and the transfers.  *)
Held == [p \in Purchases |->
            [h \in Accounts \union {Trust} |->
                IF h = Trust THEN escrow[p].balance ELSE paid[p][h]]]

Funds == INSTANCE FundsInTrust WITH coins <- Held

(* The contracts keep the promise of FundsInTrust.                         *)
FundsSpec == Funds!Spec

(* A verdict on an escrow is final, and so are refunded and disputed       *)
(* purchases: no sequence of calls by any party brings an object back to   *)
(* pending or turns one verdict into the other.  A completed purchase can  *)
(* still be disputed, and nothing else (dispute_purchase).                 *)
VerdictsAreFinal ==
    [][\A p \in Purchases :
          /\ escrow[p].status \in {"released", "refunded"} => escrow'[p] = escrow[p]
          /\ purchase[p] \in {"refunded", "disputed"} => purchase'[p] = purchase[p]
          /\ purchase[p] = "completed" => purchase'[p] \in {"completed", "disputed"}
      ]_chainVars
=============================================================================
