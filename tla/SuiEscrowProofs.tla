-------------------------- MODULE SuiEscrowProofs ---------------------------
(***************************************************************************)
(* Theorems about SuiEscrow, for any sets of purchases and accounts and    *)
(* any prices.  SuiTypeOK and FundsConserved together are inductive:       *)
(* FundsConserved needs the types, since its arithmetic is about naturals, *)
(* and the refinement needs FundsConserved (a pending escrow holds the     *)
(* price, so that what is split off it empties it and goes to an account   *)
(* that had nothing).                                                      *)
(***************************************************************************)
EXTENDS SuiEscrow, TLAPS

-----------------------------------------------------------------------------
(* What a call does to the escrow and the transfers: it makes p's escrow,  *)
(* settles it in favour of an account with one of the two verdicts, or     *)
(* leaves both alone.                                                      *)
Make(p) ==
    /\ escrow[p].status = "none"
    /\ escrow' = [escrow EXCEPT ![p] = [status |-> "pending", balance |-> Price[p]]]
    /\ paid' = paid

Pay(p, v, to) ==
    /\ escrow[p].status = "pending"
    /\ escrow' = [escrow EXCEPT ![p] = [status |-> v, balance |-> @.balance - Price[p]]]
    /\ escrow[p].balance >= Price[p]
    /\ paid' = [paid EXCEPT ![p][to] = @ + Price[p]]

Verdicts == {"released", "refunded"}

(* Every step of SuiNext is of one of these three kinds.                   *)
LEMMA StepKinds ==
    ASSUME SuiNext
    PROVE  \/ \E p \in Purchases : Make(p)
           \/ \E p \in Purchases, v \in Verdicts, to \in Accounts : Pay(p, v, to)
           \/ UNCHANGED <<escrow, paid>>
<1>1. ASSUME NEW p \in Purchases, PurchasePTB(p) PROVE Make(p)
  BY <1>1 DEF PurchasePTB, create_escrow, Make
<1>2. ASSUME NEW p \in Purchases, NEW to \in Accounts, release_escrow(p, to)
      PROVE  Pay(p, "released", to)
  BY <1>2 DEF release_escrow, PayOut, Pay
<1>3. ASSUME NEW p \in Purchases, NEW to \in Accounts, refund_escrow(p, to)
      PROVE  Pay(p, "refunded", to)
  BY <1>3 DEF refund_escrow, PayOut, Pay
<1>4. ASSUME NEW p \in Purchases, ReleasePaymentPTB(p, p, Seller[p])
      PROVE  Seller[p] \in Accounts /\ Pay(p, "released", Seller[p])
  BY <1>2, <1>4, PartiesAssumption DEF ReleasePaymentPTB
<1>5. ASSUME NEW p \in Purchases, Dispute(p) PROVE UNCHANGED <<escrow, paid>>
  BY <1>5 DEF Dispute
<1> QED
  BY <1>1, <1>2, <1>3, <1>4, <1>5 DEF SuiNext, BackendNext, Verdicts

(* The same for the status of the PurchaseRequest.                         *)
LEMMA PurchaseSteps ==
    ASSUME SuiNext, SuiTypeOK
    PROVE  \/ UNCHANGED purchase
           \/ \E p \in Purchases :
                 \/ /\ purchase[p] = "none"
                    /\ purchase' = [purchase EXCEPT ![p] = "pending"]
                 \/ /\ purchase[p] = "pending"
                    /\ purchase' = [purchase EXCEPT ![p] = "completed"]
                 \/ /\ purchase[p] = "pending"
                    /\ purchase' = [purchase EXCEPT ![p] = "refunded"]
                 \/ /\ purchase[p] \in {"pending", "completed"}
                    /\ purchase' = [purchase EXCEPT ![p] = "disputed"]
BY DEF SuiNext, BackendNext, PurchasePTB, ReleasePaymentPTB, Dispute, create_purchase,
       complete_purchase, refund_purchase, dispute_purchase

-----------------------------------------------------------------------------
LEMMA SuiTypeStep == SuiTypeOK /\ [SuiNext]_chainVars => SuiTypeOK'
<1> SUFFICES ASSUME SuiTypeOK, [SuiNext]_chainVars PROVE SuiTypeOK'
  OBVIOUS
<1>1. CASE UNCHANGED chainVars
  BY <1>1 DEF chainVars, SuiTypeOK
<1>2. CASE SuiNext
  <2>1. purchase' \in [Purchases -> PurchaseStatus]
    BY <1>2, PurchaseSteps DEF SuiTypeOK, PurchaseStatus
  <2>2. ASSUME NEW p \in Purchases, Make(p)
        PROVE  /\ escrow' \in [Purchases -> [status : EscrowStatus, balance : Nat]]
               /\ paid' \in [Purchases -> [Accounts -> Nat]]
    BY <2>2, PriceAssumption DEF Make, SuiTypeOK, EscrowStatus
  <2>3. ASSUME NEW p \in Purchases, NEW v \in Verdicts, NEW to \in Accounts, Pay(p, v, to)
        PROVE  /\ escrow' \in [Purchases -> [status : EscrowStatus, balance : Nat]]
               /\ paid' \in [Purchases -> [Accounts -> Nat]]
    <3>1. [status |-> v, balance |-> escrow[p].balance - Price[p]]
             \in [status : EscrowStatus, balance : Nat]
      <4>1. escrow[p].balance \in Nat /\ Price[p] \in Nat
        BY PriceAssumption DEF SuiTypeOK
      <4>2. escrow[p].balance - Price[p] \in Nat
        BY <2>3, <4>1 DEF Pay
      <4> QED
        BY <4>2 DEF EscrowStatus, Verdicts
    <3>2. paid[p][to] + Price[p] \in Nat
      BY PriceAssumption DEF SuiTypeOK
    <3> QED
      BY <2>3, <3>1, <3>2 DEF Pay, SuiTypeOK
  <2> QED
    BY <1>2, <2>1, <2>2, <2>3, StepKinds DEF SuiTypeOK
<1> QED
  BY <1>1, <1>2

(* The contracts keep the types: no balance is ever negative and no status *)
(* is one the other module uses.                                           *)
THEOREM SuiTypeCorrect == SuiSpec => []SuiTypeOK
<1>1. SuiInit => SuiTypeOK
  BY DEF SuiInit, SuiTypeOK, EscrowStatus, PurchaseStatus
<1> QED
  BY <1>1, SuiTypeStep, PTL DEF SuiSpec

-----------------------------------------------------------------------------
(* A pending escrow pays its whole price to one account.                   *)
LEMMA PayWhole ==
    ASSUME SuiTypeOK, FundsConserved,
           NEW p \in Purchases, NEW v \in Verdicts, NEW to \in Accounts, Pay(p, v, to)
    PROVE  /\ escrow' = [escrow EXCEPT ![p] = [status |-> v, balance |-> 0]]
           /\ paid' = [paid EXCEPT ![p] = PaidWhole(p, to)]
           /\ escrow[p].balance = Price[p]
           /\ paid[p] = NothingPaid
<1>1. escrow[p].balance = Price[p] /\ paid[p] = NothingPaid
  BY DEF FundsConserved, InOnePlace, Pay
<1>2. Price[p] \in Nat
  BY PriceAssumption
<1>3. [paid EXCEPT ![p][to] = @ + Price[p]] = [paid EXCEPT ![p] = PaidWhole(p, to)]
  <2>1. [paid[p] EXCEPT ![to] = @ + Price[p]] = PaidWhole(p, to)
    <3>1. paid[p][to] + Price[p] = Price[p]
      BY <1>1, <1>2 DEF NothingPaid
    <3> QED
      BY <1>1, <3>1 DEF PaidWhole
  <2> QED
    BY <2>1
<1>4. escrow[p].balance - Price[p] = 0
  BY <1>1, <1>2
<1> QED
  BY <1>1, <1>3, <1>4 DEF Pay

LEMMA FundsStep ==
    SuiTypeOK /\ FundsConserved /\ [SuiNext]_chainVars => FundsConserved'
<1> SUFFICES ASSUME SuiTypeOK, FundsConserved, [SuiNext]_chainVars PROVE FundsConserved'
  OBVIOUS
<1>1. ASSUME NEW q \in Purchases, escrow'[q] = escrow[q], paid'[q] = paid[q]
      PROVE  InOnePlace(q)'
  BY <1>1 DEF FundsConserved, InOnePlace, PaidWhole, NothingPaid
<1>2. ASSUME NEW p \in Purchases, Make(p) PROVE FundsConserved'
  <2>1. paid[p] = NothingPaid
    BY <1>2 DEF Make, FundsConserved, InOnePlace
  <2>2. escrow'[p] = [status |-> "pending", balance |-> Price[p]] /\ paid'[p] = NothingPaid
    BY <1>2, <2>1 DEF Make, SuiTypeOK
  <2>3. InOnePlace(p)'
    BY <2>2 DEF InOnePlace, NothingPaid
  <2>4. \A q \in Purchases \ {p} : escrow'[q] = escrow[q] /\ paid'[q] = paid[q]
    BY <1>2 DEF Make, SuiTypeOK
  <2> QED
    BY <1>1, <2>3, <2>4 DEF FundsConserved
<1>3. ASSUME NEW p \in Purchases, NEW v \in Verdicts, NEW to \in Accounts, Pay(p, v, to)
      PROVE  FundsConserved'
  <2>1. escrow'[p] = [status |-> v, balance |-> 0] /\ paid'[p] = PaidWhole(p, to)
    BY <1>3, PayWhole DEF SuiTypeOK
  <2>2. InOnePlace(p)'
    BY <2>1 DEF InOnePlace, PaidWhole, NothingPaid, Verdicts
  <2>3. \A q \in Purchases \ {p} : escrow'[q] = escrow[q] /\ paid'[q] = paid[q]
    BY <1>3, PayWhole DEF SuiTypeOK
  <2> QED
    BY <1>1, <2>2, <2>3 DEF FundsConserved
<1> QED
  BY <1>1, <1>2, <1>3, StepKinds DEF chainVars, FundsConserved

(* Coins are never lost, split or paid twice, whatever calls the owner of  *)
(* the objects and the parties make and in whatever order.                 *)
THEOREM FundsAreConserved == SuiSpec => []FundsConserved
<1>1. SuiInit => FundsConserved
  <2> SUFFICES ASSUME SuiInit, NEW p \in Purchases PROVE InOnePlace(p)
    BY DEF FundsConserved
  <2>1. escrow[p] = [status |-> "none", balance |-> 0] /\ paid[p] = NothingPaid
    BY DEF SuiInit, NothingPaid
  <2> QED
    BY <2>1 DEF InOnePlace
<1> QED
  BY <1>1, FundsStep, SuiTypeCorrect, PTL DEF SuiSpec
-----------------------------------------------------------------------------
(* The contracts implement FundsInTrust: making the escrow locks the coins, *)
(* settling it pays them to one account, nothing else moves any.           *)
LEMMA MakeLocks ==
    ASSUME SuiTypeOK, FundsConserved, NEW p \in Purchases, Make(p)
    PROVE  Funds!Lock(p)
<1>1. escrow[p].balance = 0 /\ paid[p] = NothingPaid
  BY DEF FundsConserved, InOnePlace, Make
<1>2. Held[p] = Funds!Nothing
  BY <1>1 DEF Held, NothingPaid, Funds!Nothing, Funds!Holders
<1>3. escrow'[p].balance = Price[p] /\ paid' = paid
  BY DEF Make, SuiTypeOK
<1>4. Held'[p] = Funds!Whole(p, Trust)
  BY <1>1, <1>3, PartiesAssumption
     DEF Held, NothingPaid, Funds!Whole, Funds!Nothing, Funds!Holders
<1>5. \A q \in Purchases \ {p} : Held'[q] = Held[q]
  BY DEF Held, Make, SuiTypeOK
<1>6. Held' = [Held EXCEPT ![p] = Funds!Whole(p, Trust)]
  BY <1>4, <1>5 DEF Held
<1> QED
  BY <1>2, <1>6 DEF Funds!Lock

LEMMA PaySettles ==
    ASSUME SuiTypeOK, FundsConserved,
           NEW p \in Purchases, NEW v \in Verdicts, NEW to \in Accounts, Pay(p, v, to)
    PROVE  Funds!Settle(p, to)
<1>1. escrow[p].balance = Price[p] /\ paid[p] = NothingPaid
  BY PayWhole
<1>2. Held[p] = Funds!Whole(p, Trust)
  BY <1>1, PartiesAssumption
     DEF Held, NothingPaid, Funds!Whole, Funds!Nothing, Funds!Holders
<1>3. escrow'[p].balance = 0 /\ paid'[p] = PaidWhole(p, to)
  BY PayWhole DEF SuiTypeOK
<1>4. Held'[p] = Funds!Whole(p, to)
  BY <1>3, PartiesAssumption
     DEF Held, PaidWhole, NothingPaid, Funds!Whole, Funds!Nothing, Funds!Holders
<1>5. \A q \in Purchases \ {p} : Held'[q] = Held[q]
  BY PayWhole DEF Held, SuiTypeOK
<1>6. Held' = [Held EXCEPT ![p] = Funds!Whole(p, to)]
  BY <1>4, <1>5 DEF Held
<1> QED
  BY <1>2, <1>6 DEF Funds!Settle

LEMMA FundsRefined ==
    SuiTypeOK /\ FundsConserved /\ [SuiNext]_chainVars => [Funds!Next]_Held
<1> SUFFICES ASSUME SuiTypeOK, FundsConserved, [SuiNext]_chainVars
             PROVE  [Funds!Next]_Held
  OBVIOUS
<1>1. CASE UNCHANGED <<escrow, paid>>
  BY <1>1 DEF Held
<1>2. ASSUME NEW p \in Purchases, Make(p) PROVE Funds!Next
  BY <1>2, MakeLocks DEF Funds!Next
<1>3. ASSUME NEW p \in Purchases, NEW v \in Verdicts, NEW to \in Accounts, Pay(p, v, to)
      PROVE  Funds!Next
  BY <1>3, PaySettles DEF Funds!Next
<1> QED
  BY <1>1, <1>2, <1>3, StepKinds DEF chainVars

(* Every behaviour of the two Move modules is one of FundsInTrust: the     *)
(* price is locked whole, paid whole to one account, and never moves again. *)
THEOREM FundsRefinement == SuiSpec => FundsSpec
<1>1. SuiInit => Funds!Init
  BY PartiesAssumption DEF SuiInit, Funds!Init, Funds!Nothing, Funds!Holders, Held
<1> QED
  BY <1>1, FundsRefined, SuiTypeCorrect, FundsAreConserved, PTL
     DEF SuiSpec, FundsSpec, Funds!Spec

-----------------------------------------------------------------------------
FinalFor(p) ==
    /\ escrow[p].status \in Verdicts => escrow'[p] = escrow[p]
    /\ purchase[p] \in {"refunded", "disputed"} => purchase'[p] = purchase[p]
    /\ purchase[p] = "completed" => purchase'[p] \in {"completed", "disputed"}

LEMMA FinalStep ==
    ASSUME SuiTypeOK, [SuiNext]_chainVars, NEW q \in Purchases
    PROVE  FinalFor(q)
<1>1. CASE UNCHANGED chainVars
  BY <1>1 DEF chainVars, FinalFor
<1>2. CASE SuiNext
  <2>1. escrow[q].status \in Verdicts => escrow'[q] = escrow[q]
    <3>1. ASSUME NEW p \in Purchases, Make(p), escrow[q].status \in Verdicts
          PROVE  escrow'[q] = escrow[q]
      BY <3>1 DEF Make, SuiTypeOK, Verdicts
    <3>2. ASSUME NEW p \in Purchases, NEW v \in Verdicts, NEW to \in Accounts,
                 Pay(p, v, to), escrow[q].status \in Verdicts
          PROVE  escrow'[q] = escrow[q]
      BY <3>2 DEF Pay, SuiTypeOK, Verdicts
    <3> QED
      BY <1>2, <3>1, <3>2, StepKinds
  <2>2. /\ purchase[q] \in {"refunded", "disputed"} => purchase'[q] = purchase[q]
        /\ purchase[q] = "completed" => purchase'[q] \in {"completed", "disputed"}
    BY <1>2, PurchaseSteps DEF SuiTypeOK
  <2> QED
    BY <2>1, <2>2 DEF FinalFor
<1> QED
  BY <1>1, <1>2

(* No sequence of calls takes a verdict back or turns it into the other.   *)
THEOREM FinalVerdicts == SuiSpec => VerdictsAreFinal
<1>1. SuiTypeOK /\ [SuiNext]_chainVars => [\A p \in Purchases : FinalFor(p)]_chainVars
  BY FinalStep
<1> QED
  BY <1>1, SuiTypeCorrect, PTL DEF SuiSpec, VerdictsAreFinal, FinalFor, Verdicts
=============================================================================
