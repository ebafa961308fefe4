----------------------------- MODULE Settlement -----------------------------
(***************************************************************************)
(* Who writes the verdict on a purchase into the database: releasePayment  *)
(* and refundPayment of src/services/payment.service.ts, and the database  *)
(* block of the fulfillment worker.  Each of them looks at one of the two  *)
(* rows of the purchase, and later writes both, one after the other.  The  *)
(* services call no chain, and nothing in the code calls the services.     *)
(*                                                                         *)
(* Everything of the worker between its check and its writes is in module  *)
(* Fulfillment; here it is one await.                                      *)
(***************************************************************************)
EXTENDS Naturals

CONSTANTS
    Purchases,
    Calls,        \* calls of the two services
    For,          \* For[c], the purchase a call is about
    ReleaseCalls, \* those of releasePayment; the others are refunds
    Scenes,       \* calls that come, and purchases whose jobs run, together
    MaxFaults,    \* bound on failed calls and crashes
    None

ASSUME SettlementAssumption ==
    /\ ReleaseCalls \subseteq Calls
    /\ For \in [Calls -> Purchases]
    /\ MaxFaults \in Nat

VARIABLES
    status,   \* status[p] of the purchase row
    escrow,   \* escrow[p], the status of the escrow row
    at,       \* at[c], the write that call c is at
    worker,   \* worker[p], the write that the worker is at
    verdicts, \* verdicts[p], the verdicts ever written in one of the rows
    crossed,  \* purchases two of these were at work on at the same time
    torn,     \* purchases one of these failed on when something was written
    faults

rows == <<status, escrow, verdicts>>
settlement == <<rows, at, worker, crossed, torn>>

Verdict(c) == IF c \in ReleaseCalls THEN "released" ELSE "refunded"

(* What the purchase row says when the escrow row says v.                  *)
StatusFor(v) ==
    CASE v = "holding" -> "pending" [] v = "released" -> "completed" [] OTHER -> "refunded"

SettlementTypeOK ==
    /\ status \in [Purchases -> {"pending", "completed", "refunded"}]
    /\ escrow \in [Purchases -> {"holding", "released", "refunded"}]
    /\ at \in [Calls -> {"none", "find", "escrow", "purchase", "done", "failed"}]
    /\ worker \in [Purchases -> {"none", "waiting", "row", "escrow", "done"}]
    /\ verdicts \in [Purchases -> SUBSET {"released", "refunded"}]
    /\ crossed \subseteq Purchases /\ torn \subseteq Purchases
    /\ faults \in 0 .. MaxFaults

SettlementInit(S) ==
    /\ status = [p \in Purchases |-> "pending"]
    /\ escrow = [p \in Purchases |-> "holding"]
    /\ at = [c \in Calls |-> IF c \in S THEN "find" ELSE "none"]
    /\ worker = [p \in Purchases |-> IF p \in S THEN "waiting" ELSE "none"]
    /\ verdicts = [p \in Purchases |-> {}]
    /\ crossed = {} /\ torn = {} /\ faults = 0

-----------------------------------------------------------------------------
CallsAt(p) == {c \in Calls : For[c] = p /\ at[c] \in {"escrow", "purchase"}}
AtWork(p) == CallsAt(p) # {} \/ worker[p] \in {"row", "escrow"}

(* One more has passed its check on p.                                     *)
Begin(p) == crossed' = IF AtWork(p) THEN crossed \union {p} ELSE crossed

WriteStatus(p, v) ==
    /\ status' = [status EXCEPT ![p] = StatusFor(v)]
    /\ verdicts' = [verdicts EXCEPT ![p] = @ \union {v}]

WriteEscrow(p, v) ==
    /\ escrow' = [escrow EXCEPT ![p] = v]
    /\ verdicts' = [verdicts EXCEPT ![p] = @ \union {v}]

\* Mutant of Admits: a refund does not look at the status.
AdmitsRefund(c) == c \in ReleaseCalls => escrow[For[c]] = "holding"

(* releasePayment wants an escrow that is held, refundPayment any that was *)
(* not released.                                                           *)
Admits(c) ==
    IF c \in ReleaseCalls THEN escrow[For[c]] = "holding" ELSE escrow[For[c]] # "released"

FindEscrow(c) ==
    /\ at[c] = "find"
    /\ IF Admits(c)
       THEN at' = [at EXCEPT ![c] = "escrow"] /\ Begin(For[c])
       ELSE at' = [at EXCEPT ![c] = "failed"] /\ UNCHANGED crossed
    /\ UNCHANGED <<rows, worker, torn, faults>>

SettleEscrow(c) ==
    /\ at[c] = "escrow"
    /\ WriteEscrow(For[c], Verdict(c))
    /\ at' = [at EXCEPT ![c] = "purchase"]
    /\ UNCHANGED <<status, worker, crossed, torn, faults>>

SettlePurchase(c) ==
    /\ at[c] = "purchase"
    /\ WriteStatus(For[c], Verdict(c))
    /\ at' = [at EXCEPT ![c] = "done"]
    /\ UNCHANGED <<escrow, worker, crossed, torn, faults>>

(* A call of the database throws, its write applied or not.                *)
SettleFails(c) ==
    /\ at[c] \in {"escrow", "purchase"} /\ faults < MaxFaults
    /\ faults' = faults + 1
    /\ at' = [at EXCEPT ![c] = "failed"]
    /\ \/ /\ torn' = IF at[c] = "purchase" THEN torn \union {For[c]} ELSE torn
          /\ UNCHANGED rows
       \/ /\ torn' = torn \union {For[c]}
          /\ IF at[c] = "escrow"
             THEN WriteEscrow(For[c], Verdict(c)) /\ UNCHANGED status
             ELSE WriteStatus(For[c], Verdict(c)) /\ UNCHANGED escrow
    /\ UNCHANGED <<worker, crossed>>

-----------------------------------------------------------------------------
(* The worker: validatePurchaseRequest, and the writes of updateDatabase   *)
(* that these properties are about.                                        *)

\* Mutant of Validate: the worker does not look at the row.
ValidateUnseen(p) ==
    /\ worker[p] = "waiting"
    /\ worker' = [worker EXCEPT ![p] = "row"]
    /\ Begin(p)
    /\ UNCHANGED <<rows, at, torn, faults>>

Validate(p) ==
    /\ worker[p] = "waiting" /\ status[p] = "pending"
    /\ worker' = [worker EXCEPT ![p] = "row"]
    /\ Begin(p)
    /\ UNCHANGED <<rows, at, torn, faults>>

UpdateRow(p) ==
    /\ worker[p] = "row"
    /\ WriteStatus(p, "released")
    /\ worker' = [worker EXCEPT ![p] = "escrow"]
    /\ UNCHANGED <<escrow, at, crossed, torn, faults>>

UpdateEscrow(p) ==
    /\ worker[p] = "escrow"
    /\ WriteEscrow(p, "released")
    /\ worker' = [worker EXCEPT ![p] = "done"]
    /\ UNCHANGED <<status, at, crossed, torn, faults>>

(* The block is retried, or given up and left to the job's next attempt.   *)
UpdateFails(p) ==
    /\ worker[p] \in {"row", "escrow"} /\ faults < MaxFaults
    /\ faults' = faults + 1
    /\ \/ UNCHANGED rows
       \/ worker[p] = "row" /\ WriteStatus(p, "released") /\ UNCHANGED escrow
       \/ worker[p] = "escrow" /\ WriteEscrow(p, "released") /\ UNCHANGED status
    /\ \/ worker' = [worker EXCEPT ![p] = "row"] /\ UNCHANGED torn
       \/ /\ worker' = [worker EXCEPT ![p] = "waiting"]
          /\ torn' = IF verdicts'[p] # {} THEN torn \union {p} ELSE torn
    /\ UNCHANGED <<at, crossed>>

(* The process dies with all of them.                                      *)
SettlementCrash ==
    /\ faults < MaxFaults
    /\ faults' = faults + 1
    /\ torn' = torn \union {p \in Purchases :
                              \/ worker[p] \in {"row", "escrow"} /\ verdicts[p] # {}
                              \/ \E c \in CallsAt(p) : at[c] = "purchase"}
    /\ at' = [c \in Calls |-> IF at[c] \in {"escrow", "purchase"} THEN "failed" ELSE at[c]]
    /\ worker' = [p \in Purchases |->
                    IF worker[p] \in {"row", "escrow"} THEN "waiting" ELSE worker[p]]
    /\ UNCHANGED <<rows, crossed>>

SettlementStep ==
    \/ \E c \in Calls : FindEscrow(c) \/ SettleEscrow(c) \/ SettlePurchase(c) \/ SettleFails(c)
    \/ \E p \in Purchases : Validate(p) \/ UpdateRow(p) \/ UpdateEscrow(p) \/ UpdateFails(p)

SettlementSpec ==
    /\ \E S \in Scenes : SettlementInit(S)
    /\ [][SettlementStep \/ SettlementCrash]_<<settlement, faults>>

-----------------------------------------------------------------------------
(* A purchase is paid out or refunded, never both, and its two rows tell   *)
(* the same story when nobody is at work on it - unless two were at work at  *)
(* once, or one failed with something written.                             *)
VerdictsAgree ==
    \A p \in Purchases \ (crossed \union torn) :
        /\ ~({"released", "refunded"} \subseteq verdicts[p])
        /\ ~AtWork(p) => status[p] = StatusFor(escrow[p])

(* The same, step by step: no row that tells a verdict is ever written to  *)
(* tell another, so that what a buyer or a seller has once been shown stays. *)
VerdictsStay ==
    [][\A p \in Purchases \ (crossed' \union torn') :
          /\ status[p] # "pending" => status'[p] = status[p]
          /\ escrow[p] # "holding" => escrow'[p] = escrow[p]]_<<settlement, faults>>
=============================================================================
