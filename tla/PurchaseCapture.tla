-------------------------- MODULE PurchaseCapture ---------------------------
(***************************************************************************)
(* POST /api/buyer/purchase: createPurchase of                             *)
(* src/controllers/buyer.controller.ts, with the escrow record it makes    *)
(* through PaymentService.createEscrow and the job it queues.              *)
(*                                                                         *)
(* A purchase p is one call of the handler that passed its first checks    *)
(* (the datapod is published, the seller has an address, the buyer is a    *)
(* user); a call those reject changes nothing and is left out.  Handlers   *)
(* interleave at every await, and a crash of the process ends them all.    *)
(*                                                                         *)
(* Sending the purchase transaction and the chain executing it are two     *)
(* steps: a transaction that was sent may be executed at any later time,   *)
(* also after the handler has given up on it.  executeTransaction sends    *)
(* the same built transaction, hence the same digest, on every retry, so   *)
(* the retries are one "sent" transaction and giving up is possible at any *)
(* time; how often it is sent (MAX_RETRIES) makes no difference.           *)
(***************************************************************************)
EXTENDS SuiEscrow

CONSTANTS
    Payments,   \* digests of transactions in which a buyer paid the sponsor
    Payer,      \* Payer[d], their sender
    Worth,      \* Worth[d], the amount the sponsor received
    Runs,       \* executions of the fulfillment handler; an execution names
                \* the ephemeral key, the blob and the transaction it makes
    None        \* "null" in a column

ASSUME PaymentAssumption ==
    /\ Payer \in [Payments -> Accounts]
    /\ Worth \in [Payments -> Nat]

VARIABLES
    req,        \* req[p], how far the handler has come
    payment,    \* payment[p], the payment_tx_digest of the request body
    createTx,   \* createTx[p], the purchase transaction on the chain
    row,        \* row[p], the PurchaseRequest row
    escrowRow,  \* escrowRow[p], the EscrowTransaction row
    audit,      \* audit[p], the TransactionAudit rows about p, by txType
    job,        \* job[p], the BullMQ job "fulfill-<id of p>"
    told        \* told[p], the buyer got the answer that holds the private key

captureVars == <<req, payment, createTx, told>>
dbVars == <<row, escrowRow, audit>>

(* A digest column holds the purchase transaction of p, the release        *)
(* transaction of a fulfillment run, or null.  Payment digests are a third *)
(* kind, which no column ever holds.                                       *)
PurchaseDigest(p) == <<"purchase", p>>
ReleaseDigest(r)  == <<"release", r>>
Digests == {PurchaseDigest(p) : p \in Purchases}
             \union {ReleaseDigest(r) : r \in Runs} \union {None}

ReqState == {"idle", "checked", "verified", "sent", "confirmed", "recorded",
             "escrowed", "audited", "queued", "done", "failed"}
TxState  == {"none", "sent", "ok", "aborted"}

(* blob stands for encryptedBlobId and for the decryptionKey written with  *)
(* it; ids says that purchaseRequestId holds the id of the object on the   *)
(* chain, and object that escrowObjectId is not null.                      *)
Row == [status : {"none", "pending", "completed"}, blob : Runs \union {None},
        tx : Digests, ids : BOOLEAN]
EscrowRow == [status : {"none", "holding", "released"}, object : BOOLEAN]

(* owner is the execution that holds the job's lock, made counts the       *)
(* attempts that failed and stalls the times the lock was lost.            *)
Job == [state : {"none", "wait", "active", "completed", "failed"},
        owner : Runs \union {None}, made : Nat, stalls : Nat]

CaptureTypeOK ==
    /\ SuiTypeOK
    /\ req \in [Purchases -> ReqState]
    /\ payment \in [Purchases -> Payments \union {None}]
    /\ createTx \in [Purchases -> TxState]
    /\ row \in [Purchases -> Row]
    /\ escrowRow \in [Purchases -> EscrowRow]
    /\ audit \in [Purchases -> [captured : Nat, completed : Nat]]
    /\ job \in [Purchases -> Job]
    /\ told \in [Purchases -> BOOLEAN]

NoRow       == [status |-> "none", blob |-> None, tx |-> None, ids |-> FALSE]
NoEscrowRow == [status |-> "none", object |-> FALSE]
NoJob       == [state |-> "none", owner |-> None, made |-> 0, stalls |-> 0]

CaptureInit ==
    /\ SuiInit
    /\ req = [p \in Purchases |-> "idle"]
    /\ payment = [p \in Purchases |-> None]
    /\ createTx = [p \in Purchases |-> "none"]
    /\ row = [p \in Purchases |-> NoRow]
    /\ escrowRow = [p \in Purchases |-> NoEscrowRow]
    /\ audit = [p \in Purchases |-> [captured |-> 0, completed |-> 0]]
    /\ job = [p \in Purchases |-> NoJob]
    /\ told = [p \in Purchases |-> FALSE]

-----------------------------------------------------------------------------
(* The handler.                                                            *)

Goto(p, from, to) ==
    /\ req[p] = from
    /\ req' = [req EXCEPT ![p] = to]

(* findFirst on purchaseRequest.txDigest.                                  *)
AlreadyUsed(d) == \E q \in Purchases : row[q].tx = d

(* The idempotency check.                                                  *)
CheckPayment(p) ==
    /\ Goto(p, "idle", "checked")
    /\ \E d \in Payments :
          /\ ~ AlreadyUsed(d)
          /\ payment' = [payment EXCEPT ![p] = d]
    /\ UNCHANGED <<chainVars, dbVars, createTx, job, told>>

(* verifyPaymentTransaction: the payment is a transfer of at least the     *)
(* price from this buyer to the sponsor.                                   *)
VerifyPayment(p) ==
    /\ Goto(p, "checked", "verified")
    /\ Payer[payment[p]] = Buyer[p]
    /\ Worth[payment[p]] >= Price[p]
    /\ UNCHANGED <<chainVars, dbVars, payment, createTx, job, told>>

SendPurchase(p) ==
    /\ Goto(p, "verified", "sent")
    /\ createTx' = [createTx EXCEPT ![p] = "sent"]
    /\ UNCHANGED <<chainVars, dbVars, payment, job, told>>

\* Mutant: the handler does not wait for the transaction.
ConfirmUnseen(p) ==
    /\ Goto(p, "sent", "confirmed")
    /\ UNCHANGED <<chainVars, dbVars, payment, createTx, job, told>>

(* The digest came back and waitForTransaction saw it succeed.             *)
ConfirmPurchase(p) ==
    /\ Goto(p, "sent", "confirmed")
    /\ createTx[p] = "ok"
    /\ UNCHANGED <<chainVars, dbVars, payment, createTx, job, told>>

(* prisma.purchaseRequest.create.  found: the answer listed the created    *)
(* objects; if it did not, a random UUID stands in for the object's id and *)
(* the id of the escrow object is null.                                    *)
InsertPurchase(p, found) ==
    row' = [row EXCEPT ![p] = [status |-> "pending", blob |-> None,
                               tx |-> PurchaseDigest(p), ids |-> found]]

RecordPurchase(p) ==
    /\ Goto(p, "confirmed", "recorded")
    /\ \E found \in BOOLEAN : InsertPurchase(p, found)
    /\ UNCHANGED <<chainVars, escrowRow, audit, payment, createTx, job, told>>

\* Mutant of InsertEscrow: the chain's word for the status.
InsertEscrowPending(p) ==
    escrowRow' = [escrowRow EXCEPT ![p] = [status |-> "pending", object |-> row[p].ids]]

(* PaymentService.createEscrow.  escrowObjectId is null exactly when the   *)
(* answer did not list the objects.                                        *)
InsertEscrow(p) ==
    escrowRow' = [escrowRow EXCEPT ![p] = [status |-> "holding", object |-> row[p].ids]]

RecordEscrow(p) ==
    /\ Goto(p, "recorded", "escrowed")
    /\ InsertEscrow(p)
    /\ UNCHANGED <<chainVars, row, audit, payment, createTx, job, told>>

InsertCaptureAudit(p) == audit' = [audit EXCEPT ![p].captured = @ + 1]

RecordAudit(p) ==
    /\ Goto(p, "escrowed", "audited")
    /\ InsertCaptureAudit(p)
    /\ UNCHANGED <<chainVars, row, escrowRow, payment, createTx, job, told>>

(* queueFulfillmentJob.  A failure is logged and swallowed, whether or not *)
(* Redis has the job.                                                      *)
AddJob(p) == job' = [job EXCEPT ![p] = [NoJob EXCEPT !.state = "wait"]]

QueueJob(p) ==
    /\ Goto(p, "audited", "queued")
    /\ AddJob(p) \/ UNCHANGED job
    /\ UNCHANGED <<chainVars, dbVars, payment, createTx, told>>

(* The answer with the private key leaves; it may not arrive.              *)
Answer(p) ==
    /\ Goto(p, "queued", "done")
    /\ \E arrives \in BOOLEAN : told' = [told EXCEPT ![p] = arrives]
    /\ UNCHANGED <<chainVars, dbVars, payment, createTx, job>>

Pending(p) == req[p] \notin {"idle", "done", "failed"}

(* Any await before the job is queued may throw: the payment is no good,   *)
(* the purchase transaction failed or timed out, the database is gone.  A  *)
(* write may have been applied although its answer was lost.               *)
GiveUp(p) ==
    /\ Pending(p)
    /\ req[p] # "queued"
    /\ req' = [req EXCEPT ![p] = "failed"]
    /\ \/ UNCHANGED dbVars
       \/ /\ req[p] = "confirmed"
          /\ \E found \in BOOLEAN : InsertPurchase(p, found)
          /\ UNCHANGED <<escrowRow, audit>>
       \/ /\ req[p] = "recorded"
          /\ InsertEscrow(p)
          /\ UNCHANGED <<row, audit>>
       \/ /\ req[p] = "escrowed"
          /\ InsertCaptureAudit(p)
          /\ UNCHANGED <<row, escrowRow>>
    /\ UNCHANGED <<chainVars, payment, createTx, job, told>>

(* The process dies: every call that was being handled is gone.            *)
RequestsDie == req' = [p \in Purchases |-> IF Pending(p) THEN "failed" ELSE req[p]]

(* The chain executes the purchase transaction, or it aborts, as it does   *)
(* when the sponsor's gas coin cannot fund the escrow.                     *)
ExecutePurchase(p) ==
    /\ createTx[p] = "sent"
    /\ \/ /\ PurchasePTB(p)
          /\ createTx' = [createTx EXCEPT ![p] = "ok"]
       \/ /\ createTx' = [createTx EXCEPT ![p] = "aborted"]
          /\ UNCHANGED chainVars
    /\ UNCHANGED <<dbVars, req, payment, job, told>>

Handle(p) ==
    \/ CheckPayment(p) \/ VerifyPayment(p) \/ SendPurchase(p)
    \/ ConfirmPurchase(p) \/ RecordPurchase(p) \/ RecordEscrow(p)
    \/ RecordAudit(p) \/ QueueJob(p) \/ Answer(p) \/ GiveUp(p)

CaptureNext ==
    \/ \E p \in Purchases : Handle(p) \/ ExecutePurchase(p)
    \/ RequestsDie /\ UNCHANGED <<chainVars, dbVars, payment, createTx, job, told>>

CaptureSpec ==
    CaptureInit /\ [][CaptureNext]_<<chainVars, captureVars, dbVars, job>>

-----------------------------------------------------------------------------
(* "Idempotency Check: Check if this payment digest was already used"      *)
(* (src/controllers/buyer.controller.ts:569): two purchases on record were *)
(* paid by two different payments.                                         *)
PaymentUsedOnce ==
    \A p, q \in Purchases :
        /\ row[p].status # "none" /\ row[q].status # "none"
        /\ payment[p] = payment[q]
        => p = q
=============================================================================
