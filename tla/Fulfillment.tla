---------------------------- MODULE Fulfillment -----------------------------
(***************************************************************************)
(* The fulfillment worker (src/jobs/fulfillment.job.ts) beside the handler *)
(* of PurchaseCapture: how a queued purchase is validated, re-encrypted,   *)
(* stored, settled on the chain and written to the database.               *)
(*                                                                         *)
(* A run r is one execution of processFulfillmentJob.  It works on the     *)
(* purchase of[r] and makes an ephemeral key, a blob and a release         *)
(* transaction that are all its own; r names the three of them.  Every     *)
(* await is a step boundary: runs, handlers, the chain and crashes         *)
(* interleave there.  Retries of a step that changes nothing but the       *)
(* waiting time are one step; the retried block of updateDatabase, which   *)
(* does change something each time, is retried step by step.               *)
(*                                                                         *)
(* BullMQ hands a job to one run at a time while that run holds the job's  *)
(* lock.  When the lock is not renewed in time - the process died, or its  *)
(* event loop was blocked - the job is handed out again and the first run, *)
(* if it still lives, goes on beside the second.                           *)
(***************************************************************************)
EXTENDS PurchaseCapture, FiniteSets

CONSTANTS
    Attempts,    \* defaultJobOptions.attempts
    DbTries,     \* executions of the block in updateDatabase before it throws
    MaxStalls,   \* BullMQ's maxStalledCount
    Concurrency  \* the worker's concurrency

ASSUME BoundsAssumption ==
    /\ Attempts \in Nat \ {0}
    /\ DbTries \in Nat \ {0}
    /\ MaxStalls \in Nat
    /\ Concurrency \in Nat \ {0}
    /\ None \notin Runs

VARIABLES
    pc,      \* pc[r], the await run r is at
    of,      \* of[r], its purchase
    try,     \* try[r], which execution of the block in updateDatabase it is in
    relTx,   \* relTx[r], its release transaction on the chain
    stored,  \* the blobs Walrus holds
    sales    \* sales[p], how often the totalSales of its datapod was incremented for p

runVars == <<pc, of, try, relTx, stored>>
vars == <<chainVars, captureVars, dbVars, job, runVars, sales>>

Working == {"validate", "fetch", "upload", "prepare", "submit", "await"}
Writing == {"purchaseRow", "escrowRow", "sales", "audit"}
Pc == {"fresh", "finish", "dead"} \union Working \union Writing

Live(r) == pc[r] \notin {"fresh", "dead"}

TypeOK ==
    /\ CaptureTypeOK
    /\ pc \in [Runs -> Pc]
    /\ of \in [Runs -> Purchases \union {None}]
    /\ try \in [Runs -> Nat]
    /\ relTx \in [Runs -> TxState]
    /\ stored \subseteq Runs
    /\ sales \in [Purchases -> Nat]
    /\ \A r \in Runs : pc[r] # "fresh" => of[r] \in Purchases

Init ==
    /\ CaptureInit
    /\ pc = [r \in Runs |-> "fresh"]
    /\ of = [r \in Runs |-> None]
    /\ try = [r \in Runs |-> 0]
    /\ relTx = [r \in Runs |-> "none"]
    /\ stored = {}
    /\ sales = [p \in Purchases |-> 0]

-----------------------------------------------------------------------------
(* BullMQ, as the options in initializeFulfillmentQueue and                *)
(* startFulfillmentWorker set it up.                                       *)

NextRun == CHOOSE r \in Runs : pc[r] = "fresh"

(* A worker slot is free and takes the job.                                *)
Take(p) ==
    /\ job[p].state = "wait"
    /\ \E r \in Runs : pc[r] = "fresh"
    /\ Cardinality({r \in Runs : Live(r)}) < Concurrency
    /\ job' = [job EXCEPT ![p].state = "active", ![p].owner = NextRun]
    /\ pc' = [pc EXCEPT ![NextRun] = "validate"]
    /\ of' = [of EXCEPT ![NextRun] = p]
    /\ UNCHANGED <<chainVars, captureVars, dbVars, try, relTx, stored, sales>>

(* The lock of an active job expires.  Whether the interrupted attempt     *)
(* counts depends on the release of BullMQ.                                *)
Stall(p) ==
    /\ job[p].state = "active"
    /\ \E counted \in {0, 1} :
          job' = [job EXCEPT ![p] =
                    [state  |-> IF @.stalls < MaxStalls THEN "wait" ELSE "failed",
                     owner  |-> None,
                     made   |-> @.made + counted,
                     stalls |-> @.stalls + 1]]
    /\ UNCHANGED <<chainVars, captureVars, dbVars, runVars, sales>>

\* Mutant of JobAfterFailure: the attempt is not counted.
UncountedFailure(j) == [j EXCEPT !.owner = None, !.state = "wait"]

(* processFulfillmentJob throws.  Only the lock's holder can report it.    *)
JobAfterFailure(j) ==
    [j EXCEPT !.owner = None,
              !.made = @ + 1,
              !.state = IF j.made + 1 < Attempts THEN "wait" ELSE "failed"]

AttemptFails(r) ==
    /\ pc' = [pc EXCEPT ![r] = "dead"]
    /\ job' = [job EXCEPT ![of[r]] = IF @.owner = r THEN JobAfterFailure(@) ELSE @]

(* processFulfillmentJob returns.  emitEvents and cleanupMemory, which come *)
(* before, swallow every error and change nothing that is modelled here.   *)
Finish(r) ==
    /\ pc[r] = "finish"
    /\ pc' = [pc EXCEPT ![r] = "dead"]
    /\ job' = [job EXCEPT ![of[r]] =
                 IF @.owner = r THEN [@ EXCEPT !.owner = None, !.state = "completed"] ELSE @]
    /\ UNCHANGED <<chainVars, captureVars, dbVars, of, try, relTx, stored, sales>>

-----------------------------------------------------------------------------
(* Steps 1 to 5: nothing is written to the database.                       *)

Advance(r, from, to) ==
    /\ pc[r] = from
    /\ pc' = [pc EXCEPT ![r] = to]

(* validatePurchaseRequest.                                                *)
Validate(r) ==
    /\ Advance(r, "validate", "fetch")
    /\ row[of[r]].status = "pending"
    /\ row[of[r]].blob = None
    /\ UNCHANGED <<chainVars, captureVars, dbVars, job, of, try, relTx, stored, sales>>

(* downloadOriginalBlob, decryptSellerFile and reEncryptForBuyer.          *)
Fetch(r) ==
    /\ Advance(r, "fetch", "upload")
    /\ UNCHANGED <<chainVars, captureVars, dbVars, job, of, try, relTx, stored, sales>>

(* uploadBlob, which tries the publisher again until it names the blob.  A *)
(* blob is paid for 5 epochs; what is said of stored blobs is said of that *)
(* time.                                                                   *)
UploadBlob(r) == stored' = stored \union {r}

\* Mutant: the upload is not awaited.
UploadUnawaited(r) ==
    /\ Advance(r, "upload", "prepare")
    /\ UNCHANGED <<chainVars, captureVars, dbVars, job, of, try, relTx, stored, sales>>

(* uploadEncryptedBlob.                                                    *)
Upload(r) ==
    /\ Advance(r, "upload", "prepare")
    /\ UploadBlob(r)
    /\ UNCHANGED <<chainVars, captureVars, dbVars, job, of, try, relTx, sales>>

(* updateBlockchain up to the first send: the cap is looked up on the chain *)
(* by the id in the row, the escrow object by the escrow record.           *)
Prepare(r) ==
    /\ Advance(r, "prepare", "submit")
    /\ row[of[r]].ids
    /\ escrowRow[of[r]].status # "none"
    /\ escrowRow[of[r]].object
    /\ UNCHANGED <<chainVars, captureVars, dbVars, job, of, try, relTx, stored, sales>>

(* executeTransaction sends the release transaction.  It sends the same    *)
(* bytes again after an error, so that the chain executes them at most once.*)
Submit(r) ==
    /\ Advance(r, "submit", "await")
    /\ relTx' = [relTx EXCEPT ![r] = "sent"]
    /\ UNCHANGED <<chainVars, captureVars, dbVars, job, of, try, stored, sales>>

\* Mutant of ExecuteRelease: the two calls are sent as two transactions.
ExecuteReleaseAlone(r) ==
    /\ relTx[r] = "sent"
    /\ \/ /\ ReleaseOnlyPTB(of[r], of[r], Seller[of[r]])
          /\ relTx' = [relTx EXCEPT ![r] = "ok"]
       \/ /\ relTx' = [relTx EXCEPT ![r] = "aborted"]
          /\ UNCHANGED chainVars
    /\ UNCHANGED <<captureVars, dbVars, job, pc, of, try, stored, sales>>

(* The chain executes it, now or long after the run has given up.          *)
ExecuteRelease(r) ==
    /\ relTx[r] = "sent"
    /\ \/ /\ ReleasePaymentPTB(of[r], of[r], Seller[of[r]])
          /\ relTx' = [relTx EXCEPT ![r] = "ok"]
       \/ /\ relTx' = [relTx EXCEPT ![r] = "aborted"]
          /\ UNCHANGED chainVars
    /\ UNCHANGED <<captureVars, dbVars, job, pc, of, try, stored, sales>>

\* Mutant: an answer counts as success whatever the effects say.
SettledWhateverEffects(r) ==
    /\ Advance(r, "await", "purchaseRow")
    /\ relTx[r] \in {"ok", "aborted"}
    /\ try' = [try EXCEPT ![r] = 1]
    /\ UNCHANGED <<chainVars, captureVars, dbVars, job, of, relTx, stored, sales>>

(* The digest comes back with successful effects.                          *)
Settled(r) ==
    /\ Advance(r, "await", "purchaseRow")
    /\ relTx[r] = "ok"
    /\ try' = [try EXCEPT ![r] = 1]
    /\ UNCHANGED <<chainVars, captureVars, dbVars, job, of, relTx, stored, sales>>

\* Mutant of Throw: a run that fails removes its blob.
ThrowRemovesBlob(r) ==
    /\ pc[r] \in Working
    /\ AttemptFails(r)
    /\ stored' = stored \ {r}
    /\ UNCHANGED <<chainVars, captureVars, dbVars, of, try, relTx, sales>>

(* Any of these steps throws, its own retries exhausted.  An upload may    *)
(* have been stored although its answer was lost.                          *)
Throw(r) ==
    /\ pc[r] \in Working
    /\ AttemptFails(r)
    /\ \/ UNCHANGED stored
       \/ pc[r] = "upload" /\ UploadBlob(r)
    /\ UNCHANGED <<chainVars, captureVars, dbVars, of, try, relTx, sales>>

-----------------------------------------------------------------------------
(* Step 6, updateDatabase: four writes in a row, outside any transaction.  *)

WriteAt(r) ==
    \/ /\ pc[r] = "purchaseRow"
       /\ row' = [row EXCEPT ![of[r]].status = "completed",
                             ![of[r]].blob = r,
                             ![of[r]].tx = ReleaseDigest(r)]
       /\ UNCHANGED <<escrowRow, sales, audit>>
    \/ /\ pc[r] = "escrowRow"
       /\ escrowRow' = [escrowRow EXCEPT ![of[r]].status =
                           IF @ = "none" THEN "none" ELSE "released"]
       /\ UNCHANGED <<row, sales, audit>>
    \/ /\ pc[r] = "sales"
       /\ sales' = [sales EXCEPT ![of[r]] = @ + 1]
       /\ UNCHANGED <<row, escrowRow, audit>>
    \/ /\ pc[r] = "audit"
       /\ audit' = [audit EXCEPT ![of[r]].completed = @ + 1]
       /\ UNCHANGED <<row, escrowRow, sales>>

After(at) ==
    CASE at = "purchaseRow" -> "escrowRow"
      [] at = "escrowRow"   -> "sales"
      [] at = "sales"       -> "audit"
      [] at = "audit"       -> "finish"

Write(r) ==
    /\ WriteAt(r)
    /\ pc' = [pc EXCEPT ![r] = After(@)]
    /\ UNCHANGED <<chainVars, captureVars, job, of, try, relTx, stored>>

(* A write throws.  It may have been applied although its answer was lost. *)
WriteThrows(r) ==
    /\ pc[r] \in Writing
    /\ WriteAt(r) \/ UNCHANGED <<dbVars, sales>>

\* Mutant of RetryBlock: the tries are not counted.
RetryUncounted(r) ==
    /\ WriteThrows(r)
    /\ try[r] < DbTries
    /\ pc' = [pc EXCEPT ![r] = "purchaseRow"]
    /\ UNCHANGED <<chainVars, captureVars, job, of, try, relTx, stored>>

(* retryWithCustomDelays runs the whole block again ...                    *)
RetryBlock(r) ==
    /\ WriteThrows(r)
    /\ try[r] < DbTries
    /\ try' = [try EXCEPT ![r] = @ + 1]
    /\ pc' = [pc EXCEPT ![r] = "purchaseRow"]
    /\ UNCHANGED <<chainVars, captureVars, job, of, relTx, stored>>

(* ... until its delays are used up.                                       *)
BlockThrows(r) ==
    /\ WriteThrows(r)
    /\ try[r] >= DbTries
    /\ AttemptFails(r)
    /\ UNCHANGED <<chainVars, captureVars, of, try, relTx, stored>>

-----------------------------------------------------------------------------
RunStep(r) ==
    \/ Validate(r) \/ Fetch(r) \/ Upload(r) \/ Prepare(r) \/ Submit(r) \/ Settled(r)
    \/ Throw(r) \/ Write(r) \/ RetryBlock(r) \/ BlockThrows(r) \/ Finish(r)

(* The process, which serves the API and runs the worker, dies and is      *)
(* started again.                                                          *)
Crash ==
    /\ RequestsDie
    /\ pc' = [r \in Runs |-> IF Live(r) THEN "dead" ELSE pc[r]]
    /\ UNCHANGED <<chainVars, dbVars, payment, createTx, told, job, of, try, relTx,
                   stored, sales>>

CaptureStep(p) ==
    /\ Handle(p) \/ ExecutePurchase(p)
    /\ UNCHANGED <<runVars, sales>>

DisputeStep(p) ==
    /\ Dispute(p)
    /\ UNCHANGED <<captureVars, dbVars, job, runVars, sales>>

Next ==
    \/ \E p \in Purchases : CaptureStep(p) \/ DisputeStep(p) \/ Take(p) \/ Stall(p)
    \/ \E r \in Runs : RunStep(r) \/ ExecuteRelease(r)
    \/ Crash

Spec == Init /\ [][Next]_vars

(* The event loop runs every continuation, every await is bounded by its   *)
(* timeouts and retry counts, free slots take waiting jobs, and the stalled *)
(* check finds the jobs whose run has died.  Clients, the chain, disputes  *)
(* and crashes owe nothing.                                                *)
LockLost(p) ==
    /\ job[p].owner # None
    /\ ~ Live(job[p].owner)
    /\ Stall(p)

FairSpec ==
    /\ Spec
    /\ \A r \in Runs : WF_vars(RunStep(r))
    /\ \A p \in Purchases : WF_vars(Take(p)) /\ WF_vars(LockLost(p))

-----------------------------------------------------------------------------
(* What the buyer gets.                                                    *)

(* downloadBlob finds what uploadBlob has stored.                          *)
Downloadable(b) == b \in stored

(* getDownloadUrl, and downloadData before it asks Walrus.                 *)
GetsUrl(p) == row[p].status = "completed" /\ row[p].blob # None

GetsData(p) == GetsUrl(p) /\ Downloadable(row[p].blob)

-----------------------------------------------------------------------------
(* The seller is paid only for a purchase whose data the buyer can get: if *)
(* the escrow was released, the coins went to the seller of record, the    *)
(* PurchaseRequest was completed with it (it may have been disputed since), *)
(* and exactly one run did it, whose blob Walrus already held.  (Two calls *)
(* in one transaction, sent after the upload, by any number of overlapping *)
(* runs of the job.)                                                       *)
SellerPaidForDelivery ==
    \A p \in Purchases :
        escrow[p].status = "released" =>
            /\ paid[p] = PaidWhole(p, Seller[p])
            /\ purchase[p] \in {"completed", "disputed"}
            /\ \E r \in stored :
                  \A s \in Runs : of[s] = p /\ relTx[s] = "ok" <=> s = r

(* A purchase that the database calls completed was settled by the very run *)
(* whose blob, key and digest the row shows, so what the buyer downloads is *)
(* what the seller was paid for; and an escrow record is released only when *)
(* its purchase is completed.                                              *)
CompletedIsSettled ==
    \A p \in Purchases :
        /\ row[p].status = "completed" =>
              /\ escrow[p].status = "released"
              /\ GetsData(p)
              /\ of[row[p].blob] = p
              /\ relTx[row[p].blob] = "ok"
              /\ row[p].tx = ReleaseDigest(row[p].blob)
        /\ escrowRow[p].status = "released" => row[p].status = "completed"

(* A purchase is on record only when its price is, or was, in escrow and   *)
(* the payment it was made for came from its buyer and was large enough;   *)
(* the job is queued, and the buyer told the private key, only for a       *)
(* purchase that has both its records.  (createPurchase against            *)
(* transactions that are executed late, crashes and lost answers.)         *)
RecordsAreFunded ==
    \A p \in Purchases :
        /\ row[p].status # "none" =>
              /\ escrow[p].status # "none"
              /\ Payer[payment[p]] = Buyer[p]
              /\ Worth[payment[p]] >= Price[p]
        /\ escrowRow[p].status # "none" => row[p].status # "none"
        /\ job[p].state # "none" \/ told[p] => escrowRow[p].status # "none"

(* totalSales counts a purchase once for every try of the block at most,   *)
(* and only when it is completed; when BullMQ reports the job completed,   *)
(* every write of the block has been made.                                 *)
SalesFollowCompletion ==
    \A p \in Purchases :
        /\ sales[p] <= DbTries
        /\ sales[p] > 0 => row[p].status = "completed"
        /\ job[p].state = "completed" =>
              /\ row[p].status = "completed"
              /\ escrowRow[p].status = "released"
              /\ sales[p] > 0
              /\ audit[p].completed > 0

(* Once a purchase is completed its blob, key and digest never change: a   *)
(* second run of the same job cannot swap the data under the buyer.        *)
DeliveryIsStable ==
    [][\A p \in Purchases : row[p].status = "completed" => row'[p] = row[p]]_vars

(* Whatever the backend does, crashes and retries included, coins move only *)
(* as FundsInTrust says (SuiEscrow!FundsSpec), and each of its steps is one *)
(* of the backend's transactions or leaves the chain alone.                *)
BackendChain == SuiInit /\ [][BackendNext]_chainVars

(* The copy that the seller of p was paid for, read off the chain: that of *)
(* the run whose release transaction took effect.                          *)
SettledBy(p, r) == of[r] = p /\ relTx[r] = "ok"
Sold == [p \in Purchases |->
            IF \E r \in Runs : SettledBy(p, r)
            THEN CHOOSE r \in Runs : SettledBy(p, r)
            ELSE None]

Shown == [p \in Purchases |-> row[p].blob]

Exchange == INSTANCE FairExchange
            WITH coins <- Held, kept <- stored, sold <- Sold, shown <- Shown, Copies <- Runs

(* The backend keeps the promise of FairExchange: through overlapping runs, *)
(* late transactions, retries and crashes a sale is one exchange of the    *)
(* whole price for a copy that is kept, and the buyer is shown that copy.  *)
ExchangeSpec == Exchange!ExchangeSpec

(* Every job that was queued is reported completed or failed in the end.   *)
JobEnds ==
    \A p \in Purchases :
        job[p].state = "wait" ~> job[p].state \in {"completed", "failed"}

-----------------------------------------------------------------------------
(* Why the invariants above hold: how far a handler, a run and a job have  *)
(* come, against what is on record and on the chain by then.               *)

BeforeRow    == {"idle", "checked", "verified", "sent", "confirmed"}
BeforeEscrow == BeforeRow \union {"recorded"}
AfterEscrow  == {"escrowed", "audited", "queued", "done"}

RequestInv(p) ==
    /\ req[p] \in BeforeRow => row[p].status = "none"
    /\ req[p] \in BeforeEscrow => escrowRow[p].status = "none"
    /\ req[p] \in {"verified", "sent", "confirmed"} =>
          Payer[payment[p]] = Buyer[p] /\ Worth[payment[p]] >= Price[p]
    /\ req[p] = "confirmed" => createTx[p] = "ok"
    /\ createTx[p] = "ok" => escrow[p].status # "none"
    /\ req[p] = "recorded" => row[p].status # "none"
    /\ req[p] \in AfterEscrow => escrowRow[p].status # "none"

JobInv(p) == job[p].owner # None => job[p].state = "active"

BeforeSubmit == {"fresh", "validate", "fetch", "upload", "prepare", "submit"}

(* What is stored, and what has become of the release transaction.         *)
RunChainInv(r) ==
    /\ pc[r] \in BeforeSubmit => relTx[r] = "none"
    /\ pc[r] \in {"prepare", "submit", "await"} \/ relTx[r] # "none" => r \in stored
    /\ pc[r] \in Writing \union {"finish"} => relTx[r] = "ok"
    /\ relTx[r] = "ok" => escrow[of[r]].status = "released"

(* What the block in updateDatabase has written.                           *)
RunWritesInv(r) ==
    /\ pc[r] # "fresh" => escrowRow[of[r]].status # "none"
    /\ pc[r] \in {"escrowRow", "sales", "audit", "finish"} => row[of[r]].status = "completed"
    /\ pc[r] \in {"sales", "audit", "finish"} => escrowRow[of[r]].status = "released"
    /\ pc[r] \in {"audit", "finish"} => sales[of[r]] > 0
    /\ pc[r] = "finish" => audit[of[r]].completed > 0

(* The one run that was settled counts its tries of the block, and each try *)
(* adds one sale at most.                                                  *)
RunSalesInv(r) ==
    /\ try[r] <= DbTries
    /\ pc[r] \in BeforeSubmit \union {"await"} => try[r] = 0
    /\ relTx[r] = "ok" => sales[of[r]] <= try[r]
    /\ pc[r] \in {"purchaseRow", "escrowRow", "sales"} => sales[of[r]] < try[r]

(* The conjunction is inductive.  It says that what is on record about a   *)
(* purchase, what its handler and its runs will do next, and the state of  *)
(* its objects on the chain fit together at every step boundary.           *)
IInv ==
    /\ TypeOK
    /\ FundsConserved
    /\ \A p \in Purchases : RequestInv(p) /\ JobInv(p)
    /\ \A r \in Runs : RunChainInv(r) /\ RunWritesInv(r) /\ RunSalesInv(r)
    /\ SellerPaidForDelivery
    /\ CompletedIsSettled
    /\ RecordsAreFunded
    /\ SalesFollowCompletion

-----------------------------------------------------------------------------
(* "Process fulfillment job - ATOMIC operation"                            *)
(* (src/jobs/fulfillment.job.ts:701): when no run is at work on a purchase, *)
(* either none of the job's effects is there or all of them are, once.     *)
FulfillmentIsAtomic ==
    \A p \in Purchases :
        (\A r \in Runs : of[r] = p => ~ Live(r)) =>
            \/ /\ escrow[p].status # "released"
               /\ row[p].status # "completed"
               /\ sales[p] = 0
            \/ /\ escrow[p].status = "released"
               /\ row[p].status = "completed"
               /\ escrowRow[p].status = "released"
               /\ sales[p] = 1
=============================================================================
