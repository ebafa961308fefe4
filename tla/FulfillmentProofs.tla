------------------------- MODULE FulfillmentProofs --------------------------
(***************************************************************************)
(* IInv is an inductive invariant of Fulfillment, for any sets of          *)
(* purchases, runs, accounts and payments and any bounds; the safety       *)
(* invariants and action properties the runs check follow from it.         *)
(*                                                                         *)
(* The proof goes conjunct by conjunct.  First come the facts several      *)
(* conjuncts need: what a step does to the chain, to the records, and      *)
(* which run BullMQ starts next.                                           *)
(***************************************************************************)
EXTENDS Fulfillment, SuiEscrowProofs

-----------------------------------------------------------------------------
(* Run r does something that is not visible outside it: it moves on.       *)
Moves(r) == Validate(r) \/ Fetch(r) \/ Upload(r) \/ Prepare(r) \/ Submit(r) \/ Settled(r)

LEMMA NextRunIsFresh ==
    ASSUME \E r \in Runs : pc[r] = "fresh"
    PROVE  NextRun \in Runs /\ pc[NextRun] = "fresh"
BY DEF NextRun

(* The backend's steps make only its own calls: purchase and release       *)
(* transactions, and disputes of the parties.                              *)
LEMMA ChainStep ==
    ASSUME IInv, [Next]_vars
    PROVE  [BackendNext]_chainVars
<1>1. ASSUME NEW p \in Purchases, Handle(p) PROVE UNCHANGED chainVars
  BY <1>1 DEF Handle, CheckPayment, VerifyPayment, SendPurchase, ConfirmPurchase,
              RecordPurchase, RecordEscrow, RecordAudit, QueueJob, Answer, GiveUp
<1>2. ASSUME NEW p \in Purchases, ExecutePurchase(p) PROVE [BackendNext]_chainVars
  BY <1>2 DEF ExecutePurchase, BackendNext
<1>3. ASSUME NEW p \in Purchases, DisputeStep(p) PROVE BackendNext
  BY <1>3 DEF DisputeStep, BackendNext
<1>4. ASSUME NEW r \in Runs, ExecuteRelease(r) PROVE [BackendNext]_chainVars
  <2>1. of[r] \in Purchases
    BY <1>4 DEF ExecuteRelease, IInv, TypeOK, RunChainInv, BeforeSubmit
  <2> QED
    BY <1>4, <2>1 DEF ExecuteRelease, BackendNext
<1>5. ASSUME NEW r \in Runs, RunStep(r) PROVE UNCHANGED chainVars
  BY <1>5 DEF RunStep, Validate, Fetch, Upload, UploadBlob, Prepare, Submit, Settled, Throw, Write,
              RetryBlock, BlockThrows, Finish
<1>6. ASSUME NEW p \in Purchases, Take(p) \/ Stall(p) PROVE UNCHANGED chainVars
  BY <1>6 DEF Take, Stall
<1>7. CASE Crash
  BY <1>7 DEF Crash
<1> QED
  BY <1>1, <1>2, <1>3, <1>4, <1>5, <1>6, <1>7 DEF Next, CaptureStep, vars

LEMMA SuiStep ==
    ASSUME IInv, [Next]_vars
    PROVE  [SuiNext]_chainVars
BY ChainStep DEF SuiNext

(* What the rest of the proof needs to know of the chain: a settled escrow *)
(* stays as it is, and an escrow that was made does not go away.           *)
LEMMA EscrowStays ==
    ASSUME IInv, [Next]_vars, NEW p \in Purchases
    PROVE  /\ escrow[p].status = "released" => escrow'[p] = escrow[p]
           /\ escrow[p].status # "none" => escrow'[p].status # "none"
<1>1. SuiTypeOK /\ [SuiNext]_chainVars
  BY SuiStep DEF IInv, TypeOK, CaptureTypeOK
<1>2. CASE UNCHANGED <<escrow, paid>>
  BY <1>2
<1>3. ASSUME NEW q \in Purchases, Make(q)
      PROVE  escrow[p].status # "none" => escrow'[p] = escrow[p]
  BY <1>1, <1>3 DEF Make, SuiTypeOK
<1>4. ASSUME NEW q \in Purchases, NEW v \in Verdicts, NEW to \in Accounts, Pay(q, v, to)
      PROVE  /\ escrow[p].status = "released" => escrow'[p] = escrow[p]
             /\ escrow[p].status # "none" => escrow'[p].status # "none"
  BY <1>1, <1>4 DEF Pay, SuiTypeOK, Verdicts
<1> QED
  BY <1>1, <1>2, <1>3, <1>4, StepKinds DEF chainVars

(* The handler writes each record once: the rows of a purchase are made    *)
(* when there are none yet, and what is there is left alone.               *)
LEMMA HandlerWritesOnce ==
    ASSUME IInv, NEW p \in Purchases, Handle(p), NEW q \in Purchases
    PROVE  /\ row[q].status # "none" => row'[q] = row[q]
           /\ row[q].status # row'[q].status => req[q] = "confirmed" /\ row'[q].status = "pending"
           /\ escrowRow[q].status # "none" => escrowRow'[q] = escrowRow[q]
           /\ escrowRow[q].status # escrowRow'[q].status =>
                 req[q] = "recorded" /\ escrowRow'[q].status = "holding"
           /\ audit'[q].completed = audit[q].completed
           /\ job'[q] # job[q] => job'[q] = [NoJob EXCEPT !.state = "wait"] /\ req[q] = "audited"
<1> USE DEF IInv, TypeOK, CaptureTypeOK, RequestInv, BeforeRow, BeforeEscrow, dbVars, Goto
<1>1. CASE CheckPayment(p) \/ VerifyPayment(p) \/ SendPurchase(p) \/ ConfirmPurchase(p)
              \/ Answer(p)
  BY <1>1 DEF CheckPayment, VerifyPayment, SendPurchase, ConfirmPurchase, Answer
<1>2. CASE RecordPurchase(p)
  BY <1>2 DEF RecordPurchase, InsertPurchase
<1>3. CASE RecordEscrow(p)
  BY <1>3 DEF RecordEscrow, InsertEscrow
<1>4. CASE RecordAudit(p)
  BY <1>4 DEF RecordAudit, InsertCaptureAudit
<1>5. CASE QueueJob(p)
  BY <1>5 DEF QueueJob, AddJob
<1>6. CASE GiveUp(p)
  BY <1>6 DEF GiveUp, InsertPurchase, InsertEscrow, InsertCaptureAudit
<1> QED
  BY <1>1, <1>2, <1>3, <1>4, <1>5, <1>6 DEF Handle

-----------------------------------------------------------------------------
(* The types.                                                              *)

LEMMA HandlerTypes ==
    ASSUME TypeOK, NEW p \in Purchases, Handle(p), UNCHANGED <<runVars, sales>>
    PROVE  TypeOK'
<1>1. /\ row \in [Purchases -> Row]
      /\ escrowRow \in [Purchases -> EscrowRow]
      /\ audit \in [Purchases -> [captured : Nat, completed : Nat]]
      /\ job \in [Purchases -> Job]
  BY DEF TypeOK, CaptureTypeOK
<1>2. \A found \in BOOLEAN : InsertPurchase(p, found) => row' \in [Purchases -> Row]
  BY <1>1 DEF InsertPurchase, Row, Digests
<1>3. InsertEscrow(p) => escrowRow' \in [Purchases -> EscrowRow]
  BY <1>1 DEF InsertEscrow, Row, EscrowRow
<1>4. InsertCaptureAudit(p) => audit' \in [Purchases -> [captured : Nat, completed : Nat]]
  <2>1. [audit[p] EXCEPT !.captured = @ + 1] \in [captured : Nat, completed : Nat]
    BY <1>1
  <2>2. InsertCaptureAudit(p) =>
           audit' = [audit EXCEPT ![p] = [audit[p] EXCEPT !.captured = @ + 1]]
    BY DEF InsertCaptureAudit
  <2> QED
    BY <1>1, <2>1, <2>2
<1>5. AddJob(p) => job' \in [Purchases -> Job]
  <2>1. [NoJob EXCEPT !.state = "wait"] \in Job
    BY DEF NoJob, Job
  <2> QED
    BY <1>1, <2>1 DEF AddJob
<1> USE DEF TypeOK, CaptureTypeOK, SuiTypeOK, runVars, chainVars, dbVars, Goto, ReqState
<1>6. CASE CheckPayment(p)
  BY <1>6 DEF CheckPayment
<1>7. CASE VerifyPayment(p)
  BY <1>7 DEF VerifyPayment
<1>8. CASE SendPurchase(p)
  BY <1>8 DEF SendPurchase, TxState
<1>9. CASE ConfirmPurchase(p)
  BY <1>9 DEF ConfirmPurchase
<1>10. CASE RecordPurchase(p)
  BY <1>2, <1>10 DEF RecordPurchase
<1>11. CASE RecordEscrow(p)
  BY <1>3, <1>11 DEF RecordEscrow
<1>12. CASE RecordAudit(p)
  BY <1>4, <1>12 DEF RecordAudit
<1>13. CASE QueueJob(p)
  BY <1>5, <1>13 DEF QueueJob
<1>14. CASE Answer(p)
  BY <1>14 DEF Answer
<1>15. CASE GiveUp(p)
  BY <1>2, <1>3, <1>4, <1>15 DEF GiveUp
<1> QED
  BY <1>6, <1>7, <1>8, <1>9, <1>10, <1>11, <1>12, <1>13, <1>14, <1>15 DEF Handle

LEMMA JobTypes ==
    ASSUME TypeOK, NEW r \in Runs, of[r] \in Purchases, pc[r] # "fresh"
    PROVE  /\ AttemptFails(r) => job' \in [Purchases -> Job] /\ pc' \in [Runs -> Pc]
           /\ Finish(r) => job' \in [Purchases -> Job] /\ pc' \in [Runs -> Pc]
<1>1. job[of[r]] \in Job /\ job \in [Purchases -> Job]
  BY DEF TypeOK, CaptureTypeOK
<1>2. JobAfterFailure(job[of[r]]) \in Job
  <2>1. job[of[r]].made + 1 \in Nat
    BY <1>1 DEF Job
  <2> QED
    BY <1>1, <2>1 DEF JobAfterFailure, Job
<1>3. [job[of[r]] EXCEPT !.owner = None, !.state = "completed"] \in Job
  BY <1>1 DEF Job
<1>4. AttemptFails(r) => job' \in [Purchases -> Job]
  BY <1>1, <1>2 DEF AttemptFails
<1>5. Finish(r) => job' \in [Purchases -> Job]
  BY <1>1, <1>3 DEF Finish
<1>6. AttemptFails(r) \/ Finish(r) => pc' \in [Runs -> Pc]
  BY DEF AttemptFails, Finish, Pc, TypeOK
<1> QED
  BY <1>4, <1>5, <1>6

LEMMA WriteTypes ==
    ASSUME TypeOK, NEW r \in Runs, of[r] \in Purchases, WriteAt(r)
    PROVE  /\ row' \in [Purchases -> Row]
           /\ escrowRow' \in [Purchases -> EscrowRow]
           /\ sales' \in [Purchases -> Nat]
           /\ audit' \in [Purchases -> [captured : Nat, completed : Nat]]
<1> DEFINE p == of[r]
<1>1. /\ row[p] \in Row /\ escrowRow[p] \in EscrowRow
      /\ sales[p] \in Nat /\ audit[p] \in [captured : Nat, completed : Nat]
  BY DEF TypeOK, CaptureTypeOK
<1>2. [row[p] EXCEPT !.status = "completed", !.blob = r, !.tx = ReleaseDigest(r)] \in Row
  BY <1>1 DEF Row, Digests
<1>3. [escrowRow[p] EXCEPT !.status = IF @ = "none" THEN "none" ELSE "released"] \in EscrowRow
  BY <1>1 DEF EscrowRow
<1>4. sales[p] + 1 \in Nat
  BY <1>1
<1>5. [audit[p] EXCEPT !.completed = @ + 1] \in [captured : Nat, completed : Nat]
  BY <1>1
<1>6. CASE pc[r] = "purchaseRow"
  BY <1>2, <1>6 DEF TypeOK, CaptureTypeOK, WriteAt
<1>7. CASE pc[r] = "escrowRow"
  BY <1>3, <1>7 DEF TypeOK, CaptureTypeOK, WriteAt
<1>8. CASE pc[r] = "sales"
  BY <1>4, <1>8 DEF TypeOK, CaptureTypeOK, WriteAt
<1>9. CASE pc[r] = "audit"
  <2>1. audit' = [audit EXCEPT ![p] = [audit[p] EXCEPT !.completed = @ + 1]]
    BY <1>9 DEF WriteAt
  <2>2. UNCHANGED <<row, escrowRow, sales>>
    BY <1>9 DEF WriteAt
  <2> QED
    BY <1>5, <2>1, <2>2 DEF TypeOK, CaptureTypeOK
<1> QED
  BY <1>6, <1>7, <1>8, <1>9 DEF WriteAt

LEMMA RunTypes ==
    ASSUME TypeOK, NEW r \in Runs, of[r] \in Purchases, pc[r] # "fresh", RunStep(r)
    PROVE  TypeOK'
<1> USE DEF runVars, chainVars, captureVars, dbVars
<1>1. ASSUME Moves(r) PROVE TypeOK'
  <2> USE DEF Advance, TypeOK, CaptureTypeOK, SuiTypeOK, Pc, Working, Writing
  <2>1. CASE Validate(r) \/ Fetch(r) \/ Prepare(r)
    BY <2>1 DEF Validate, Fetch, Prepare
  <2>2. CASE Upload(r)
    BY <2>2 DEF Upload, UploadBlob
  <2>3. CASE Submit(r)
    BY <2>3 DEF Submit, TxState
  <2>4. CASE Settled(r)
    BY <2>4 DEF Settled
  <2> QED
    BY <1>1, <2>1, <2>2, <2>3, <2>4 DEF Moves
<1>2. CASE Throw(r)
  BY <1>2, JobTypes DEF Throw, UploadBlob, TypeOK, CaptureTypeOK, SuiTypeOK, AttemptFails
<1>3. CASE Write(r)
  <2>1. After(pc[r]) \in Pc
    BY <1>3 DEF Write, WriteAt, After, Pc, Writing
  <2> QED
    BY <1>3, <2>1, WriteTypes DEF Write, TypeOK, CaptureTypeOK, SuiTypeOK
<1>4. CASE RetryBlock(r)
  BY <1>4, WriteTypes DEF RetryBlock, WriteThrows, TypeOK, CaptureTypeOK, SuiTypeOK, Pc, Writing
<1>5. CASE BlockThrows(r)
  BY <1>5, WriteTypes, JobTypes
     DEF BlockThrows, WriteThrows, TypeOK, CaptureTypeOK, SuiTypeOK, AttemptFails
<1>6. CASE Finish(r)
  BY <1>6, JobTypes DEF Finish, TypeOK, CaptureTypeOK, SuiTypeOK
<1> QED
  BY <1>1, <1>2, <1>3, <1>4, <1>5, <1>6 DEF RunStep, Moves

LEMMA TypesStep == IInv /\ [Next]_vars => TypeOK'
<1> SUFFICES ASSUME IInv, [Next]_vars PROVE TypeOK'
  OBVIOUS
<1>t. TypeOK
  BY DEF IInv
<1>s. SuiTypeOK'
  BY <1>t, SuiStep, SuiTypeStep DEF TypeOK, CaptureTypeOK
<1>1. ASSUME NEW p \in Purchases, CaptureStep(p) PROVE TypeOK'
  <2>1. CASE Handle(p)
    BY <1>t, <1>1, <2>1, HandlerTypes DEF CaptureStep
  <2>2. CASE ExecutePurchase(p)
    BY <1>t, <1>s, <1>1, <2>2
       DEF CaptureStep, ExecutePurchase, TypeOK, CaptureTypeOK, TxState, dbVars, runVars
  <2> QED
    BY <1>1, <2>1, <2>2 DEF CaptureStep
<1>2. ASSUME NEW p \in Purchases, DisputeStep(p) PROVE TypeOK'
  BY <1>t, <1>s, <1>2 DEF DisputeStep, TypeOK, CaptureTypeOK, dbVars, runVars, captureVars
<1>3. ASSUME NEW p \in Purchases, Take(p) PROVE TypeOK'
  <2>1. NextRun \in Runs
    BY <1>3, NextRunIsFresh DEF Take
  <2>2. pc' \in [Runs -> Pc] /\ of' \in [Runs -> Purchases \union {None}]
    BY <1>t, <1>3, <2>1 DEF Take, TypeOK, Pc, Working
  <2>3. job' \in [Purchases -> Job]
    <3>1. job[p] \in Job
      BY <1>t DEF TypeOK, CaptureTypeOK
    <3>2. [job[p] EXCEPT !.state = "active", !.owner = NextRun] \in Job
      BY <2>1, <3>1 DEF Job
    <3>3. job' = [job EXCEPT ![p] = [job[p] EXCEPT !.state = "active", !.owner = NextRun]]
      BY <1>t, <1>3 DEF Take, TypeOK, CaptureTypeOK
    <3> QED
      BY <1>t, <3>2, <3>3 DEF TypeOK, CaptureTypeOK
  <2> QED
    BY <1>t, <1>s, <1>3, <2>1, <2>2, <2>3
       DEF Take, TypeOK, CaptureTypeOK, dbVars, captureVars
<1>4. ASSUME NEW p \in Purchases, Stall(p) PROVE TypeOK'
  BY <1>t, <1>s, <1>4 DEF Stall, TypeOK, CaptureTypeOK, Job, dbVars, captureVars, runVars
<1>5. ASSUME NEW r \in Runs, RunStep(r) PROVE TypeOK'
  <2>1. pc[r] # "fresh"
    BY <1>5 DEF RunStep, Validate, Fetch, Upload, UploadBlob, Prepare, Submit, Settled, Advance, Throw,
                Write, WriteAt, RetryBlock, WriteThrows, BlockThrows, Finish, Working, Writing
  <2> QED
    BY <1>t, <1>5, <2>1, RunTypes DEF TypeOK
<1>6. ASSUME NEW r \in Runs, ExecuteRelease(r) PROVE TypeOK'
  BY <1>t, <1>s, <1>6 DEF ExecuteRelease, TypeOK, CaptureTypeOK, TxState, dbVars, captureVars
<1>7. CASE Crash
  BY <1>t, <1>s, <1>7 DEF Crash, RequestsDie, TypeOK, CaptureTypeOK, ReqState, Pc, dbVars, Live
<1>8. CASE UNCHANGED vars
  BY <1>t, <1>8 DEF vars, TypeOK, CaptureTypeOK, SuiTypeOK, runVars, chainVars, captureVars,
                    dbVars
<1> QED
  BY <1>1, <1>2, <1>3, <1>4, <1>5, <1>6, <1>7, <1>8 DEF Next

-----------------------------------------------------------------------------
(* Who writes what, for the conjuncts below.                               *)

(* A run moves by its own steps or is taken up by BullMQ or is ended.      *)
LEMMA RunChanges ==
    ASSUME IInv, [Next]_vars, NEW s \in Runs
    PROVE  \/ UNCHANGED <<pc[s], of[s], try[s]>>
           \/ pc[s] # "fresh" /\ pc'[s] = "dead" /\ UNCHANGED <<of[s], try[s]>>
           \/ /\ pc[s] = "fresh" /\ pc'[s] = "validate" /\ UNCHANGED try[s]
              /\ of'[s] \in Purchases /\ job[of'[s]].state = "wait"
           \/ Moves(s) \/ Write(s) \/ RetryBlock(s)
<1> USE DEF IInv, TypeOK
<1>1. ASSUME NEW p \in Purchases, CaptureStep(p) \/ DisputeStep(p) \/ Stall(p)
      PROVE  UNCHANGED <<pc[s], of[s], try[s]>>
  BY <1>1 DEF CaptureStep, DisputeStep, Stall, runVars
<1>2. ASSUME NEW p \in Purchases, Take(p)
      PROVE  \/ UNCHANGED <<pc[s], of[s], try[s]>>
             \/ /\ pc[s] = "fresh" /\ pc'[s] = "validate" /\ UNCHANGED try[s]
                /\ of'[s] \in Purchases /\ job[of'[s]].state = "wait"
  BY <1>2, NextRunIsFresh DEF Take
<1>3. ASSUME NEW r \in Runs, ExecuteRelease(r) PROVE UNCHANGED <<pc[s], of[s], try[s]>>
  BY <1>3 DEF ExecuteRelease
<1>4. ASSUME NEW r \in Runs, Throw(r) \/ BlockThrows(r) \/ Finish(r)
      PROVE  \/ UNCHANGED <<pc[s], of[s], try[s]>>
             \/ pc[s] # "fresh" /\ pc'[s] = "dead" /\ UNCHANGED <<of[s], try[s]>>
  BY <1>4 DEF Throw, UploadBlob, BlockThrows, WriteThrows, Finish, AttemptFails, Working, Writing
<1>5. ASSUME NEW r \in Runs, r # s, Moves(r) \/ Write(r) \/ RetryBlock(r)
      PROVE  UNCHANGED <<pc[s], of[s], try[s]>>
  BY <1>5 DEF Moves, Validate, Fetch, Upload, UploadBlob, Prepare, Submit, Settled, Advance, Write,
              RetryBlock
<1>6. CASE Crash
  BY <1>6 DEF Crash, Live
<1>7. CASE UNCHANGED vars
  BY <1>7 DEF vars, runVars
<1> QED
  BY <1>1, <1>2, <1>3, <1>4, <1>5, <1>6, <1>7 DEF Next, RunStep, Moves

(* Blobs stay; a release transaction is sent by its run and executed by the *)
(* chain.                                                                  *)
LEMMA TxChanges ==
    ASSUME IInv, [Next]_vars, NEW s \in Runs
    PROVE  /\ stored \subseteq stored'
           /\ UNCHANGED relTx[s] \/ Submit(s) \/ ExecuteRelease(s)
<1> USE DEF IInv, TypeOK
<1>1. ASSUME NEW p \in Purchases, CaptureStep(p) \/ DisputeStep(p) \/ Stall(p) \/ Take(p)
      PROVE  UNCHANGED <<relTx, stored>>
  BY <1>1 DEF CaptureStep, DisputeStep, Stall, Take, runVars
<1>2. ASSUME NEW r \in Runs, ExecuteRelease(r)
      PROVE  UNCHANGED stored /\ (r # s => UNCHANGED relTx[s])
  BY <1>2 DEF ExecuteRelease
<1>3. ASSUME NEW r \in Runs, Submit(r)
      PROVE  UNCHANGED stored /\ (r # s => UNCHANGED relTx[s])
  BY <1>3 DEF Submit
<1>4. ASSUME NEW r \in Runs, RunStep(r), ~ Submit(r)
      PROVE  UNCHANGED relTx /\ stored \subseteq stored'
  BY <1>4 DEF RunStep, Validate, Fetch, Upload, UploadBlob, Prepare, Settled, Throw, Write, RetryBlock,
              BlockThrows, Finish
<1>5. CASE Crash
  BY <1>5 DEF Crash
<1>6. CASE UNCHANGED vars
  BY <1>6 DEF vars, runVars
<1> QED
  BY <1>1, <1>2, <1>3, <1>4, <1>5, <1>6 DEF Next

(* Only the handler and the block in updateDatabase write records.         *)
LEMMA RecordChanges ==
    ASSUME IInv, [Next]_vars
    PROVE  \/ UNCHANGED <<dbVars, sales>>
           \/ \E p \in Purchases : Handle(p) /\ UNCHANGED sales
           \/ \E r \in Runs : /\ WriteAt(r) /\ UNCHANGED relTx
                              /\ Write(r) \/ RetryBlock(r) \/ BlockThrows(r)
<1>1. ASSUME NEW p \in Purchases, CaptureStep(p)
      PROVE  UNCHANGED <<dbVars, sales>> \/ (Handle(p) /\ UNCHANGED sales)
  BY <1>1 DEF CaptureStep, ExecutePurchase
<1>2. ASSUME NEW p \in Purchases, DisputeStep(p) \/ Stall(p) \/ Take(p)
      PROVE  UNCHANGED <<dbVars, sales>>
  BY <1>2 DEF DisputeStep, Stall, Take
<1>3. ASSUME NEW r \in Runs, ExecuteRelease(r) PROVE UNCHANGED <<dbVars, sales>>
  BY <1>3 DEF ExecuteRelease
<1>4. ASSUME NEW r \in Runs, RunStep(r)
      PROVE  \/ UNCHANGED <<dbVars, sales>>
             \/ /\ WriteAt(r) /\ UNCHANGED relTx
                /\ Write(r) \/ RetryBlock(r) \/ BlockThrows(r)
  BY <1>4 DEF RunStep, Validate, Fetch, Upload, UploadBlob, Prepare, Submit, Settled, Throw, Write,
              RetryBlock, BlockThrows, WriteThrows, Finish
<1>5. CASE Crash
  BY <1>5 DEF Crash
<1>6. CASE UNCHANGED vars
  BY <1>6 DEF vars
<1> QED
  BY <1>1, <1>2, <1>3, <1>4, <1>5, <1>6 DEF Next

(* A run that writes was settled, and no other run of its purchase was.    *)
LEMMA WriterIsSettled ==
    ASSUME IInv, NEW r \in Runs, WriteAt(r)
    PROVE  /\ of[r] \in Purchases
           /\ r \in stored /\ relTx[r] = "ok"
           /\ escrow[of[r]].status = "released"
           /\ row[of[r]].status # "none" /\ escrowRow[of[r]].status # "none"
           /\ \A s \in Runs : of[s] = of[r] /\ relTx[s] = "ok" => s = r
<1>1. pc[r] \in Writing
  BY DEF WriteAt, Writing
<1>2. of[r] \in Purchases
  BY <1>1 DEF IInv, TypeOK, Writing
<1>3. relTx[r] = "ok" /\ r \in stored /\ escrow[of[r]].status = "released"
  BY <1>1 DEF IInv, RunChainInv
<1>4. row[of[r]].status # "none" /\ escrowRow[of[r]].status # "none"
  BY <1>1, <1>2 DEF IInv, RunWritesInv, RecordsAreFunded, Writing
<1>5. \A s \in Runs : of[s] = of[r] /\ relTx[s] = "ok" => s = r
  BY <1>2, <1>3 DEF IInv, SellerPaidForDelivery
<1> QED
  BY <1>2, <1>3, <1>4, <1>5

(* What has been written stays written.                                    *)
LEMMA RecordsStay ==
    ASSUME IInv, [Next]_vars, NEW q \in Purchases
    PROVE  /\ row[q].status = "completed" => row'[q] = row[q]
           /\ row[q].status # "none" => row'[q].status # "none"
           /\ escrowRow[q].status # "none" => escrowRow'[q].status # "none"
           /\ escrowRow[q].status = "released" => escrowRow'[q].status = "released"
           /\ sales'[q] >= sales[q]
           /\ audit'[q].completed >= audit[q].completed
<1>1. /\ row \in [Purchases -> Row] /\ escrowRow \in [Purchases -> EscrowRow]
      /\ sales \in [Purchases -> Nat]
      /\ audit \in [Purchases -> [captured : Nat, completed : Nat]]
  BY DEF IInv, TypeOK, CaptureTypeOK
<1>2. ASSUME NEW p \in Purchases, Handle(p), UNCHANGED sales
      PROVE  /\ row[q].status # "none" => row'[q] = row[q]
             /\ escrowRow[q].status # "none" => escrowRow'[q] = escrowRow[q]
             /\ sales'[q] = sales[q]
             /\ audit'[q].completed = audit[q].completed
  BY <1>2, HandlerWritesOnce
<1>3. ASSUME NEW r \in Runs, WriteAt(r)
      PROVE  /\ row[q].status = "completed" => row'[q] = row[q]
             /\ row[q].status # "none" => row'[q].status # "none"
             /\ escrowRow[q].status # "none" => escrowRow'[q].status # "none"
             /\ escrowRow[q].status = "released" => escrowRow'[q].status = "released"
             /\ sales'[q] >= sales[q]
             /\ audit'[q].completed >= audit[q].completed
  <2>1. CASE pc[r] = "purchaseRow"
    <3>1. row[of[r]].status = "completed" =>
             row[of[r]].blob = r /\ row[of[r]].tx = ReleaseDigest(r)
      BY <1>3, WriterIsSettled DEF IInv, TypeOK, CompletedIsSettled, GetsData, GetsUrl, Downloadable
    <3>2. /\ row' = [row EXCEPT ![of[r]] = [row[of[r]] EXCEPT !.status = "completed", !.blob = r,
                                                             !.tx = ReleaseDigest(r)]]
          /\ UNCHANGED <<escrowRow, sales, audit>>
      BY <1>1, <1>3, <2>1, WriterIsSettled DEF WriteAt
    <3>3. row[q].status = "completed" => row'[q] = row[q]
      BY <1>1, <3>1, <3>2 DEF Row
    <3>4. row[q].status # "none" => row'[q].status # "none"
      BY <1>1, <3>2 DEF Row
    <3> QED
      BY <1>1, <3>2, <3>3, <3>4
  <2>2. CASE pc[r] = "escrowRow"
    BY <1>1, <1>3, <2>2 DEF WriteAt, EscrowRow
  <2>3. CASE pc[r] = "sales"
    BY <1>1, <1>3, <2>3 DEF WriteAt
  <2>4. CASE pc[r] = "audit"
    <3>1. audit' = [audit EXCEPT ![of[r]] = [audit[of[r]] EXCEPT !.completed = @ + 1]]
             /\ UNCHANGED <<row, escrowRow, sales>>
      BY <1>3, <2>4 DEF WriteAt
    <3> QED
      BY <1>1, <3>1
  <2> QED
    BY <1>3, <2>1, <2>2, <2>3, <2>4 DEF WriteAt
<1>4. CASE UNCHANGED <<dbVars, sales>>
  BY <1>1, <1>4 DEF dbVars
<1> QED
  BY <1>1, <1>2, <1>3, <1>4, RecordChanges

-----------------------------------------------------------------------------
(* The handler, the job and the runs.                                      *)

LEMMA RequestHandled ==
    ASSUME IInv, NEW p \in Purchases, Handle(p), NEW q \in Purchases
    PROVE  RequestInv(q)'
<1> USE DEF IInv, TypeOK, CaptureTypeOK, RequestInv, BeforeRow, BeforeEscrow, AfterEscrow,
            Goto, chainVars, dbVars
<1>1. CASE CheckPayment(p)
  BY <1>1 DEF CheckPayment
<1>2. CASE VerifyPayment(p)
  BY <1>2 DEF VerifyPayment
<1>3. CASE SendPurchase(p)
  BY <1>3 DEF SendPurchase
<1>4. CASE ConfirmPurchase(p)
  BY <1>4 DEF ConfirmPurchase
<1>5. CASE RecordPurchase(p)
  BY <1>5 DEF RecordPurchase, InsertPurchase
<1>6. CASE RecordEscrow(p)
  BY <1>6 DEF RecordEscrow, InsertEscrow
<1>7. CASE RecordAudit(p) \/ QueueJob(p) \/ Answer(p)
  BY <1>7 DEF RecordAudit, QueueJob, Answer
<1>8. CASE GiveUp(p)
  BY <1>8 DEF GiveUp, InsertPurchase, InsertEscrow
<1> QED
  BY <1>1, <1>2, <1>3, <1>4, <1>5, <1>6, <1>7, <1>8 DEF Handle

LEMMA RequestStep ==
    ASSUME IInv, [Next]_vars, NEW q \in Purchases
    PROVE  RequestInv(q)'
<1> DEFINE Quiet == UNCHANGED <<req, payment, createTx>>
<1>1. ASSUME row'[q].status = "none" <=> row[q].status = "none",
             escrowRow'[q].status = "none" <=> escrowRow[q].status = "none",
             \/ Quiet
             \/ UNCHANGED <<payment, createTx>> /\ req'[q] \in {req[q], "failed"}
      PROVE  RequestInv(q)'
  <2>1. RequestInv(q)
    BY DEF IInv
  <2> QED
    BY <1>1, <2>1, EscrowStays DEF RequestInv, BeforeRow, BeforeEscrow, AfterEscrow
<1>2. ASSUME NEW p \in Purchases, ExecutePurchase(p) PROVE RequestInv(q)'
  <2>1. UNCHANGED <<dbVars, req, payment>>
    BY <1>2 DEF ExecutePurchase
  <2>t. createTx \in [Purchases -> TxState]
    BY DEF IInv, TypeOK, CaptureTypeOK
  <2>2. createTx'[q] = createTx[q] \/ (q = p /\ createTx[q] = "sent")
    BY <1>2, <2>t DEF ExecutePurchase
  <2>3. createTx'[q] = "ok" => createTx'[q] = createTx[q] \/ PurchasePTB(q)
    BY <1>2, <2>t, <2>2 DEF ExecutePurchase
  <2>4. PurchasePTB(q) => escrow'[q].status # "none"
    BY DEF PurchasePTB, create_escrow, IInv, TypeOK, CaptureTypeOK, SuiTypeOK
  <2>5. RequestInv(q)
    BY DEF IInv
  <2> QED
    BY <2>1, <2>2, <2>3, <2>4, <2>5, EscrowStays DEF RequestInv, dbVars
<1>3. ASSUME NEW p \in Purchases, DisputeStep(p) \/ Take(p) \/ Stall(p) PROVE RequestInv(q)'
  BY <1>1, <1>3 DEF DisputeStep, Take, Stall, captureVars, dbVars
<1>4. ASSUME NEW r \in Runs, RunStep(r) \/ ExecuteRelease(r) PROVE RequestInv(q)'
  <2>1. Quiet
    BY <1>4 DEF RunStep, ExecuteRelease, Validate, Fetch, Upload, UploadBlob, Prepare, Submit, Settled,
                Throw, Write, RetryBlock, BlockThrows, Finish, captureVars
  <2>2. UNCHANGED <<dbVars, sales>> \/ WriteAt(r)
    BY <1>4 DEF RunStep, ExecuteRelease, Validate, Fetch, Upload, UploadBlob, Prepare, Submit, Settled,
                Throw, Write, RetryBlock, BlockThrows, WriteThrows, Finish
  <2>3. ASSUME WriteAt(r)
        PROVE  /\ row'[q].status = "none" <=> row[q].status = "none"
               /\ escrowRow'[q].status = "none" <=> escrowRow[q].status = "none"
    <3>1. /\ row \in [Purchases -> Row] /\ escrowRow \in [Purchases -> EscrowRow]
          /\ row[of[r]].status # "none" /\ escrowRow[of[r]].status # "none"
      BY <2>3, WriterIsSettled DEF IInv, TypeOK, CaptureTypeOK
    <3>2. row' = row \/ row' = [row EXCEPT ![of[r]] =
             [@ EXCEPT !.status = "completed", !.blob = r, !.tx = ReleaseDigest(r)]]
      BY <2>3, <3>1 DEF WriteAt
    <3>3. escrowRow' = escrowRow
             \/ escrowRow' = [escrowRow EXCEPT ![of[r]] = [@ EXCEPT !.status = "released"]]
      BY <2>3, <3>1 DEF WriteAt
    <3>4. row'[q].status = "none" <=> row[q].status = "none"
      BY <3>1, <3>2 DEF Row
    <3>5. escrowRow'[q].status = "none" <=> escrowRow[q].status = "none"
      BY <3>1, <3>3 DEF EscrowRow
    <3> QED
      BY <3>4, <3>5
  <2> QED
    BY <1>1, <2>1, <2>2, <2>3 DEF dbVars
<1>5. CASE Crash
  BY <1>1, <1>5 DEF Crash, RequestsDie, dbVars
<1>6. CASE UNCHANGED vars
  BY <1>1, <1>6 DEF vars, captureVars, dbVars
<1> QED
  BY <1>2, <1>3, <1>4, <1>5, <1>6, RequestHandled DEF Next, CaptureStep

LEMMA JobChanges ==
    ASSUME IInv, [Next]_vars, NEW q \in Purchases
    PROVE  \/ UNCHANGED job[q]
           \/ Handle(q) /\ job'[q] = [NoJob EXCEPT !.state = "wait"] /\ req[q] = "audited"
           \/ Take(q) \/ Stall(q)
           \/ \E r \in Runs : /\ of[r] = q /\ job[q].owner = r
                              /\ \/ job'[q] = JobAfterFailure(job[q])
                                 \/ Finish(r) /\ job'[q].state = "completed"
                              /\ job'[q].owner = None
<1>t. job \in [Purchases -> Job]
  BY DEF IInv, TypeOK, CaptureTypeOK
<1>1. ASSUME NEW p \in Purchases, Handle(p)
      PROVE  \/ UNCHANGED job[q]
             \/ Handle(q) /\ job'[q] = [NoJob EXCEPT !.state = "wait"] /\ req[q] = "audited"
  <2>1. p # q => UNCHANGED job[q]
    BY <1>t, <1>1 DEF Handle, CheckPayment, VerifyPayment, SendPurchase, ConfirmPurchase,
                      RecordPurchase, RecordEscrow, RecordAudit, QueueJob, AddJob, Answer,
                      GiveUp
  <2> QED
    BY <1>1, <2>1, HandlerWritesOnce
<1>2. ASSUME NEW p \in Purchases, Take(p) \/ Stall(p), p # q PROVE UNCHANGED job[q]
  BY <1>t, <1>2 DEF Take, Stall
<1>3. ASSUME NEW p \in Purchases, ExecutePurchase(p) \/ DisputeStep(p) PROVE UNCHANGED job
  BY <1>3 DEF ExecutePurchase, DisputeStep
<1>4. ASSUME NEW r \in Runs, AttemptFails(r)
      PROVE  \/ UNCHANGED job[q]
             \/ /\ of[r] = q /\ job[q].owner = r
                /\ job'[q] = JobAfterFailure(job[q]) /\ job'[q].owner = None
  <2>1. JobAfterFailure(job[q]).owner = None
    BY <1>t DEF JobAfterFailure, Job
  <2> QED
    BY <1>t, <1>4, <2>1 DEF AttemptFails
<1>5. ASSUME NEW r \in Runs, Finish(r)
      PROVE  \/ UNCHANGED job[q]
             \/ /\ of[r] = q /\ job[q].owner = r
                /\ job'[q].state = "completed" /\ job'[q].owner = None
  BY <1>t, <1>5 DEF Finish, Job
<1>6. ASSUME NEW r \in Runs, Moves(r) \/ Write(r) \/ RetryBlock(r) \/ ExecuteRelease(r)
      PROVE  UNCHANGED job
  BY <1>6 DEF Moves, Validate, Fetch, Upload, UploadBlob, Prepare, Submit, Settled, Write, RetryBlock,
              ExecuteRelease
<1>7. CASE Crash \/ UNCHANGED vars
  BY <1>7 DEF Crash, vars
<1>8. ASSUME NEW r \in Runs, Throw(r) \/ BlockThrows(r) PROVE AttemptFails(r)
  BY <1>8 DEF Throw, UploadBlob, BlockThrows
<1> QED
  BY <1>1, <1>2, <1>3, <1>4, <1>5, <1>6, <1>7, <1>8 DEF Next, CaptureStep, RunStep, Moves

LEMMA JobStep ==
    ASSUME IInv, [Next]_vars, NEW q \in Purchases
    PROVE  JobInv(q)'
<1>1. JobInv(q) /\ job \in [Purchases -> Job]
  BY DEF IInv, TypeOK, CaptureTypeOK
<1>2. CASE job'[q] = [NoJob EXCEPT !.state = "wait"]
  BY <1>2 DEF JobInv, NoJob
<1>3. CASE Take(q)
  BY <1>1, <1>3 DEF Take, JobInv, Job
<1>4. CASE Stall(q)
  BY <1>1, <1>4 DEF Stall, JobInv
<1> QED
  BY <1>1, <1>2, <1>3, <1>4, JobChanges DEF JobInv

LEMMA RunChainStep ==
    ASSUME IInv, [Next]_vars, NEW s \in Runs
    PROVE  RunChainInv(s)'
<1>1. RunChainInv(s) /\ (pc[s] # "fresh" => of[s] \in Purchases)
  BY DEF IInv, TypeOK
<1>2. CASE ExecuteRelease(s)
  <2>1. UNCHANGED <<pc[s], of[s], stored>> /\ relTx[s] = "sent"
    BY <1>2 DEF ExecuteRelease
  <2>2. relTx'[s] = "ok" => escrow'[of[s]].status = "released"
    <3>1. of[s] \in Purchases
      BY <1>1, <2>1 DEF RunChainInv, BeforeSubmit
    <3> QED
      BY <1>2, <3>1
         DEF ExecuteRelease, ReleasePaymentPTB, release_escrow, PayOut, IInv, TypeOK,
             CaptureTypeOK, SuiTypeOK
  <2> QED
    BY <1>1, <2>1, <2>2 DEF RunChainInv
<1>3. CASE Submit(s)
  BY <1>1, <1>3 DEF Submit, Advance, RunChainInv, BeforeSubmit, Writing, IInv, TypeOK
<1>4. CASE UNCHANGED relTx[s]
  <2>1. /\ relTx[s] = "ok" => escrow'[of[s]].status = "released"
        /\ s \in stored => s \in stored'
    BY <1>1, EscrowStays, TxChanges DEF RunChainInv, BeforeSubmit
  <2>2. CASE UNCHANGED <<pc[s], of[s]>>
    BY <1>1, <1>4, <2>1, <2>2 DEF RunChainInv
  <2>3. CASE pc[s] # "fresh" /\ pc'[s] = "dead" /\ UNCHANGED of[s]
    BY <1>1, <1>4, <2>1, <2>3 DEF RunChainInv, BeforeSubmit, Writing
  <2>4. CASE pc[s] = "fresh" /\ pc'[s] = "validate"
    BY <1>1, <1>4, <2>1, <2>4 DEF RunChainInv, BeforeSubmit, Writing
  <2>5. CASE Moves(s)
    BY <1>1, <1>4, <2>1, <2>5
       DEF Moves, Validate, Fetch, Upload, UploadBlob, Prepare, Submit, Settled, Advance, RunChainInv,
           BeforeSubmit, Writing, IInv, TypeOK
  <2>6. CASE Write(s)
    BY <1>1, <1>4, <2>1, <2>6
       DEF Write, WriteAt, After, RunChainInv, BeforeSubmit, Writing, IInv, TypeOK
  <2>7. CASE RetryBlock(s)
    BY <1>1, <1>4, <2>1, <2>7
       DEF RetryBlock, WriteThrows, RunChainInv, BeforeSubmit, Writing, IInv, TypeOK
  <2> QED
    BY <2>2, <2>3, <2>4, <2>5, <2>6, <2>7, RunChanges
<1> QED
  BY <1>2, <1>3, <1>4, TxChanges

LEMMA RunWritesStep ==
    ASSUME IInv, [Next]_vars, NEW s \in Runs
    PROVE  RunWritesInv(s)'
<1>1. /\ RunWritesInv(s) /\ (pc[s] # "fresh" => of[s] \in Purchases)
      /\ pc \in [Runs -> Pc]
      /\ row \in [Purchases -> Row] /\ escrowRow \in [Purchases -> EscrowRow]
      /\ sales \in [Purchases -> Nat] /\ sales' \in [Purchases -> Nat]
      /\ audit \in [Purchases -> [captured : Nat, completed : Nat]]
      /\ audit' \in [Purchases -> [captured : Nat, completed : Nat]]
  BY TypesStep DEF IInv, TypeOK, CaptureTypeOK
<1>2. ASSUME of[s] \in Purchases
      PROVE  /\ row[of[s]].status = "completed" => row'[of[s]].status = "completed"
             /\ escrowRow[of[s]].status # "none" => escrowRow'[of[s]].status # "none"
             /\ escrowRow[of[s]].status = "released" => escrowRow'[of[s]].status = "released"
             /\ sales[of[s]] > 0 => sales'[of[s]] > 0
             /\ audit[of[s]].completed > 0 => audit'[of[s]].completed > 0
  BY <1>1, <1>2, RecordsStay
<1>3. CASE UNCHANGED <<pc[s], of[s]>>
  BY <1>1, <1>2, <1>3 DEF RunWritesInv
<1>4. CASE pc[s] # "fresh" /\ pc'[s] = "dead" /\ UNCHANGED of[s]
  BY <1>1, <1>2, <1>4 DEF RunWritesInv
<1>5. CASE pc'[s] = "validate" /\ of'[s] \in Purchases /\ job[of'[s]].state = "wait"
  <2>1. escrowRow'[of'[s]].status # "none"
    BY <1>5, RecordsStay DEF IInv, RecordsAreFunded
  <2> QED
    BY <1>5, <2>1 DEF RunWritesInv
<1>6. CASE Moves(s)
  BY <1>1, <1>2, <1>6
     DEF Moves, Validate, Fetch, Upload, UploadBlob, Prepare, Submit, Settled, Advance, RunWritesInv
<1>7. CASE Write(s)
  <2>1. pc'[s] = After(pc[s]) /\ UNCHANGED of[s] /\ of[s] \in Purchases
           /\ escrowRow[of[s]].status # "none"
    BY <1>1, <1>7, WriterIsSettled DEF Write
  <2>2. CASE pc[s] = "purchaseRow"
    <3>1. row'[of[s]].status = "completed"
      BY <1>1, <1>7, <2>1, <2>2 DEF Write, WriteAt, Row
    <3> QED
      BY <1>2, <2>1, <2>2, <3>1 DEF After, RunWritesInv
  <2>3. CASE pc[s] = "escrowRow"
    <3>1. escrowRow'[of[s]].status = "released"
      BY <1>1, <1>7, <2>1, <2>3 DEF Write, WriteAt, EscrowRow
    <3> QED
      BY <1>1, <1>2, <2>1, <2>3, <3>1 DEF After, RunWritesInv
  <2>4. CASE pc[s] = "sales"
    <3>1. sales'[of[s]] > 0
      BY <1>1, <1>7, <2>1, <2>4 DEF Write, WriteAt
    <3> QED
      BY <1>1, <1>2, <2>1, <2>4, <3>1 DEF After, RunWritesInv
  <2>5. CASE pc[s] = "audit"
    <3>1. audit'[of[s]].completed > 0
      <4>1. audit' = [audit EXCEPT ![of[s]] = [audit[of[s]] EXCEPT !.completed = @ + 1]]
        BY <1>7, <2>5 DEF Write, WriteAt
      <4> QED
        BY <1>1, <2>1, <4>1
    <3> QED
      BY <1>1, <1>2, <2>1, <2>5, <3>1 DEF After, RunWritesInv
  <2> QED
    BY <1>7, <2>2, <2>3, <2>4, <2>5 DEF Write, WriteAt
<1>8. CASE RetryBlock(s)
  BY <1>1, <1>2, <1>8 DEF RetryBlock, WriteThrows, RunWritesInv, Writing
<1> QED
  BY <1>3, <1>4, <1>5, <1>6, <1>7, <1>8, RunChanges

(* A sale is counted by the run that was settled, at its place in the block.*)
LEMMA SalesChanges ==
    ASSUME IInv, [Next]_vars, NEW q \in Purchases
    PROVE  \/ UNCHANGED sales[q]
           \/ \E t \in Runs : /\ of[t] = q /\ WriteAt(t) /\ pc[t] = "sales"
                              /\ Write(t) \/ RetryBlock(t) \/ BlockThrows(t)
                              /\ sales'[q] = sales[q] + 1 /\ UNCHANGED row
<1>1. sales \in [Purchases -> Nat]
  BY DEF IInv, TypeOK
<1>2. ASSUME NEW t \in Runs, WriteAt(t)
      PROVE  \/ UNCHANGED sales[q]
             \/ of[t] = q /\ pc[t] = "sales" /\ sales'[q] = sales[q] + 1 /\ UNCHANGED row
  BY <1>1, <1>2 DEF WriteAt
<1> QED
  BY <1>2, RecordChanges

LEMMA RunSalesStep ==
    ASSUME IInv, [Next]_vars, NEW s \in Runs
    PROVE  RunSalesInv(s)'
<1>1. /\ RunSalesInv(s) /\ RunChainInv(s) /\ (pc[s] # "fresh" => of[s] \in Purchases)
      /\ pc \in [Runs -> Pc] /\ try[s] \in Nat /\ sales \in [Purchases -> Nat]
      /\ try \in [Runs -> Nat] /\ relTx \in [Runs -> TxState]
  BY DEF IInv, TypeOK
<1>b. DbTries \in Nat \ {0}
  BY BoundsAssumption
<1>2. CASE ExecuteRelease(s)
  <2>1. UNCHANGED <<pc[s], of[s], try[s], sales>> /\ relTx[s] = "sent"
    BY <1>2 DEF ExecuteRelease
  <2>2. of[s] \in Purchases
    BY <1>1, <2>1 DEF RunChainInv, BeforeSubmit
  <2>3. relTx'[s] = "ok" => escrow[of[s]].status # "released"
    BY <1>1, <1>2 DEF ExecuteRelease, ReleasePaymentPTB, release_escrow
  <2>4. relTx'[s] = "ok" => sales[of[s]] = 0
    BY <1>1, <2>2, <2>3 DEF IInv, SalesFollowCompletion, CompletedIsSettled, GetsData, GetsUrl, Downloadable
  <2> QED
    BY <1>1, <2>1, <2>4 DEF RunSalesInv
<1>3. CASE Submit(s)
  BY <1>1, <1>3 DEF Submit, Advance, RunSalesInv, BeforeSubmit
<1>4. CASE UNCHANGED relTx[s] /\ relTx[s] # "ok"
  <2>1. ~ (Write(s) \/ RetryBlock(s) \/ Settled(s)) /\ pc[s] \notin Writing
    BY <1>1, <1>4 DEF Write, WriteAt, RetryBlock, WriteThrows, Settled, RunChainInv, Writing
  <2>2. CASE UNCHANGED <<pc[s], try[s]>>
    BY <1>1, <1>4, <2>1, <2>2 DEF RunSalesInv, Writing
  <2>3. CASE pc'[s] \in {"dead", "validate"} /\ UNCHANGED try[s]
               /\ (pc'[s] = "validate" => pc[s] = "fresh")
    BY <1>1, <1>4, <2>3 DEF RunSalesInv, BeforeSubmit
  <2>4. CASE Validate(s) \/ Fetch(s) \/ Upload(s) \/ Prepare(s) \/ Submit(s)
    BY <1>1, <1>4, <2>4
       DEF Validate, Fetch, Upload, UploadBlob, Prepare, Submit, Advance, RunSalesInv, BeforeSubmit
  <2> QED
    BY <2>1, <2>2, <2>3, <2>4, RunChanges DEF Moves
<1>5. CASE UNCHANGED relTx[s] /\ relTx[s] = "ok"
  <2>1. pc[s] # "fresh" /\ of[s] \in Purchases /\ pc[s] \notin BeforeSubmit
    BY <1>1, <1>5 DEF RunChainInv, BeforeSubmit
  <2>2. CASE sales'[of[s]] = sales[of[s]]
    <3>1. CASE UNCHANGED <<pc[s], of[s], try[s]>>
      BY <1>1, <1>5, <2>2, <3>1 DEF RunSalesInv
    <3>2. CASE pc'[s] = "dead" /\ UNCHANGED <<of[s], try[s]>>
      BY <1>1, <1>5, <2>2, <3>2 DEF RunSalesInv, BeforeSubmit
    <3>3. CASE Moves(s)
      <4>1. Settled(s)
        BY <2>1, <3>3 DEF Moves, Validate, Fetch, Upload, UploadBlob, Prepare, Submit, Advance, BeforeSubmit
      <4>2. sales[of[s]] = 0
        BY <1>1, <1>5, <2>1, <4>1 DEF Settled, Advance, RunSalesInv
      <4> QED
        BY <1>1, <1>b, <2>2, <4>1, <4>2 DEF Settled, Advance, RunSalesInv, BeforeSubmit
    <3>4. CASE Write(s)
      <4>1. /\ UNCHANGED <<of[s], try[s]>> /\ pc[s] \in Writing
            /\ pc[s] # "sales" /\ pc'[s] = After(pc[s])
        BY <1>1, <2>1, <2>2, <3>4 DEF Write, WriteAt, Writing
      <4> QED
        BY <1>1, <1>5, <2>2, <4>1 DEF After, RunSalesInv, Writing, BeforeSubmit
    <3>5. CASE RetryBlock(s)
      BY <1>1, <1>5, <1>b, <2>1, <2>2, <3>5 DEF RetryBlock, RunSalesInv, BeforeSubmit
    <3> QED
      BY <2>1, <3>1, <3>2, <3>3, <3>4, <3>5, RunChanges
  <2>3. ASSUME NEW t \in Runs, of[t] = of[s], WriteAt(t), pc[t] = "sales",
               Write(t) \/ RetryBlock(t) \/ BlockThrows(t),
               sales'[of[s]] = sales[of[s]] + 1
        PROVE  RunSalesInv(s)'
    <3>1. t = s
      BY <1>5, <2>3, WriterIsSettled
    <3>2. sales[of[s]] < try[s] /\ sales[of[s]] \in Nat
      BY <1>1, <2>1, <2>3, <3>1 DEF RunSalesInv
    <3>3. CASE Write(s)
      BY <1>1, <2>3, <3>1, <3>2, <3>3 DEF Write, After, RunSalesInv, BeforeSubmit
    <3>4. CASE RetryBlock(s)
      BY <1>1, <1>b, <2>3, <3>1, <3>2, <3>4 DEF RetryBlock, RunSalesInv, BeforeSubmit
    <3>5. CASE BlockThrows(s)
      BY <1>1, <2>3, <3>1, <3>2, <3>5 DEF BlockThrows, AttemptFails, RunSalesInv, BeforeSubmit
    <3> QED
      BY <2>3, <3>1, <3>3, <3>4, <3>5
  <2> QED
    BY <2>1, <2>2, <2>3, SalesChanges
<1> QED
  BY <1>2, <1>3, <1>4, <1>5, TxChanges

-----------------------------------------------------------------------------
(* The payments and the records.                                           *)

(* The coins and the PurchaseRequest of a released escrow.                 *)
LEMMA ReleasedStays ==
    ASSUME IInv, [Next]_vars, NEW p \in Purchases, escrow[p].status = "released"
    PROVE  /\ escrow'[p] = escrow[p] /\ paid'[p] = paid[p]
           /\ purchase[p] \in {"completed", "disputed"} =>
                 purchase'[p] \in {"completed", "disputed"}
<1>1. SuiTypeOK /\ [SuiNext]_chainVars
  BY SuiStep DEF IInv, TypeOK, CaptureTypeOK
<1>2. ASSUME NEW q \in Purchases, Make(q) PROVE paid'[p] = paid[p]
  BY <1>2 DEF Make
<1>3. ASSUME NEW q \in Purchases, NEW v \in Verdicts, NEW to \in Accounts, Pay(q, v, to)
      PROVE  paid'[p] = paid[p]
  BY <1>1, <1>3 DEF Pay, SuiTypeOK
<1>4. paid'[p] = paid[p]
  BY <1>1, <1>2, <1>3, StepKinds DEF chainVars
<1> QED
  BY <1>1, <1>4, EscrowStays, FinalStep DEF FinalFor

(* Only a run's release transaction releases an escrow.                    *)
LEMMA ReleasedByRun ==
    ASSUME IInv, [Next]_vars, NEW p \in Purchases,
           escrow[p].status # "released", escrow'[p].status = "released"
    PROVE  \E r \in Runs : /\ ExecuteRelease(r) /\ of[r] = p /\ relTx'[r] = "ok"
                          /\ ReleasePaymentPTB(p, p, Seller[p])
<1>1. escrow \in [Purchases -> [status : EscrowStatus, balance : Nat]]
  BY DEF IInv, TypeOK, CaptureTypeOK, SuiTypeOK
<1>2. ASSUME NEW q \in Purchases, CaptureStep(q) PROVE FALSE
  BY <1>1, <1>2 DEF CaptureStep, Handle, CheckPayment, VerifyPayment, SendPurchase,
       ConfirmPurchase, RecordPurchase, RecordEscrow, RecordAudit, QueueJob, Answer, GiveUp,
       ExecutePurchase, PurchasePTB, create_escrow, chainVars
<1>3. ASSUME NEW q \in Purchases, DisputeStep(q) \/ Take(q) \/ Stall(q) PROVE FALSE
  BY <1>3 DEF DisputeStep, Dispute, Take, Stall, chainVars
<1>4. ASSUME NEW r \in Runs, RunStep(r) PROVE FALSE
  BY <1>4 DEF RunStep, Validate, Fetch, Upload, UploadBlob, Prepare, Submit, Settled, Throw, Write,
              RetryBlock, BlockThrows, Finish, chainVars
<1>5. ASSUME NEW r \in Runs, ExecuteRelease(r)
      PROVE  of[r] = p /\ relTx'[r] = "ok" /\ ReleasePaymentPTB(p, p, Seller[p])
  <2>1. of[r] \in Purchases /\ relTx \in [Runs -> TxState]
    BY <1>5 DEF ExecuteRelease, IInv, TypeOK, RunChainInv, BeforeSubmit
  <2>2. ReleasePaymentPTB(of[r], of[r], Seller[of[r]]) /\ relTx'[r] = "ok"
    BY <1>5, <2>1 DEF ExecuteRelease, chainVars
  <2>3. of[r] = p
    BY <1>1, <2>1, <2>2 DEF ReleasePaymentPTB, release_escrow, PayOut
  <2> QED
    BY <2>2, <2>3
<1>6. CASE Crash \/ UNCHANGED vars
  BY <1>6 DEF Crash, vars, chainVars
<1> QED
  BY <1>2, <1>3, <1>4, <1>5, <1>6 DEF Next

(* Which release transactions of a purchase succeeded.                     *)
LEMMA SuccessChanges ==
    ASSUME IInv, [Next]_vars, NEW p \in Purchases, NEW s \in Runs
    PROVE  \/ (of'[s] = p /\ relTx'[s] = "ok") <=> (of[s] = p /\ relTx[s] = "ok")
           \/ ExecuteRelease(s) /\ of[s] = p /\ escrow[p].status = "pending"
<1>1. RunChainInv(s)
  BY DEF IInv
<1>2. pc[s] # "fresh" => UNCHANGED of[s]
  BY RunChanges
     DEF Moves, Validate, Fetch, Upload, UploadBlob, Prepare, Submit, Settled, Write, RetryBlock
<1>3. CASE UNCHANGED relTx[s]
  BY <1>1, <1>2, <1>3 DEF RunChainInv, BeforeSubmit
<1>4. CASE Submit(s)
  BY <1>1, <1>4 DEF Submit, Advance, RunChainInv, BeforeSubmit, IInv, TypeOK
<1>5. CASE ExecuteRelease(s)
  <2>1. relTx[s] = "sent" /\ UNCHANGED of[s] /\ relTx \in [Runs -> TxState]
    BY <1>5 DEF ExecuteRelease, IInv, TypeOK
  <2>2. relTx'[s] = "ok" => escrow[of[s]].status = "pending"
    BY <1>5, <2>1 DEF ExecuteRelease, ReleasePaymentPTB, release_escrow
  <2> QED
    BY <1>5, <2>1, <2>2
<1> QED
  BY <1>3, <1>4, <1>5, TxChanges

LEMMA SellerPaidStep ==
    ASSUME IInv, [Next]_vars
    PROVE  SellerPaidForDelivery'
<1> SUFFICES ASSUME NEW p \in Purchases, escrow'[p].status = "released"
             PROVE  /\ paid'[p] = PaidWhole(p, Seller[p])
                    /\ purchase'[p] \in {"completed", "disputed"}
                    /\ \E r \in stored' :
                          \A s \in Runs : of'[s] = p /\ relTx'[s] = "ok" <=> s = r
  BY DEF SellerPaidForDelivery, PaidWhole, NothingPaid
<1>t. stored \subseteq Runs /\ stored \subseteq stored'
  <2>1. stored' \subseteq Runs /\ stored \subseteq Runs
    BY TypesStep DEF IInv, TypeOK
  <2>2. CASE Runs = {}
    BY <2>1, <2>2
  <2>3. CASE \E s : s \in Runs
    BY <2>1, <2>3, TxChanges
  <2> QED
    BY <2>1, <2>2, <2>3
<1>1. CASE escrow[p].status = "released"
  <2>1. /\ paid[p] = PaidWhole(p, Seller[p])
        /\ purchase[p] \in {"completed", "disputed"}
    BY <1>1 DEF IInv, SellerPaidForDelivery
  <2>2. PICK r \in stored : \A s \in Runs : of[s] = p /\ relTx[s] = "ok" <=> s = r
    BY <1>1 DEF IInv, SellerPaidForDelivery
  <2>3. \A s \in Runs : of'[s] = p /\ relTx'[s] = "ok" <=> s = r
    BY <1>1, <2>2, SuccessChanges
  <2> QED
    BY <1>1, <1>t, <2>1, <2>2, <2>3, ReleasedStays
<1>2. CASE escrow[p].status # "released"
  <2>1. PICK r \in Runs : /\ ExecuteRelease(r) /\ of[r] = p /\ relTx'[r] = "ok"
                          /\ ReleasePaymentPTB(p, p, Seller[p])
    BY <1>2, ReleasedByRun
  <2>2. SuiTypeOK /\ FundsConserved
    BY DEF IInv, TypeOK, CaptureTypeOK
  <2>3. Seller[p] \in Accounts /\ Pay(p, "released", Seller[p])
    BY <2>1, PartiesAssumption DEF ReleasePaymentPTB, release_escrow, PayOut, Pay
  <2>4. paid'[p] = PaidWhole(p, Seller[p])
    BY <2>2, <2>3, PayWhole DEF SuiTypeOK, Verdicts
  <2>5. purchase'[p] = "completed"
    BY <2>1, <2>2 DEF ReleasePaymentPTB, complete_purchase, SuiTypeOK
  <2>6. r \in stored /\ of'[r] = p
    BY <2>1 DEF ExecuteRelease, IInv, RunChainInv
  <2>7. \A s \in Runs : of'[s] = p /\ relTx'[s] = "ok" <=> s = r
    <3>1. \A s \in Runs : ~ (of[s] = p /\ relTx[s] = "ok")
      BY <1>2 DEF IInv, RunChainInv
    <3>2. \A s \in Runs : s # r => relTx'[s] = relTx[s] /\ of'[s] = of[s]
      BY <2>1 DEF ExecuteRelease, IInv, TypeOK
    <3> QED
      BY <2>1, <2>6, <3>1, <3>2
  <2> QED
    BY <1>t, <2>4, <2>5, <2>6, <2>7
<1> QED
  BY <1>1, <1>2

LEMMA CompletedStep ==
    ASSUME IInv, [Next]_vars
    PROVE  CompletedIsSettled'
<1>n. None \notin stored'
  BY TypesStep, BoundsAssumption DEF TypeOK
<1> SUFFICES ASSUME NEW p \in Purchases
             PROVE  /\ row'[p].status = "completed" =>
                          /\ escrow'[p].status = "released"
                          /\ row'[p].blob \in stored'
                          /\ of'[row'[p].blob] = p
                          /\ relTx'[row'[p].blob] = "ok"
                          /\ row'[p].tx = ReleaseDigest(row'[p].blob)
                    /\ escrowRow'[p].status = "released" => row'[p].status = "completed"
  BY <1>n DEF CompletedIsSettled, GetsData, GetsUrl, Downloadable, ReleaseDigest
<1>t. /\ row \in [Purchases -> Row] /\ escrowRow \in [Purchases -> EscrowRow]
      /\ stored \subseteq Runs
  BY DEF IInv, TypeOK, CaptureTypeOK
<1>1. ASSUME row[p].status = "completed", row'[p].status = "completed"
      PROVE  /\ escrow'[p].status = "released"
             /\ row'[p].blob \in stored'
             /\ of'[row'[p].blob] = p
             /\ relTx'[row'[p].blob] = "ok"
             /\ row'[p].tx = ReleaseDigest(row'[p].blob)
  <2>1. row'[p] = row[p]
    BY <1>1, RecordsStay
  <2>2. /\ escrow[p].status = "released"
        /\ row[p].blob \in stored /\ row[p].blob \in Runs
        /\ of[row[p].blob] = p /\ relTx[row[p].blob] = "ok"
        /\ row[p].tx = ReleaseDigest(row[p].blob)
    BY <1>t, <1>1 DEF IInv, CompletedIsSettled, GetsData, GetsUrl, Downloadable
  <2>3. of'[row[p].blob] = p /\ relTx'[row[p].blob] = "ok"
    BY <2>2, SuccessChanges
  <2> QED
    BY <2>1, <2>2, <2>3, EscrowStays, TxChanges
<1>2. ASSUME row[p].status # "completed", row'[p].status = "completed"
      PROVE  /\ escrow'[p].status = "released"
             /\ row'[p].blob \in stored'
             /\ of'[row'[p].blob] = p
             /\ relTx'[row'[p].blob] = "ok"
             /\ row'[p].tx = ReleaseDigest(row'[p].blob)
  <2>1. ~ \E q \in Purchases : Handle(q)
    BY <1>2, HandlerWritesOnce
  <2>2. PICK r \in Runs : /\ WriteAt(r) /\ UNCHANGED relTx
                          /\ Write(r) \/ RetryBlock(r) \/ BlockThrows(r)
    BY <1>2, <2>1, RecordChanges DEF dbVars
  <2>3. of[r] = p /\ pc[r] = "purchaseRow"
    BY <1>t, <1>2, <2>2 DEF WriteAt
  <2>4. row'[p].blob = r /\ row'[p].tx = ReleaseDigest(r)
    BY <1>t, <2>2, <2>3 DEF WriteAt, Row
  <2>5. UNCHANGED of
    BY <2>2 DEF Write, RetryBlock, BlockThrows
  <2>6. r \in stored /\ relTx[r] = "ok" /\ escrow[p].status = "released"
    BY <2>2, <2>3, WriterIsSettled
  <2> QED
    BY <2>2, <2>3, <2>4, <2>5, <2>6, EscrowStays, TxChanges
<1>3. ASSUME escrowRow[p].status = "released" PROVE row'[p].status = "completed"
  BY <1>3, RecordsStay DEF IInv, CompletedIsSettled, GetsData, GetsUrl, Downloadable
<1>4. ASSUME escrowRow[p].status # "released", escrowRow'[p].status = "released"
      PROVE  row'[p].status = "completed"
  <2>1. ~ \E q \in Purchases : Handle(q)
    BY <1>4, HandlerWritesOnce
  <2>2. PICK r \in Runs : WriteAt(r)
    BY <1>4, <2>1, RecordChanges DEF dbVars
  <2>3. of[r] = p /\ pc[r] = "escrowRow"
    BY <1>t, <1>4, <2>2 DEF WriteAt
  <2>4. row[p].status = "completed"
    BY <2>3 DEF IInv, RunWritesInv
  <2> QED
    BY <2>4, RecordsStay
<1> QED
  BY <1>1, <1>2, <1>3, <1>4

(* The payment is chosen once, and the buyer is told at the very end.      *)
LEMMA RequestChanges ==
    ASSUME IInv, [Next]_vars, NEW p \in Purchases
    PROVE  /\ req[p] # "idle" => payment'[p] = payment[p]
           /\ told'[p] => told[p] \/ req[p] = "queued"
<1>t. payment \in [Purchases -> Payments \union {None}] /\ told \in [Purchases -> BOOLEAN]
  BY DEF IInv, TypeOK, CaptureTypeOK
<1>1. ASSUME NEW q \in Purchases, CheckPayment(q)
      PROVE  UNCHANGED told /\ (req[p] # "idle" => payment'[p] = payment[p])
  BY <1>t, <1>1 DEF CheckPayment, Goto
<1>2. ASSUME NEW q \in Purchases, Answer(q)
      PROVE  UNCHANGED payment /\ (told'[p] => told[p] \/ req[p] = "queued")
  BY <1>t, <1>2 DEF Answer, Goto
<1>3. ASSUME NEW q \in Purchases, Handle(q), ~ CheckPayment(q), ~ Answer(q)
      PROVE  UNCHANGED <<payment, told>>
  BY <1>3 DEF Handle, VerifyPayment, SendPurchase, ConfirmPurchase, RecordPurchase,
              RecordEscrow, RecordAudit, QueueJob, GiveUp
<1>4. ASSUME NEW q \in Purchases, ExecutePurchase(q) \/ DisputeStep(q) \/ Take(q) \/ Stall(q)
      PROVE  UNCHANGED <<payment, told>>
  BY <1>4 DEF ExecutePurchase, DisputeStep, Take, Stall, captureVars
<1>5. ASSUME NEW r \in Runs, RunStep(r) \/ ExecuteRelease(r)
      PROVE  UNCHANGED <<payment, told>>
  BY <1>5 DEF RunStep, ExecuteRelease, Validate, Fetch, Upload, UploadBlob, Prepare, Submit, Settled,
              Throw, Write, RetryBlock, BlockThrows, Finish, captureVars
<1>6. CASE Crash \/ UNCHANGED vars
  BY <1>6 DEF Crash, vars, captureVars
<1> QED
  BY <1>1, <1>2, <1>3, <1>4, <1>5, <1>6 DEF Next, CaptureStep

LEMMA RecordsStep ==
    ASSUME IInv, [Next]_vars
    PROVE  RecordsAreFunded'
<1> SUFFICES ASSUME NEW p \in Purchases
             PROVE  /\ row'[p].status # "none" =>
                          /\ escrow'[p].status # "none"
                          /\ Payer[payment'[p]] = Buyer[p]
                          /\ Worth[payment'[p]] >= Price[p]
                    /\ escrowRow'[p].status # "none" => row'[p].status # "none"
                    /\ job'[p].state # "none" \/ told'[p] => escrowRow'[p].status # "none"
  BY DEF RecordsAreFunded
<1>t. /\ row \in [Purchases -> Row] /\ escrowRow \in [Purchases -> EscrowRow]
      /\ job \in [Purchases -> Job]
  BY DEF IInv, TypeOK, CaptureTypeOK
<1>i. RequestInv(p) /\ JobInv(p)
  BY DEF IInv
<1>1. ASSUME row'[p].status # "none"
      PROVE  /\ escrow'[p].status # "none"
             /\ Payer[payment'[p]] = Buyer[p]
             /\ Worth[payment'[p]] >= Price[p]
  <2>1. CASE row[p].status # "none"
    <3>1. req[p] # "idle"
      BY <1>i, <2>1 DEF RequestInv, BeforeRow
    <3> QED
      BY <2>1, <3>1, EscrowStays, RequestChanges DEF IInv, RecordsAreFunded
  <2>2. CASE row[p].status = "none"
    <3>1. req[p] = "confirmed"
      <4>1. ASSUME NEW r \in Runs, WriteAt(r) PROVE UNCHANGED row[p]
        BY <1>t, <2>2, <4>1, WriterIsSettled DEF WriteAt
      <4> QED
        BY <1>1, <2>2, <4>1, RecordChanges, HandlerWritesOnce DEF dbVars
    <3> QED
      BY <1>i, <3>1, EscrowStays, RequestChanges DEF RequestInv
  <2> QED
    BY <2>1, <2>2
<1>2. ASSUME escrowRow'[p].status # "none" PROVE row'[p].status # "none"
  <2>1. CASE escrowRow[p].status # "none"
    BY <2>1, RecordsStay DEF IInv, RecordsAreFunded
  <2>2. CASE escrowRow[p].status = "none"
    <3>1. req[p] = "recorded"
      <4>1. ASSUME NEW r \in Runs, WriteAt(r) PROVE UNCHANGED escrowRow[p]
        BY <1>t, <2>2, <4>1, WriterIsSettled DEF WriteAt
      <4> QED
        BY <1>2, <2>2, <4>1, RecordChanges, HandlerWritesOnce DEF dbVars
    <3> QED
      BY <1>i, <3>1, RecordsStay DEF RequestInv
  <2> QED
    BY <2>1, <2>2
<1>3. ASSUME job'[p].state # "none" PROVE escrowRow'[p].status # "none"
  <2>1. CASE job[p].state # "none"
    BY <2>1, RecordsStay DEF IInv, RecordsAreFunded
  <2>2. CASE req[p] = "audited"
    BY <1>i, <2>2, RecordsStay DEF RequestInv, AfterEscrow
  <2>3. CASE UNCHANGED job[p]
    BY <1>3, <2>1, <2>3
  <2>4. CASE Take(p) \/ Stall(p)
    BY <2>1, <2>4 DEF Take, Stall
  <2>5. CASE \E r \in Runs : job[p].owner = r
    BY <1>i, <2>1, <2>5, BoundsAssumption DEF JobInv
  <2> QED
    BY <2>2, <2>3, <2>4, <2>5, JobChanges
<1>4. ASSUME told'[p] PROVE escrowRow'[p].status # "none"
  <2>1. told[p] \/ req[p] = "queued"
    BY <1>4, RequestChanges
  <2> QED
    BY <1>i, <2>1, RecordsStay DEF IInv, RecordsAreFunded, RequestInv, AfterEscrow
<1> QED
  BY <1>1, <1>2, <1>3, <1>4

LEMMA SalesFollowStep ==
    ASSUME IInv, [Next]_vars
    PROVE  SalesFollowCompletion'
<1> SUFFICES ASSUME NEW p \in Purchases
             PROVE  /\ sales'[p] <= DbTries
                    /\ sales'[p] > 0 => row'[p].status = "completed"
                    /\ job'[p].state = "completed" =>
                          /\ row'[p].status = "completed"
                          /\ escrowRow'[p].status = "released"
                          /\ sales'[p] > 0
                          /\ audit'[p].completed > 0
  BY DEF SalesFollowCompletion
<1>t. /\ sales[p] \in Nat /\ sales'[p] \in Nat /\ DbTries \in Nat
      /\ audit[p].completed \in Nat /\ audit'[p].completed \in Nat
      /\ job \in [Purchases -> Job] /\ try \in [Runs -> Nat]
  BY TypesStep, BoundsAssumption DEF IInv, TypeOK, CaptureTypeOK
<1>1. sales'[p] <= DbTries /\ (sales'[p] > 0 => row'[p].status = "completed")
  <2>1. CASE UNCHANGED sales[p]
    BY <2>1, RecordsStay DEF IInv, SalesFollowCompletion
  <2>2. ASSUME NEW t \in Runs, of[t] = p, pc[t] = "sales", sales'[p] = sales[p] + 1
        PROVE  sales'[p] <= DbTries /\ row'[p].status = "completed"
    <3>1. sales[p] < try[t] /\ try[t] <= DbTries /\ row[p].status = "completed"
      BY <2>2 DEF IInv, RunSalesInv, RunWritesInv
    <3> QED
      BY <1>t, <2>2, <3>1, RecordsStay
  <2> QED
    BY <2>1, <2>2, SalesChanges
<1>2. ASSUME job'[p].state = "completed"
      PROVE  /\ row'[p].status = "completed"
             /\ escrowRow'[p].status = "released"
             /\ sales'[p] > 0
             /\ audit'[p].completed > 0
  <2>1. ASSUME row[p].status = "completed", escrowRow[p].status = "released",
               sales[p] > 0, audit[p].completed > 0
        PROVE  /\ row'[p].status = "completed"
               /\ escrowRow'[p].status = "released"
               /\ sales'[p] > 0
               /\ audit'[p].completed > 0
    BY <1>t, <2>1, RecordsStay
  <2>2. CASE UNCHANGED job[p]
    BY <1>2, <2>1, <2>2 DEF IInv, SalesFollowCompletion
  <2>3. ASSUME NEW r \in Runs, Finish(r), of[r] = p
        PROVE  /\ row[p].status = "completed" /\ escrowRow[p].status = "released"
               /\ sales[p] > 0 /\ audit[p].completed > 0
    BY <2>3 DEF Finish, IInv, RunWritesInv
  <2>4. job'[p] # [NoJob EXCEPT !.state = "wait"]
    BY <1>2 DEF NoJob
  <2>5. ~ Take(p) /\ ~ Stall(p)
    BY <1>t, <1>2 DEF Take, Stall, Job
  <2>6. job'[p] # JobAfterFailure(job[p])
    BY <1>t, <1>2 DEF JobAfterFailure, Job
  <2> QED
    BY <2>1, <2>2, <2>3, <2>4, <2>5, <2>6, JobChanges
<1> QED
  BY <1>1, <1>2

-----------------------------------------------------------------------------
(* The theorems.                                                           *)

LEMMA Start == Init => IInv
<1> SUFFICES ASSUME Init PROVE IInv
  OBVIOUS
<1> USE DEF Init, CaptureInit, SuiInit
<1>1. TypeOK
  BY DEF TypeOK, CaptureTypeOK, SuiTypeOK, EscrowStatus, PurchaseStatus, ReqState, TxState,
         NoRow, Row, Digests, NoEscrowRow, EscrowRow, NoJob, Job, Pc
<1>2. FundsConserved
  BY DEF FundsConserved, InOnePlace, NothingPaid
<1>3. \A p \in Purchases : RequestInv(p) /\ JobInv(p)
  BY DEF RequestInv, JobInv, NoRow, NoEscrowRow, NoJob, AfterEscrow
<1>4. \A r \in Runs : RunChainInv(r) /\ RunWritesInv(r) /\ RunSalesInv(r)
  BY BoundsAssumption DEF RunChainInv, RunWritesInv, RunSalesInv, Writing
<1>5. SellerPaidForDelivery /\ CompletedIsSettled
  BY DEF SellerPaidForDelivery, CompletedIsSettled, GetsData, GetsUrl, Downloadable, NoRow, NoEscrowRow
<1>6. RecordsAreFunded /\ SalesFollowCompletion
  BY BoundsAssumption DEF RecordsAreFunded, SalesFollowCompletion, NoRow, NoEscrowRow, NoJob
<1> QED
  BY <1>1, <1>2, <1>3, <1>4, <1>5, <1>6 DEF IInv

LEMMA Step == IInv /\ [Next]_vars => IInv'
<1> SUFFICES ASSUME IInv, [Next]_vars PROVE IInv'
  OBVIOUS
<1>1. FundsConserved'
  BY SuiStep, FundsStep DEF IInv, TypeOK, CaptureTypeOK
<1>2. (\A p \in Purchases : RequestInv(p) /\ JobInv(p))'
  BY RequestStep, JobStep
<1>3. (\A r \in Runs : RunChainInv(r) /\ RunWritesInv(r) /\ RunSalesInv(r))'
  BY RunChainStep, RunWritesStep, RunSalesStep
<1> QED
  BY <1>1, <1>2, <1>3, TypesStep, SellerPaidStep, CompletedStep, RecordsStep, SalesFollowStep
     DEF IInv

(* At every step boundary the records, the runs, the handlers and the      *)
(* objects on the chain fit together.                                      *)
THEOREM Invariance == Spec => []IInv
BY Start, Step, PTL DEF Spec

(* Every variable keeps its type.                                          *)
THEOREM TypeCorrect == Spec => []TypeOK
<1>1. IInv => TypeOK
  BY DEF IInv
<1> QED
  BY <1>1, Invariance, PTL

(* However many runs of a job overlap, crash and send their transactions,  *)
(* the seller is paid once and for a blob that is stored.                  *)
THEOREM SellerIsPaidForDelivery == Spec => []SellerPaidForDelivery
<1>1. IInv => SellerPaidForDelivery
  BY DEF IInv
<1> QED
  BY <1>1, Invariance, PTL

(* What the database shows as completed is what was settled on the chain.  *)
THEOREM CompletedMeansSettled == Spec => []CompletedIsSettled
<1>1. IInv => CompletedIsSettled
  BY DEF IInv
<1> QED
  BY <1>1, Invariance, PTL

(* Whatever is on record has been funded, and by its buyer.                *)
THEOREM RecordsMeanFunds == Spec => []RecordsAreFunded
<1>1. IInv => RecordsAreFunded
  BY DEF IInv
<1> QED
  BY <1>1, Invariance, PTL

(* A purchase adds at most one sale for each try of the block.             *)
THEOREM SalesAreBounded == Spec => []SalesFollowCompletion
<1>1. IInv => SalesFollowCompletion
  BY DEF IInv
<1> QED
  BY <1>1, Invariance, PTL

(* What the buyer can download never changes.                              *)
THEOREM DeliveryNeverChanges == Spec => DeliveryIsStable
<1>1. IInv /\ [Next]_vars =>
         [\A p \in Purchases : row[p].status = "completed" => row'[p] = row[p]]_vars
  BY RecordsStay
<1> QED
  BY <1>1, Invariance, PTL DEF Spec, DeliveryIsStable

(* The backend makes only its own calls on the contracts ...               *)
THEOREM BackendImplementsChain == Spec => BackendChain
<1>1. Init => SuiInit
  BY DEF Init, CaptureInit
<1>2. IInv /\ [Next]_vars => [BackendNext]_chainVars
  BY ChainStep
<1> QED
  BY <1>1, <1>2, Invariance, PTL DEF Spec, BackendChain

(* ... so that through all its crashes and retries the coins move only as  *)
(* FundsInTrust says.                                                      *)
THEOREM BackendKeepsFunds == Spec => FundsSpec
<1>1. [BackendNext]_chainVars => [SuiNext]_chainVars
  BY DEF SuiNext
<1>2. BackendChain => SuiSpec
  BY <1>1, PTL DEF BackendChain, SuiSpec
<1> QED
  BY <1>2, BackendImplementsChain, FundsRefinement, PTL

-----------------------------------------------------------------------------
(* The backend implements FairExchange.  Beside IInv the mapping needs to  *)
(* know that a row shows no blob before it is completed.                   *)

NothingShownEarly ==
    \A p \in Purchases : row[p].status # "completed" => row[p].blob = None

(* Inserting a purchase shows nothing, and a settled run shows its own blob. *)
LEMMA RowChanges ==
    ASSUME IInv, NothingShownEarly, [Next]_vars
    PROVE  \/ \A q \in Purchases : row'[q].blob = row[q].blob
                                   /\ (row'[q].status = "completed" <=> row[q].status = "completed")
           \/ \E r \in Runs : /\ of[r] \in Purchases /\ relTx[r] = "ok" /\ relTx' = relTx
                              /\ row'[of[r]].blob = r /\ row'[of[r]].status = "completed"
                              /\ \A q \in Purchases \ {of[r]} : row'[q] = row[q]
<1>1. row \in [Purchases -> Row]
  BY DEF IInv, TypeOK, CaptureTypeOK
<1>2. CASE UNCHANGED <<dbVars, sales>>
  BY <1>2 DEF dbVars
<1>3. ASSUME NEW p \in Purchases, Handle(p), NEW q \in Purchases
      PROVE  /\ row'[q].blob = row[q].blob
             /\ row'[q].status = "completed" <=> row[q].status = "completed"
  <2>1. ASSUME NEW found \in BOOLEAN, InsertPurchase(p, found), req[p] = "confirmed"
        PROVE  /\ row'[q].blob = row[q].blob
               /\ row'[q].status = "completed" <=> row[q].status = "completed"
    <3>1. row[p].status = "none" /\ row[p].blob = None
      BY <2>1 DEF IInv, RequestInv, BeforeRow, NothingShownEarly
    <3> QED
      BY <1>1, <2>1, <3>1 DEF InsertPurchase
  <2>2. UNCHANGED row \/ \E found \in BOOLEAN : InsertPurchase(p, found) /\ req[p] = "confirmed"
    BY <1>3 DEF Handle, CheckPayment, VerifyPayment, SendPurchase, ConfirmPurchase,
                RecordPurchase, RecordEscrow, RecordAudit, QueueJob, Answer, GiveUp, dbVars, Goto
  <2> QED
    BY <2>1, <2>2
<1>4. ASSUME NEW r \in Runs, WriteAt(r), UNCHANGED relTx
      PROVE  \/ UNCHANGED row
             \/ /\ of[r] \in Purchases /\ relTx[r] = "ok" /\ relTx' = relTx
                /\ row'[of[r]].blob = r /\ row'[of[r]].status = "completed"
                /\ \A q \in Purchases \ {of[r]} : row'[q] = row[q]
  <2>1. of[r] \in Purchases /\ relTx[r] = "ok"
    BY <1>4, WriterIsSettled
  <2>2. CASE pc[r] = "purchaseRow"
    BY <1>1, <1>4, <2>1, <2>2 DEF WriteAt, Row
  <2>3. CASE pc[r] # "purchaseRow"
    BY <1>4, <2>3 DEF WriteAt
  <2> QED
    BY <2>2, <2>3
<1> QED
  BY <1>2, <1>3, <1>4, RecordChanges

LEMMA NothingShownStep ==
    ASSUME IInv, NothingShownEarly, [Next]_vars
    PROVE  NothingShownEarly'
BY RowChanges DEF NothingShownEarly

(* A run that is known to be the only one of p to be settled is the one    *)
(* that Sold names; o and t stand for of and relTx before or after a step. *)
LEMMA OnlyOneSettled ==
    ASSUME NEW o, NEW t, NEW p, NEW r \in Runs, o[r] = p /\ t[r] = "ok",
           \A s \in Runs : o[s] = p /\ t[s] = "ok" => s = r
    PROVE  (CHOOSE s \in Runs : o[s] = p /\ t[s] = "ok") = r
OBVIOUS

LEMMA SettledOnce ==
    ASSUME IInv, NEW p \in Purchases, NEW r \in Runs, of[r] = p, relTx[r] = "ok"
    PROVE  /\ escrow[p].status = "released" /\ r \in stored
           /\ \A s \in Runs : of[s] = p /\ relTx[s] = "ok" => s = r
           /\ Sold[p] = r
<1>1. escrow[p].status = "released" /\ r \in stored
  BY DEF IInv, RunChainInv
<1>2. \A s \in Runs : of[s] = p /\ relTx[s] = "ok" => s = r
  BY <1>1 DEF IInv, SellerPaidForDelivery
<1>3. (CHOOSE s \in Runs : of[s] = p /\ relTx[s] = "ok") = r
  BY <1>2, OnlyOneSettled
<1> QED
  BY <1>1, <1>2, <1>3 DEF Sold, SettledBy

LEMMA NoneSettled ==
    ASSUME NEW p \in Purchases, \A r \in Runs : ~(of[r] = p /\ relTx[r] = "ok")
    PROVE  Sold[p] = None
BY DEF Sold, SettledBy

LEMMA SoldKept ==
    ASSUME IInv,
           \A p \in Purchases, s \in Runs :
              (of'[s] = p /\ relTx'[s] = "ok") <=> (of[s] = p /\ relTx[s] = "ok")
    PROVE  Sold' = Sold
<1> SUFFICES ASSUME NEW p \in Purchases PROVE Sold'[p] = Sold[p]
  BY DEF Sold
<1>1. ASSUME NEW r \in Runs, of[r] = p, relTx[r] = "ok" PROVE Sold'[p] = Sold[p]
  <2>1. Sold[p] = r /\ \A s \in Runs : of[s] = p /\ relTx[s] = "ok" => s = r
    BY <1>1, SettledOnce
  <2>2. of'[r] = p /\ relTx'[r] = "ok" /\ \A s \in Runs : of'[s] = p /\ relTx'[s] = "ok" => s = r
    BY <1>1, <2>1
  <2>3. (CHOOSE s \in Runs : of'[s] = p /\ relTx'[s] = "ok") = r
    BY <2>2, OnlyOneSettled
  <2> QED
    BY <2>1, <2>2, <2>3 DEF Sold, SettledBy
<1>2. ASSUME \A r \in Runs : ~(of[r] = p /\ relTx[r] = "ok") PROVE Sold'[p] = Sold[p]
  <2>1. \A r \in Runs : ~(of'[r] = p /\ relTx'[r] = "ok")
    BY <1>2
  <2>2. Sold'[p] = None
    BY <2>1 DEF Sold, SettledBy
  <2> QED
    BY <1>2, <2>2, NoneSettled
<1> QED
  BY <1>1, <1>2

(* A release transaction takes effect: p was unsold, and is sold now.      *)
LEMMA SoldNow ==
    ASSUME IInv, NEW r \in Runs, NEW p \in Purchases, of[r] = p, of' = of,
           relTx[r] = "sent", relTx' = [relTx EXCEPT ![r] = "ok"],
           escrow[p].status = "pending"
    PROVE  /\ Sold' = [Sold EXCEPT ![p] = r]
           /\ \A q \in Purchases : Sold[q] # r
<1>t. relTx \in [Runs -> TxState] /\ None \notin Runs
  BY BoundsAssumption DEF IInv, TypeOK
<1>1. ASSUME NEW q \in Purchases, Sold[q] = r PROVE FALSE
  <2>1. ASSUME NEW s \in Runs, of[s] = q, relTx[s] = "ok" PROVE FALSE
    BY <1>1, <2>1, SettledOnce
  <2> QED
    BY <1>t, <1>1, <2>1, NoneSettled
<1>2. ASSUME NEW s \in Runs PROVE ~(of[s] = p /\ relTx[s] = "ok")
  BY SettledOnce
<1>3. Sold'[p] = r
  <2>1. of'[r] = p /\ relTx'[r] = "ok" /\ \A s \in Runs : of'[s] = p /\ relTx'[s] = "ok" => s = r
    BY <1>t, <1>2
  <2>2. (CHOOSE s \in Runs : of'[s] = p /\ relTx'[s] = "ok") = r
    BY <2>1, OnlyOneSettled
  <2> QED
    BY <2>1, <2>2 DEF Sold, SettledBy
<1>4. ASSUME NEW q \in Purchases \ {p} PROVE Sold'[q] = Sold[q]
  <2>1. \A s \in Runs : (of'[s] = q /\ relTx'[s] = "ok") <=> (of[s] = q /\ relTx[s] = "ok")
    BY <1>t, <1>4
  <2>2. ASSUME NEW s \in Runs, of[s] = q, relTx[s] = "ok" PROVE Sold'[q] = Sold[q]
    <3>1. Sold[q] = s /\ \A u \in Runs : of[u] = q /\ relTx[u] = "ok" => u = s
      BY <2>2, SettledOnce
    <3>2. of'[s] = q /\ relTx'[s] = "ok" /\ \A u \in Runs : of'[u] = q /\ relTx'[u] = "ok" => u = s
      BY <2>1, <2>2, <3>1
    <3>3. (CHOOSE u \in Runs : of'[u] = q /\ relTx'[u] = "ok") = s
      BY <3>2, OnlyOneSettled
    <3> QED
      BY <3>1, <3>2, <3>3 DEF Sold, SettledBy
  <2>3. ASSUME \A s \in Runs : ~(of[s] = q /\ relTx[s] = "ok") PROVE Sold'[q] = Sold[q]
    <3>1. Sold'[q] = None
      BY <2>1, <2>3 DEF Sold, SettledBy
    <3> QED
      BY <2>3, <3>1, NoneSettled
  <2> QED
    BY <2>2, <2>3
<1> QED
  BY <1>1, <1>3, <1>4 DEF Sold

(* As long as no escrow moves, nothing is sold.                            *)
LEMMA SoldWithEscrow ==
    ASSUME IInv, [Next]_vars, UNCHANGED escrow
    PROVE  Sold' = Sold
<1> SUFFICES ASSUME NEW p \in Purchases, NEW s \in Runs
             PROVE  (of'[s] = p /\ relTx'[s] = "ok") <=> (of[s] = p /\ relTx[s] = "ok")
  BY SoldKept
<1>1. ASSUME ExecuteRelease(s), of[s] = p
      PROVE  (of'[s] = p /\ relTx'[s] = "ok") <=> (of[s] = p /\ relTx[s] = "ok")
  <2>1. relTx[s] = "sent" /\ relTx \in [Runs -> TxState]
    BY <1>1 DEF ExecuteRelease, IInv, TypeOK
  <2>2. ~ ReleasePaymentPTB(p, p, Seller[p])
    <3>1. escrow \in [Purchases -> [status : EscrowStatus, balance : Nat]]
      BY DEF IInv, TypeOK, CaptureTypeOK, SuiTypeOK
    <3> QED
      BY <3>1 DEF ReleasePaymentPTB, release_escrow, PayOut
  <2> QED
    BY <1>1, <2>1, <2>2 DEF ExecuteRelease
<1> QED
  BY <1>1, SuccessChanges

LEMMA LockIsLock ==
    ASSUME NEW p \in Purchases, Make(p), IInv
    PROVE  Exchange!Lock(p)
<1>1. Funds!Lock(p)
  BY MakeLocks DEF IInv, TypeOK, CaptureTypeOK
<1> QED
  BY <1>1 DEF Funds!Lock, Exchange!Lock, Funds!Nothing, Exchange!Nothing, Funds!Holders,
              Exchange!Holders, Funds!Whole, Exchange!Whole

LEMMA SettleIsSettle ==
    ASSUME NEW p \in Purchases, ReleasePaymentPTB(p, p, Seller[p]), IInv
    PROVE  Exchange!Settle(p, Seller[p])
<1>1. Seller[p] \in Accounts /\ Pay(p, "released", Seller[p])
  BY PartiesAssumption DEF ReleasePaymentPTB, release_escrow, PayOut, Pay
<1>2. Funds!Settle(p, Seller[p])
  BY <1>1, PaySettles DEF IInv, TypeOK, CaptureTypeOK, Verdicts
<1> QED
  BY <1>2 DEF Funds!Settle, Exchange!Settle, Funds!Nothing, Exchange!Nothing, Funds!Holders,
              Exchange!Holders, Funds!Whole, Exchange!Whole

(* When nothing else happens, the rows change as Show says, or show what   *)
(* they showed before.                                                     *)
LEMMA RowsShow ==
    ASSUME IInv, NothingShownEarly, [Next]_vars, UNCHANGED <<Held, stored, Sold>>
    PROVE  UNCHANGED Shown \/ \E p \in Purchases : Exchange!Show(p)
<1>1. CASE \A q \in Purchases : row'[q].blob = row[q].blob
  BY <1>1 DEF Shown
<1>2. ASSUME NEW r \in Runs, of[r] \in Purchases, relTx[r] = "ok", row'[of[r]].blob = r,
             \A q \in Purchases \ {of[r]} : row'[q] = row[q]
      PROVE  Exchange!Show(of[r])
  <2>1. Sold[of[r]] = r /\ r # None
    BY <1>2, SettledOnce, BoundsAssumption
  <2>2. Shown' = [Shown EXCEPT ![of[r]] = r]
    BY <1>2 DEF Shown
  <2> QED
    BY <2>1, <2>2 DEF Exchange!Show
<1> QED
  BY <1>1, <1>2, RowChanges

LEMMA ExchangeStep ==
    ASSUME IInv, NothingShownEarly, [Next]_vars
    PROVE  [Exchange!ExchangeNext]_<<Held, stored, Sold, Shown>>
<1>1. ASSUME UNCHANGED <<escrow, paid, stored>>
      PROVE  [Exchange!ExchangeNext]_<<Held, stored, Sold, Shown>>
  <2>1. UNCHANGED <<Held, Sold>>
    BY <1>1, SoldWithEscrow DEF Held
  <2> QED
    BY <1>1, <2>1, RowsShow DEF Exchange!ExchangeNext
<1>2. ASSUME NEW r \in Runs, UNCHANGED <<escrow, paid, row>>, UploadBlob(r)
      PROVE  [Exchange!ExchangeNext]_<<Held, stored, Sold, Shown>>
  <2>1. UNCHANGED <<Held, Sold, Shown>>
    BY <1>2, SoldWithEscrow DEF Held, Shown
  <2>2. Exchange!Keep(r)
    BY <1>2, <2>1 DEF UploadBlob, Exchange!Keep
  <2> QED
    BY <2>2 DEF Exchange!ExchangeNext
<1>3. ASSUME NEW p \in Purchases, ExecutePurchase(p), UNCHANGED runVars
      PROVE  [Exchange!ExchangeNext]_<<Held, stored, Sold, Shown>>
  <2>1. CASE UNCHANGED chainVars
    BY <1>1, <1>3, <2>1 DEF chainVars, runVars
  <2>2. CASE PurchasePTB(p)
    <3>1. Make(p)
      BY <2>2 DEF PurchasePTB, create_escrow, Make
    <3>2. UNCHANGED <<stored, Sold, Shown>>
      BY <1>3 DEF ExecutePurchase, runVars, dbVars, Sold, SettledBy, Shown
    <3>3. Exchange!Buy(p)
      BY <3>1, <3>2, LockIsLock DEF Exchange!Buy
    <3> QED
      BY <3>3 DEF Exchange!ExchangeNext
  <2> QED
    BY <1>3, <2>1, <2>2 DEF ExecutePurchase
<1>4. ASSUME NEW r \in Runs, ExecuteRelease(r)
      PROVE  [Exchange!ExchangeNext]_<<Held, stored, Sold, Shown>>
  <2>1. of[r] \in Purchases /\ relTx[r] = "sent" /\ r \in stored /\ r \in Runs
    BY <1>4 DEF ExecuteRelease, IInv, TypeOK, RunChainInv, BeforeSubmit
  <2>2. CASE UNCHANGED chainVars
    BY <1>1, <1>4, <2>2 DEF chainVars, ExecuteRelease
  <2>3. CASE /\ ReleasePaymentPTB(of[r], of[r], Seller[of[r]])
             /\ relTx' = [relTx EXCEPT ![r] = "ok"]
    <3>1. UNCHANGED <<stored, Shown, of>>
      BY <1>4 DEF ExecuteRelease, dbVars, Shown
    <3>2. Sold' = [Sold EXCEPT ![of[r]] = r] /\ \A q \in Purchases : Sold[q] # r
      <4>1. escrow[of[r]].status = "pending"
        BY <2>3 DEF ReleasePaymentPTB, release_escrow
      <4> QED
        BY <2>1, <2>3, <3>1, <4>1, SoldNow
    <3>3. Exchange!Sell(of[r], r)
      BY <2>1, <2>3, <3>1, <3>2, SettleIsSettle DEF Exchange!Sell
    <3> QED
      BY <2>1, <3>3 DEF Exchange!ExchangeNext
  <2> QED
    BY <1>4, <2>2, <2>3 DEF ExecuteRelease
<1>5. ASSUME NEW r \in Runs, RunStep(r)
      PROVE  \/ UNCHANGED <<escrow, paid, stored>>
             \/ UNCHANGED <<escrow, paid, row>> /\ UploadBlob(r)
  BY <1>5 DEF RunStep, Validate, Fetch, Upload, Prepare, Submit, Settled, Throw, Write,
              RetryBlock, BlockThrows, Finish, chainVars, dbVars
<1>6. ASSUME NEW p \in Purchases,
             (Handle(p) /\ UNCHANGED runVars) \/ DisputeStep(p) \/ Take(p) \/ Stall(p)
      PROVE  UNCHANGED <<escrow, paid, stored>>
  <2>1. CASE Handle(p) /\ UNCHANGED runVars
    BY <2>1 DEF runVars, chainVars, Handle, CheckPayment, VerifyPayment, SendPurchase,
       ConfirmPurchase, RecordPurchase, RecordEscrow, RecordAudit, QueueJob, Answer, GiveUp
  <2>2. CASE DisputeStep(p) \/ Take(p) \/ Stall(p)
    BY <2>2 DEF DisputeStep, Dispute, Take, Stall, runVars, chainVars
  <2> QED
    BY <1>6, <2>1, <2>2
<1>7. CASE Crash \/ UNCHANGED vars
  BY <1>1, <1>7 DEF Crash, vars, chainVars, runVars
<1> QED
  BY <1>1, <1>2, <1>3, <1>4, <1>5, <1>6, <1>7 DEF Next, CaptureStep

(* A sale is one exchange of the whole price for a copy that is kept, and  *)
(* the buyer is shown that copy, for any number of purchases, runs and     *)
(* retries.                                                                *)
THEOREM BackendExchangesFairly == Spec => ExchangeSpec
<1>1. Init => NothingShownEarly /\ Exchange!ExchangeInit
  <2> SUFFICES ASSUME Init PROVE NothingShownEarly /\ Exchange!ExchangeInit
    OBVIOUS
  <2>1. Funds!Init
    BY PartiesAssumption
       DEF Init, CaptureInit, SuiInit, Funds!Init, Funds!Nothing, Funds!Holders, Held
  <2>2. Exchange!Init
    BY <2>1 DEF Funds!Init, Exchange!Init, Funds!Nothing, Exchange!Nothing, Funds!Holders,
                Exchange!Holders
  <2>3. NothingShownEarly /\ Shown = [p \in Purchases |-> None]
    BY DEF Init, CaptureInit, NoRow, NothingShownEarly, Shown
  <2>4. stored = {} /\ Sold = [p \in Purchases |-> None]
    BY DEF Init, Sold, SettledBy
  <2> QED
    BY <2>2, <2>3, <2>4 DEF Exchange!ExchangeInit
<1> QED
  BY <1>1, NothingShownStep, ExchangeStep, Invariance, PTL
     DEF Spec, ExchangeSpec, Exchange!ExchangeSpec
=============================================================================
