# SourceNet backend: specification, model checking and proofs

SourceNet is a marketplace for data. A seller uploads an encrypted file and
publishes it as a *datapod*; a buyer pays in SUI; the backend locks the price in
an escrow object on the chain, re-encrypts the file for the buyer, stores it on
Walrus, releases the escrow and hands the buyer a key. This directory holds TLA+
modules for that backend, TLC configurations that check them on small instances,
and TLAPS proofs for every value of the constants. Paths below are relative to
the repository; `*.ts` files are under `src/`.

## 1. Inventory

| Component | State it keeps | Operations | Talks to |
|---|---|---|---|
| Escrow and purchase contracts (`contracts/escrow/sources/{escrow,purchase}.move`) | the objects `Escrow` (status, balance) and `PurchaseRequest` (status), the caps | create, release, refund; create, complete, refund, dispute | called by the backend's transactions; a dispute by a party itself |
| Purchase capture (`controllers/buyer.controller.ts` createPurchase, `services/payment.service.ts` createEscrow) | rows of PurchaseRequest, EscrowTransaction, TransactionAudit | one HTTP handler, eight awaits | chain, PostgreSQL, BullMQ |
| Fulfillment worker (`jobs/fulfillment.job.ts`) | BullMQ job, the same rows, `DataPod.totalSales`, blobs on Walrus | eight steps, retries inside each, BullMQ attempts | Walrus, chain, PostgreSQL, WebSocket |
| Blockchain service (`services/blockchain.service.ts`) | none | build, execute, wait for, verify a transaction | chain |
| Payment service (`services/payment.service.ts`) | the rows of a purchase and its escrow | release, refund (no caller), statistics | PostgreSQL |
| Listing (`controllers/seller.controller.ts`, `datapod.move`, `jobs/cleanup.job.ts`) | UploadStaging, DataPod, DataPod object | upload, publish, clean-up | Walrus, chain, PostgreSQL, cache |
| Reviews (`controllers/review.controller.ts`, submitReview) | Review, `DataPod.averageRating` | create or update, submit, delete | PostgreSQL, cache |
| Purchase status and downloads (`controllers/buyer.controller.ts`) | Redis entry per purchase | read | PostgreSQL, Redis, Walrus |
| Cache (`services/cache.service.ts`, `controllers/marketplace.controller.ts`) | Redis | get, set with TTL, invalidate by key and by pattern | all controllers |
| Chain indexer (`indexer/`) | checkpoint (Redis and PostgreSQL), event queue, batch and timer in memory | poll, save checkpoint, flush batch, start, stop, measure the lag | chain, Redis, PostgreSQL |
| WebSocket (`websocket/`) | connections in two maps, subscriptions, bounded event log | connect, ping, subscribe, heartbeat, broadcast, shutdown | worker, controllers |
| Rate limiter (`middleware/rateLimiter.middleware.ts`) | Redis counters | INCR, EXPIRE | most routes |
| AI assistant (`services/ai.service.ts`, `routes/ai.routes.ts`) | AiConversation, AiMessage | chat, delete a conversation | rate limiter, model, PostgreSQL |
| Background jobs (`jobs/stats.job.ts`, `notification.job.ts`, `indexer-sync.job.ts`) | averages and totals | recompute, send | PostgreSQL |
| Storage, encryption, authentication, start-up | none, or tokens | pure I/O or stateless | external services |

`main.ts:123-150` starts Express, the WebSocket server, the cache and the
fulfillment worker in one process. Nothing starts the indexer and the other
workers, `PaymentService.releasePayment` and `refundPayment` have no caller, and
no route leads to `executePurchase` or to `download.routes.ts`.

What is hard here: three systems (chain, PostgreSQL, Redis) are written in turn
without a common transaction; a transaction that was sent may be executed at any
later time, or never; BullMQ gives a job to a second run while the first may
still be alive; every step is retried, inside a run and by another run; parties
may dispute on the chain without the backend; the process may die at any await.
`PROJECT.json` lists the hazards line by line with the properties that cover them.

What makes each component correct:

* contracts: coins are never lost, split or paid twice; a verdict is final;
* capture: no record without a funded escrow and a verified payment; no job and
  no answer without both records; a payment pays for one purchase (it does not);
* worker: the seller is paid only for data the buyer can get; what the row shows
  is what was paid for, and never changes; counters are bounded; every job ends;
* listing: one datapod for each upload, a row only for a published object, no
  clean-up under a publish;
* payment service: a purchase is paid out or refunded, never both, and its two
  rows agree (unless calls cross or fail half-way: nothing serialises them);
* reviews and caches: the stored average is that of the reviews (unless handlers
  cross); a stale page does not outlive its TTL;
* indexer: the checkpoint passes no event that is not written, in memory or
  accounted for; the writer keeps the order of what is emitted; a stopped indexer
  goes quiet; events are emitted once and checkpoints never go back (unless a call
  fails, or a start meets a poll that a stop has not ended);
* WebSocket: the two maps agree, an open client gets what is for it and nothing
  else, a silent one is dropped;
* rate limiter and assistant: a client is not locked out for ever; an exchange
  that was answered is on record, whole.

## 2. Modules

```
FundsInTrust          what the marketplace promises about a buyer's coins (abstract)
  ^ refined by (FundsSpec)
SuiEscrow             escrow.move + purchase.move + the two transactions
  ^ extended by
PurchaseCapture       createPurchase, createEscrow, queueing
  ^ extended by
Fulfillment           the worker, BullMQ, crashes: the whole of the payment path
  v implements (ExchangeSpec)
FairExchange          what the marketplace promises about a sale, coins and data
                      (abstract; extends FundsInTrust)
Market                what upload and publish promise (abstract)
  ^ refined by (MarketSpec)
Listing               uploadData, publishDataPod, the clean-up of staged uploads
Settlement            releasePayment and refundPayment beside the worker's writes
  ^ extended by
Storefront            reviews, stored averages, cached pages, the statistics job
Indexer               poll loops, checkpoints, batch writer
Push                  WebSocket server and broadcaster
Dialogue              what the assistant promises about conversations (abstract)
  ^ refined by (DialogueSpec)
Assistant             chats and deletions behind their rate limiters
SuiEscrowProofs       theorems about SuiEscrow
FulfillmentProofs     theorems about Fulfillment
ListingProofs         theorems about Listing
SettlementProofs      theorems about Settlement
  ^ extended by
StorefrontProofs      theorems about Storefront
IndexerProofs, PushProofs, AssistantProofs
                      theorems about the module of that name
MCSuiEscrow, MCPurchaseCapture, MCFulfillment, MCTwoPurchases, MCListing,
MCStorefront, MCIndexer, MCPush, MCAssistant
                      constants for TLC
```

### SuiEscrow

One operator per entry function, guarded by its asserts (a Move call aborts
without a trace). A purchase `p` stands for the pair of objects one purchase
transaction creates. `PurchasePTB` and `ReleasePaymentPTB` are the programmable
transactions of `blockchain.service.ts:211-284` and `387-421`; a transaction is
the conjunction of its calls, hence all or nothing. `SuiNext` contains more than
the backend does: every call the owner of the objects could make, with any cap
and any recipient, because the promises of the contracts must not depend on the
backend. `BackendNext` is what the backend and the parties do. Other funds than
the escrowed price (gas, the payment to the sponsor) are not modelled; the price
is a natural number of MIST.

### PurchaseCapture

`req[p]` is the await the handler of purchase `p` is at; each of the actions
`CheckPayment` ... `Answer` is the code from one await to the next. `GiveUp` is
any await throwing, a write possibly applied although its answer was lost.
`executeTransaction` builds the transaction object once and sends the same bytes
on every retry, and the chain executes a digest at most once, so `SendPurchase`
is one sent transaction, and `ExecutePurchase` may happen at any later time, also
after the handler gave up. `found` in `RecordPurchase`: the answer of the node
may lack the created objects; the code then makes up a UUID for the object id and
stores null for the escrow object (both objects come from one answer, so they are
found together). Requests rejected by the first checks change nothing and are
left out.

### Fulfillment

`pc[r]` is the await that run `r` of `processFulfillmentJob` is at. The run's
ephemeral key, blob and release transaction are all named by `r`; `row.blob`
stands for `encryptedBlobId` and `decryptionKey`, which are written together. A
retry that changes nothing (validate, download, re-encrypt, prepare) is waiting;
a retried upload stores the blob at most once as far as the row can tell; the
four writes of `updateDatabase` are separate steps and the block is retried from
its first write with `try[r]` counted. Checks that read immutable data (staging
metadata, the encryption key, the seller's address) can only throw, at any time:
`Throw`. `sales[p]` counts the increments of the shared `DataPod.totalSales`
made for `p`. `emitEvents` and `cleanupMemory` swallow their errors and change
nothing modelled here; they are part of `Finish`. The mark-as-failed code of the
catch block is commented out in the source (803-815) and so is absent.
`UploadBlob` is one successful call of `walrus.service.ts` uploadBlob (its own
retries are waiting), `Downloadable` what downloadBlob finds, and `GetsUrl` and
`GetsData` are the conditions under which getDownloadUrl and downloadData answer
the buyer; `CompletedIsSettled` promises that they do for a completed purchase.

BullMQ (external, modelled from the options at 97-176): `Take` gives a waiting
job to a run when fewer than `Concurrency` runs are alive; `AttemptFails` counts
an attempt and puts the job back or fails it; `Stall` is an expired lock: the job
is handed out again up to `MaxStalls` times and the first run, if alive, goes
on. Whether the interrupted attempt counts differs between releases, so it is a
choice. A report by a run that lost the lock changes nothing. `Crash` kills every
request and run: they share a process. `DisputeStep` is a party disputing the
shared object at any time.

`FairExchange` is a sale as buyer and seller see it: one step pays the seller the
whole price and makes a copy that is kept the buyer's. In the mapping `Exchange` a
copy is kept when its blob is stored, `Sold[p]` is the run whose release of `p` was
executed, whether or not anybody learned of it, and `Shown[p]` is the blob of the
row. A step that the mapping does not see (a retry, a crash, a lost answer) is a
stutter.

### Listing

An upload `u` is one call of `uploadData`; it names the key, the blob and the
`UploadStaging` row the call makes, whose id is the `upload_id` of the answer. A
publish `c` is one call of `publishDataPod` with some `upload_id` that was handed
out. `staging[h]` and `pod[h]` are the rows for the data hash `h`, unique in both
tables: `InsertStaging` and `InsertPod` are guarded by that, and a call that meets
the guard throws (`UploadThrows`, `PublishThrows`; as elsewhere the write may have
been applied). The answer of an existing staging row (`FindExisting`) is its id,
whoever made it: the second seller of a file learns an `upload_id` that is not
theirs, and `FindStaging` refuses it. `ExecutePublish` happens at any time after
the transaction was sent. `GrowOld` and `CleanUp` are `cleanupExpiredUploads` with
its limit of 24 hours (the answer of the upload says 7 days,
`seller.controller.ts:148`); nothing starts that job, but it is there to be
started. `UploadToWalrus` is `storage.service.ts` uploadToWalrus, which tries two
publishers in turn, and `PublishPTB` the outcome of `buildPublishPTB`'s transaction. `AnswerPublish` includes the invalidation of the cache and the broadcast,
which swallow their errors. The backend has no handler that updates or delists a datapod.

What the transaction does on the chain is left to `pubTx`: executed, aborted, or
neither yet. `buildPublishPTB` calls `create_datapod` alone, so the object stays
a draft of the sponsor's whatever the row says, and no later step of the backend
reads it.

`Market` is what sellers and buyers may rely on: the file is offered once, only with
a blob that can be downloaded (`kept` is `stored`) and after a transaction of its own
seller (`Endorsed`); beside it goes the key of that upload and of no other (`Keyed`:
the linked staging row); and a seller is told of success (`Told`) only when both are
there. None of it is ever taken back.

### Settlement

`releasePayment` and `refundPayment` (`services/payment.service.ts`) as three
awaits each: find the escrow row and check its status (`FindEscrow`, guarded by
`Admits`), write it (`SettleEscrow`), write the purchase row (`SettlePurchase`).
Beside them the worker validates the purchase row, not the escrow row, and later
writes both in the other order. `crossed` collects the purchases two of these
were at work on at once, `torn` those on which one of them failed with something
written; both only record. `VerdictsAgree` says that these are the *only* ways to
contradictory rows: calls one after the other, in any order, never make them.
`VerdictsStay` says the same of every step: a row that tells a verdict is not
written to tell another.
Platform fees are arithmetic on the price and are left out.

### Storefront

One datapod, its seller, and all purchases of it. `createReview`, `submitReview`
and `deleteReview` are one await per action: find the purchase or review, check,
write, read all ratings, store their average, drop a cache key. The average of a
set of ratings is represented by the set itself (`avg`), as which review was last
written by whom, so two different sets are never taken for equal; `Stars` gives
the ratings numbers where the market filters by them. `submitReview` divides by
the number of reviews without a test for none: when its review was deleted in
between, the update fails (`NoAverage`). `fresh` remembers whether the last
handler that was to store an average succeeded and had missed no write. The
statistics job (`stats.job.ts`) stores the seller's average and then the
datapod's; its counts and revenues are left out. A cached page is what it shows:
`BrowseView`, `DataPodsView`, `TopRatedView`, `DetailsView` are the queries of
`marketplace.controller.ts`, and the page of a purchase is getPurchaseStatus.
Readers ask the database and fill the page in two steps, so a page may be filled
with what was read long ago. `DropPage` is submitReview's invalidation (the other
two handlers invalidate nothing), `DropLists` that of publishDataPod.
`ShownIsEarned` follows a rating from the handler through the row, the averages and
the pages to a reader: whatever is in flight, it was given by the buyer of a
purchase that was released at some time.

### Indexer

Whoever loads the checkpoint is a process with its own await (`at[p]`): the poll
loops of `listeners/event-listener.ts` and the measurement of the lag (`Lag`), which
`indexer.ts` starts after each page. `stop()` only clears a timer. When it finds the
loop in a poll, that loop sets its timer again at `:107`, and whether it goes on
depends on `isRunning` at that moment; a `start()` that came before it leaves two
loops, and so `Loops` is a set. `handle` is the one timer that a stop clears.

A load of the checkpoint (`checkpoint.manager.ts` loadCheckpoint) is up to four
awaits, each with its failure: `ReadCache`, where a failed get is taken for a miss;
`ReadRow`, where a failed query is taken for no row; `FillCache`, whose failure is
swallowed; and `ResetDb`, the only one that throws (`ResetFails`). `aim[p]` is what
comes after: the query, the event (handleReorg) or the update. A loop holds a page
`next .. end` and handles its events one by one: `ReorgSeen`, `SkipUnknown` or
`Emit`, then `UpdateCheckpoint` (cache) and `SaveToDb` (row). A height is parsed from a
digest, so it is any number or NaN; `Backwards` is the comparison that takes a
smaller one for a reorganisation. A query answers with a page of the events after the
checkpoint, or ends the poll (`QueryEndsPoll`): nothing new, an error after all
attempts, or a node that does not take the filter or the cursor.

`Flush`, `AddEvent`, `TimerFires`, `BatchCommits` and `BatchFails` are
`writers/batch-writer.ts`; a timer that fired while a batch was being written stays
set, hence "stale", and a batch that fails may have been committed with its answer
lost. `Start` and `Stop` are those of `indexer.ts`; Stop waits for a batch only when
it started it, and another stop and a start may come meanwhile. `pending` (emitted,
not known to be written), `top`, `lost`, `passed`, `written` and `calm` only record.

`calm` says under which conditions two of the properties are promised: no call has
failed, no measurement of the lag was late (put an older checkpoint in cache or row
than the row had or a loop was saving), and no start met a live loop. The code gives
neither of the two otherwise, and needs no failure for it: two loops emit an event
twice and save over each other.

### Push

Every handler of `websocket.server.ts` and `websocket.broadcaster.ts` is
synchronous, so each is one action. `clients` and `registered` are the two maps.
Time is counted in heartbeats (`Limit`: 30 s at one per 15 s). A message is a
number; `inbox` what was sent on an open socket. An event is the set of its
fields: `Parses` compares them with the schema of its type
(`indexer/parsers/*.ts`), and `CallersGive` are the fields the three callers
really give.

### Assistant

`Path[r]` lists the counters of the limiters in front of request `r`; `Incr`,
`Expire` and `RedisFails` are `rateLimiter.middleware.ts`, where any failure lets
the request pass. Behind them, `chat()` opens or creates the conversation, asks
the model and saves the two messages in one transaction; `deleteConversation()`
checks and then deletes, and the messages go by cascade. Model and prompt are one
await that may fail. `Dialogue` leaves of this what users see: logs that only their
user extends or deletes, what the model was shown, and which requests are over
(`Closed`) or answered (`Answered`). A request whose write was applied and whose
answer was lost is closed there and not answered; it cannot write again.

## 3. Runs

| Run | Instance | Distinct states | What it shows |
|---|---|---|---|
| `sui_escrow` | 2 purchases of different price, 3 accounts | 841 | `FundsConserved`, `VerdictsAreFinal`, and `FundsSpec`: the contracts implement `FundsInTrust` |
| `fulfillment` | 1 purchase, 2 attempts, 2 tries of the block, 1 lost lock, 3 runs, concurrency 5 | 286,962 | `SellerPaidForDelivery`, `CompletedIsSettled`, `SalesFollowCompletion`, `DeliveryIsStable`; `ExchangeSpec`: the backend implements `FairExchange`; `JobEnds` under fairness |
| `two_purchases` | 2 purchases, 2 buyers, 2 sellers, prices 1 and 2, 3 payments, one worker slot, 2 runs | 674,020 | `RecordsAreFunded`: no record without its own funds and payment; `BackendChain`: every step is a backend transaction, a dispute, or leaves the chain alone |
| `listing` | 1 content, 2 sellers, 3 uploads (two by one seller), 3 publishes | 1,061,309 | `ListedIsBacked`, `KeyFitsBlob`, `SuccessIsSellable`; `MarketSpec`: upload, publish and clean-up implement `Market` |
| `storefront` | 3 purchases, 2 buyers, 6 handlers, 1 statistics job, 2 calls of the payment service, 5 readers, in 7 scenes; 1 fault | 130,933 | `VerdictsAgree`, `AverageIsCurrent`: what remains true of rows and averages that nothing serialises; `VerdictsStay`; `ShownIsEarned`: no rating or verdict is shown that was not given; `PagesCatchUp`: every page becomes current |
| `indexer` | pages of 2, in 3 scenes: 4 events (one backwards, one without height, one unknown), 1 mishap; 1 event, 3 mishaps; 2 events, 2 poll loops, 1 mishap | 760,216 | `CheckpointIsAccounted`, `WriterKeepsOrder`, `StrandedByWrites`, `GoesQuiet`, with one loop or two; `OnceWithoutFaults`, `CheckpointAdvances`: what remains true while calm |
| `push` | 3 connections, 2 users, 2 messages, log of 1 | 306,684 | `MapsAgree`, `Delivered`, `SilentIsDropped` |
| `assistant` | 3 chats, 1 deletion, 2 users, 2 counters, 1 fault | 296,145 | `CountersExpire`, `LockoutEnds`, `ExchangesOnRecord`; `DialogueSpec`: chats and deletions implement `Dialogue` |
| `payment_reuse` | two requests with one payment | violation | the idempotency check does not stop a payment from being used again (finding 1) |
| `fulfillment_atomic` | 1 purchase, 1 attempt | violation | the job is not atomic (finding 2) |
| `listing_key` | as `listing` | violation | a datapod can be on the market without a key (finding 3) |
| `push_callers` | as `push`, with the callers' fields | violation | no broadcast of the backend is ever sent (finding 4) |

**Why these bounds.** The code uses 3 attempts, 3 tries of the database block
(`RETRY_POLICIES`, two delays) and a concurrency of 5. A job starts at most
`Attempts + MaxStalls` runs, so with three runs for one purchase none is ever
wanting, and two live runs of one job, a retry after a failure and a retry after
a lost lock all occur. A second try of the block exhibits every re-application; a
third only moves the bound of `sales`. Two purchases with a single slot exhibit
waiting and crossing. In `listing` everything interesting happens among the calls
about one content, since rows of different contents never meet (one content; the
proofs take any number): one seller's two uploads allow a re-upload after a
clean-up, the other's a second owner, and the three publishes a double submission
beside a competitor. In `storefront` a scene is a set of calls that come together;
the seven hold every pair of handlers that touch the same row (two
reviewers of different purchases, twice the same buyer, a deletion beside a
review, the statistics job beside both, release, refund and fulfillment of one
purchase) and a reader of each kind of page; scenes keep independent calls from
multiplying. In `indexer`, too, a scene bounds events, loops and mishaps together:
in the first, two events make a page and a batch, the others arrive during its write,
and every kind of event is met; in the second a lost cache comes beside a failed read
and a crash or a refused batch; in the third a stop finds a poll, a start adds
a second loop (which counts as the mishap), and both handle the same two events, in
every order, as does a stop of both. `push`
needs two users and an unauthenticated connection, and two messages for a log of
one to overflow. In `assistant` two chats share a conversation, two users an
address, and the address' limit is exceeded. The proofs hold for every value of these constants.

**Fairness** (`FairSpec`). A live run goes on (`RunStep`): the event loop runs
every continuation, retries are bounded, Walrus requests and the wait for a
transaction have timeouts (`walrus.service.ts:39`, `blockchain.service.ts:548-600`),
after which they throw, which is a `RunStep` too. `STEP_TIMEOUTS`
(`fulfillment.job.ts:39`) is used nowhere: that a database query, and the sending of a
transaction, answers or throws is assumed of their clients. A free slot
takes a waiting job (`Take`). BullMQ's stalled check finds a job whose run is
dead (`LockLost`, only for dead runs; a live run losing its lock owes nothing).
Clients, the chain, disputes and crashes get no fairness: a sent transaction may
never be executed. `JobEnds` uses no fairness on any of them. Crashes stop being
harmful because every crash uses up a run and runs are bounded by attempts and
lost locks.

The other modules: in `Indexer` a poll loop goes on (`LoopStep`; every call
answers or throws, timers fire), and a transaction ends, committed or not; nothing
says that the chain emits, that a query finds anything, or that a stopped
indexer is started. `GoesQuiet` needs no more. In `Push` the heartbeat is a `setInterval`, and a closing socket
gets closed (`ws` destroys it). In `Assistant` calls end and Redis keeps its
clock (`WindowEnds` only for keys with an expiry). In `Storefront` only Redis'
expiry is fair: the handlers may stop anywhere.

**Deadlock** is not checked: a system whose requests are all answered and whose
jobs are all finished rightly stops (every cfg says so).

**Mutants.** Each property is paired with a mutated definition in the module it
belongs to (comments `Mutant of ...`) under which TLC refutes it. One mutation
that does *not* break anything is worth knowing: without the check
`status === 'pending'` in `validatePurchaseRequest`, all safety properties still
hold. The contract's own assertions are what prevents a second payment; the
check only saves work.

**Findings.**
1. `payment_reuse`: `buyer.controller.ts:569-578` looks for the payment digest in
   `txDigest`, where `:680` stores the digest of the purchase transaction. The
   check never matches.
2. `fulfillment_atomic`: `fulfillment.job.ts:701` calls the job an "ATOMIC
   operation". A release executed after the run gave up, or a crash before
   the database block, leaves a paid seller beside a pending purchase; a write
   that fails for good leaves a completed purchase with a held escrow record.
3. `listing_key`: `seller.controller.ts:142-143` stores the key "for fulfillment
   job", but the datapod is on the market (`:282`) before the row with the key is
   linked to it (`:304`). If the call fails in between, every purchase of the
   datapod is paid for and then fails at the worker's first step; publishing again
   cannot repair it, since the data hash is taken.
4. `push_callers`: `README.md:373` and `seller.controller.ts:333` announce real-time
   events. `broadcastEvent` validates an event with the schemas of the chain's
   events and drops it when they fail, with an error in the log that no caller sees,
   and all three callers use other field names (`seller_address` for `seller`,
   `price_sui` for `price`, `amount_sui` for `amount`). Nothing is pushed, and nothing
   gets into the list that `getRecentEvents` reads.

## 4. Proofs

All theorems are checked by `tlapm` with no omitted step. They assume only what
the modules declare: prices are positive naturals (both Move functions assert it),
parties are accounts, the trust is not one, a payment has a payer and an amount,
the bounds are naturals (`Attempts`, `DbTries`, `Concurrency` positive), and `None`
is no run.

`SuiEscrowProofs`: `SuiTypeCorrect`; `FundsAreConserved` (inductive together with
the types: `PayOut` is the only way coins leave an escrow, `PayWhole` says what it
leaves); `FundsRefinement` (each call maps to `Lock`, `Settle` or a stutter;
`MakeLocks`, `PaySettles`); `FinalVerdicts`.

`FulfillmentProofs`: the safety properties are not inductive on their own. That
a completed row shows the settled run's blob, for example, needs to know that a
run at the database block had its release executed, that at most one run of a
purchase has, and that the row was pending until then. `IInv` adds, for each
purchase, how far its handler has come against what is on record (`RequestInv`),
who may hold the job's lock (`JobInv`), and, for each run, what it has stored and
sent (`RunChainInv`), written (`RunWritesInv`) and counted (`RunSalesInv`).
`Invariance` proves it with one lemma per group of actions; TLC
was used to find it (`INVARIANT IInv` in `MCFulfillment.cfg` checks it); no run
states it, since the properties it implies are checked instead. From it follow `TypeCorrect`, `SellerIsPaidForDelivery`,
`CompletedMeansSettled`, `RecordsMeanFunds`, `SalesAreBounded` and
`DeliveryNeverChanges`. `BackendImplementsChain` maps every step of the backend
to a step of the contracts' backend specification, and `BackendKeepsFunds`
composes that with `FundsRefinement`: crashes, retries and second runs included,
a buyer's coins move only as `FundsInTrust` says. `BackendExchangesFairly` adds the
data. What the release transaction pays for is there when it is executed, because
the run that sent it had stored its blob and blobs stay (`RunChainInv`); there is
one such run for a purchase at most (`SettledOnce`), so that `Sold` never changes
once it is set (`SoldKept`, `SoldNow`); the row shows nothing before that
(`NothingShownEarly`, an invariant of its own) and then only that run's blob
(`RowsShow`). `ExchangeStep` splits a step by what it does to the chain, the
blobs and the row.

`ListingProofs`: `IInv` of `Listing` ties how far a publish has come to the rows
it has written (`PublishInv`), and both to the upload it was asked to publish
(`UploadInv`, `StagingInv`); `OnePublish` says that two publishes of a content are
never both past the creation of the row, which is what makes the answer "published"
lasting. A publish may be anywhere when the clean-up or another call runs, so the
proof rests on three frame lemmas: what stays true of a publish that does not move
(`StaysKept`), of one that does (`MovesKept`), and of all when one moves
(`OneMoves`). `ListingInvariance` gives `ListingTypeCorrect`, `ListedMeansBacked`,
`KeysFitBlobs`, `SuccessMeansSellable` and `ListingNeverChanges`. With the same
invariant `ListingKeepsMarket` maps each step to one of `Market`: the creation of the
row is `Offer` (`InsertIsOffer`), its link `Key` (`LinkIsKey`), the upload of the blob
`Keep`, the executed transaction `Endorse`, the answer `Tell`; all else is unseen
(`RestIsUnseen`), which for the clean-up rests on `KeyFitsBlob`: it takes no
linked row.

`SettlementProofs`: `SettlementInv` says, of a purchase on which no two calls have
crossed and none failed half-way, who its one writer is (`OneWriter`) and what the
two rows show at that point of its handler (`CallOwns`, `WorkerOwns`); with no
writer they tell one story from the first (`Settled`). This gives
`VerdictsNeverContradict`. `StorefrontProofs` takes it over, since a step of the
storefront is a step of `Settlement` or leaves its rows alone (`StorefrontVerdicts`).
`VerdictsNeverChange` needs in addition that what a row tells was written as a verdict
(`RowsTold`, by `OneRowWritten`): the one writer of such a purchase has written no
verdict but its own, so what it writes over a verdict repeats it.
`StorefrontVerdictsStay` takes it over.
`AverageStaysCurrent` needs `AverageInv`: whoever has read the ratings and not yet
stored the average either read what is there now or has been overtaken, which is
counted as a miss. `WhatIsShownWasEarned` needs `EarnedInv`: a handler that has found
its purchase released may write later, when the row may have been refunded, but the
verdict was written and is not forgotten; and what a handler or a reader has read was
earned when it read it.

`PushProofs`: `PushInv` is the types, `MapsAgree`, `Delivered` and `Silent`: a
connection that was never made has been sent nothing. `SendStep` handles every
kind of message at once; what remains is what opening and closing do to the maps.

`IndexerProofs`: `WriterKeepsOrder` is inductive beside the types, by the
associativity of concatenation. `CheckpointIsAccounted` needs `AccountInv`: every
checkpoint that a loop or a lag measurement holds is accounted for, too, and so is
each page up to where its loop is, which takes the bounds of the page (`PageInv`).
`StrandedByWrites` needs `TimerInv`: a timer is armed or has fired only with events in
the queue, and a queue without one, beside a batch, is full. These hold with any number
of loops. `OnceWithoutFaults` and `CheckpointAdvances` need `CalmInv`: while it is
calm one loop is alive (`OneLoop`); the cache is not behind the row, and not ahead of it
while somebody loads from the row and nobody saves (`Ordered`); and the loop is past
both, or holds what it saves, each at the awaits where the code relies on it
(`LoopInv`). The loops are first reduced to how a step moves the one that takes it and
leaves the others (`LoadMoves`, `LoopMoves`, `OtherMoves`, with `Within`, `Others` and
`Idle` for what stays), and each part of the invariant is then preserved by a lemma of
its own (`WriterStep`, `PageStep`, `StoreStep`, `RestStep`, `AccountStep`,
`TimerStep`). For `CalmInv` the only live loop sees it as `CalmAt`, and
`LoadCalm`, `LoopCalm`, `LagCalm`, `IdleCalm`, `StartCalm` and `CrashCalm` say in the same
breath that no checkpoint goes back. Assumed: `N` is a natural, `BatchSize` positive,
heights are naturals or `NaN`, the scenes keep to `N` and `Loops`, and `None` is
neither a checkpoint nor a loop, nor is `Lag` a loop.

What `OnceAndInOrder` and `CheckpointsAdvance` say is bounded by `calm`: they cover
crashes, lost caches, reorganisations, refused batches, and a start after the poll that
a stop interrupted has ended. They do not cover a start before that, which is a hazard
of its own (`event-listener.ts:107`).

`AssistantProofs`: `CountersExpire` is inductive beside the types. For
`ExchangesOnRecord`, `TalkInv` says of a request in flight that it names a
conversation of its user (`TargetsInv`), that what it showed to the model is a prefix
of it and that it has not created one before it got there (`ChatsInv`), and of an exchange on
record that its chat is done or failed in its reply (`RecordInv`), which is why no chat
is on record twice. Steps that only move requests are one lemma (`QuietStep`);
creating, opening, saving and deleting have one each. `AssistantKeepsDialogue` uses
them once more: `SilentStep` covers the steps that only close requests, and one lemma
each `Begin`, `Show`, `Add` and `Erase`. It needs one fact more, that a deletion which
has found its conversation still holds one of its own user (`DeletersInv`): the code
checks the owner once and deletes later.

Model-checked only: liveness (`JobEnds`, `GoesQuiet`, `SilentIsDropped`,
`LockoutEnds`, `PagesCatchUp`), which needs fairness and ENABLED, beyond the
prover's reach.

## 5. Not modelled, and the plan

Not modelled for good: HTTP parsing, authentication, logging, encryption
arithmetic, scripts, compiled contracts, the text of prompts and mails; the
indexer's monitoring (`indexer/monitoring`), its in-memory dead-letter list, which
nothing reads, and `datapod-writer.ts` and `purchase-writer.ts`, which nothing
calls; the notification job (mail) and the indexer-sync job, whose input is mock
data; `executePurchase`, `download.routes.ts` and other code no route reaches.
Rounding of prices (`buyer.controller.ts:581`) needs IEEE doubles.

Abstractions a reader should know of:

* Indexer: events are numbered by their place on the chain and a page starts after
  the checkpoint's number. The code gives the RPC a bare `eventSeq` as the cursor
  (`event-listener.ts:126`, saved at `:177`) and an array as `MoveEventType` (`:122`),
  where the RPC documents `{txDigest, eventSeq}` and one type, so that a node may refuse
  every query after the first checkpoint. What a node does is outside the repository: any
  query of the model may end its poll, nothing is promised about catching up, and what is
  promised holds of whatever pages are answered. One lag measurement runs at a
  time, and its read of the cache reaches Redis, over the one connection, before what
  the loops do next. Failed batches count as mishaps in the runs.
* Blobs: Walrus is asked to keep a blob for 5 epochs (`walrus.service.ts:93`,
  `storage.service.ts:95`) and nothing
  extends that. In `Listing` and `Fulfillment` a stored blob stays for ever: that a
  datapod is backed, or a completed purchase can be downloaded, is promised within
  those epochs only.
* Assistant: the log of a conversation is in the order of the commits. The code reads
  it by `createdAt` (`ai.service.ts:140`), which is given before the commit, so two
  exchanges saved at the same time may be read in the other order, or mixed.
  The instance gives the deletion and the second user no counters of their own; they
  would meet no other request there.
* Push: subscriptions are kept but `broadcastEvent` does not use them, nor does
  the model.
* Storefront: counts of sales, the order of lists and the seller's totals are
  left out, as is the cache key of browse, which lacks the sort order
  (`marketplace.controller.ts:65`).

Planned, in this order:
1. **Abstract specifications** of `Push` (mailboxes: what a client got is a part of what
   was sent to it, in order) and of `Indexer` (the feed: what is written is what the
   loops emitted, in order, again where a batch was), with their refinements.
2. **Statistics**: totals recomputed beside the worker's increments.
3. **Listing**: the object of `datapod.move` with its status and sales.
