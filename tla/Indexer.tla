------------------------------ MODULE Indexer -------------------------------
(***************************************************************************)
(* The chain indexer of src/indexer: the listener polls the chain for      *)
(* events after its checkpoint and emits them one by one, the batch writer *)
(* collects them in memory and writes them in transactions, and the        *)
(* checkpoint manager keeps the checkpoint in the cache and in the         *)
(* database.  Events are numbered in the order of the chain.               *)
(*                                                                         *)
(* A checkpoint is what the properties need of it: the last event and the  *)
(* height it was seen at.  Those who load it run beside each other, each   *)
(* from one await to the next: the measurement of the lag, and the poll    *)
(* loops.  There is more than one of these after a stop() during a poll and *)
(* a start() before that poll has ended.                                   *)
(***************************************************************************)
EXTENDS Integers, Sequences

CONSTANTS
    N,          \* the most events the chain emits
    Known,      \* those whose type the listener maps
    Height,     \* Height[e], parsed from the digest of e; NaN when that fails
    NaN,
    BatchSize,  \* events of one query, and of a full batch
    Loops,      \* the poll loops that can be alive at once
    Lag,        \* the lag measurement, of which one runs at a time
    Scenes,     \* bounds that are checked together: the events of the chain,
                \* the loops, the faults and mishaps (see below)
    None

Events == 1 .. N
Procs == Loops \union {Lag}

ASSUME IndexerAssumption ==
    /\ N \in Nat /\ Known \subseteq Events
    /\ NaN \notin Nat /\ Height \in [Events -> Nat \union {NaN}]
    /\ BatchSize \in Nat \ {0}
    /\ Lag \notin Loops \union {None}
    /\ Scenes \subseteq [events : 0 .. N, loops : SUBSET Loops, faults : Nat]
    /\ None \notin [last : 0 .. N, height : Nat] /\ None \notin Loops

VARIABLES
    cache, db,  \* the checkpoint in Redis, the row of indexer_checkpoints
    up,         \* isRunning of the indexer ...
    running,    \* ... and of its listener
    handle,     \* pollTimer: the loop whose timer was set last
    at,         \* the await each process is at
    aim,        \* what it loads the checkpoint for
    cp,         \* the checkpoint it has loaded, or is saving
    next, end,  \* the events each loop has fetched and not handled: next .. end
    queue,      \* eventQueue
    batch,      \* the events in a transaction; isProcessing when not empty
    timer,      \* batchTimer: "stale" when it fired and was not cleared
    closing,    \* a stop() waits for its flush
    pending,    \* the events this process emitted and does not know to be
                \* written, as they were emitted
    top,        \* the last event it emitted
    written,    \* events ever written
    passed,     \* events the listener has skipped
    lost,       \* events that were in memory when the process died
    calm,       \* no call has failed, no measurement of the lag was late (see
                \* Stale) and no start met a live loop
    faults,     \* the faults and mishaps so far
    scene       \* the bounds of this behaviour

stored == <<cache, db>>
listener == <<running, handle>>
page == <<aim, next, end>>
writer == <<queue, batch, timer>>
emitted == <<pending, top>>
elsewhere == <<up, closing, written, lost, scene>>
vars == <<elsewhere, stored, listener, at, page, cp, writer, emitted, passed, calm, faults>>

Checkpoint == [last : 0 .. N, height : Nat]
Initial == [last |-> 0, height |-> 0]

Elements(s) == {s[i] : i \in 1 .. Len(s)}
InMemory == Elements(batch) \union Elements(queue)

Loading == {"cache", "row", "fill", "reset", "resetDb"}
Saving == {"save", "saveReorg"}

TypeOK ==
    /\ cache \in Checkpoint \union {None} /\ db \in Checkpoint \union {None}
    /\ up \in BOOLEAN /\ running \in BOOLEAN /\ closing \in BOOLEAN
    /\ handle \in Loops \union {None}
    /\ at \in [Procs -> Loading \union Saving \union {"off", "sleep", "query", "event", "update"}]
    /\ aim \in [Procs -> {"off", "query", "event", "update"}]
    /\ cp \in [Procs -> Checkpoint]
    /\ next \in [Loops -> 1 .. N + 1] /\ end \in [Loops -> 0 .. N]
    /\ queue \in Seq(Events) /\ batch \in Seq(Events)
    /\ timer \in {"none", "armed", "stale"}
    /\ pending \in Seq(Events) /\ top \in 0 .. N
    /\ written \subseteq Events /\ passed \subseteq Events /\ lost \subseteq Events
    /\ calm \in BOOLEAN
    /\ faults \in Nat /\ scene \in Scenes

Init ==
    /\ cache = None /\ db = None
    /\ up = FALSE /\ running = FALSE /\ closing = FALSE /\ handle = None
    /\ at = [p \in Procs |-> "off"] /\ aim = [p \in Procs |-> "off"]
    /\ cp = [p \in Procs |-> Initial]
    /\ next = [l \in Loops |-> 1] /\ end = [l \in Loops |-> 0]
    /\ queue = <<>> /\ batch = <<>> /\ timer = "none"
    /\ pending = <<>> /\ top = 0
    /\ written = {} /\ passed = {} /\ lost = {}
    /\ calm = TRUE /\ faults = 0 /\ scene \in Scenes

-----------------------------------------------------------------------------
(* A fault is a call that fails, or a start beside a live loop.  A mishap is *)
(* a crash, a batch that fails, or the loss of the cached checkpoint.      *)

Mishap == faults < scene.faults /\ faults' = faults + 1
Fault == Mishap /\ calm' = FALSE
FaultIf(b) == IF b THEN Fault ELSE UNCHANGED <<calm, faults>>

-----------------------------------------------------------------------------
(* The batch writer.  Flush(q) is flush() with q in eventQueue: it returns *)
(* at once when there is nothing or a batch is being written, and leaves   *)
(* the timer as it was (t) when it does.                                   *)

\* Mutant of Flush: the timer of a flush that starts is not cleared.
FlushKeepsTimer(q, t) ==
    /\ timer' = t
    /\ IF q = <<>> \/ batch # <<>>
       THEN queue' = q /\ UNCHANGED batch
       ELSE queue' = <<>> /\ batch' = q

Flush(q, t) ==
    IF q = <<>> \/ batch # <<>>
    THEN queue' = q /\ timer' = t /\ UNCHANGED batch
    ELSE queue' = <<>> /\ timer' = "none" /\ batch' = q

AddEvent(e) ==
    LET q == Append(queue, e)
    IN  IF Len(q) >= BatchSize
        THEN Flush(q, timer)
        ELSE /\ queue' = q
             /\ timer' = IF timer = "none" THEN "armed" ELSE timer
             /\ UNCHANGED batch

TimerFires ==
    /\ timer = "armed"
    /\ Flush(queue, "stale")
    /\ UNCHANGED <<elsewhere, stored, listener, at, page, cp, emitted, passed, calm, faults>>

(* The listener's stop() clears the timer that was set last.               *)
Cleared == [p \in Procs |-> IF p = handle /\ at[p] = "sleep" THEN "off" ELSE at[p]]

(* The rest of stop(), once its flush has returned.                        *)
StopListener == up' = FALSE /\ running' = FALSE /\ handle' = None /\ at' = Cleared

(* The transaction ends; a stop() that waits for it goes on, and stops also *)
(* a listener that was stopped by another one and started again meanwhile. *)
BatchEnds ==
    /\ batch # <<>>
    /\ batch' = <<>> /\ closing' = FALSE
    /\ IF closing THEN StopListener ELSE UNCHANGED <<up, listener, at>>
    /\ UNCHANGED <<lost, scene, stored, page, cp, timer, top, passed, calm>>

(* An event that its own parser rejects is written as nothing.             *)
BatchCommits ==
    /\ BatchEnds
    /\ pending' = SubSeq(pending, Len(batch) + 1, Len(pending))
    /\ written' = written \union Elements(batch)
    /\ UNCHANGED <<queue, faults>>

\* Mutant of BatchFails: the batch goes to the end of the queue.
BatchGoesLast ==
    /\ BatchEnds /\ Mishap
    /\ queue' = queue \o batch
    /\ written' \in {written, written \union Elements(batch)}
    /\ UNCHANGED pending

(* The database refuses an event of the batch, or fails: nothing of it is  *)
(* written; or it commits and the answer is lost.  All of it goes back.    *)
BatchFails ==
    /\ BatchEnds /\ Mishap
    /\ queue' = batch \o queue
    /\ written' \in {written, written \union Elements(batch)}
    /\ UNCHANGED pending

-----------------------------------------------------------------------------
(* An hour without a save, or Redis restarts empty.                        *)
CacheExpires ==
    /\ cache # None /\ Mishap
    /\ cache' = None
    /\ UNCHANGED <<elsewhere, db, listener, at, page, cp, writer, emitted, passed, calm>>

-----------------------------------------------------------------------------
(* The end of a poll, of an event and of a page.  What a process leaves    *)
(* behind on its stack is forgotten.                                       *)

Alive(l) == at[l] # "off"

(* Where a loop is, or is going to be when it has the checkpoint.          *)
Place(l) == IF at[l] \in Loading THEN aim[l] ELSE at[l]

LoadFor(l, what) ==
    /\ at' = [at EXCEPT ![l] = "cache"]
    /\ aim' = [aim EXCEPT ![l] = what]
    /\ cp' = [cp EXCEPT ![l] = Initial]

(* Every poll that has begun sets the timer for another one.               *)
Sleep(l, others) ==
    /\ handle' = l
    /\ at' = [others EXCEPT ![l] = "sleep"]
    /\ aim' = [aim EXCEPT ![l] = "query"]
    /\ cp' = [cp EXCEPT ![l] = Initial]
    /\ next' = [next EXCEPT ![l] = 1] /\ end' = [end EXCEPT ![l] = 0]

(* When a page is done the lag is measured.  Its read of the cache reaches *)
(* Redis, over the one connection, before anything that the loops do next; *)
(* one that hits, and a measurement while one is running, leave nothing.   *)
Measured(fails) ==
    [at EXCEPT ![Lag] = IF @ = "off" /\ (fails \/ cache = None) THEN "row" ELSE @]

(* An event that was not emitted has been passed over.                     *)
NextEvent(l, failed) ==
    /\ passed' = IF Place(l) \in {"event", "saveReorg"} THEN passed \union {next[l]} ELSE passed
    /\ \/ /\ next[l] < end[l]
          /\ next' = [next EXCEPT ![l] = @ + 1]
          /\ LoadFor(l, "event")
          /\ FaultIf(failed)
          /\ UNCHANGED <<handle, end>>
       \/ /\ next[l] >= end[l]
          /\ \E fails \in BOOLEAN : Sleep(l, Measured(fails)) /\ FaultIf(failed \/ fails)
    /\ UNCHANGED running

(* An exception: a critical one stops the listener and leaves the page, and  *)
(* any other one only costs the event.                                     *)
Throws(l) ==
    \/ NextEvent(l, TRUE)
    \/ running' = FALSE /\ Sleep(l, Cleared) /\ Fault /\ UNCHANGED passed

-----------------------------------------------------------------------------
(* loadCheckpoint.  A database that cannot be read is taken for one without *)
(* a row, and a fresh checkpoint then replaces the row.                    *)

Return(p, c) ==
    /\ at' = [at EXCEPT ![p] = aim[p]]
    /\ cp' = [cp EXCEPT ![p] = IF p = Lag THEN Initial ELSE c]

ReadCache(p) ==
    /\ at[p] = "cache"
    /\ \/ /\ cache # None
          /\ Return(p, cache)
          /\ UNCHANGED <<calm, faults>>
       \/ /\ FaultIf(cache # None)
          /\ at' = [at EXCEPT ![p] = "row"] /\ UNCHANGED cp
    /\ UNCHANGED <<elsewhere, stored, listener, page, writer, emitted, passed>>

ReadRow(p) ==
    /\ at[p] = "row"
    /\ \/ /\ db # None
          /\ cp' = [cp EXCEPT ![p] = db] /\ at' = [at EXCEPT ![p] = "fill"]
          /\ UNCHANGED <<calm, faults>>
       \/ /\ FaultIf(db # None)
          /\ cp' = [cp EXCEPT ![p] = Initial] /\ at' = [at EXCEPT ![p] = "reset"]
    /\ UNCHANGED <<elsewhere, stored, listener, page, writer, emitted, passed>>

(* Older than the row, or than what a loop is saving.  A measurement that  *)
(* puts such a checkpoint somewhere is late.                               *)
Last(c) == IF c = None THEN 0 ELSE c.last
Stale(c) ==
    \/ Last(c) < Last(db)
    \/ \E l \in Loops : at[l] \in Saving /\ Last(c) < Last(cp[l])
InTime(p) == p # Lag \/ ~Stale(cp[p])

Put(c, intime) ==
    \/ cache' = c /\ calm' = (calm /\ intime) /\ UNCHANGED faults
    \/ UNCHANGED cache /\ Fault

FillCache(p) ==
    /\ at[p] \in {"fill", "reset"}
    /\ Put(cp[p], InTime(p))
    /\ IF at[p] = "fill"
       THEN Return(p, cp[p])
       ELSE at' = [at EXCEPT ![p] = "resetDb"] /\ UNCHANGED cp
    /\ UNCHANGED <<elsewhere, db, listener, page, writer, emitted, passed>>

ResetDb(p) ==
    /\ at[p] = "resetDb"
    /\ db' = cp[p] /\ calm' = (calm /\ InTime(p))
    /\ Return(p, cp[p])
    /\ UNCHANGED <<elsewhere, cache, listener, page, writer, emitted, passed, faults>>

(* The only call that makes loadCheckpoint throw; it may have been applied. *)
ResetFails(p) ==
    /\ at[p] = "resetDb"
    /\ db' \in {cp[p], db}
    /\ \/ aim[p] = "off" /\ Return(p, Initial) /\ Fault /\ UNCHANGED <<listener, page, passed>>
       \/ aim[p] = "query" /\ Sleep(p, at) /\ Fault /\ UNCHANGED <<running, passed>>
       \/ aim[p] \in {"event", "update"} /\ Throws(p)
    /\ UNCHANGED <<elsewhere, cache, writer, emitted>>

-----------------------------------------------------------------------------
(* A poll loop.                                                            *)

(* The listener is not running when the indexer is not up; but a loop may  *)
(* be alive, when a stop() found it in a poll.                             *)
StartListener(l) ==
    /\ running' = TRUE
    /\ LoadFor(l, "query")
    /\ FaultIf(\E k \in Loops : Alive(k))

Start(l) ==
    /\ ~up /\ up' = TRUE
    /\ l \in scene.loops /\ ~Alive(l)
    /\ StartListener(l)
    /\ UNCHANGED <<closing, written, lost, scene, stored, handle, next, end, writer, emitted,
                   passed>>

(* stop() flushes first, and waits only for a batch that it started.       *)
Stop ==
    /\ up
    /\ Flush(queue, timer)
    /\ IF queue # <<>> /\ batch = <<>>
       THEN closing' = TRUE /\ UNCHANGED <<up, listener, at>>
       ELSE StopListener /\ UNCHANGED closing
    /\ UNCHANGED <<written, lost, scene, stored, page, cp, emitted, passed, calm, faults>>

\* Mutant of Poll: a timer that fires polls whether the listener runs or not.
PollAnyway(l) ==
    /\ at[l] = "sleep"
    /\ LoadFor(l, "query")
    /\ UNCHANGED <<elsewhere, stored, listener, next, end, writer, emitted, passed, calm, faults>>

Poll(l) ==
    /\ at[l] = "sleep" /\ running
    /\ LoadFor(l, "query")
    /\ UNCHANGED <<elsewhere, stored, listener, next, end, writer, emitted, passed, calm, faults>>

(* The timer of a loop that a stop() did not find asleep.                  *)
PollsNoMore(l) ==
    /\ at[l] = "sleep" /\ ~running
    /\ at' = [at EXCEPT ![l] = "off"]
    /\ UNCHANGED <<elsewhere, stored, listener, page, cp, writer, emitted, passed, calm, faults>>

\* Mutant of QueryAnswers: a page is taken for full.
QueryIsFull(l) ==
    /\ at[l] = "query"
    /\ next' = [next EXCEPT ![l] = cp[l].last + 1]
    /\ end' = [end EXCEPT ![l] = cp[l].last + BatchSize]
    /\ LoadFor(l, "event")
    /\ UNCHANGED <<elsewhere, stored, listener, writer, emitted, passed, calm, faults>>

(* A page of what the chain has emitted after the checkpoint.              *)
QueryAnswers(l) ==
    /\ at[l] = "query"
    /\ next' = [next EXCEPT ![l] = cp[l].last + 1]
    /\ \E e \in cp[l].last + 1 .. scene.events :
          /\ e <= cp[l].last + BatchSize
          /\ end' = [end EXCEPT ![l] = e]
    /\ LoadFor(l, "event")
    /\ UNCHANGED <<elsewhere, stored, listener, writer, emitted, passed, calm, faults>>

(* Nothing new, or every one of executeWithRetry's attempts has failed, or *)
(* the node does not take the filter or the cursor (it documents others).  *)
QueryEndsPoll(l) ==
    /\ at[l] = "query"
    /\ Sleep(l, at)
    /\ UNCHANGED <<elsewhere, stored, running, writer, emitted, passed, calm, faults>>

(* The height of an event went backwards; NaN compares as false ...        *)
Backwards(e, c) == Height[e] # NaN /\ Height[e] < c.height

(* ... and becomes null in the JSON of a checkpoint, which compares as 0.  *)
StoredHeight(e) == IF Height[e] = NaN THEN 0 ELSE Height[e]

\* Mutant of ReorgSeen: the indexer starts over from the first event.
ReorgStartsOver(l) ==
    /\ at[l] = "event" /\ Backwards(next[l], cp[l])
    /\ cp' = [cp EXCEPT ![l] = [last |-> 0, height |-> Height[next[l]]]]
    /\ Put(cp'[l], TRUE)
    /\ at' = [at EXCEPT ![l] = "saveReorg"]
    /\ UNCHANGED <<elsewhere, db, listener, page, writer, emitted, passed>>

ReorgSeen(l) ==
    /\ at[l] = "event" /\ Backwards(next[l], cp[l])
    /\ cp' = [cp EXCEPT ![l].height = Height[next[l]]]
    /\ Put(cp'[l], TRUE)
    /\ at' = [at EXCEPT ![l] = "saveReorg"]
    /\ UNCHANGED <<elsewhere, db, listener, page, writer, emitted, passed>>

(* parseEvent finds the type of the event in eventTypeMap.                 *)
Parses(e) == e \in Known

SkipUnknown(l) ==
    /\ at[l] = "event" /\ ~Backwards(next[l], cp[l])
    /\ ~Parses(next[l])
    /\ NextEvent(l, FALSE)
    /\ UNCHANGED <<elsewhere, stored, writer, emitted>>

Emit(l) ==
    /\ at[l] = "event" /\ ~Backwards(next[l], cp[l])
    /\ Parses(next[l])
    /\ pending' = Append(pending, next[l]) /\ top' = next[l]
    /\ AddEvent(next[l])
    /\ LoadFor(l, "update")
    /\ UNCHANGED <<elsewhere, stored, listener, next, end, passed, calm, faults>>

\* Mutant of UpdateCheckpoint: it saves the end of the page.
UpdateToPageEnd(l) ==
    /\ at[l] = "update"
    /\ cp' = [cp EXCEPT ![l] = [last |-> end[l], height |-> StoredHeight(next[l])]]
    /\ Put(cp'[l], TRUE)
    /\ at' = [at EXCEPT ![l] = "save"]
    /\ UNCHANGED <<elsewhere, db, listener, page, writer, emitted, passed>>

UpdateCheckpoint(l) ==
    /\ at[l] = "update"
    /\ cp' = [cp EXCEPT ![l] = [last |-> next[l], height |-> StoredHeight(next[l])]]
    /\ Put(cp'[l], TRUE)
    /\ at' = [at EXCEPT ![l] = "save"]
    /\ UNCHANGED <<elsewhere, db, listener, page, writer, emitted, passed>>

\* Mutant of SaveToDb: the checkpoint is kept in the cache alone.
SaveNowhere(l) ==
    /\ at[l] \in Saving
    /\ NextEvent(l, FALSE)
    /\ UNCHANGED <<elsewhere, stored, writer, emitted>>

SaveToDb(l) ==
    /\ at[l] \in Saving
    /\ db' = cp[l]
    /\ NextEvent(l, FALSE)
    /\ UNCHANGED <<elsewhere, cache, writer, emitted>>

SaveFails(l) ==
    /\ at[l] \in Saving
    /\ db' \in {cp[l], db}
    /\ Throws(l)
    /\ UNCHANGED <<elsewhere, cache, writer, emitted>>

(* The process dies.  What it has in memory is gone.                       *)
Crash ==
    /\ Mishap
    /\ lost' = lost \union InMemory
    /\ up' = FALSE /\ running' = FALSE /\ closing' = FALSE /\ handle' = None
    /\ at' = [p \in Procs |-> "off"] /\ aim' = [p \in Procs |-> "off"]
    /\ cp' = [p \in Procs |-> Initial]
    /\ next' = [l \in Loops |-> 1] /\ end' = [l \in Loops |-> 0]
    /\ queue' = <<>> /\ batch' = <<>> /\ timer' = "none"
    /\ pending' = <<>> /\ top' = 0
    /\ UNCHANGED <<stored, written, passed, calm, scene>>

-----------------------------------------------------------------------------
LoadStep(p) == ReadCache(p) \/ ReadRow(p) \/ FillCache(p) \/ ResetDb(p) \/ ResetFails(p)

LoopStep(l) ==
    \/ LoadStep(l)
    \/ Poll(l) \/ PollsNoMore(l) \/ QueryAnswers(l) \/ QueryEndsPoll(l)
    \/ ReorgSeen(l) \/ SkipUnknown(l) \/ Emit(l)
    \/ UpdateCheckpoint(l) \/ SaveToDb(l) \/ SaveFails(l)

LagStep == LoadStep(Lag)

WriteStep == TimerFires \/ BatchCommits \/ BatchFails

Next ==
    \/ CacheExpires \/ Stop
    \/ \E l \in Loops : Start(l) \/ LoopStep(l)
    \/ LagStep \/ WriteStep \/ Crash

Spec == Init /\ [][Next]_vars

(* A loop that waits for an answer gets one or an error, timers fire and   *)
(* transactions end, well or badly: what Node and the drivers of database, *)
(* cache and chain give, and the bounded retries of executeWithRetry.      *)
(* Nothing says that events keep coming or that a query finds any.         *)
FairSpec ==
    /\ Spec
    /\ \A l \in Loops : WF_vars(LoopStep(l))
    /\ WF_vars(BatchCommits \/ BatchFails)

-----------------------------------------------------------------------------
(* Properties.                                                             *)

(* An event at or before a checkpoint, in the cache or in the database, was *)
(* written, or is on its way in memory, or was lost with the memory of a   *)
(* process that died, or was passed over by the listener: the checkpoint   *)
(* runs ahead of the tables in no other way, with two poll loops either.   *)
CheckpointIsAccounted ==
    \A c \in {cache, db} \ {None} :
        1 .. c.last \subseteq written \union InMemory \union lost \union passed

(* Every event emitted since the process started is known to be written, or *)
(* in a batch or queued, in the order it was emitted and as often, whatever  *)
(* batches fail and whatever arrives during a write.                       *)
WriterKeepsOrder == pending = batch \o queue

(* The events of a process are emitted at most once and in the order of the *)
(* chain, unless a call failed, or a lag measurement was late, or a start()  *)
(* met a poll that a stop() had not ended: then two loops run, and emit    *)
(* events again without any failure.                                       *)
OnceWithoutFaults ==
    [][\A l \in Loops : Emit(l) /\ calm => next[l] > top]_vars

(* Under the same provisos no checkpoint is ever replaced by an earlier one, *)
(* in the cache or in the database, whatever is polled, reorganised, lost  *)
(* from the cache or crashes: no event that it has passed is read again.   *)
NotBefore(c, d) == c # None /\ d # None => c.last >= d.last
CheckpointAdvances ==
    [][calm' =>
          /\ NotBefore(cache', cache) /\ NotBefore(db', db)
          /\ db # None => db' # None]_vars

(* A listener that is stopped for good, be it by a stop() that still waits *)
(* for its flush, goes quiet: every loop ends, also one that was in a poll *)
(* or whose timer was not the last to be set, and however many there are.  *)
GoesQuiet ==
    <>[](~running \/ closing) => <>[](\A l \in Loops : ~Alive(l))

(* Events that are queued, with no batch being written and no timer that   *)
(* will fire, wait for the next event to come or for a stop.  "Re-queue    *)
(* events for retry" (batch-writer.ts:108) leaves a failed batch so; and so  *)
(* does a batch that was being written when the timer fired, or when a full  *)
(* batch had gathered.  Nothing else does.                                 *)
Stranded == queue # <<>> /\ batch = <<>> /\ timer # "armed"
StrandedByWrites ==
    [][~Stranded /\ Stranded' =>
          BatchFails \/ (BatchCommits /\ (timer = "stale" \/ Len(queue) >= BatchSize))]_vars
=============================================================================
