--------------------------- MODULE IndexerProofs ----------------------------
(***************************************************************************)
(* What the indexer keeps, for any number of events and of poll loops, any *)
(* heights and batch sizes, and any number of faults.  The writer needs no *)
(* more than the types of its sequences; the checkpoint needs to know how  *)
(* far each loop has got (AccountInv); the timer, what it leaves in the    *)
(* queue (TimerInv); and the order of the events, what cache, row and the  *)
(* one loop say of each other while nothing has failed (CalmInv).          *)
(***************************************************************************)
EXTENDS Indexer, SequenceTheorems, TLAPS

Handled == written \union InMemory \union lost \union passed

(* The measurement of the lag loads for itself; a loop that handles a page *)
(* is not past its end.                                                    *)
OnPage == {"event", "update", "save", "saveReorg"}
PageInv ==
    /\ aim[Lag] = "off"
    /\ \A l \in Loops : Place(l) \in OnPage => next[l] <= end[l]

(* Every checkpoint anywhere, and each page up to where its loop is.       *)
AccountInv ==
    /\ \A c \in {cache, db} : c # None => 1 .. c.last \subseteq Handled
    /\ \A p \in Procs : 1 .. cp[p].last \subseteq Handled
    /\ \A l \in Loops : Place(l) \in {"event", "saveReorg"} => 1 .. next[l] - 1 \subseteq Handled
    /\ \A l \in Loops : Place(l) \in {"update", "save"} => 1 .. next[l] \subseteq Handled

TimerInv ==
    /\ timer # "none" => queue # <<>>
    /\ timer = "none" /\ queue # <<>> /\ batch # <<>> => Len(queue) >= BatchSize

(* While it is calm there is one loop.  The cache is not behind the row, and *)
(* not ahead of it either while somebody loads from the row and nobody     *)
(* saves; nothing that was emitted is after the row but what is being saved. *)
OneLoop == \A k, l \in Loops : Alive(k) /\ Alive(l) => k = l

Readers == {"row", "fill", "reset", "resetDb"}

LoopInv(l) ==
    /\ at[l] \in {"query", "event"} => cp[l].last >= Last(cache) /\ cp[l].last >= Last(db)
    /\ Place(l) \in {"event", "update"} => next[l] > Last(cache) /\ next[l] > Last(db)
    /\ Place(l) = "update" => top <= next[l]
    /\ at[l] = "event" => cp[l].last < next[l]
    /\ at[l] \in Saving =>
          Last(db) <= cp[l].last /\ (cache # None => Last(cache) = cp[l].last)
    /\ at[l] = "saveReorg" => cp[l].last < next[l]
    /\ at[l] = "save" => cp[l].last = next[l] /\ top <= next[l]
    /\ at[l] \in {"fill", "reset", "resetDb"} => cp[l].last = Last(db)

Ordered ==
    /\ cache # None => Last(cache) >= Last(db)
    /\ (\A l \in Loops : at[l] \notin Saving) =>
          \A p \in Procs : at[p] \in Readers => Last(cache) <= Last(db)
    /\ at[Lag] \in {"fill", "reset", "resetDb"} => cp[Lag].last <= Last(db)
    /\ (\A l \in Loops : Place(l) \notin {"update", "save"}) => top <= Last(db)

Calmly == OneLoop /\ Ordered /\ \A l \in Loops : LoopInv(l)
CalmInv == calm => Calmly

IndexerInv == TypeOK /\ WriterKeepsOrder /\ PageInv /\ AccountInv /\ TimerInv /\ CalmInv

-----------------------------------------------------------------------------
(* Types, by the part of the indexer they belong to.                       *)
WriterOK ==
    /\ queue \in Seq(Events) /\ batch \in Seq(Events) /\ timer \in {"none", "armed", "stale"}
    /\ pending \in Seq(Events)

Awaits == Loading \union Saving \union {"off", "sleep", "query", "event", "update"}
Aims == {"off", "query", "event", "update"}

PageOK ==
    /\ at \in [Procs -> Awaits] /\ aim \in [Procs -> Aims]
    /\ next \in [Loops -> 1 .. N + 1] /\ end \in [Loops -> 0 .. N]

StoreOK ==
    /\ cache \in Checkpoint \union {None} /\ db \in Checkpoint \union {None}
    /\ cp \in [Procs -> Checkpoint]

RestOK ==
    /\ up \in BOOLEAN /\ running \in BOOLEAN /\ closing \in BOOLEAN /\ calm \in BOOLEAN
    /\ handle \in Loops \union {None} /\ top \in 0 .. N
    /\ written \subseteq Events /\ passed \subseteq Events /\ lost \subseteq Events
    /\ faults \in Nat /\ scene \in Scenes

LEMMA PartsOfType ==
    ASSUME TypeOK
    PROVE  WriterOK /\ PageOK /\ StoreOK /\ RestOK
BY DEF TypeOK, WriterOK, PageOK, StoreOK, RestOK, Awaits, Aims

LEMMA TypeOfParts ==
    ASSUME WriterOK', PageOK', StoreOK', RestOK'
    PROVE  TypeOK'
BY DEF TypeOK, WriterOK, PageOK, StoreOK, RestOK, Awaits, Aims

LEMMA Constants ==
    /\ None \notin Checkpoint /\ Initial \in Checkpoint /\ Initial.last = 0
    /\ N \in Nat /\ Lag \in Procs /\ Lag \notin Loops /\ Loops \subseteq Procs
    /\ \A S \in Scenes : S.events \in 0 .. N /\ S.loops \subseteq Loops
BY IndexerAssumption DEF Checkpoint, Initial, Procs

-----------------------------------------------------------------------------
(* The batch writer.                                                       *)
LEMMA ElementsOf ==
    ASSUME NEW s \in Seq(Events), NEW t \in Seq(Events)
    PROVE  Elements(s \o t) = Elements(s) \union Elements(t)
<1>1. /\ Len(s) \in Nat /\ Len(t) \in Nat /\ Len(s \o t) = Len(s) + Len(t)
      /\ \A i \in 1 .. Len(s) + Len(t) :
            (s \o t)[i] = IF i <= Len(s) THEN s[i] ELSE t[i - Len(s)]
  BY ConcatProperties, LenProperties
<1>2. Elements(s \o t) \subseteq Elements(s) \union Elements(t)
  <2> SUFFICES ASSUME NEW i \in 1 .. Len(s) + Len(t)
               PROVE  (s \o t)[i] \in Elements(s) \union Elements(t)
    BY <1>1 DEF Elements
  <2>1. i \in 1 .. Len(s) \/ i - Len(s) \in 1 .. Len(t)
    BY <1>1
  <2> QED
    BY <1>1, <2>1 DEF Elements
<1>3. Elements(s) \subseteq Elements(s \o t)
  BY <1>1 DEF Elements
<1>4. Elements(t) \subseteq Elements(s \o t)
  <2> SUFFICES ASSUME NEW i \in 1 .. Len(t)
               PROVE  t[i] \in Elements(s \o t)
    BY DEF Elements
  <2>1. /\ i + Len(s) \in 1 .. Len(s) + Len(t) /\ ~(i + Len(s) <= Len(s))
        /\ (i + Len(s)) - Len(s) = i
    BY <1>1
  <2> QED
    BY <1>1, <2>1 DEF Elements
<1> QED
  BY <1>2, <1>3, <1>4

LEMMA FlushKeeps ==
    ASSUME NEW q \in Seq(Events), batch \in Seq(Events),
           NEW t \in {"none", "armed", "stale"}, Flush(q, t)
    PROVE  /\ queue' \in Seq(Events) /\ batch' \in Seq(Events)
           /\ timer' \in {"none", "armed", "stale"}
           /\ batch' \o queue' = batch \o q
           /\ Elements(batch') \union Elements(queue') = Elements(batch) \union Elements(q)
<1>1. /\ queue' \in Seq(Events) /\ batch' \in Seq(Events)
      /\ timer' \in {"none", "armed", "stale"}
  BY EmptySeq DEF Flush
<1>2. batch' \o queue' = batch \o q
  BY ConcatEmptySeq DEF Flush
<1>3. /\ Elements(batch' \o queue') = Elements(batch') \union Elements(queue')
      /\ Elements(batch \o q) = Elements(batch) \union Elements(q)
  BY <1>1, ElementsOf, Zenon
<1> QED
  BY <1>1, <1>2, <1>3, Zenon

LEMMA AddKeeps ==
    ASSUME WriterOK, NEW e \in Events, AddEvent(e)
    PROVE  /\ queue' \in Seq(Events) /\ batch' \in Seq(Events)
           /\ timer' \in {"none", "armed", "stale"}
           /\ batch' \o queue' = batch \o Append(queue, e)
           /\ Elements(batch') \union Elements(queue') = InMemory \union {e}
<1> DEFINE q == Append(queue, e)
<1>1. q \in Seq(Events) /\ Elements(q) = Elements(queue) \union {e}
  <2>1. /\ q \in Seq(Events) /\ Len(q) = Len(queue) + 1 /\ Len(queue) \in Nat
        /\ (\A i \in 1 .. Len(queue) : q[i] = queue[i]) /\ q[Len(queue) + 1] = e
    BY AppendProperties, LenProperties DEF WriterOK
  <2> HIDE DEF q
  <2>2. \A i \in 1 .. Len(q) : i \in 1 .. Len(queue) \/ i = Len(queue) + 1
    BY <2>1
  <2>3. Len(queue) + 1 \in 1 .. Len(q) /\ \A i \in 1 .. Len(queue) : i \in 1 .. Len(q)
    BY <2>1
  <2>4. Elements(q) \subseteq Elements(queue) \union {e}
    BY <2>1, <2>2 DEF Elements
  <2>5. Elements(queue) \union {e} \subseteq Elements(q)
    BY <2>1, <2>3 DEF Elements
  <2> QED
    BY <2>1, <2>4, <2>5
<1>2. /\ queue' \in Seq(Events) /\ batch' \in Seq(Events)
      /\ timer' \in {"none", "armed", "stale"}
      /\ batch' \o queue' = batch \o q
      /\ Elements(batch') \union Elements(queue') = Elements(batch) \union Elements(q)
  <2>1. CASE Flush(q, timer)
    BY <1>1, <2>1, FlushKeeps DEF WriterOK
  <2>2. CASE queue' = q /\ timer' = (IF timer = "none" THEN "armed" ELSE timer) /\ UNCHANGED batch
    BY <1>1, <2>2 DEF WriterOK
  <2> QED
    BY <2>1, <2>2 DEF AddEvent
<1> QED
  BY <1>1, <1>2 DEF InMemory

LEMMA Regroup ==
    \A a, b, c \in Seq(Events) : (a \o b) \o c = a \o (b \o c)
BY ConcatAssociative

LEMMA RegroupAppend ==
    ASSUME NEW a \in Seq(Events), NEW b \in Seq(Events), NEW e \in Events
    PROVE  Append(a \o b, e) = a \o Append(b, e)
<1>1. a \o b \in Seq(Events) /\ <<e>> \in Seq(Events)
  BY ConcatProperties
<1>2. Append(a \o b, e) = (a \o b) \o <<e>>
  BY <1>1, AppendIsConcat
<1>3. Append(b, e) = b \o <<e>>
  BY AppendIsConcat
<1>4. (a \o b) \o <<e>> = a \o (b \o <<e>>)
  BY <1>1, Regroup, Zenon
<1> QED
  BY <1>2, <1>3, <1>4, Zenon

(* What remains of a sequence without its first part.                      *)
LEMMA RestOfConcat ==
    ASSUME NEW a \in Seq(Events), NEW b \in Seq(Events)
    PROVE  SubSeq(a \o b, Len(a) + 1, Len(a \o b)) = b
<1> DEFINE s == a \o b
<1> DEFINE r == SubSeq(s, Len(a) + 1, Len(s))
<1>1. /\ s \in Seq(Events) /\ Len(s) = Len(a) + Len(b) /\ Len(a) \in Nat /\ Len(b) \in Nat
      /\ \A i \in 1 .. Len(a) + Len(b) : s[i] = IF i <= Len(a) THEN a[i] ELSE b[i - Len(a)]
  BY ConcatProperties, LenProperties
<1> HIDE DEF s
<1>2. /\ r \in Seq(Events)
      /\ Len(r) = IF Len(a) + 1 <= Len(s) THEN Len(s) - (Len(a) + 1) + 1 ELSE 0
      /\ \A i \in 1 .. Len(s) - (Len(a) + 1) + 1 : r[i] = s[Len(a) + 1 + i - 1]
  BY <1>1, SubSeqProperties
<1> HIDE DEF r
<1>3. Len(r) = Len(b)
  BY <1>1, <1>2
<1>4. \A i \in 1 .. Len(r) : r[i] = b[i]
  <2> SUFFICES ASSUME NEW i \in 1 .. Len(b) PROVE r[i] = b[i]
    BY <1>3
  <2>1. r[i] = s[Len(a) + i]
    BY <1>1, <1>2
  <2>2. Len(a) + i \in 1 .. Len(a) + Len(b) /\ ~(Len(a) + i <= Len(a)) /\ (Len(a) + i) - Len(a) = i
    BY <1>1
  <2> QED
    BY <1>1, <2>1, <2>2
<1>5. r = b
  BY <1>2, <1>3, <1>4, SeqEqual
<1> QED
  BY <1>5 DEF r, s

(* Most steps leave the writer alone.                                      *)
WriterAlone == UNCHANGED <<writer, pending, written, lost>> /\ passed \subseteq passed'

LEMMA AloneOr ==
    ASSUME Next
    PROVE  WriterAlone \/ Stop \/ (\E l \in Loops : Emit(l)) \/ WriteStep \/ Crash
<1>1. CASE CacheExpires
  BY <1>1 DEF CacheExpires, elsewhere, emitted, WriterAlone
<1>2. ASSUME NEW l \in Loops, Start(l) \/ Poll(l) \/ PollsNoMore(l) \/ QueryAnswers(l) \/ QueryEndsPoll(l)
      PROVE  WriterAlone
  BY <1>2 DEF Start, Poll, PollsNoMore, QueryAnswers, QueryEndsPoll, elsewhere, emitted, WriterAlone
<1>3. ASSUME NEW p \in Procs, LoadStep(p)
      PROVE  WriterAlone
  BY <1>3 DEF LoadStep, ReadCache, ReadRow, FillCache, ResetDb, ResetFails, Throws, NextEvent,
              elsewhere, emitted, WriterAlone
<1>4. ASSUME NEW l \in Loops,
             ReorgSeen(l) \/ SkipUnknown(l) \/ UpdateCheckpoint(l) \/ SaveToDb(l) \/ SaveFails(l)
      PROVE  WriterAlone
  BY <1>4 DEF ReorgSeen, SkipUnknown, UpdateCheckpoint, SaveToDb, SaveFails, Throws, NextEvent,
              elsewhere, emitted, WriterAlone
<1> QED
  BY <1>1, <1>2, <1>3, <1>4 DEF Next, LoopStep, LagStep, Procs

LEMMA NextIsKnown ==
    ASSUME NEW l \in Loops, Emit(l)
    PROVE  next[l] \in Events
BY IndexerAssumption DEF Emit, Parses

LEMMA WriterStep ==
    ASSUME WriterOK, WriterKeepsOrder, Next
    PROVE  /\ WriterOK' /\ WriterKeepsOrder' /\ Handled \subseteq Handled'
           /\ \A l \in Loops : Emit(l) => next[l] \in Handled'
<1>1. CASE WriterAlone /\ ~\E l \in Loops : Emit(l)
  BY <1>1 DEF WriterAlone, writer, WriterOK, WriterKeepsOrder, Handled, InMemory, Elements
<1>2. ASSUME NEW t \in {"none", "armed", "stale"}, Flush(queue, t),
             UNCHANGED <<pending, written, lost, passed>>
      PROVE  WriterOK' /\ WriterKeepsOrder' /\ Handled \subseteq Handled'
  <2>1. /\ queue' \in Seq(Events) /\ batch' \in Seq(Events)
        /\ timer' \in {"none", "armed", "stale"}
        /\ batch' \o queue' = batch \o queue
        /\ Elements(batch') \union Elements(queue') = Elements(batch) \union Elements(queue)
    BY <1>2, FlushKeeps DEF WriterOK
  <2> QED
    BY <1>2, <2>1 DEF WriterOK, WriterKeepsOrder, Handled, InMemory
<1>3. CASE Stop \/ TimerFires
  <2>1. WriterOK' /\ WriterKeepsOrder' /\ Handled \subseteq Handled'
    BY <1>2, <1>3 DEF Stop, TimerFires, WriterOK, elsewhere, emitted
  <2>2. UNCHANGED pending
    BY <1>3 DEF Stop, TimerFires, emitted
  <2>3. ASSUME NEW l \in Loops, Emit(l) PROVE FALSE
    BY <2>2, <2>3, NextIsKnown, AppendProperties, LenProperties DEF Emit, WriterOK
  <2> QED
    BY <2>1, <2>3
<1>4. ASSUME NEW l \in Loops, Emit(l)
      PROVE  /\ WriterOK' /\ WriterKeepsOrder' /\ Handled \subseteq Handled'
             /\ next[l] \in Handled'
  <2>1. next[l] \in Events /\ UNCHANGED <<written, lost, passed>>
    BY <1>4, NextIsKnown DEF Emit, elsewhere
  <2>2. /\ queue' \in Seq(Events) /\ batch' \in Seq(Events)
        /\ timer' \in {"none", "armed", "stale"}
        /\ batch' \o queue' = batch \o Append(queue, next[l])
        /\ Elements(batch') \union Elements(queue') = InMemory \union {next[l]}
    BY <1>4, <2>1, AddKeeps DEF Emit
  <2>3. pending' = Append(pending, next[l]) /\ pending' \in Seq(Events)
    BY <1>4, <2>1, AppendProperties DEF Emit, WriterOK
  <2>4. pending' = batch' \o queue'
    BY <2>1, <2>2, <2>3, RegroupAppend DEF WriterOK, WriterKeepsOrder
  <2> QED
    BY <2>1, <2>2, <2>3, <2>4 DEF WriterOK, WriterKeepsOrder, Handled, InMemory
<1>5. CASE BatchCommits
  <2>1. /\ batch' = <<>> /\ queue' = queue
        /\ pending' = SubSeq(pending, Len(batch) + 1, Len(pending))
        /\ written' = written \union Elements(batch)
        /\ UNCHANGED <<timer, lost, passed>>
    BY <1>5 DEF BatchCommits, BatchEnds
  <2>2. pending' = queue
    BY <2>1, RestOfConcat DEF WriterKeepsOrder, WriterOK
  <2>3. batch' \in Seq(Events) /\ batch' \o queue' = queue
    BY <2>1, ConcatEmptySeq, EmptySeq DEF WriterOK
  <2>4. Elements(queue) = Elements(queue')
    BY <2>1
  <2>5. ASSUME NEW l \in Loops, Emit(l) PROVE FALSE
    BY <1>5, <2>5 DEF Emit, BatchCommits, BatchEnds, listener, emitted, AddEvent, Flush
  <2> QED
    BY <2>1, <2>2, <2>3, <2>4, <2>5 DEF WriterOK, WriterKeepsOrder, Handled, InMemory
<1>6. CASE BatchFails
  <2>1. /\ batch' = <<>> /\ queue' = batch \o queue
        /\ written \subseteq written'
        /\ UNCHANGED <<timer, pending, lost, passed>>
    BY <1>6 DEF BatchFails, BatchEnds
  <2>2. /\ queue' \in Seq(Events) /\ batch' \in Seq(Events) /\ batch' \o queue' = queue'
        /\ Elements(queue') = Elements(batch) \union Elements(queue)
    BY <2>1, ConcatProperties, ConcatEmptySeq, EmptySeq, ElementsOf DEF WriterOK
  <2>3. ASSUME NEW l \in Loops, Emit(l) PROVE FALSE
    BY <2>1, <2>3, NextIsKnown, AppendProperties, LenProperties DEF Emit, WriterOK
  <2> QED
    BY <2>1, <2>2, <2>3 DEF WriterOK, WriterKeepsOrder, Handled, InMemory
<1>7. CASE Crash
  <2>1. /\ queue' = <<>> /\ batch' = <<>> /\ timer' = "none" /\ pending' = <<>>
        /\ lost' = lost \union InMemory /\ UNCHANGED <<written, passed>>
    BY <1>7 DEF Crash
  <2>2. <<>> \in Seq(Events) /\ <<>> \o <<>> = <<>>
    BY EmptySeq, ConcatEmptySeq
  <2>3. ASSUME NEW l \in Loops, Emit(l) PROVE FALSE
    BY <2>1, <2>3, NextIsKnown, AppendProperties, LenProperties DEF Emit, WriterOK
  <2> QED
    BY <2>1, <2>2, <2>3 DEF WriterOK, WriterKeepsOrder, Handled
<1> QED
  BY <1>1, <1>3, <1>4, <1>5, <1>6, <1>7, AloneOr DEF WriteStep

-----------------------------------------------------------------------------
(* The timer: no batch is stranded but by a write that ends.               *)
LEMMA FlushTimer ==
    ASSUME NEW q, q # <<>>, NEW t, Flush(q, t), ~(t = "none" /\ batch # <<>>)
    PROVE  TimerInv' /\ ~Stranded'
BY DEF Flush, TimerInv, Stranded

LEMMA TimerStep ==
    ASSUME WriterOK, TimerInv, Next
    PROVE  /\ TimerInv'
           /\ ~Stranded /\ Stranded' =>
                 BatchFails \/ (BatchCommits /\ (timer = "stale" \/ Len(queue) >= BatchSize))
<1>1. CASE UNCHANGED writer
  BY <1>1 DEF writer, TimerInv, Stranded
<1>2. CASE WriterAlone
  BY <1>1, <1>2 DEF WriterAlone
<1>3. CASE TimerFires
  <2>1. queue # <<>>
    BY <1>3 DEF TimerFires, TimerInv
  <2> QED
    BY <1>3, <2>1, FlushTimer DEF TimerFires
<1>4. CASE Stop
  <2>1. CASE queue = <<>> \/ batch # <<>>
    BY <1>1, <1>4, <2>1 DEF Stop, Flush, writer
  <2>2. CASE ~(queue = <<>> \/ batch # <<>>)
    BY <1>4, <2>2, FlushTimer DEF Stop
  <2> QED BY <2>1, <2>2
<1>5. ASSUME NEW l \in Loops, Emit(l)
      PROVE  /\ TimerInv'
             /\ ~(~Stranded /\ Stranded')
  <2> DEFINE q == Append(queue, next[l])
  <2>1. next[l] \in Events /\ q # <<>> /\ Len(q) = Len(queue) + 1 /\ Len(queue) \in Nat
    BY <1>5, NextIsKnown, AppendProperties, LenProperties DEF WriterOK
  <2>2. IF Len(q) >= BatchSize
        THEN Flush(q, timer)
        ELSE /\ queue' = q
             /\ timer' = IF timer = "none" THEN "armed" ELSE timer
             /\ UNCHANGED batch
    BY <1>5 DEF Emit, AddEvent
  <2> HIDE DEF q
  <2>3. CASE Len(q) >= BatchSize
    <3>1. Flush(q, timer)
      BY <2>2, <2>3
    <3>2. ~Stranded'
      BY <2>1, <3>1 DEF Flush, Stranded
    <3>3. TimerInv'
      BY <2>1, <2>3, <3>1 DEF Flush, TimerInv
    <3> QED
      BY <3>2, <3>3
  <2>4. CASE ~(Len(q) >= BatchSize)
    <3>1. queue' = q /\ batch' = batch /\ timer' = IF timer = "none" THEN "armed" ELSE timer
      BY <2>2, <2>4
    <3> QED
      BY <2>1, <3>1 DEF TimerInv, Stranded, WriterOK
  <2> QED BY <2>3, <2>4
<1>6. CASE BatchCommits
  BY <1>6 DEF BatchCommits, BatchEnds, TimerInv, Stranded, WriterOK
<1>7. CASE BatchFails
  <2>1. batch' = <<>> /\ timer' = timer /\ queue' = batch \o queue /\ batch # <<>>
    BY <1>7 DEF BatchFails, BatchEnds
  <2>2. queue' # <<>>
    BY <2>1, ConcatEqualIffEmpty DEF WriterOK
  <2> QED
    BY <1>7, <2>1, <2>2 DEF TimerInv
<1>8. CASE Crash
  BY <1>8 DEF Crash, TimerInv, Stranded
<1> QED
  BY <1>2, <1>3, <1>4, <1>5, <1>6, <1>7, <1>8, AloneOr DEF WriteStep

-----------------------------------------------------------------------------
(* The processes: how a step moves the one that takes it, and the others.  *)
Slept(l) ==
    /\ at'[l] = "sleep" /\ aim'[l] = "query" /\ cp'[l] = Initial
    /\ next'[l] = 1 /\ end'[l] = 0

Loads(l, what) == at'[l] = "cache" /\ aim'[l] = what /\ cp'[l] = Initial

SamePage(l) == aim'[l] = aim[l] /\ next'[l] = next[l] /\ end'[l] = end[l]

Handles(l) ==
    /\ Place(l) \in OnPage /\ Loads(l, "event")
    /\ next'[l] = next[l] + 1 /\ end'[l] = end[l] /\ next'[l] <= end'[l]
    /\ Place(l) \in {"event", "saveReorg"} => next[l] \in passed'

MeasuredOr(p) ==
    \/ at'[p] = at[p]
    \/ p # Lag /\ at[p] = "sleep" /\ at'[p] = "off"
    \/ p = Lag /\ at[p] = "off" /\ at'[p] = "row" /\ (cache = None \/ ~calm')

Others(l) ==
    /\ \A p \in Procs \ {l} : aim'[p] = aim[p] /\ cp'[p] = cp[p] /\ MeasuredOr(p)
    /\ \A k \in Loops \ {l} : next'[k] = next[k] /\ end'[k] = end[k]

MovesOK == PageOK' /\ cp' \in [Procs -> Checkpoint] /\ handle' \in Loops \union {None}

LEMMA SleepMoves ==
    ASSUME PageOK, StoreOK, handle \in Loops \union {None}, NEW l \in Loops,
           NEW others \in [Procs -> Awaits], Sleep(l, others)
    PROVE  /\ MovesOK /\ Slept(l)
           /\ \A p \in Procs \ {l} : aim'[p] = aim[p] /\ cp'[p] = cp[p] /\ at'[p] = others[p]
           /\ \A k \in Loops \ {l} : next'[k] = next[k] /\ end'[k] = end[k]
<1>1. l \in Procs /\ 1 \in 1 .. N + 1 /\ 0 \in 0 .. N /\ Initial \in Checkpoint
  BY Constants
<1>2. "sleep" \in Awaits /\ "query" \in Aims
  BY DEF Awaits, Aims
<1> QED
  BY <1>1, <1>2 DEF Sleep, MovesOK, PageOK, StoreOK, Slept

LEMMA ClearedMoves ==
    ASSUME PageOK, handle \in Loops \union {None}
    PROVE  /\ Cleared \in [Procs -> Awaits]
           /\ \A p \in Procs : \/ Cleared[p] = at[p]
                               \/ p # Lag /\ at[p] = "sleep" /\ Cleared[p] = "off"
<1>1. "off" \in Awaits
  BY DEF Awaits
<1>2. handle # Lag
  BY IndexerAssumption
<1> QED
  BY <1>1, <1>2 DEF Cleared, PageOK

LEMMA MeasuredMoves ==
    ASSUME PageOK, NEW fails \in BOOLEAN
    PROVE  /\ Measured(fails) \in [Procs -> Awaits]
           /\ \A p \in Procs : \/ Measured(fails)[p] = at[p]
                               \/ /\ p = Lag /\ at[p] = "off" /\ Measured(fails)[p] = "row"
                                  /\ cache = None \/ fails
<1>1. "row" \in Awaits
  BY DEF Awaits, Loading
<1> QED
  BY <1>1, Constants DEF Measured, PageOK

LEMMA NextEventMoves ==
    ASSUME PageOK, StoreOK, handle \in Loops \union {None}, NEW l \in Loops,
           Place(l) \in OnPage, next[l] <= end[l], NEW failed \in BOOLEAN, NextEvent(l, failed)
    PROVE  MovesOK /\ Others(l) /\ (Slept(l) \/ Handles(l))
<1>t. l \in Procs /\ l # Lag /\ Initial \in Checkpoint /\ N \in Nat
  BY Constants
<1>1. CASE /\ next[l] < end[l]
           /\ next' = [next EXCEPT ![l] = @ + 1]
           /\ LoadFor(l, "event")
           /\ UNCHANGED <<handle, end>>
  <2>1. "cache" \in Awaits /\ "event" \in Aims
    BY DEF Awaits, Loading, Aims
  <2>2. next[l] + 1 \in 1 .. N + 1 /\ next[l] + 1 <= end[l]
    BY <1>t, <1>1 DEF PageOK
  <2>3. MovesOK
    BY <1>t, <1>1, <2>1, <2>2 DEF MovesOK, PageOK, StoreOK, LoadFor
  <2>4. Others(l)
    BY <1>t, <1>1 DEF Others, MeasuredOr, PageOK, StoreOK, LoadFor
  <2>5. Handles(l)
    BY <1>t, <1>1, <2>2 DEF Handles, Loads, PageOK, StoreOK, LoadFor, NextEvent
  <2> QED
    BY <2>3, <2>4, <2>5
<1>2. CASE \E fails \in BOOLEAN : Sleep(l, Measured(fails)) /\ FaultIf(failed \/ fails)
  <2>1. PICK fails \in BOOLEAN : Sleep(l, Measured(fails)) /\ FaultIf(failed \/ fails)
    BY <1>2
  <2>2. fails => ~calm'
    BY <2>1 DEF FaultIf, Fault
  <2>3. Measured(fails) \in [Procs -> Awaits]
    BY MeasuredMoves
  <2>4. /\ MovesOK /\ Slept(l)
        /\ \A p \in Procs \ {l} :
              aim'[p] = aim[p] /\ cp'[p] = cp[p] /\ at'[p] = Measured(fails)[p]
        /\ \A k \in Loops \ {l} : next'[k] = next[k] /\ end'[k] = end[k]
    BY <2>1, <2>3, SleepMoves
  <2>5. Others(l)
    BY <2>2, <2>4, MeasuredMoves DEF Others, MeasuredOr
  <2> QED
    BY <2>4, <2>5
<1> QED
  BY <1>1, <1>2 DEF NextEvent

LEMMA ThrowsMoves ==
    ASSUME PageOK, StoreOK, handle \in Loops \union {None}, NEW l \in Loops,
           Place(l) \in OnPage, next[l] <= end[l], Throws(l)
    PROVE  MovesOK /\ Others(l) /\ (Slept(l) \/ Handles(l))
<1>1. CASE NextEvent(l, TRUE)
  BY <1>1, NextEventMoves
<1>2. CASE Sleep(l, Cleared)
  BY <1>2, SleepMoves, ClearedMoves DEF Others, MeasuredOr
<1> QED
  BY <1>1, <1>2 DEF Throws

(* The steps of a load.                                                    *)
Within(p) ==
    /\ at[p] \in Loading /\ UNCHANGED page
    /\ at'[p] \in Loading \union {aim[p]}
    /\ \A q \in Procs \ {p} : at'[q] = at[q] /\ cp'[q] = cp[q]
    /\ cp'[p] \in {cp[p], Initial} \union ({cache, db} \ {None})

LEMMA LoadMoves ==
    ASSUME PageOK, StoreOK, handle \in Loops \union {None}, PageInv, NEW p \in Procs, LoadStep(p)
    PROVE  \/ MovesOK /\ Within(p)
           \/ p \in Loops /\ MovesOK /\ Others(p) /\ (Slept(p) \/ Handles(p))
<1>t. Initial \in Checkpoint /\ {cache, db} \ {None} \subseteq Checkpoint /\ Aims \subseteq Awaits
  BY Constants DEF StoreOK, Aims, Awaits
<1>a. aim[p] \in Aims /\ aim[p] \in Awaits /\ cp[p] \in Checkpoint /\ at[p] \in Awaits
  BY <1>t DEF PageOK, StoreOK
<1>1. ASSUME NEW c \in {cp[p], Initial} \union ({cache, db} \ {None}), Return(p, c)
      PROVE  /\ at' \in [Procs -> Awaits] /\ cp' \in [Procs -> Checkpoint]
             /\ at'[p] = aim[p] /\ cp'[p] \in {c, Initial}
             /\ \A q \in Procs \ {p} : at'[q] = at[q] /\ cp'[q] = cp[q]
  BY <1>t, <1>a, <1>1 DEF Return, PageOK, StoreOK
<1>2. CASE ReadCache(p)
  <2>1. UNCHANGED <<page, handle>> /\ at[p] \in Loading
    BY <1>2 DEF ReadCache, listener, Loading
  <2>2. CASE cache # None /\ Return(p, cache)
    BY <1>1, <2>1, <2>2 DEF MovesOK, Within, page, PageOK
  <2>3. CASE at' = [at EXCEPT ![p] = "row"] /\ UNCHANGED cp
    BY <1>a, <2>1, <2>3 DEF MovesOK, Within, page, PageOK, StoreOK, Loading, Awaits
  <2> QED
    BY <1>2, <2>2, <2>3 DEF ReadCache
<1>3. CASE ReadRow(p)
  <2>1. UNCHANGED <<page, handle>> /\ at[p] \in Loading
    BY <1>3 DEF ReadRow, listener, Loading
  <2>2. \E a \in {"fill", "reset"}, c \in {Initial} \union ({db} \ {None}) :
           at' = [at EXCEPT ![p] = a] /\ cp' = [cp EXCEPT ![p] = c]
    BY <1>3 DEF ReadRow
  <2> QED
    BY <1>t, <2>1, <2>2 DEF MovesOK, Within, page, PageOK, StoreOK, Loading, Awaits
<1>4. CASE FillCache(p)
  <2>1. UNCHANGED <<page, handle>> /\ at[p] \in Loading
    BY <1>4 DEF FillCache, listener, Loading
  <2>2. CASE Return(p, cp[p])
    BY <1>1, <2>1, <2>2 DEF MovesOK, Within, page, PageOK
  <2>3. CASE at' = [at EXCEPT ![p] = "resetDb"] /\ UNCHANGED cp
    BY <1>a, <2>1, <2>3 DEF MovesOK, Within, page, PageOK, StoreOK, Loading, Awaits
  <2> QED
    BY <1>4, <2>2, <2>3 DEF FillCache
<1>5. CASE ResetDb(p)
  <2>1. UNCHANGED <<page, handle>> /\ at[p] \in Loading /\ Return(p, cp[p])
    BY <1>5 DEF ResetDb, listener, Loading
  <2> QED
    BY <1>1, <2>1 DEF MovesOK, Within, page, PageOK
<1>6. CASE ResetFails(p)
  <2>1. at[p] = "resetDb" /\ "resetDb" \in Loading
    BY <1>6 DEF ResetFails, Loading
  <2>2. CASE Return(p, Initial) /\ UNCHANGED <<listener, page>>
    BY <1>1, <2>1, <2>2 DEF MovesOK, Within, listener, page, PageOK
  <2>3. CASE aim[p] = "query" /\ Sleep(p, at)
    <3>1. p \in Loops
      BY <2>3 DEF PageInv, Procs
    <3>2. at \in [Procs -> Awaits]
      BY DEF PageOK
    <3> QED
      BY <2>3, <3>1, <3>2, SleepMoves DEF Others, MeasuredOr
  <2>4. CASE aim[p] \in {"event", "update"} /\ Throws(p)
    <3>1. p \in Loops /\ Place(p) \in OnPage
      BY <2>1, <2>4 DEF PageInv, Procs, Place, OnPage
    <3> QED
      BY <2>4, <3>1, ThrowsMoves DEF PageInv
  <2> QED
    BY <1>6, <2>2, <2>3, <2>4 DEF ResetFails
<1> QED
  BY <1>2, <1>3, <1>4, <1>5, <1>6 DEF LoadStep

(* The other steps of a loop.                                              *)
Polls(l) == at[l] = "sleep" /\ Loads(l, "query") /\ next'[l] = next[l] /\ end'[l] = end[l]
Ends(l) == at[l] = "sleep" /\ at'[l] = "off" /\ SamePage(l) /\ cp'[l] = cp[l]
Fetches(l) ==
    /\ at[l] = "query" /\ Loads(l, "event")
    /\ next'[l] = cp[l].last + 1 /\ next'[l] <= end'[l]
Emits(l) == Emit(l) /\ Loads(l, "update") /\ next'[l] = next[l] /\ end'[l] = end[l]
Saves(l) ==
    /\ SamePage(l)
    /\ \/ at[l] = "event" /\ at'[l] = "saveReorg" /\ cp'[l].last = cp[l].last
       \/ at[l] = "update" /\ at'[l] = "save" /\ cp'[l].last = next[l]

LEMMA LoopMoves ==
    ASSUME PageOK, StoreOK, RestOK, PageInv, NEW l \in Loops, LoopStep(l)
    PROVE  \/ MovesOK /\ Within(l)
           \/ /\ MovesOK /\ Others(l)
              /\ \/ Slept(l) \/ Handles(l) \/ Polls(l) \/ Ends(l) \/ Fetches(l) \/ Emits(l)
                 \/ Saves(l)
<1>t. /\ l \in Procs /\ l # Lag /\ Initial \in Checkpoint /\ N \in Nat
      /\ handle \in Loops \union {None} /\ scene.events \in 0 .. N
      /\ next[l] \in 1 .. N + 1 /\ end[l] \in 0 .. N /\ cp[l] \in Checkpoint
  BY Constants DEF RestOK, PageOK, StoreOK
<1>a. /\ {"cache", "off", "save", "saveReorg"} \subseteq Awaits
      /\ {"query", "event", "update"} \subseteq Aims
  BY DEF Awaits, Loading, Saving, Aims
<1>l. ASSUME NEW what \in {"query", "event", "update"}, LoadFor(l, what)
      PROVE  /\ at' \in [Procs -> Awaits] /\ aim' \in [Procs -> Aims]
             /\ cp' \in [Procs -> Checkpoint] /\ Loads(l, what)
             /\ \A p \in Procs \ {l} : at'[p] = at[p] /\ aim'[p] = aim[p] /\ cp'[p] = cp[p]
  BY <1>t, <1>a, <1>l DEF LoadFor, Loads, PageOK, StoreOK
<1>1. CASE LoadStep(l)
  BY <1>t, <1>1, LoadMoves
<1>2. CASE Poll(l)
  BY <1>t, <1>2, <1>l DEF Poll, listener, MovesOK, PageOK, Others, MeasuredOr, Polls
<1>3. CASE PollsNoMore(l)
  BY <1>t, <1>a, <1>3
     DEF PollsNoMore, listener, page, MovesOK, PageOK, StoreOK, Others, MeasuredOr, Ends, SamePage
<1>4. CASE QueryAnswers(l)
  <2>1. PICK e \in cp[l].last + 1 .. scene.events : end' = [end EXCEPT ![l] = e]
    BY <1>4 DEF QueryAnswers
  <2>2. /\ at[l] = "query" /\ LoadFor(l, "event") /\ UNCHANGED handle
        /\ next' = [next EXCEPT ![l] = cp[l].last + 1]
    BY <1>4 DEF QueryAnswers, listener
  <2>3. /\ cp[l].last \in 0 .. N /\ e \in 0 .. N /\ cp[l].last + 1 \in 1 .. N + 1
        /\ cp[l].last + 1 <= e
    BY <1>t, <2>1 DEF Checkpoint
  <2>4. MovesOK
    BY <1>t, <1>l, <2>1, <2>2, <2>3 DEF MovesOK, PageOK
  <2>5. Others(l)
    BY <1>t, <1>l, <2>1, <2>2 DEF Others, MeasuredOr, PageOK
  <2>6. Fetches(l)
    BY <1>t, <1>l, <2>1, <2>2, <2>3 DEF Fetches, PageOK
  <2> QED
    BY <2>4, <2>5, <2>6
<1>5. CASE QueryEndsPoll(l)
  <2>1. Sleep(l, at) /\ at \in [Procs -> Awaits]
    BY <1>5 DEF QueryEndsPoll, PageOK
  <2> QED
    BY <1>t, <2>1, SleepMoves DEF Others, MeasuredOr
<1>6. CASE ReorgSeen(l)
  <2>1. /\ cp' = [cp EXCEPT ![l].height = Height[next[l]]]
        /\ at[l] = "event" /\ at' = [at EXCEPT ![l] = "saveReorg"]
        /\ UNCHANGED <<handle, page>> /\ Backwards(next[l], cp[l])
    BY <1>6 DEF ReorgSeen, listener
  <2>2. Height[next[l]] \in Nat
    <3>1. next[l] \in Events
      BY <1>t, <2>1 DEF PageInv, Place, OnPage, Loading, Events
    <3> QED
      BY <2>1, <3>1, IndexerAssumption DEF Backwards
  <2>3. cp'[l] \in Checkpoint /\ cp'[l].last = cp[l].last /\ cp' \in [Procs -> Checkpoint]
    BY <1>t, <2>1, <2>2 DEF StoreOK, Checkpoint
  <2>4. \A p \in Procs \ {l} : at'[p] = at[p] /\ cp'[p] = cp[p]
    BY <2>1 DEF PageOK, StoreOK
  <2> QED
    BY <1>t, <1>a, <2>1, <2>3, <2>4
       DEF MovesOK, PageOK, Others, MeasuredOr, Saves, SamePage, page
<1>7. CASE SkipUnknown(l) \/ SaveToDb(l) \/ SaveFails(l)
  <2>1. Place(l) \in OnPage
    BY <1>7 DEF SkipUnknown, SaveToDb, SaveFails, Place, OnPage, Saving, Loading
  <2>2. next[l] <= end[l]
    BY <2>1 DEF PageInv
  <2>3. NextEvent(l, FALSE) \/ Throws(l)
    BY <1>7 DEF SkipUnknown, SaveToDb, SaveFails
  <2> QED
    BY <1>t, <2>1, <2>2, <2>3, NextEventMoves, ThrowsMoves
<1>8. CASE Emit(l)
  BY <1>t, <1>8, <1>l DEF Emit, listener, MovesOK, PageOK, Others, MeasuredOr, Emits
<1>9. CASE UpdateCheckpoint(l)
  <2>1. /\ cp' = [cp EXCEPT ![l] = [last |-> next[l], height |-> StoredHeight(next[l])]]
        /\ at[l] = "update" /\ at' = [at EXCEPT ![l] = "save"]
        /\ UNCHANGED <<handle, page>>
    BY <1>9 DEF UpdateCheckpoint, listener
  <2>2. next[l] \in 0 .. N /\ StoredHeight(next[l]) \in Nat
    <3>1. next[l] \in Events /\ next[l] \in 0 .. N
      BY <1>t, <2>1 DEF PageInv, Place, OnPage, Loading, Events
    <3> QED
      BY <3>1, IndexerAssumption DEF StoredHeight
  <2>3. cp'[l] \in Checkpoint /\ cp'[l].last = next[l] /\ cp' \in [Procs -> Checkpoint]
    BY <1>t, <2>1, <2>2 DEF StoreOK, Checkpoint
  <2>4. \A p \in Procs \ {l} : at'[p] = at[p] /\ cp'[p] = cp[p]
    BY <2>1 DEF PageOK, StoreOK
  <2> QED
    BY <1>t, <1>a, <2>1, <2>3, <2>4
       DEF MovesOK, PageOK, Others, MeasuredOr, Saves, SamePage, page
<1> QED
  BY <1>1, <1>2, <1>3, <1>4, <1>5, <1>6, <1>7, <1>8, <1>9 DEF LoopStep

(* What is left: a start, a crash, and steps of the cache and the writer.  *)
Idle == MovesOK /\ UNCHANGED <<page, cp>> /\ \A p \in Procs : MeasuredOr(p)
Begins(l) ==
    MovesOK /\ Others(l) /\ at[l] = "off" /\ Loads(l, "query")
    /\ next'[l] = next[l] /\ end'[l] = end[l]

LEMMA OtherMoves ==
    ASSUME PageOK, StoreOK, RestOK, Next
    PROVE  Idle \/ (\E l \in Loops : Begins(l) \/ LoopStep(l)) \/ LagStep \/ Crash
<1>t. /\ handle \in Loops \union {None} /\ Initial \in Checkpoint /\ Loops \subseteq Procs
      /\ Lag \notin Loops
  BY Constants DEF RestOK
<1>1. ASSUME UNCHANGED <<page, cp>>, UNCHANGED <<listener, at>> \/ StopListener
      PROVE  Idle
  <2>1. CASE UNCHANGED <<listener, at>>
    BY <1>t, <1>1, <2>1 DEF Idle, MovesOK, PageOK, StoreOK, page, listener, MeasuredOr
  <2>2. CASE StopListener
    BY <1>t, <1>1, <2>2, ClearedMoves
       DEF StopListener, Idle, MovesOK, PageOK, StoreOK, page, MeasuredOr
  <2> QED
    BY <1>1, <2>1, <2>2
<1>2. CASE CacheExpires \/ Stop \/ WriteStep
  BY <1>1, <1>2 DEF CacheExpires, Stop, WriteStep, TimerFires, BatchCommits, BatchFails, BatchEnds
<1>3. ASSUME NEW l \in Loops, Start(l)
      PROVE  Begins(l)
  <2>1. "cache" \in Awaits /\ "query" \in Aims
    BY DEF Awaits, Loading, Aims
  <2> QED
    BY <1>t, <1>3, <2>1
       DEF Start, StartListener, LoadFor, Alive, Begins, Loads, MovesOK, PageOK, StoreOK, Others,
           MeasuredOr
<1> QED
  BY <1>2, <1>3 DEF Next

LEMMA CrashMoves ==
    ASSUME Crash
    PROVE  /\ MovesOK
           /\ \A p \in Procs : at'[p] = "off" /\ aim'[p] = "off" /\ cp'[p] = Initial
           /\ \A l \in Loops : end'[l] = 0
<1>1. /\ Initial \in Checkpoint /\ 1 \in 1 .. N + 1 /\ 0 \in 0 .. N
      /\ "off" \in Awaits /\ "off" \in Aims
  BY Constants DEF Awaits, Aims
<1> QED
  BY <1>1 DEF Crash, MovesOK, PageOK

LEMMA PageStep ==
    ASSUME PageOK, StoreOK, RestOK, PageInv, Next
    PROVE  MovesOK /\ PageInv'
<1>t. Lag \in Procs /\ Lag \notin Loops /\ Loops \subseteq Procs /\ N \in Nat
  BY Constants
<1>k. ASSUME NEW k \in Loops, SamePage(k), at'[k] = at[k] \/ at'[k] = "off"
      PROVE  (Place(k) \in OnPage => next[k] <= end[k])'
  BY <1>k DEF PageInv, Place, OnPage, Loading, SamePage
<1>o. ASSUME NEW l \in Loops, Others(l)
      PROVE  /\ aim'[Lag] = "off"
             /\ \A k \in Loops \ {l} : (Place(k) \in OnPage => next[k] <= end[k])'
  BY <1>t, <1>k, <1>o DEF Others, MeasuredOr, PageInv, SamePage
<1>1. CASE Idle
  BY <1>1, <1>t, <1>k DEF Idle, MeasuredOr, page, PageInv, SamePage
<1>2. ASSUME NEW l \in Loops, Begins(l)
      PROVE  MovesOK /\ PageInv'
  BY <1>2, <1>o DEF Begins, Loads, PageInv, Place, OnPage, Loading
<1>3. ASSUME NEW p \in Procs, MovesOK, Within(p)
      PROVE  MovesOK /\ PageInv'
  <2>1. aim'[Lag] = "off"
    BY <1>3 DEF Within, page, PageInv
  <2>2. ASSUME NEW k \in Loops PROVE (Place(k) \in OnPage => next[k] <= end[k])'
    <3>1. CASE k # p
      BY <1>t, <1>3, <1>k, <3>1 DEF Within, page, SamePage
    <3>2. CASE k = p
      BY <1>3, <3>2 DEF Within, page, PageInv, Place
    <3> QED BY <3>1, <3>2
  <2> QED
    BY <1>3, <2>1, <2>2 DEF PageInv
<1>4. ASSUME NEW l \in Loops, LoopStep(l)
      PROVE  MovesOK /\ PageInv'
  <2>1. CASE MovesOK /\ Within(l)
    BY <1>t, <1>3, <2>1
  <2>2. CASE /\ MovesOK /\ Others(l)
             /\ \/ Slept(l) \/ Handles(l) \/ Polls(l) \/ Ends(l) \/ Fetches(l) \/ Emits(l)
                \/ Saves(l)
    <3>1. (Place(l) \in OnPage => next[l] <= end[l])'
      <4>1. CASE Slept(l) \/ Handles(l) \/ Polls(l) \/ Ends(l) \/ Fetches(l)
        BY <4>1 DEF Slept, Handles, Polls, Ends, Fetches, SamePage, Loads, Place, OnPage, Loading
      <4>2. CASE Emits(l) \/ Saves(l)
        <5>1. at[l] \in {"event", "update"} /\ next'[l] = next[l] /\ end'[l] = end[l]
          BY <4>2 DEF Emits, Emit, Saves, SamePage
        <5> QED
          BY <5>1 DEF PageInv, Place, OnPage, Loading
      <4> QED BY <2>2, <4>1, <4>2
    <3> QED
      BY <2>2, <3>1, <1>o DEF PageInv
  <2> QED
    BY <1>4, <2>1, <2>2, LoopMoves
<1>5. CASE LagStep
  <2>1. MovesOK /\ Within(Lag)
    BY <1>t, <1>5, LoadMoves DEF LagStep, RestOK
  <2> QED
    BY <1>t, <1>3, <2>1
<1>6. CASE Crash
  BY <1>6, <1>t, CrashMoves DEF PageInv, Place, OnPage, Loading
<1> QED
  BY <1>1, <1>2, <1>4, <1>5, <1>6, OtherMoves

-----------------------------------------------------------------------------
(* The checkpoints that a step leaves in cache and row.                    *)
LEMMA StoresFrom ==
    ASSUME StoreOK, RestOK, PageInv, Next
    PROVE  /\ cache' \in {cache, None} \union {cp[p] : p \in Procs} \union {cp'[p] : p \in Procs}
           /\ db' \in {db} \union {cp[p] : p \in Procs}
<1>t. Lag \in Procs /\ Loops \subseteq Procs
  BY Constants
<1>1. CASE CacheExpires
  BY <1>1 DEF CacheExpires
<1>2. CASE Stop \/ WriteStep \/ Crash
  BY <1>2 DEF Stop, WriteStep, TimerFires, BatchCommits, BatchFails, BatchEnds, Crash, stored
<1>3. ASSUME NEW p \in Procs, LoadStep(p)
      PROVE  /\ cache' \in {cache} \union {cp[q] : q \in Procs}
             /\ db' \in {db} \union {cp[q] : q \in Procs}
  <2>1. cache' \in {cache, cp[p]} /\ db' \in {db, cp[p]}
    BY <1>3 DEF LoadStep, ReadCache, ReadRow, FillCache, ResetDb, ResetFails, Put, stored
  <2> QED BY <2>1
<1>4. ASSUME NEW l \in Loops, Start(l) \/ LoopStep(l)
      PROVE  /\ cache' \in {cache} \union {cp[p] : p \in Procs} \union {cp'[p] : p \in Procs}
             /\ db' \in {db} \union {cp[p] : p \in Procs}
  <2>1. CASE LoadStep(l)
    BY <1>t, <1>3, <2>1
  <2>2. CASE \/ Start(l) \/ Poll(l) \/ PollsNoMore(l) \/ QueryAnswers(l) \/ QueryEndsPoll(l)
             \/ SkipUnknown(l) \/ Emit(l)
    BY <2>2 DEF Start, Poll, PollsNoMore, QueryAnswers, QueryEndsPoll, SkipUnknown, Emit, stored
  <2>3. CASE ReorgSeen(l) \/ UpdateCheckpoint(l) \/ SaveToDb(l) \/ SaveFails(l)
    <3>1. cache' \in {cache, cp'[l]} /\ db' \in {db, cp[l]}
      BY <2>3 DEF ReorgSeen, UpdateCheckpoint, SaveToDb, SaveFails, Put
    <3> QED BY <1>t, <3>1
  <2> QED
    BY <1>4, <2>1, <2>2, <2>3 DEF LoopStep
<1> QED
  BY <1>t, <1>1, <1>2, <1>3, <1>4 DEF Next, LagStep

LEMMA StoreStep ==
    ASSUME PageOK, StoreOK, RestOK, PageInv, Next
    PROVE  StoreOK'
<1>1. cp' \in [Procs -> Checkpoint]
  BY PageStep DEF MovesOK
<1>2. \A p \in Procs : cp[p] \in Checkpoint /\ cp'[p] \in Checkpoint
  BY <1>1 DEF StoreOK
<1> QED
  BY <1>1, <1>2, StoresFrom DEF StoreOK

(* The remaining variables.  What was disturbed stays so.                  *)
LEMMA CalmStep ==
    ASSUME RestOK, Next
    PROVE  calm' \in BOOLEAN /\ (calm' => calm) /\ faults' \in Nat
<1>t. calm \in BOOLEAN /\ faults \in Nat /\ faults + 1 \in Nat
  BY DEF RestOK
<1>1. ASSUME calm' \in {calm, FALSE}
      PROVE  calm' \in BOOLEAN /\ (calm' => calm)
  <2>1. CASE calm' = calm
    BY <1>t, <2>1, Zenon
  <2>2. CASE calm' = FALSE
    BY <2>2, Zenon
  <2> QED BY <1>1, <2>1, <2>2
<1>2. ASSUME NEW p, calm' = (calm /\ InTime(p))
      PROVE  calm' \in {calm, FALSE}
  <2> DEFINE i == InTime(p)
  <2>1. calm' = (calm /\ i)
    BY <1>2
  <2> HIDE DEF i
  <2>2. (calm /\ i) \in {calm, FALSE}
    BY <1>t
  <2> QED BY <2>1, <2>2
<1>3. calm' \in {calm, FALSE} /\ faults' \in {faults, faults + 1}
  <2>1. CASE CacheExpires \/ Stop \/ WriteStep \/ Crash
    BY <2>1 DEF CacheExpires, Stop, WriteStep, TimerFires, BatchCommits, BatchFails, BatchEnds,
                Crash, Mishap
  <2>2. ASSUME NEW p \in Procs, LoadStep(p)
        PROVE  calm' \in {calm, FALSE} /\ faults' \in {faults, faults + 1}
    <3>1. CASE ReadCache(p) \/ ReadRow(p)
      BY <3>1 DEF ReadCache, ReadRow, FaultIf, Fault, Mishap
    <3>2. CASE FillCache(p)
      <4>1. \/ calm' = (calm /\ InTime(p)) /\ faults' = faults
            \/ Fault
        BY <3>2 DEF FillCache, Put
      <4> QED BY <1>2, <4>1 DEF Fault, Mishap
    <3>3. CASE ResetDb(p)
      BY <1>2, <3>3 DEF ResetDb
    <3>4. CASE ResetFails(p)
      BY <3>4 DEF ResetFails, Throws, NextEvent, FaultIf, Fault, Mishap
    <3> QED
      BY <2>2, <3>1, <3>2, <3>3, <3>4 DEF LoadStep
  <2>3. ASSUME NEW l \in Loops, Start(l) \/ LoopStep(l)
        PROVE  calm' \in {calm, FALSE} /\ faults' \in {faults, faults + 1}
    <3>1. CASE LoadStep(l)
      BY <2>2, <3>1, Constants
    <3>2. CASE Start(l) \/ Poll(l) \/ PollsNoMore(l) \/ QueryAnswers(l) \/ QueryEndsPoll(l) \/ Emit(l)
      BY <3>2 DEF Start, StartListener, Poll, PollsNoMore, QueryAnswers, QueryEndsPoll, Emit,
                  FaultIf, Fault, Mishap
    <3>3. CASE SkipUnknown(l) \/ SaveToDb(l) \/ SaveFails(l)
      BY <3>3 DEF SkipUnknown, SaveToDb, SaveFails, Throws, NextEvent, FaultIf, Fault, Mishap
    <3>4. CASE ReorgSeen(l) \/ UpdateCheckpoint(l)
      <4>1. \/ calm' = (calm /\ TRUE) /\ faults' = faults
            \/ Fault
        BY <3>4 DEF ReorgSeen, UpdateCheckpoint, Put
      <4> QED BY <1>t, <4>1 DEF Fault, Mishap
    <3> QED
      BY <2>3, <3>1, <3>2, <3>3, <3>4 DEF LoopStep
  <2> QED
    BY <2>1, <2>2, <2>3, Constants DEF Next, LagStep
<1> QED
  BY <1>t, <1>1, <1>3

LEMMA SwitchStep ==
    ASSUME RestOK, Next
    PROVE  up' \in BOOLEAN /\ running' \in BOOLEAN /\ closing' \in BOOLEAN /\ scene' = scene
<1>1. /\ up' \in {up, TRUE, FALSE} /\ running' \in {running, TRUE, FALSE}
      /\ closing' \in {closing, TRUE, FALSE} /\ scene' = scene
  <2>1. CASE CacheExpires \/ Stop \/ WriteStep \/ Crash
    BY <2>1 DEF CacheExpires, Stop, StopListener, WriteStep, TimerFires, BatchCommits, BatchFails,
                BatchEnds, Crash, listener, elsewhere
  <2>2. ASSUME NEW p \in Procs, LoadStep(p)
        PROVE  /\ UNCHANGED <<up, closing, scene>> /\ running' \in {running, FALSE}
    BY <2>2 DEF LoadStep, ReadCache, ReadRow, FillCache, ResetDb, ResetFails, Throws, NextEvent,
                listener, elsewhere
  <2>3. ASSUME NEW l \in Loops, Start(l) \/ LoopStep(l)
        PROVE  /\ up' \in {up, TRUE, FALSE} /\ running' \in {running, TRUE, FALSE}
               /\ UNCHANGED <<closing, scene>>
    <3>1. CASE LoadStep(l)
      BY <2>2, <3>1, Constants
    <3>2. CASE ~LoadStep(l)
      BY <2>3, <3>2
         DEF LoopStep, Start, StartListener, Poll, PollsNoMore, QueryAnswers, QueryEndsPoll,
             ReorgSeen, SkipUnknown, Emit, UpdateCheckpoint, SaveToDb, SaveFails, Throws,
             NextEvent, listener, elsewhere
    <3> QED BY <3>1, <3>2
  <2> QED
    BY <2>1, <2>2, <2>3, Constants DEF Next, LagStep
<1>2. up \in BOOLEAN /\ running \in BOOLEAN /\ closing \in BOOLEAN
  BY DEF RestOK
<1> QED
  BY <1>1, <1>2

LEMMA SetsStep ==
    ASSUME WriterOK, PageOK, PageInv, RestOK, Next
    PROVE  /\ written' \subseteq Events /\ passed' \subseteq Events /\ lost' \subseteq Events
           /\ top' \in 0 .. N
<1>t. /\ written \subseteq Events /\ passed \subseteq Events /\ lost \subseteq Events
      /\ Elements(batch) \subseteq Events /\ InMemory \subseteq Events
      /\ N \in Nat /\ top \in 0 .. N
  BY Constants, ElementOfSeq DEF RestOK, WriterOK, Elements, InMemory
<1>e. ASSUME NEW l \in Loops, Place(l) \in OnPage
      PROVE  next[l] \in Events
  BY <1>t, <1>e DEF PageOK, PageInv, Events
<1>1. written' \subseteq Events /\ lost' \subseteq Events
  <2>1. /\ written' \in {written, written \union Elements(batch)}
        /\ lost' \in {lost, lost \union InMemory}
    <3>1. WriterAlone \/ Stop \/ (\E l \in Loops : Emit(l)) \/ TimerFires
            => UNCHANGED <<written, lost>>
      BY DEF WriterAlone, Stop, Emit, TimerFires, elsewhere
    <3> QED
      BY <3>1, AloneOr DEF WriteStep, BatchCommits, BatchFails, BatchEnds, Crash
  <2> QED
    BY <1>t, <2>1
<1>2. ASSUME NEW l \in Loops, NEW f, NextEvent(l, f)
      PROVE  passed' \subseteq Events
  BY <1>t, <1>e, <1>2 DEF NextEvent, OnPage
<1>3. ASSUME NEW l \in Loops, Throws(l)
      PROVE  passed' \subseteq Events
  BY <1>t, <1>2, <1>3 DEF Throws
<1>4. ASSUME NEW p \in Procs, LoadStep(p)
      PROVE  passed' \subseteq Events /\ top' = top
  <2>1. top' = top
    BY <1>4 DEF LoadStep, ReadCache, ReadRow, FillCache, ResetDb, ResetFails, emitted
  <2>2. CASE ~ResetFails(p)
    <3>1. passed' = passed
      BY <1>4, <2>2 DEF LoadStep, ReadCache, ReadRow, FillCache, ResetDb
    <3> QED BY <1>t, <2>1, <3>1
  <2>3. CASE ResetFails(p)
    <3>1. passed' = passed \/ (p \in Loops /\ Throws(p))
      BY <2>3 DEF ResetFails, PageInv, Procs
    <3> QED BY <1>t, <1>3, <2>1, <3>1
  <2> QED
    BY <2>1, <2>2, <2>3
<1>5. ASSUME NEW l \in Loops, Start(l) \/ LoopStep(l)
      PROVE  passed' \subseteq Events /\ top' \in 0 .. N
  <2>1. CASE LoadStep(l)
    BY <1>t, <1>4, <2>1, Constants
  <2>2. CASE SkipUnknown(l) \/ SaveToDb(l) \/ SaveFails(l)
    BY <1>t, <1>2, <1>3, <2>2 DEF SkipUnknown, SaveToDb, SaveFails, emitted
  <2>3. CASE Emit(l)
    BY <1>t, <2>3, NextIsKnown DEF Emit, Events
  <2>4. CASE \/ Start(l) \/ Poll(l) \/ PollsNoMore(l) \/ QueryAnswers(l) \/ QueryEndsPoll(l)
             \/ ReorgSeen(l) \/ UpdateCheckpoint(l)
    BY <1>t, <2>4 DEF Start, Poll, PollsNoMore, QueryAnswers, QueryEndsPoll, ReorgSeen,
                      UpdateCheckpoint, emitted
  <2> QED
    BY <1>5, <2>1, <2>2, <2>3, <2>4 DEF LoopStep
<1>6. ASSUME CacheExpires \/ Stop \/ WriteStep \/ Crash
      PROVE  passed' \subseteq Events /\ top' \in 0 .. N
  <2>1. passed' = passed /\ top' \in {top, 0}
    BY <1>6 DEF CacheExpires, Stop, WriteStep, TimerFires, BatchCommits, BatchFails, BatchEnds,
                Crash, emitted
  <2> QED BY <1>t, <2>1
<1> QED
  BY <1>t, <1>1, <1>4, <1>5, <1>6, Constants DEF Next, LagStep

LEMMA RestStep ==
    ASSUME WriterOK, PageOK, StoreOK, RestOK, PageInv, Next
    PROVE  RestOK'
BY CalmStep, SwitchStep, SetsStep, PageStep DEF RestOK, MovesOK

-----------------------------------------------------------------------------
(* Where a loop is, everything up to there is accounted for.               *)
LEMMA AccountStep ==
    ASSUME WriterOK, PageOK, StoreOK, RestOK, PageInv, WriterKeepsOrder, AccountInv, Next
    PROVE  AccountInv'
<1> DEFINE Behind(p) == 1 .. cp'[p].last \subseteq Handled'
<1> DEFINE Paged(k) == /\ (Place(k) \in {"event", "saveReorg"})' => 1 .. next'[k] - 1 \subseteq Handled'
                       /\ (Place(k) \in {"update", "save"})' => 1 .. next'[k] \subseteq Handled'
<1>t. /\ Lag \in Procs /\ Lag \notin Loops /\ Loops \subseteq Procs /\ N \in Nat
      /\ Initial.last = 0 /\ Initial \in Checkpoint
      /\ \A p \in Procs : cp[p] \in Checkpoint
      /\ \A l \in Loops : next[l] \in Nat
  BY Constants DEF PageOK, StoreOK
<1>h. Handled \subseteq Handled' /\ \A l \in Loops : Emit(l) => next[l] \in Handled'
  BY WriterStep
<1>a. /\ \A p \in Procs : 1 .. cp[p].last \subseteq Handled'
      /\ \A c \in {cache, db} : c # None => 1 .. c.last \subseteq Handled'
      /\ 1 .. Initial.last \subseteq Handled'
      /\ \A l \in Loops : Place(l) \in {"event", "saveReorg"} => 1 .. next[l] - 1 \subseteq Handled'
      /\ \A l \in Loops : Place(l) \in {"update", "save"} => 1 .. next[l] \subseteq Handled'
  BY <1>t, <1>h DEF AccountInv
<1>s. ASSUME \A p \in Procs : Behind(p), \A k \in Loops : Paged(k)
      PROVE  AccountInv'
  <2>1. \A c \in {cache', db'} : c # None => 1 .. c.last \subseteq Handled'
    BY <1>a, <1>s, StoresFrom
  <2> QED
    BY <1>s, <2>1 DEF AccountInv
<1>k. ASSUME NEW k \in Loops, SamePage(k), at'[k] = at[k] \/ at'[k] = "off"
      PROVE  Paged(k)
  BY <1>a, <1>k DEF Place, Loading, SamePage
<1>o. ASSUME NEW l \in Loops, Others(l)
      PROVE  /\ \A p \in Procs \ {l} : Behind(p)
             /\ \A k \in Loops \ {l} : Paged(k)
  BY <1>t, <1>a, <1>k, <1>o DEF Others, MeasuredOr, SamePage
<1>1. CASE Idle
  <2>1. \A k \in Loops : Paged(k)
    BY <1>1, <1>t, <1>k DEF Idle, MeasuredOr, page, SamePage
  <2>2. \A p \in Procs : Behind(p)
    BY <1>1, <1>a DEF Idle
  <2> QED BY <1>s, <2>1, <2>2
<1>2. ASSUME NEW p \in Procs, Within(p)
      PROVE  AccountInv'
  <2>1. \A q \in Procs : Behind(q)
    BY <1>a, <1>2 DEF Within
  <2>2. ASSUME NEW k \in Loops PROVE Paged(k)
    <3>1. CASE k # p
      BY <1>t, <1>2, <1>k, <3>1 DEF Within, page, SamePage
    <3>2. CASE k = p
      BY <1>a, <1>2, <3>2 DEF Within, page, Place
    <3> QED BY <3>1, <3>2
  <2> QED BY <1>s, <2>1, <2>2
<1>3. ASSUME NEW l \in Loops, Begins(l) \/ LoopStep(l), ~Within(l)
      PROVE  AccountInv'
  <2>1. /\ Others(l)
        /\ \/ Begins(l) \/ Slept(l) \/ Handles(l) \/ Polls(l) \/ Ends(l) \/ Fetches(l) \/ Emits(l)
           \/ Saves(l)
    BY <1>3, LoopMoves DEF Begins
  <2>2. Behind(l) /\ Paged(l)
    <3>1. CASE Begins(l) \/ Slept(l) \/ Polls(l) \/ Ends(l)
      BY <1>t, <1>a, <3>1 DEF Begins, Slept, Polls, Ends, Loads, SamePage, Place, Loading
    <3>2. CASE Handles(l)
      <4>1. next[l] \in Handled' \/ Place(l) \notin {"event", "saveReorg"}
        BY <3>2 DEF Handles, Handled
      <4>2. Place(l) \in {"event", "saveReorg", "update", "save"}
        BY <3>2 DEF Handles, OnPage
      <4> QED
        BY <1>t, <1>a, <3>2, <4>1, <4>2 DEF Handles, Loads, Place, Loading
    <3>3. CASE Fetches(l)
      <4>1. cp[l].last \in Nat /\ next'[l] - 1 = cp[l].last
        BY <1>t, <3>3 DEF Fetches, Checkpoint
      <4> QED
        BY <1>t, <1>a, <3>3, <4>1 DEF Fetches, Loads, Place, Loading
    <3>4. CASE Emits(l)
      <4>1. next[l] \in Handled' /\ at[l] = "event"
        BY <1>h, <3>4 DEF Emits, Emit
      <4> QED
        BY <1>t, <1>a, <3>4, <4>1 DEF Emits, Loads, Place, Loading
    <3>5. CASE Saves(l)
      BY <1>t, <1>a, <3>5 DEF Saves, SamePage, Place, Loading
    <3> QED
      BY <2>1, <3>1, <3>2, <3>3, <3>4, <3>5
  <2> QED
    BY <1>o, <1>s, <2>1, <2>2
<1>4. CASE LagStep
  <2>1. Within(Lag)
    BY <1>t, <1>4, LoadMoves DEF LagStep, RestOK
  <2> QED BY <1>t, <1>2, <2>1
<1>5. CASE Crash
  BY <1>t, <1>a, <1>s, <1>5, CrashMoves DEF Place, Loading
<1> QED
  BY <1>t, <1>1, <1>2, <1>3, <1>4, <1>5, OtherMoves

-----------------------------------------------------------------------------
(* While it is calm: the invariant as the only loop that is alive sees it, *)
(* and what a step may then do to the stores.                              *)
Alone(l) == \A k \in Loops \ {l} : ~Alive(k)

CalmAt(l) ==
    /\ LoopInv(l)
    /\ cache # None => Last(cache) >= Last(db)
    /\ at[l] \notin Saving /\ (at[l] \in Readers \/ at[Lag] \in Readers)
          => Last(cache) <= Last(db)
    /\ at[Lag] \in {"fill", "reset", "resetDb"} => cp[Lag].last <= Last(db)
    /\ Place(l) \notin {"update", "save"} => top <= Last(db)

Advance ==
    /\ NotBefore(cache', cache) /\ NotBefore(db', db)
    /\ db # None => db' # None

LEMMA CalmHere ==
    ASSUME NEW l \in Loops, Alone(l), Calmly
    PROVE  CalmAt(l)
<1>1. Lag \in Procs /\ l \in Procs
  BY Constants
<1>2. \A k \in Loops : k # l => at[k] = "off" /\ Place(k) = "off"
  BY DEF Alone, Alive, Place, Loading
<1>3. at[l] \notin Saving => \A k \in Loops : at[k] \notin Saving
  BY <1>2 DEF Saving
<1>4. Place(l) \notin {"update", "save"} => \A k \in Loops : Place(k) \notin {"update", "save"}
  BY <1>2
<1> QED
  BY <1>1, <1>3, <1>4 DEF Calmly, Ordered, CalmAt

LEMMA CalmThere ==
    ASSUME NEW l \in Loops, Alone(l)', CalmAt(l)'
    PROVE  Calmly'
<1>1. \A p \in Procs : p \in Loops \/ p = Lag
  BY DEF Procs
<1>2. \A k \in Loops : k # l => at'[k] = "off"
  BY DEF Alone, Alive
<1>3. OneLoop'
  BY <1>2 DEF OneLoop, Alive
<1>4. \A k \in Loops : LoopInv(k)'
  <2> SUFFICES ASSUME NEW k \in Loops, k # l PROVE LoopInv(k)'
    BY DEF CalmAt
  <2> QED
    BY <1>2 DEF LoopInv, Place, Loading, Saving
<1>5. Ordered'
  <2>1. (cache # None => Last(cache) >= Last(db))'
    BY DEF CalmAt
  <2>2. ((\A k \in Loops : at[k] \notin Saving) =>
            \A p \in Procs : at[p] \in Readers => Last(cache) <= Last(db))'
    BY <1>1, <1>2 DEF CalmAt, Readers
  <2>3. (at[Lag] \in {"fill", "reset", "resetDb"} => cp[Lag].last <= Last(db))'
    BY DEF CalmAt
  <2>4. ((\A k \in Loops : Place(k) \notin {"update", "save"}) => top <= Last(db))'
    BY DEF CalmAt
  <2> QED
    BY <2>1, <2>2, <2>3, <2>4 DEF Ordered
<1> QED
  BY <1>3, <1>4, <1>5 DEF Calmly

(* What a step of a loop leaves of the lag measurement and of other loops. *)
LagKept ==
    /\ cp'[Lag] = cp[Lag]
    /\ at'[Lag] = at[Lag] \/ (at[Lag] = "off" /\ at'[Lag] = "row" /\ cache = None)

LEMMA AloneStep ==
    ASSUME PageOK, NEW l \in Loops, Alone(l), calm',
           Others(l) \/ Within(l)
    PROVE  Alone(l)' /\ LagKept
<1>1. Lag \in Procs /\ Lag # l /\ Lag \notin Loops /\ Loops \subseteq Procs
  BY Constants
<1>2. CASE Others(l)
  BY <1>1, <1>2 DEF Others, MeasuredOr, Alone, Alive, LagKept
<1>3. CASE Within(l)
  BY <1>1, <1>3 DEF Within, Alone, Alive, LagKept
<1> QED
  BY <1>2, <1>3

(* The numbers of a calm step.                                             *)
LEMMA LastIs ==
    ASSUME TypeOK
    PROVE  /\ Last(cache) \in Nat /\ Last(db) \in Nat /\ Last(None) = 0 /\ top \in Nat
           /\ \A c \in Checkpoint : Last(c) = c.last /\ c.last \in Nat /\ c # None
           /\ \A p \in Procs : cp[p] \in Checkpoint /\ cp[p].last \in Nat
           /\ \A l \in Loops : next[l] \in Nat
           /\ (cache = None => Last(cache) = 0) /\ (db = None => Last(db) = 0)
<1>1. \A c \in Checkpoint : Last(c) = c.last /\ c.last \in Nat /\ c # None
  BY Constants DEF Last, Checkpoint
<1>2. Last(None) = 0
  BY DEF Last
<1>3. /\ Last(cache) \in Nat /\ Last(db) \in Nat
      /\ (cache = None => Last(cache) = 0) /\ (db = None => Last(db) = 0)
  <2>1. cache \in Checkpoint \union {None} /\ db \in Checkpoint \union {None}
    BY DEF TypeOK
  <2> QED
    BY <1>1, <1>2, <2>1
<1>4. /\ \A p \in Procs : cp[p] \in Checkpoint
      /\ \A l \in Loops : next[l] \in Nat
  BY Constants, PartsOfType DEF PageOK, StoreOK
<1>5. top \in Nat
  BY Constants, PartsOfType DEF RestOK
<1> QED
  BY <1>1, <1>2, <1>3, <1>4, <1>5

LEMMA LoadCalm ==
    ASSUME TypeOK, TypeOK', NEW l \in Loops, CalmAt(l), LagKept, LoadStep(l), calm'
    PROVE  CalmAt(l)' /\ Advance
<1>l. /\ Last(cache) \in Nat /\ Last(db) \in Nat /\ top \in Nat
      /\ \A c \in Checkpoint : Last(c) = c.last /\ c.last \in Nat /\ c # None
      /\ \A p \in Procs : cp[p] \in Checkpoint /\ cp[p].last \in Nat
      /\ \A k \in Loops : next[k] \in Nat
      /\ (cache = None => Last(cache) = 0) /\ (db = None => Last(db) = 0)
      /\ Initial \in Checkpoint /\ Initial.last = 0
  BY LastIs, Constants
<1>t. /\ l \in Procs /\ Lag \in Procs /\ l # Lag
      /\ at \in [Procs -> Awaits] /\ aim \in [Procs -> Aims] /\ cp \in [Procs -> Checkpoint]
      /\ cache \in Checkpoint \union {None} /\ db \in Checkpoint \union {None}
  BY Constants, PartsOfType DEF PageOK, StoreOK
<1>a. aim[l] \in Aims
  BY <1>t
<1>1. ASSUME UNCHANGED <<next, aim, top>>, at[l] \in Loading, at'[l] \in Loading \union {aim[l]},
             Last(cache') \in Nat, Last(db') = Last(db),
             Last(cache') <= Last(cache) \/ Last(cache') <= Last(db),
             cache' # None => Last(cache') >= Last(db),
             at'[l] \in Readers \/ at'[Lag] \in Readers => Last(cache') <= Last(db),
             at'[l] \in {"fill", "reset", "resetDb"} => cp'[l].last = Last(db),
             at'[l] \in {"query", "event"} =>
                 /\ cp'[l].last >= Last(cache') /\ cp'[l].last >= Last(db)
                 /\ cp'[l].last = Last(cache) \/ cp'[l].last = Last(db)
      PROVE  CalmAt(l)'
  <2>1. Place(l)' = Place(l) /\ at[l] \notin Saving /\ at'[l] \notin Saving
    BY <1>1, <1>a DEF Place, Loading, Saving, Aims
  <2>2. LoopInv(l)'
    BY <1>l, <1>1, <2>1 DEF CalmAt, LoopInv, Place, Loading, Saving
  <2>3. (at[Lag] \in {"fill", "reset", "resetDb"} => cp[Lag].last <= Last(db))'
    BY <1>1 DEF CalmAt, LagKept
  <2>4. (Place(l) \notin {"update", "save"} => top <= Last(db))'
    BY <1>1, <2>1 DEF CalmAt
  <2> QED
    BY <1>1, <2>2, <2>3, <2>4 DEF CalmAt
<1>2. ASSUME NEW c, Return(l, c), at[l] \in Loading
      PROVE  at'[l] = aim[l] /\ cp'[l] = c /\ aim[l] \notin Readers
  BY <1>t, <1>a, <1>2 DEF Return, Aims, Readers
<1>3. at'[Lag] \in Readers => at[Lag] \in Readers \/ cache = None
  BY DEF LagKept
<1>4. CASE ReadCache(l)
  <2>1. /\ at[l] \in Loading /\ UNCHANGED <<next, aim, top, cache, db>> /\ Advance
    <3>1. /\ at[l] \in Loading /\ UNCHANGED <<next, aim, top, cache, db>>
      BY <1>4 DEF ReadCache, Loading, page, emitted, stored
    <3>2. Advance
      BY <1>l, <1>t, <3>1 DEF Advance, NotBefore
    <3> QED BY <3>1, <3>2
  <2>2. CASE cache # None /\ Return(l, cache)
    <3>1. at'[l] = aim[l] /\ cp'[l] = cache /\ aim[l] \notin Readers
      BY <1>2, <2>1, <2>2
    <3>2. cp'[l].last = Last(cache)
      BY <1>l, <1>t, <2>2, <3>1
    <3> QED
      BY <1>1, <1>3, <1>l, <1>a, <2>1, <2>2, <3>1, <3>2 DEF CalmAt, Loading, Saving, Readers, Aims
  <2>3. CASE cache = None /\ at' = [at EXCEPT ![l] = "row"] /\ UNCHANGED cp
    <3>1. at'[l] = "row"
      BY <1>t, <2>3
    <3> QED
      BY <1>1, <1>l, <2>1, <2>3, <3>1 DEF Loading
  <2> QED
    BY <1>4, <2>1, <2>2, <2>3 DEF ReadCache, FaultIf, Fault
<1>5. CASE ReadRow(l)
  <2>1. /\ at[l] = "row" /\ UNCHANGED <<next, aim, top, cache, db>> /\ Advance
    <3>1. /\ at[l] = "row" /\ UNCHANGED <<next, aim, top, cache, db>>
      BY <1>5 DEF ReadRow, page, emitted, stored
    <3>2. Advance
      BY <1>l, <1>t, <3>1 DEF Advance, NotBefore
    <3> QED BY <3>1, <3>2
  <2>2. at'[l] \in {"fill", "reset"} /\ cp'[l].last = Last(db)
    <3>1. CASE db # None /\ cp' = [cp EXCEPT ![l] = db] /\ at' = [at EXCEPT ![l] = "fill"]
      BY <1>l, <1>t, <3>1
    <3>2. CASE db = None /\ cp' = [cp EXCEPT ![l] = Initial] /\ at' = [at EXCEPT ![l] = "reset"]
      BY <1>l, <1>t, <3>2
    <3> QED
      BY <1>5, <3>1, <3>2 DEF ReadRow, FaultIf, Fault
  <2> QED
    BY <1>1, <1>l, <2>1, <2>2 DEF CalmAt, Loading, Saving, Readers
<1>6. CASE FillCache(l)
  <2>1. /\ at[l] \in {"fill", "reset"} /\ UNCHANGED <<next, aim, top, db>>
        /\ cache' = cp[l] /\ cp[l].last = Last(db) /\ Last(cache) <= Last(db)
    BY <1>6 DEF FillCache, page, emitted, Put, Fault, CalmAt, LoopInv, Saving, Readers
  <2>2. cache' # None /\ Last(cache') = Last(db) /\ Advance
    <3>1. cache' # None /\ Last(cache') = Last(db) /\ cp[l] # None
      BY <1>l, <1>t, <2>1
    <3>2. Advance
      BY <1>l, <1>t, <2>1, <3>1 DEF Advance, NotBefore
    <3> QED BY <3>1, <3>2
  <2>3. /\ at'[l] \in {aim[l], "resetDb"} /\ cp'[l].last = Last(db)
    <3>1. CASE Return(l, cp[l])
      BY <1>2, <2>1, <3>1 DEF Loading
    <3>2. CASE at' = [at EXCEPT ![l] = "resetDb"] /\ UNCHANGED cp
      BY <1>t, <2>1, <3>2
    <3> QED
      BY <1>6, <3>1, <3>2 DEF FillCache
  <2> QED
    BY <1>1, <1>l, <2>1, <2>2, <2>3 DEF Loading
<1>7. CASE ResetDb(l)
  <2>1. /\ at[l] = "resetDb" /\ UNCHANGED <<next, aim, top, cache>>
        /\ db' = cp[l] /\ cp[l].last = Last(db) /\ Last(cache) <= Last(db) /\ Return(l, cp[l])
    BY <1>7 DEF ResetDb, page, emitted, CalmAt, LoopInv, Saving, Readers
  <2>2. db' # None /\ Last(db') = Last(db) /\ Advance
    <3>1. db' # None /\ Last(db') = Last(db) /\ cp[l] # None
      BY <1>l, <1>t, <2>1
    <3>2. Advance
      BY <1>l, <1>t, <2>1, <3>1 DEF Advance, NotBefore
    <3> QED BY <3>1, <3>2
  <2>3. at'[l] = aim[l] /\ cp'[l] = cp[l] /\ aim[l] \notin Readers
    BY <1>2, <2>1 DEF Loading
  <2> QED
    BY <1>1, <1>l, <2>1, <2>2, <2>3 DEF CalmAt, Loading, Readers
<1>8. ~ResetFails(l)
  BY DEF ResetFails, Throws, NextEvent, FaultIf, Fault
<1> QED
  BY <1>4, <1>5, <1>6, <1>7, <1>8 DEF LoadStep
(* The end of an event, with nothing ahead of the row but what is saved.   *)
LEMMA NextEventCalm ==
    ASSUME TypeOK, NEW l \in Loops, LagKept, calm', NextEvent(l, FALSE), Place(l) \in OnPage,
           Last(cache') = Last(cache), Last(db') \in Nat, Last(db') >= Last(db),
           Last(db') < next[l] + 1, Last(cache) < next[l] + 1, cache' = cache,
           cache # None => Last(cache) >= Last(db'), Last(cache) <= Last(db') \/ at[Lag] \notin Readers,
           at[Lag] \in {"fill", "reset", "resetDb"} => cp[Lag].last <= Last(db),
           top' = top, top <= Last(db')
    PROVE  CalmAt(l)'
<1>l. /\ Last(cache) \in Nat /\ Last(db) \in Nat /\ top \in Nat
      /\ \A p \in Procs : cp[p] \in Checkpoint /\ cp[p].last \in Nat
      /\ \A k \in Loops : next[k] \in Nat
      /\ (cache = None => Last(cache) = 0)
  BY LastIs
<1>t. /\ l \in Procs /\ Lag \in Procs /\ l # Lag
      /\ PageOK /\ StoreOK /\ handle \in Loops \union {None}
  BY Constants, PartsOfType DEF RestOK
<1>1. /\ at'[l] = "sleep" \/ (at'[l] = "cache" /\ aim'[l] = "event" /\ next'[l] = next[l] + 1)
  <2>1. CASE LoadFor(l, "event") /\ next' = [next EXCEPT ![l] = @ + 1]
    BY <1>t, <2>1 DEF LoadFor, PageOK
  <2>2. CASE \E fails \in BOOLEAN : Sleep(l, Measured(fails))
    BY <1>t, <2>2, SleepMoves, MeasuredMoves DEF Slept
  <2> QED
    BY <2>1, <2>2 DEF NextEvent
<1>2. LoopInv(l)'
  BY <1>l, <1>1 DEF LoopInv, Place, Loading, Saving
<1>3. (at[Lag] \in Readers => Last(cache) <= Last(db))'
  BY <1>l DEF LagKept
<1>4. at'[l] \notin Saving /\ at'[l] \notin Readers /\ Place(l)' \notin {"update", "save"}
  BY <1>1 DEF Saving, Readers, Place, Loading
<1>5. (at[Lag] \in {"fill", "reset", "resetDb"} => cp[Lag].last <= Last(db))'
  BY <1>l, <1>t DEF LagKept
<1> QED
  BY <1>2, <1>3, <1>4, <1>5 DEF CalmAt

LEMMA LoopCalm ==
    ASSUME TypeOK, TypeOK', PageInv, NEW l \in Loops, CalmAt(l), LagKept,
           LoopStep(l), ~LoadStep(l), calm'
    PROVE  CalmAt(l)' /\ Advance
<1>l. /\ Last(cache) \in Nat /\ Last(db) \in Nat /\ top \in Nat
      /\ \A c \in Checkpoint : Last(c) = c.last /\ c.last \in Nat /\ c # None
      /\ \A p \in Procs : cp[p] \in Checkpoint /\ cp[p].last \in Nat
      /\ \A k \in Loops : next[k] \in Nat
      /\ (cache = None => Last(cache) = 0) /\ (db = None => Last(db) = 0)
      /\ cp' \in [Procs -> Checkpoint]
  BY LastIs DEF TypeOK
<1>t. /\ l \in Procs /\ Lag \in Procs /\ l # Lag
      /\ at \in [Procs -> Awaits] /\ aim \in [Procs -> Aims] /\ cp \in [Procs -> Checkpoint]
      /\ next \in [Loops -> 1 .. N + 1]
      /\ cache \in Checkpoint \union {None} /\ db \in Checkpoint \union {None}
      /\ PageOK /\ StoreOK /\ handle \in Loops \union {None}
  BY Constants, PartsOfType DEF PageOK, StoreOK, RestOK
<1>s. ASSUME UNCHANGED stored
      PROVE  Advance /\ cache' = cache /\ db' = db
  <2>1. cache' = cache /\ db' = db
    BY <1>s DEF stored
  <2> QED
    BY <1>l, <1>t, <2>1 DEF Advance, NotBefore
<1>k. (at[Lag] \in {"fill", "reset", "resetDb"} => cp[Lag].last <= Last(db)) =>
          (at'[Lag] \in {"fill", "reset", "resetDb"} => cp'[Lag].last <= Last(db))
  BY DEF LagKept
<1>1. CASE Poll(l) \/ PollsNoMore(l) \/ QueryEndsPoll(l)
  <2>1. /\ UNCHANGED <<stored, top>> /\ at[l] \in {"sleep", "query"}
    BY <1>1 DEF Poll, PollsNoMore, QueryEndsPoll, emitted
  <2>2. at'[l] \in {"sleep", "off"} \/ (at'[l] = "cache" /\ aim'[l] = "query")
    <3>1. CASE Poll(l) \/ PollsNoMore(l)
      BY <1>t, <3>1 DEF Poll, PollsNoMore, LoadFor
    <3>2. CASE QueryEndsPoll(l)
      BY <1>t, <3>2, SleepMoves DEF QueryEndsPoll, Slept
    <3> QED BY <1>1, <3>1, <3>2
  <2>3. LoopInv(l)'
    BY <2>2 DEF LoopInv, Place, Loading, Saving
  <2>4. Place(l) \notin {"update", "save"} /\ at[l] \notin Saving /\ at'[l] \notin Readers
    BY <2>1, <2>2 DEF Place, Loading, Saving, Readers
  <2>5. at'[Lag] \in Readers => Last(cache) <= Last(db)
    BY <1>l, <2>4 DEF CalmAt, LagKept
  <2> QED
    BY <1>s, <1>k, <2>1, <2>3, <2>4, <2>5 DEF CalmAt
<1>2. CASE QueryAnswers(l)
  <2>1. /\ UNCHANGED <<stored, top>> /\ at[l] = "query"
        /\ at'[l] = "cache" /\ aim'[l] = "event" /\ next'[l] = cp[l].last + 1
    BY <1>2, <1>t DEF QueryAnswers, LoadFor, emitted
  <2>2. cp[l].last >= Last(cache) /\ cp[l].last >= Last(db)
    BY <2>1 DEF CalmAt, LoopInv
  <2>3. LoopInv(l)'
    <3>1. cache' = cache /\ db' = db /\ cp[l].last \in Nat
      BY <1>l, <1>s, <1>t, <2>1
    <3> QED
      BY <1>l, <2>1, <2>2, <3>1 DEF LoopInv, Place, Loading, Saving
  <2>4. Place(l) \notin {"update", "save"} /\ at[l] \notin Saving /\ at'[l] \notin Readers
    BY <2>1 DEF Place, Loading, Saving, Readers
  <2>5. at'[Lag] \in Readers => Last(cache) <= Last(db)
    BY <1>l, <2>4 DEF CalmAt, LagKept
  <2> QED
    BY <1>s, <1>k, <2>1, <2>3, <2>4, <2>5 DEF CalmAt
<1>3. ASSUME at[l] \in {"event", "update"}, at'[l] = (IF at[l] = "event" THEN "saveReorg" ELSE "save"),
             UNCHANGED <<db, next, aim, top>>, cache' = cp'[l],
             cp'[l].last = IF at[l] = "event" THEN cp[l].last ELSE next[l]
      PROVE  CalmAt(l)' /\ Advance
  <2>1. /\ cp'[l].last \in Nat /\ cache' # None /\ Last(cache') = cp'[l].last
        /\ cp'[l].last >= Last(cache) /\ cp'[l].last >= Last(db)
        /\ at[l] = "event" => cp'[l].last < next[l] /\ top <= Last(db)
        /\ at[l] = "update" => cp'[l].last = next[l] /\ top <= next[l]
    <3>1. /\ at[l] = "event" => /\ cp[l].last >= Last(cache) /\ cp[l].last >= Last(db)
                                /\ cp[l].last < next[l] /\ top <= Last(db)
          /\ at[l] = "update" => /\ next[l] > Last(cache) /\ next[l] > Last(db)
                                 /\ top <= next[l]
      BY <1>3 DEF CalmAt, LoopInv, Place, Loading
    <3>2. cp'[l] \in Checkpoint
      BY <1>l, <1>t
    <3> QED
      BY <1>l, <1>3, <3>1, <3>2
  <2>2. Advance
    BY <1>l, <1>t, <1>3, <2>1 DEF Advance, NotBefore
  <2>3. at'[l] \in Saving /\ at'[l] \notin {"query", "event", "update"}
    BY <1>3 DEF Saving
  <2>4. LoopInv(l)'
    BY <1>l, <1>3, <2>1, <2>3 DEF LoopInv, Place, Loading, Saving
  <2>5. (Place(l) \notin {"update", "save"} => top <= Last(db))'
    BY <1>3, <2>1 DEF Place, Loading
  <2> QED
    BY <1>3, <1>k, <2>1, <2>2, <2>3, <2>4, <2>5 DEF CalmAt
<1>4. CASE ReorgSeen(l)
  <2>1. /\ cp' = [cp EXCEPT ![l].height = Height[next[l]]] /\ cache' = cp'[l]
        /\ at[l] = "event" /\ at' = [at EXCEPT ![l] = "saveReorg"]
        /\ UNCHANGED <<db, next, aim, top>> /\ Backwards(next[l], cp[l])
    BY <1>4 DEF ReorgSeen, Put, Fault, page, emitted
  <2>2. at'[l] = "saveReorg" /\ cp'[l].last = cp[l].last
    BY <1>t, <2>1 DEF Checkpoint
  <2> QED
    BY <1>3, <2>1, <2>2
<1>5. CASE UpdateCheckpoint(l)
  <2>1. /\ cp' = [cp EXCEPT ![l] = [last |-> next[l], height |-> StoredHeight(next[l])]]
        /\ cache' = cp'[l] /\ at[l] = "update" /\ at' = [at EXCEPT ![l] = "save"]
        /\ UNCHANGED <<db, next, aim, top>>
    BY <1>5 DEF UpdateCheckpoint, Put, Fault, page, emitted
  <2>2. at'[l] = "save" /\ cp'[l].last = next[l]
    BY <1>t, <2>1
  <2> QED
    BY <1>3, <2>1, <2>2
<1>6. CASE SkipUnknown(l)
  <2>1. /\ at[l] = "event" /\ UNCHANGED <<stored, top>> /\ NextEvent(l, FALSE)
    BY <1>6 DEF SkipUnknown, emitted
  <2>2. Place(l) = "event" /\ at[l] \notin Saving
    BY <2>1 DEF Place, Loading, Saving
  <2>3. /\ next[l] > Last(cache) /\ next[l] > Last(db) /\ top <= Last(db)
        /\ cache # None => Last(cache) >= Last(db)
        /\ at[Lag] \in Readers => Last(cache) <= Last(db)
        /\ at[Lag] \in {"fill", "reset", "resetDb"} => cp[Lag].last <= Last(db)
    BY <2>2 DEF CalmAt, LoopInv
  <2>4. CalmAt(l)'
    <3>1. cache' = cache /\ db' = db /\ next[l] \in Nat
      BY <1>l, <1>s, <2>1
    <3>2. /\ Last(cache') = Last(cache) /\ Last(db') \in Nat /\ Last(db') >= Last(db)
          /\ Last(db') < next[l] + 1 /\ Last(cache) < next[l] + 1 /\ top <= Last(db')
          /\ cache # None => Last(cache) >= Last(db')
          /\ Last(cache) <= Last(db') \/ at[Lag] \notin Readers
      BY <1>l, <2>3, <3>1
    <3> QED
      BY <2>1, <2>2, <2>3, <3>1, <3>2, NextEventCalm DEF OnPage
  <2> QED
    BY <1>s, <2>1, <2>4
<1>7. CASE SaveToDb(l)
  <2>1. /\ at[l] \in Saving /\ db' = cp[l] /\ cache' = cache /\ top' = top /\ NextEvent(l, FALSE)
    BY <1>7 DEF SaveToDb, emitted, Saving
  <2>2. Place(l) = at[l] /\ at[l] \in {"save", "saveReorg"}
    BY <2>1 DEF Place, Loading, Saving
  <2>3. /\ Last(db) <= cp[l].last /\ (cache # None => Last(cache) = cp[l].last)
        /\ cp[l].last <= next[l]
        /\ at[l] = "save" => cp[l].last = next[l] /\ top <= next[l]
        /\ at[l] = "saveReorg" => top <= Last(db)
        /\ at[Lag] \in {"fill", "reset", "resetDb"} => cp[Lag].last <= Last(db)
    <3>1. next[l] \in Nat /\ cp[l].last \in Nat
      BY <1>l, <1>t
    <3>2. LoopInv(l) /\ (at[Lag] \in {"fill", "reset", "resetDb"} => cp[Lag].last <= Last(db))
      BY DEF CalmAt
    <3>3. at[l] = "saveReorg" => top <= Last(db)
      BY <2>2 DEF CalmAt
    <3>4. /\ Last(db) <= cp[l].last /\ (cache # None => Last(cache) = cp[l].last)
          /\ at[l] = "save" => cp[l].last = next[l] /\ top <= next[l]
          /\ at[l] = "saveReorg" => cp[l].last < next[l]
      BY <2>1, <3>2 DEF LoopInv
    <3> QED
      BY <2>2, <3>1, <3>2, <3>3, <3>4
  <2>4. Last(db') = cp[l].last /\ db' # None /\ cp[l].last \in Nat
    BY <1>l, <1>t, <2>1
  <2>5. Advance
    BY <1>l, <1>t, <2>1, <2>3, <2>4 DEF Advance, NotBefore
  <2>6. CalmAt(l)'
    <3>1. top <= Last(db') /\ Last(cache) <= Last(db')
      BY <1>l, <2>2, <2>3, <2>4
    <3>2. Last(db') < next[l] + 1 /\ Last(cache) < next[l] + 1 /\ Last(db') >= Last(db)
      BY <1>l, <2>3, <2>4
    <3> QED
      BY <2>1, <2>2, <2>3, <2>4, <3>1, <3>2, NextEventCalm DEF OnPage
  <2> QED
    BY <2>1, <2>5, <2>6
<1>8. CASE Emit(l)
  <2>1. /\ UNCHANGED <<stored, next>> /\ at[l] = "event" /\ top' = next[l]
        /\ at'[l] = "cache" /\ aim'[l] = "update"
    BY <1>8, <1>t DEF Emit, LoadFor
  <2>2. /\ next[l] > Last(cache) /\ next[l] > Last(db) /\ top <= Last(db)
    BY <2>1 DEF CalmAt, LoopInv, Place, Loading
  <2>3. top' <= next'[l]
    BY <1>l, <2>1
  <2>4. LoopInv(l)'
    BY <1>l, <1>s, <2>1, <2>2, <2>3 DEF LoopInv, Place, Loading, Saving
  <2>5. Place(l)' = "update" /\ at[l] \notin Saving /\ at'[l] \notin Readers
    BY <2>1 DEF Place, Loading, Saving, Readers
  <2>6. at'[Lag] \in Readers => Last(cache) <= Last(db)
    BY <1>l, <2>5 DEF CalmAt, LagKept
  <2> QED
    BY <1>s, <1>k, <2>1, <2>4, <2>5, <2>6 DEF CalmAt
<1>9. ~SaveFails(l)
  BY DEF SaveFails, Throws, NextEvent, FaultIf, Fault
<1> QED
  BY <1>1, <1>2, <1>4, <1>5, <1>6, <1>7, <1>8, <1>9 DEF LoopStep

(* A measurement of the lag that is in time puts back what the row has.    *)
LEMMA LagCalm ==
    ASSUME TypeOK, PageInv, Calmly, LagStep, calm'
    PROVE  Calmly' /\ Advance
<1>l. /\ Last(cache) \in Nat /\ Last(db) \in Nat /\ top \in Nat
      /\ \A c \in Checkpoint : Last(c) = c.last /\ c.last \in Nat /\ c # None
      /\ \A p \in Procs : cp[p] \in Checkpoint /\ cp[p].last \in Nat
      /\ \A k \in Loops : next[k] \in Nat
      /\ (cache = None => Last(cache) = 0) /\ (db = None => Last(db) = 0)
      /\ Initial \in Checkpoint /\ Initial.last = 0
  BY LastIs, Constants
<1>t. /\ Lag \in Procs /\ Lag \notin Loops /\ Loops \subseteq Procs /\ aim[Lag] = "off"
      /\ at \in [Procs -> Awaits] /\ cp \in [Procs -> Checkpoint]
      /\ cache \in Checkpoint \union {None} /\ db \in Checkpoint \union {None}
  BY Constants, PartsOfType DEF PageOK, StoreOK, PageInv
<1>o. /\ cache # None => Last(cache) >= Last(db)
      /\ (\A k \in Loops : at[k] \notin Saving) =>
            \A p \in Procs : at[p] \in Readers => Last(cache) <= Last(db)
      /\ at[Lag] \in {"fill", "reset", "resetDb"} => cp[Lag].last <= Last(db)
      /\ (\A k \in Loops : Place(k) \notin {"update", "save"}) => top <= Last(db)
  BY DEF Calmly, Ordered
<1>1. ASSUME UNCHANGED <<page, top>>, \A k \in Loops : at'[k] = at[k] /\ cp'[k] = cp[k],
             Last(db') = Last(db), Last(cache') \in Nat,
             cache' = cache \/ (cache' # None /\ Last(cache') = Last(db)),
             \A k \in Loops : at[k] \in Saving /\ cache' # None => Last(cache') = cp[k].last,
             at'[Lag] \in Readers => at[Lag] \in Readers,
             at'[Lag] \in {"fill", "reset", "resetDb"} => cp'[Lag].last <= Last(db)
      PROVE  Calmly'
  <2>1. \A k \in Loops : Place(k)' = Place(k) /\ next'[k] = next[k]
    BY <1>1 DEF Place, page
  <2>2. OneLoop'
    BY <1>1 DEF Calmly, OneLoop, Alive
  <2>3. ASSUME NEW k \in Loops PROVE LoopInv(k)'
    <3>1. at'[k] = at[k] /\ cp'[k] = cp[k] /\ Place(k)' = Place(k) /\ next'[k] = next[k]
      BY <1>1, <2>1
    <3>2. LoopInv(k) /\ (at[k] \in Saving /\ cache' # None => Last(cache') = cp[k].last)
      BY <1>1 DEF Calmly
    <3>3. Last(cache') <= Last(cache) \/ Last(cache') <= Last(db)
      BY <1>l, <1>1
    <3> QED
      BY <1>l, <1>t, <1>1, <3>1, <3>2, <3>3 DEF LoopInv
  <2>4. Ordered'
    <3>1. (cache # None => Last(cache) >= Last(db))'
      BY <1>l, <1>o, <1>1
    <3>2. ((\A k \in Loops : at[k] \notin Saving) =>
              \A p \in Procs : at[p] \in Readers => Last(cache) <= Last(db))'
      <4> SUFFICES ASSUME \A k \in Loops : at'[k] \notin Saving,
                          NEW p \in Procs, at'[p] \in Readers
                   PROVE  Last(cache') <= Last(db')
        OBVIOUS
      <4>1. at[p] \in Readers /\ \A k \in Loops : at[k] \notin Saving
        BY <1>1 DEF Procs
      <4>2. Last(cache) <= Last(db)
        BY <1>o, <4>1
      <4> QED BY <1>l, <1>1, <4>2
    <3>3. (at[Lag] \in {"fill", "reset", "resetDb"} => cp[Lag].last <= Last(db))'
      BY <1>1
    <3>4. ((\A k \in Loops : Place(k) \notin {"update", "save"}) => top <= Last(db))'
      BY <1>o, <1>1, <2>1
    <3> QED
      BY <3>1, <3>2, <3>3, <3>4 DEF Ordered
  <2> QED
    BY <2>2, <2>3, <2>4 DEF Calmly
<1>k. \A k \in Loops : at[k] \in Saving =>
          Last(db) <= cp[k].last /\ (cache # None => Last(cache) = cp[k].last)
  BY DEF Calmly, LoopInv
<1>s. ASSUME cache' = cache, db' = db
      PROVE  Advance
  BY <1>l, <1>t, <1>s DEF Advance, NotBefore
<1>r. ASSUME NEW c, Return(Lag, c)
      PROVE  at'[Lag] = "off" /\ \A k \in Loops : at'[k] = at[k] /\ cp'[k] = cp[k]
  BY <1>t, <1>r DEF Return
<1>2. CASE ReadCache(Lag)
  <2>1. /\ at[Lag] = "cache" /\ cache' = cache /\ db' = db /\ UNCHANGED <<page, top>>
        /\ Return(Lag, cache) \/ (cache = None /\ at' = [at EXCEPT ![Lag] = "row"] /\ UNCHANGED cp)
    BY <1>2 DEF ReadCache, stored, emitted, FaultIf, Fault
  <2>2. CASE Return(Lag, cache)
    BY <1>1, <1>k, <1>l, <1>r, <1>s, <2>1, <2>2 DEF Readers
  <2>3. CASE cache = None /\ at' = [at EXCEPT ![Lag] = "row"] /\ UNCHANGED cp
    <3>1. OneLoop' /\ \A k \in Loops : LoopInv(k)'
      BY <1>t, <2>1, <2>3 DEF Calmly, OneLoop, Alive, LoopInv, Place, page
    <3>2. at'[Lag] = "row" /\ \A k \in Loops : at'[k] = at[k] /\ Place(k)' = Place(k)
      BY <1>t, <2>1, <2>3 DEF Place, page
    <3>3. Ordered'
      BY <1>l, <1>o, <2>1, <2>3, <3>2 DEF Ordered
    <3> QED BY <1>s, <2>1, <3>1, <3>3 DEF Calmly
  <2> QED BY <2>1, <2>2, <2>3
<1>3. CASE ReadRow(Lag)
  <2>1. /\ at[Lag] = "row" /\ cache' = cache /\ db' = db /\ UNCHANGED <<page, top>>
    BY <1>3 DEF ReadRow, stored, emitted
  <2>2. /\ at'[Lag] \in {"fill", "reset"} /\ cp'[Lag].last = Last(db)
        /\ \A k \in Loops : at'[k] = at[k] /\ cp'[k] = cp[k]
    <3>1. CASE db # None /\ cp' = [cp EXCEPT ![Lag] = db] /\ at' = [at EXCEPT ![Lag] = "fill"]
      BY <1>l, <1>t, <3>1
    <3>2. CASE db = None /\ cp' = [cp EXCEPT ![Lag] = Initial] /\ at' = [at EXCEPT ![Lag] = "reset"]
      BY <1>l, <1>t, <3>2
    <3> QED
      BY <1>3, <3>1, <3>2 DEF ReadRow, FaultIf, Fault
  <2> QED
    BY <1>1, <1>k, <1>l, <1>s, <2>1, <2>2 DEF Readers
<1>n. ASSUME at[Lag] \in {"fill", "reset", "resetDb"}, ~Stale(cp[Lag])
      PROVE  /\ cp[Lag] # None /\ Last(cp[Lag]) = cp[Lag].last /\ cp[Lag].last = Last(db)
             /\ \A k \in Loops : at[k] \in Saving => cp[Lag].last = cp[k].last
             /\ Last(cache) <= Last(db)
  <2>1. /\ cp[Lag] # None /\ Last(cp[Lag]) = cp[Lag].last /\ cp[Lag].last \in Nat
        /\ \A k \in Loops : Last(cp[k]) = cp[k].last /\ cp[k].last \in Nat
    BY <1>l, <1>t
  <2>2. ~(cp[Lag].last < Last(db)) /\ cp[Lag].last <= Last(db)
    BY <1>o, <1>n, <2>1 DEF Stale
  <2>3. cp[Lag].last = Last(db)
    BY <1>l, <2>1, <2>2
  <2>4. ASSUME NEW k \in Loops, at[k] \in Saving
        PROVE  cp[Lag].last = cp[k].last /\ Last(cache) <= Last(db)
    <3>1. ~(cp[Lag].last < cp[k].last) /\ Last(db) <= cp[k].last
      BY <1>n, <1>k, <2>1, <2>4 DEF Stale
    <3>2. cp[Lag].last = cp[k].last
      BY <1>l, <2>1, <2>3, <3>1
    <3> QED BY <1>l, <1>k, <2>3, <2>4, <3>2
  <2>5. CASE \A k \in Loops : at[k] \notin Saving
    BY <1>n, <1>o, <1>t, <2>1, <2>3, <2>5 DEF Readers
  <2> QED BY <2>1, <2>3, <2>4, <2>5
<1>4. CASE FillCache(Lag)
  <2>1. /\ at[Lag] \in {"fill", "reset"} /\ db' = db /\ UNCHANGED <<page, top>>
        /\ cache' = cp[Lag] /\ InTime(Lag)
        /\ Return(Lag, cp[Lag]) \/ (at' = [at EXCEPT ![Lag] = "resetDb"] /\ UNCHANGED cp)
    BY <1>4 DEF FillCache, Put, Fault, emitted
  <2>2. /\ cache' # None /\ Last(cache') = Last(db) /\ Last(cache) <= Last(db)
        /\ \A k \in Loops : at[k] \in Saving => Last(cache') = cp[k].last
    BY <1>n, <2>1 DEF InTime
  <2>3. Advance
    BY <1>l, <1>t, <2>1, <2>2 DEF Advance, NotBefore
  <2>4. CASE Return(Lag, cp[Lag])
    BY <1>1, <1>l, <1>r, <2>1, <2>2, <2>3, <2>4 DEF Readers
  <2>5. CASE at' = [at EXCEPT ![Lag] = "resetDb"] /\ UNCHANGED cp
    <3>1. /\ at'[Lag] = "resetDb" /\ at[Lag] \in Readers /\ cp'[Lag].last <= Last(db)
          /\ \A k \in Loops : at'[k] = at[k] /\ cp'[k] = cp[k]
      BY <1>o, <1>t, <2>1, <2>5 DEF Readers
    <3> QED
      BY <1>1, <1>l, <2>1, <2>2, <2>3, <3>1
  <2> QED BY <2>1, <2>4, <2>5
<1>5. CASE ResetDb(Lag)
  <2>1. /\ at[Lag] = "resetDb" /\ cache' = cache /\ UNCHANGED <<page, top>>
        /\ db' = cp[Lag] /\ InTime(Lag) /\ Return(Lag, cp[Lag])
    BY <1>5 DEF ResetDb, emitted
  <2>2. db' # None /\ Last(db') = Last(db)
    BY <1>n, <2>1 DEF InTime
  <2>3. Advance
    BY <1>l, <1>t, <2>1, <2>2 DEF Advance, NotBefore
  <2> QED
    BY <1>1, <1>k, <1>l, <1>r, <2>1, <2>2, <2>3 DEF Readers
<1>6. ~ResetFails(Lag)
  BY <1>t DEF ResetFails, Fault
<1> QED
  BY <1>2, <1>3, <1>4, <1>5, <1>6 DEF LagStep, LoadStep

(* The other steps.                                                        *)
LEMMA IdleCalm ==
    ASSUME TypeOK, RestOK, Calmly, CacheExpires \/ Stop \/ WriteStep
    PROVE  Calmly' /\ Advance
<1>l. /\ Last(cache) \in Nat /\ Last(db) \in Nat /\ Last(None) = 0
      /\ \A c \in Checkpoint : c # None /\ c.last \in Nat
      /\ \A p \in Procs : cp[p].last \in Nat
      /\ \A k \in Loops : next[k] \in Nat
  BY LastIs
<1>t. /\ Loops \subseteq Procs /\ Lag \in Procs /\ Lag \notin Loops
      /\ cache \in Checkpoint \union {None} /\ db \in Checkpoint \union {None}
  BY Constants, PartsOfType DEF StoreOK
<1>1. cache' \in {cache, None} /\ UNCHANGED <<db, page, cp, top>>
  BY DEF CacheExpires, Stop, WriteStep, TimerFires, BatchCommits, BatchFails, BatchEnds, stored,
         emitted
<1>2. /\ \A k \in Loops : at'[k] = at[k] \/ (at[k] = "sleep" /\ at'[k] = "off")
      /\ at'[Lag] = at[Lag]
  <2>1. UNCHANGED at \/ StopListener
    BY DEF CacheExpires, Stop, WriteStep, TimerFires, BatchCommits, BatchFails, BatchEnds
  <2>2. PageOK /\ handle \in Loops \union {None}
    BY PartsOfType DEF RestOK
  <2> QED
    BY <1>t, <2>1, <2>2, ClearedMoves DEF StopListener
<1>3. Advance
  BY <1>l, <1>t, <1>1 DEF Advance, NotBefore
<1>4. OneLoop'
  BY <1>2 DEF Calmly, OneLoop, Alive
<1>5. ASSUME NEW k \in Loops PROVE LoopInv(k)'
  <2>1. /\ aim'[k] = aim[k] /\ next'[k] = next[k] /\ cp'[k] = cp[k] /\ LoopInv(k)
        /\ Last(cache') <= Last(cache) /\ Last(db') = Last(db)
    BY <1>l, <1>1, <1>t DEF page, Calmly
  <2>2. CASE at'[k] = at[k]
    BY <1>l, <1>t, <1>1, <2>1, <2>2 DEF LoopInv, Place
  <2>3. CASE at'[k] = "off"
    BY <2>3 DEF LoopInv, Place, Loading, Saving
  <2> QED BY <1>2, <2>2, <2>3
<1>6. Ordered'
  <2>1. (cache # None => Last(cache) >= Last(db))'
    BY <1>1 DEF Calmly, Ordered
  <2>2. ((\A k \in Loops : at[k] \notin Saving) =>
            \A p \in Procs : at[p] \in Readers => Last(cache) <= Last(db))'
    <3> SUFFICES ASSUME \A k \in Loops : at'[k] \notin Saving, NEW p \in Procs, at'[p] \in Readers
                 PROVE  Last(cache') <= Last(db')
      OBVIOUS
    <3>1. at[p] \in Readers /\ \A k \in Loops : at[k] \notin Saving
      BY <1>2 DEF Procs, Readers, Saving
    <3>2. Last(cache) <= Last(db)
      BY <3>1 DEF Calmly, Ordered
    <3> QED BY <1>l, <1>1, <3>2
  <2>3. (at[Lag] \in {"fill", "reset", "resetDb"} => cp[Lag].last <= Last(db))'
    BY <1>1, <1>2 DEF Calmly, Ordered
  <2>4. ((\A k \in Loops : Place(k) \notin {"update", "save"}) => top <= Last(db))'
    <3>1. \A k \in Loops : Place(k) \in {"update", "save"} => Place(k)' = Place(k)
      BY <1>1, <1>2 DEF Place, Loading, page
    <3> QED BY <1>1, <3>1 DEF Calmly, Ordered
  <2> QED
    BY <2>1, <2>2, <2>3, <2>4 DEF Ordered
<1> QED
  BY <1>3, <1>4, <1>5, <1>6 DEF Calmly

LEMMA StartCalm ==
    ASSUME TypeOK, PageOK, Calmly, NEW l \in Loops, Start(l), calm'
    PROVE  Calmly' /\ Advance
<1>l. /\ Last(cache) \in Nat /\ Last(db) \in Nat
      /\ \A c \in Checkpoint : c # None /\ c.last \in Nat
  BY LastIs
<1>t. /\ l \in Procs /\ Lag \in Procs /\ l # Lag /\ Loops \subseteq Procs
      /\ cache \in Checkpoint \union {None} /\ db \in Checkpoint \union {None}
  BY Constants, PartsOfType DEF StoreOK
<1>1. /\ UNCHANGED <<cache, db, next, top>> /\ LoadFor(l, "query")
      /\ \A k \in Loops : at[k] = "off"
  BY DEF Start, StartListener, FaultIf, Fault, Alive, stored, emitted
<1>2. /\ at'[l] = "cache" /\ aim'[l] = "query"
      /\ \A p \in Procs : p # l => at'[p] = at[p] /\ cp'[p] = cp[p]
  BY <1>1, <1>t, PartsOfType DEF LoadFor, PageOK, StoreOK
<1>3. Advance
  BY <1>l, <1>t, <1>1 DEF Advance, NotBefore
<1>4. Alone(l) /\ Alone(l)'
  BY <1>1, <1>2, <1>t DEF Alone, Alive
<1>5. CalmAt(l)
  BY <1>4, CalmHere
<1>6. CalmAt(l)'
  <2>1. LoopInv(l)'
    BY <1>2 DEF LoopInv, Place, Loading, Saving
  <2>2. /\ at'[l] \notin Readers /\ at[l] \notin Saving /\ Place(l) = "off"
        /\ at'[Lag] = at[Lag] /\ cp'[Lag] = cp[Lag]
    BY <1>1, <1>2, <1>t DEF Readers, Saving, Place, Loading
  <2> QED
    BY <1>1, <1>5, <2>1, <2>2 DEF CalmAt
<1> QED
  BY <1>3, <1>4, <1>6, CalmThere

LEMMA CrashCalm ==
    ASSUME TypeOK, Calmly, Crash
    PROVE  Calmly' /\ Advance
<1>l. /\ Last(cache) \in Nat /\ Last(db) \in Nat
      /\ \A c \in Checkpoint : c # None /\ c.last \in Nat
      /\ cache \in Checkpoint \union {None} /\ db \in Checkpoint \union {None}
  BY LastIs, PartsOfType DEF StoreOK
<1>1. UNCHANGED <<cache, db>> /\ top' = 0 /\ \A p \in Procs : at'[p] = "off"
  BY DEF Crash, stored
<1>2. Advance
  BY <1>l, <1>1 DEF Advance, NotBefore
<1>3. OneLoop' /\ \A k \in Loops : LoopInv(k)'
  BY <1>1, Constants DEF OneLoop, Alive, LoopInv, Place, Loading, Saving
<1>4. Ordered'
  BY <1>l, <1>1, Constants DEF Calmly, Ordered, Readers
<1> QED
  BY <1>2, <1>3, <1>4 DEF Calmly

LEMMA CalmKept ==
    ASSUME TypeOK, TypeOK', PageInv, Calmly, Next, calm'
    PROVE  Calmly' /\ Advance
<1>t. PageOK /\ StoreOK /\ RestOK
  BY PartsOfType
<1>1. CASE CacheExpires \/ Stop \/ WriteStep
  BY <1>1, <1>t, IdleCalm
<1>2. ASSUME NEW l \in Loops, LoopStep(l)
      PROVE  Calmly' /\ Advance
  <2>1. at[l] # "off"
    BY <1>2 DEF LoopStep, LoadStep, ReadCache, ReadRow, FillCache, ResetDb, ResetFails, Poll,
                PollsNoMore, QueryAnswers, QueryEndsPoll, ReorgSeen, SkipUnknown, Emit,
                UpdateCheckpoint, SaveToDb, SaveFails, Saving
  <2>2. Alone(l)
    BY <2>1 DEF Calmly, OneLoop, Alone, Alive
  <2>3. Others(l) \/ Within(l)
    BY <1>2, <1>t, LoopMoves
  <2>4. Alone(l)' /\ LagKept
    BY <1>t, <2>2, <2>3, AloneStep
  <2>5. CalmAt(l)' /\ Advance
    BY <1>2, <2>2, <2>4, CalmHere, LoadCalm, LoopCalm
  <2> QED
    BY <2>4, <2>5, CalmThere
<1>3. CASE LagStep
  BY <1>3, LagCalm
<1> QED
  BY <1>t, <1>1, <1>2, <1>3, StartCalm, CrashCalm DEF Next

(* An event that the only loop emits is after the row, and so after any that *)
(* this process has emitted.                                               *)
LEMMA EmitsLater ==
    ASSUME TypeOK, Calmly, NEW l \in Loops, Emit(l)
    PROVE  next[l] > top
<1>1. at[l] = "event"
  BY DEF Emit
<1>2. Alone(l)
  BY <1>1 DEF Calmly, OneLoop, Alone, Alive
<1>3. top <= Last(db) /\ next[l] > Last(db)
  BY <1>1, <1>2, CalmHere DEF CalmAt, LoopInv, Place, Loading
<1> QED
  BY <1>3, LastIs

-----------------------------------------------------------------------------
LEMMA IndexerInitially ==
    ASSUME Init
    PROVE  IndexerInv
<1>t. N \in Nat /\ Initial \in Checkpoint /\ Initial.last = 0 /\ Loops \subseteq Procs
  BY Constants
<1>1. TypeOK
  <2>1. WriterOK
    BY EmptySeq DEF Init, WriterOK
  <2>2. PageOK
    BY <1>t DEF Init, PageOK, Awaits, Aims
  <2>3. StoreOK
    BY <1>t DEF Init, StoreOK
  <2>4. RestOK
    <3>1. /\ up \in BOOLEAN /\ running \in BOOLEAN /\ closing \in BOOLEAN /\ calm \in BOOLEAN
          /\ handle \in Loops \union {None}
          /\ written \subseteq Events /\ passed \subseteq Events /\ lost \subseteq Events
      BY DEF Init
    <3>2. top \in 0 .. N /\ faults \in Nat /\ scene \in Scenes
      BY <1>t DEF Init
    <3> QED
      BY <3>1, <3>2 DEF RestOK
  <2> QED
    BY <2>1, <2>2, <2>3, <2>4 DEF TypeOK, WriterOK, PageOK, StoreOK, RestOK, Awaits, Aims
<1>2. WriterKeepsOrder
  BY ConcatEmptySeq, EmptySeq DEF Init, WriterKeepsOrder
<1>3. TimerInv
  BY DEF Init, TimerInv
<1>4. \A p \in Procs : at[p] = "off" /\ aim[p] = "off" /\ cp[p] = Initial
  BY DEF Init
<1>5. PageInv
  BY <1>4, <1>t, Constants DEF PageInv, Place, Loading, OnPage
<1>6. AccountInv
  BY <1>4, <1>t DEF Init, AccountInv, Place, Loading
<1>7. Calmly
  <2>1. OneLoop /\ \A k \in Loops : LoopInv(k)
    BY <1>4, <1>t DEF OneLoop, Alive, LoopInv, Place, Loading, Saving
  <2>2. Ordered
    BY <1>4, <1>t, Constants DEF Init, Ordered, Readers, Last
  <2> QED
    BY <2>1, <2>2 DEF Calmly
<1> QED
  BY <1>1, <1>2, <1>3, <1>5, <1>6, <1>7 DEF IndexerInv, CalmInv

LEMMA IndexerStep ==
    ASSUME IndexerInv, [Next]_vars
    PROVE  IndexerInv'
<1>t. /\ TypeOK /\ WriterOK /\ PageOK /\ StoreOK /\ RestOK
      /\ WriterKeepsOrder /\ PageInv /\ AccountInv /\ TimerInv /\ CalmInv
  BY PartsOfType DEF IndexerInv
<1>1. CASE Next
  <2>1. WriterOK' /\ WriterKeepsOrder'
    BY <1>t, <1>1, WriterStep
  <2>2. PageOK' /\ PageInv'
    BY <1>t, <1>1, PageStep DEF MovesOK
  <2>3. StoreOK'
    BY <1>t, <1>1, StoreStep
  <2>4. RestOK'
    BY <1>t, <1>1, RestStep
  <2>5. TypeOK'
    BY <2>1, <2>2, <2>3, <2>4, TypeOfParts
  <2>6. AccountInv'
    BY <1>t, <1>1, AccountStep
  <2>7. TimerInv'
    BY <1>t, <1>1, TimerStep
  <2>8. CalmInv'
    BY <1>t, <1>1, <2>5, CalmStep, CalmKept DEF CalmInv
  <2> QED
    BY <2>1, <2>2, <2>5, <2>6, <2>7, <2>8 DEF IndexerInv
<1>2. CASE UNCHANGED vars
  <2>1. /\ UNCHANGED <<cache, db, up, running, handle, at, aim, cp, next, end, queue, batch, timer>>
        /\ UNCHANGED <<closing, pending, top, written, passed, lost, calm, faults, scene>>
    BY <1>2 DEF vars, elsewhere, stored, listener, page, writer, emitted
  <2>2. TypeOK'
    BY <1>t, <2>1 DEF TypeOK
  <2>3. WriterKeepsOrder' /\ TimerInv'
    BY <1>t, <2>1 DEF WriterKeepsOrder, TimerInv
  <2>4. PageInv' /\ AccountInv'
    BY <1>t, <2>1 DEF PageInv, Place, AccountInv, Handled, InMemory, Elements
  <2>5. CalmInv'
    BY <1>t, <2>1 DEF CalmInv, Calmly, OneLoop, Alive, Ordered, LoopInv, Place, Last
  <2> QED
    BY <2>2, <2>3, <2>4, <2>5 DEF IndexerInv
<1> QED
  BY <1>1, <1>2

LEMMA IndexerInvariant == Spec => []IndexerInv
BY IndexerInitially, IndexerStep, PTL DEF Spec

(* Every variable has its type.                                            *)
THEOREM IndexerTypeCorrect == Spec => []TypeOK
<1>1. IndexerInv => TypeOK
  BY DEF IndexerInv
<1> QED
  BY <1>1, IndexerInvariant, PTL

(* What the loops emitted, and is not known to be written, is in a batch or  *)
(* queued, in its order and as often, whatever batches of batch-writer.ts  *)
(* fail, and however many loops emit.                                      *)
THEOREM WriterAlwaysKeepsOrder == Spec => []WriterKeepsOrder
<1>1. IndexerInv => WriterKeepsOrder
  BY DEF IndexerInv
<1> QED
  BY <1>1, IndexerInvariant, PTL

(* Events at or before a checkpoint, cached or stored, were written, are in  *)
(* memory, were lost with a process, or were passed over by a loop, however  *)
(* many loops a stop() and a start() leave running beside each other.      *)
THEOREM CheckpointsAreAccounted == Spec => []CheckpointIsAccounted
<1>1. IndexerInv => CheckpointIsAccounted
  BY DEF IndexerInv, AccountInv, Handled, CheckpointIsAccounted
<1> QED
  BY <1>1, IndexerInvariant, PTL

(* A process emits events at most once and in the order of the chain, as   *)
(* long as no call has failed, no lag measurement was late and no start()  *)
(* met a poll that had not ended.  A stop() and a start() after that poll  *)
(* has ended, a crash, a reorganisation and the loss of the cache are not  *)
(* excepted; two loops are.                                                *)
THEOREM OnceAndInOrder == Spec => OnceWithoutFaults
<1>1. IndexerInv => [\A l \in Loops : Emit(l) /\ calm => next[l] > top]_vars
  BY EmitsLater DEF IndexerInv, CalmInv
<1> QED
  BY <1>1, IndexerInvariant, PTL DEF OnceWithoutFaults

(* Events are left in the queue without a timer or a write to come only by a *)
(* batch that failed, or by one that was being written when the timer fired  *)
(* or the queue was full.                                                  *)
THEOREM OnlyWritesStrand == Spec => StrandedByWrites
<1>1. ASSUME IndexerInv, [Next]_vars
      PROVE  [~Stranded /\ Stranded' =>
                 BatchFails \/ (BatchCommits /\ (timer = "stale" \/ Len(queue) >= BatchSize))]_vars
  <2>1. WriterOK /\ TimerInv
    BY <1>1, PartsOfType DEF IndexerInv
  <2> QED
    BY <1>1, <2>1, TimerStep
<1> QED
  BY <1>1, IndexerInvariant, PTL DEF Spec, StrandedByWrites

(* As long as no call has failed, no lag measurement was late and no start() *)
(* met a poll that had not ended, no checkpoint is replaced by an earlier  *)
(* one: only crashes, restarts between polls, reorganisations and the loss *)
(* of the cache are left, and none of them takes a checkpoint back.        *)
THEOREM CheckpointsAdvance == Spec => CheckpointAdvances
<1>1. ASSUME IndexerInv, IndexerInv', [Next]_vars
      PROVE  [calm' =>
                 /\ NotBefore(cache', cache) /\ NotBefore(db', db)
                 /\ db # None => db' # None]_vars
  <2> SUFFICES ASSUME Next, calm' PROVE Advance
    BY <1>1 DEF Advance
  <2>1. calm /\ TypeOK /\ TypeOK' /\ PageInv /\ Calmly
    BY <1>1, CalmStep, PartsOfType DEF IndexerInv, CalmInv
  <2> QED
    BY <2>1, CalmKept
<1> QED
  BY <1>1, IndexerInvariant, PTL DEF Spec, CheckpointAdvances
=============================================================================
