----------------------------- MODULE Storefront -----------------------------
(***************************************************************************)
(* What visitors see of a datapod and of their purchases: its reviews, the *)
(* averages stored with it and with its seller, and the answers kept in    *)
(* Redis.  One datapod, the only one of its seller, and all its purchases, *)
(* whose verdicts come from Settlement.                                    *)
(*                                                                         *)
(* A stored average stands for what it was computed from: for each buyer   *)
(* the handler that wrote the rating, or None.  A page stands for what it  *)
(* shows of them, the page of a purchase for its status.  Handlers         *)
(* interleave at every await.  Counts of sales are not kept here.          *)
(***************************************************************************)
EXTENDS Settlement, FiniteSetsExt

CONSTANTS
    Buyers, Buyer,     \* Buyer[p], who made purchase p
    Creates, Submits,  \* calls of createReview and of submitReview ...
    Of, Stars,         \* ... the purchase they name and the rating they give
    Removes,           \* calls of deleteReview ...
    By,                \* ... By[h], whose review they name
    Stats,             \* runs of the statistics job
    Readers, Page,     \* Page[r], the cached answer that reader r asks for
    MinRating,         \* the filter of those who browse
    Absent             \* of a reader who does not come

Reviewers == Creates \union Submits
Handlers == Reviewers \union Removes \union Stats
Lists == {"browse", "datapods", "top-rated"}
PodPages == {"datapod"} \union Lists
Pages == PodPages \union Purchases

ASSUME StorefrontAssumption ==
    /\ Creates \intersect Submits = {} /\ Reviewers \intersect (Removes \union Stats) = {}
    /\ Removes \intersect Stats = {}
    /\ None \notin Reviewers /\ PodPages \intersect Purchases = {}
    /\ Buyer \in [Purchases -> Buyers] /\ Of \in [Reviewers -> Purchases]
    /\ Stars \in [Reviewers -> 1 .. 5] /\ MinRating \in 1 .. 5
    /\ By \in [Removes -> Buyers] /\ Page \in [Readers -> Pages]

VARIABLES
    id,      \* id[b], the handler whose call created the review of b; None: no review
    rating,  \* rating[b], the handler that wrote it last
    avg,     \* the ratings the stored average of the datapod was computed from
    profile, \* ... and the one of its seller
    pc,      \* pc[h], where handler h is
    found,   \* found[h], the review it is to delete
    read,    \* read[h], the ratings it has read
    missed,  \* missed[h], somebody wrote a review after h read them
    fresh,   \* the last handler that was to store the average has, and had missed none
    page,    \* page[k], the entry in Redis
    hold     \* hold[r], the answer that reader r is about to put there; Absent: no reader

reviews == <<id, rating>>
handling == <<pc, found, read, missed, fresh>>
caching == <<page, hold>>
averages == <<avg, profile>>
vars == <<settlement, reviews, averages, handling, caching, faults>>

Ratings == [Buyers -> Reviewers \union {None}]
Unrated == [b \in Buyers |-> None]

(* An average that passes the filter averageRating >= n; null passes none. *)
AtLeast(n, a) ==
    LET R == {b \in Buyers : a[b] # None}
    IN  R # {} /\ MapThenSumSet(LAMBDA b : Stars[a[b]], R) >= n * Cardinality(R)

(* What the database has to show.  The lists name the datapod with its two *)
(* averages, or do not name it; its own page shows the reviews, too.       *)
NotListed == <<>>
Listed == <<avg, profile>>
BrowseView == IF AtLeast(MinRating, avg) THEN Listed ELSE NotListed
DataPodsView == Listed
TopRatedView == IF AtLeast(4, avg) THEN Listed ELSE NotListed
DetailsView == <<avg, profile, rating>>

View(k) ==
    CASE k = "browse"    -> BrowseView
      [] k = "datapods"  -> DataPodsView
      [] k = "top-rated" -> TopRatedView
      [] k = "datapod"   -> DetailsView
      [] OTHER           -> status[k]

Contents(k) ==
    CASE k \in Lists    -> (Ratings \X Ratings) \union {NotListed}
      [] k = "datapod" -> Ratings \X Ratings \X Ratings
      [] OTHER         -> {"pending", "completed", "refunded"}

TypeOK ==
    /\ SettlementTypeOK
    /\ id \in Ratings /\ rating \in Ratings /\ avg \in Ratings /\ profile \in Ratings
    /\ \A b \in Buyers : id[b] = None <=> rating[b] = None
    /\ pc \in [Handlers -> {"none", "find", "check", "write", "read", "store", "drop", "done",
                            "seller", "profile", "failed"}]
    /\ found \in [Removes -> Reviewers \union {None}]
    /\ read \in [Handlers -> Ratings]
    /\ missed \in [Handlers -> BOOLEAN] /\ fresh \in BOOLEAN
    /\ \A k \in Pages : page[k] \in {None} \union Contents(k)
    /\ \A r \in Readers : hold[r] \in {None, Absent} \union Contents(Page[r])

Starts(h) == IF h \in Stats THEN "seller" ELSE "find"

SceneInit(S) ==
    /\ SettlementInit(S)
    /\ id = Unrated /\ rating = Unrated /\ avg = Unrated /\ profile = Unrated
    /\ pc = [h \in Handlers |-> IF h \in S THEN Starts(h) ELSE "none"]
    /\ found = [h \in Removes |-> None]
    /\ read = [h \in Handlers |-> Unrated]
    /\ missed = [h \in Handlers |-> FALSE] /\ fresh = TRUE
    /\ page = [k \in Pages |-> None]
    /\ hold = [r \in Readers |-> IF r \in S THEN None ELSE Absent]

Init == \E S \in Scenes : SceneInit(S)

-----------------------------------------------------------------------------
(* Reviews.                                                                *)

Goto(h, l) == pc' = [pc EXCEPT ![h] = l]

\* Mutant of FindPurchase: a purchase that is not refunded can be reviewed.
FindAnyPurchase(h) ==
    /\ pc[h] = "find" /\ h \in Reviewers
    /\ Goto(h, IF status[Of[h]] = "refunded" THEN "failed"
               ELSE IF h \in Submits THEN "check" ELSE "write")
    /\ UNCHANGED <<settlement, reviews, averages, found, read, missed, fresh, caching, faults>>

(* Only a completed purchase can be reviewed.                              *)
FindPurchase(h) ==
    /\ pc[h] = "find" /\ h \in Reviewers
    /\ Goto(h, IF status[Of[h]] # "completed" THEN "failed"
               ELSE IF h \in Submits THEN "check" ELSE "write")
    /\ UNCHANGED <<settlement, reviews, averages, found, read, missed, fresh, caching, faults>>

(* submitReview: no review of this purchase yet.                           *)
CheckNoReview(h) ==
    /\ pc[h] = "check"
    /\ LET i == id[Buyer[Of[h]]]
       IN  Goto(h, IF i # None /\ Of[i] = Of[h] THEN "failed" ELSE "write")
    /\ UNCHANGED <<settlement, reviews, averages, found, read, missed, fresh, caching, faults>>

FindReview(h) ==
    /\ pc[h] = "find" /\ h \in Removes
    /\ id[By[h]] # None
    /\ found' = [found EXCEPT ![h] = id[By[h]]]
    /\ Goto(h, "write")
    /\ UNCHANGED <<settlement, reviews, averages, read, missed, fresh, caching, faults>>

(* Who has read the ratings before this write has missed it.               *)
Noticed == missed' = [h \in Handlers |-> missed[h] \/ pc[h] = "store"]

\* Mutant of Upsert: a new review in place of the old one.
InsertOver(h) ==
    LET b == Buyer[Of[h]]
    IN  /\ id' = [id EXCEPT ![b] = h]
        /\ UNCHANGED rating

(* One review of a buyer for a datapod.                                    *)
Upsert(h) ==
    LET b == Buyer[Of[h]]
    IN  /\ id' = [id EXCEPT ![b] = IF @ = None THEN h ELSE @]
        /\ rating' = [rating EXCEPT ![b] = h]

CanWrite(h) ==
    CASE h \in Creates -> TRUE
      [] h \in Submits -> id[Buyer[Of[h]]] = None
      [] OTHER -> id[By[h]] = found[h]

WriteReview(h) ==
    /\ CanWrite(h)
    /\ IF h \in Removes
       THEN id' = [id EXCEPT ![By[h]] = None] /\ rating' = [rating EXCEPT ![By[h]] = None]
       ELSE Upsert(h)
    /\ Noticed

Write(h) ==
    /\ pc[h] = "write"
    /\ WriteReview(h)
    /\ Goto(h, "read")
    /\ UNCHANGED <<settlement, averages, found, read, fresh, caching, faults>>

(* A unique key, or a row that has gone.                                   *)
Conflict(h) ==
    /\ pc[h] = "write" /\ ~CanWrite(h)
    /\ Goto(h, "failed")
    /\ UNCHANGED <<settlement, reviews, averages, found, read, missed, fresh, caching, faults>>

ReadRatings(h) ==
    /\ pc[h] = "read"
    /\ read' = [read EXCEPT ![h] = rating]
    /\ missed' = [missed EXCEPT ![h] = FALSE]
    /\ Goto(h, "store")
    /\ UNCHANGED <<settlement, reviews, averages, found, fresh, caching, faults>>

\* Mutant of StoreAverage: nothing is stored when no review is left.
StoreUnlessEmpty(h) ==
    /\ pc[h] = "store"
    /\ avg' = IF read[h] = Unrated THEN avg ELSE read[h]
    /\ fresh' = ~missed[h]
    /\ Goto(h, IF h \in Submits THEN "drop" ELSE "done")
    /\ UNCHANGED <<settlement, reviews, profile, found, read, missed, caching, faults>>

(* submitReview divides by the number of reviews, whatever it is.          *)
HasAverage(h) == h \in Submits => read[h] # Unrated

StoreAverage(h) ==
    /\ pc[h] = "store" /\ HasAverage(h)
    /\ avg' = read[h]
    /\ fresh' = ~missed[h]
    /\ Goto(h, IF h \in Submits THEN "drop" ELSE "done")
    /\ UNCHANGED <<settlement, reviews, profile, found, read, missed, caching, faults>>

(* 0 / 0 is no number, and no Decimal the database takes.                  *)
NoAverage(h) ==
    /\ pc[h] = "store" /\ ~HasAverage(h)
    /\ fresh' = FALSE
    /\ Goto(h, "failed")
    /\ UNCHANGED <<settlement, reviews, averages, found, read, missed, caching, faults>>

(* The statistics job goes on with the seller first.                       *)
ReadSeller(h) ==
    /\ pc[h] = "seller"
    /\ read' = [read EXCEPT ![h] = rating]
    /\ Goto(h, "profile")
    /\ UNCHANGED <<settlement, reviews, averages, found, missed, fresh, caching, faults>>

StoreProfile(h) ==
    /\ pc[h] = "profile"
    /\ profile' = read[h]
    /\ Goto(h, "read")
    /\ UNCHANGED <<settlement, reviews, avg, found, read, missed, fresh, caching, faults>>

(* submitReview alone drops the datapod's page, or fails to and goes on.   *)
DropPage(h) ==
    /\ pc[h] = "drop"
    /\ \/ page' = [page EXCEPT !["datapod"] = None] /\ UNCHANGED faults
       \/ UNCHANGED page /\ faults < MaxFaults /\ faults' = faults + 1
    /\ Goto(h, "done")
    /\ UNCHANGED <<settlement, reviews, averages, found, read, missed, fresh, hold>>

(* It has changed the reviews and not yet stored their average.            *)
Owes(h) == h \notin Stats /\ pc[h] \in {"read", "store"}

(* A call of the database throws, its write applied or not.  A statistics  *)
(* job is run again.                                                       *)
HandlerFails(h) ==
    /\ pc[h] \in {"find", "check", "write", "seller", "profile", "read", "store"}
    /\ faults < MaxFaults /\ faults' = faults + 1
    /\ \/ Goto(h, "failed")
       \/ h \in Stats /\ Goto(h, Starts(h))
    /\ \/ /\ fresh' = (fresh /\ ~Owes(h))
          /\ UNCHANGED <<reviews, averages, missed>>
       \/ pc[h] = "write" /\ WriteReview(h) /\ fresh' = FALSE /\ UNCHANGED averages
       \/ pc[h] = "profile" /\ profile' = read[h] /\ UNCHANGED <<reviews, avg, missed, fresh>>
       \/ /\ pc[h] = "store" /\ HasAverage(h) /\ avg' = read[h] /\ fresh' = ~missed[h]
          /\ UNCHANGED <<reviews, profile, missed>>
    /\ UNCHANGED <<settlement, found, read, caching>>

-----------------------------------------------------------------------------
(* Cached answers.                                                         *)

(* A reader misses: it asks the database ...                               *)
Find(r) ==
    /\ hold[r] = None /\ page[Page[r]] = None
    /\ hold' = [hold EXCEPT ![r] = View(Page[r])]
    /\ UNCHANGED <<settlement, reviews, averages, handling, page, faults>>

\* Mutant of Fill: the reader keeps filling in what it once found.
FillAgain(r) ==
    /\ hold[r] \notin {None, Absent}
    /\ page' = [page EXCEPT ![Page[r]] = hold[r]]
    /\ UNCHANGED <<settlement, reviews, averages, handling, hold, faults>>

(* ... and keeps the answer, or fails to, or is never heard of again.      *)
Fill(r) ==
    /\ hold[r] \notin {None, Absent}
    /\ hold' = [hold EXCEPT ![r] = None]
    /\ \/ page' = [page EXCEPT ![Page[r]] = hold[r]] /\ UNCHANGED faults
       \/ UNCHANGED page /\ faults < MaxFaults /\ faults' = faults + 1
    /\ UNCHANGED <<settlement, reviews, averages, handling>>

(* publishDataPod drops whatever is kept under marketplace:*.              *)
DropLists ==
    /\ \E k \in Lists : page[k] # None
    /\ page' = [k \in Pages |-> IF k \in Lists THEN None ELSE page[k]]
    /\ UNCHANGED <<settlement, reviews, averages, handling, hold, faults>>

(* Half an hour for a datapod, an hour for a list, six for the best of them, *)
(* five minutes for a purchase.                                            *)
Expire(k) ==
    /\ page[k] # None
    /\ page' = [page EXCEPT ![k] = None]
    /\ UNCHANGED <<settlement, reviews, averages, handling, hold, faults>>

-----------------------------------------------------------------------------
Crash ==
    /\ SettlementCrash
    /\ \E again \in BOOLEAN :
          pc' = [h \in Handlers |->
                   CASE pc[h] \in {"none", "find", "done"} -> pc[h]
                     [] h \in Stats /\ again -> Starts(h)
                     [] OTHER -> "failed"]
    /\ fresh' = (fresh /\ \A h \in Handlers : ~Owes(h))
    /\ hold' = [r \in Readers |-> IF hold[r] = Absent THEN Absent ELSE None]
    /\ UNCHANGED <<reviews, averages, found, read, missed, page>>

Settle == SettlementStep /\ UNCHANGED <<reviews, averages, handling, caching>>

CreateReview(h) ==
    /\ h \in Creates
    /\ \/ FindPurchase(h) \/ Write(h) \/ ReadRatings(h) \/ StoreAverage(h) \/ HandlerFails(h)

SubmitReview(h) ==
    /\ h \in Submits
    /\ \/ FindPurchase(h) \/ CheckNoReview(h) \/ Write(h) \/ Conflict(h)
       \/ ReadRatings(h) \/ StoreAverage(h) \/ NoAverage(h) \/ DropPage(h) \/ HandlerFails(h)

DeleteReview(h) ==
    /\ h \in Removes
    /\ \/ FindReview(h) \/ Write(h) \/ Conflict(h) \/ ReadRatings(h) \/ StoreAverage(h)
       \/ HandlerFails(h)

ProcessStatsJob(h) ==
    /\ h \in Stats
    /\ \/ ReadSeller(h) \/ StoreProfile(h) \/ ReadRatings(h) \/ StoreAverage(h) \/ HandlerFails(h)

Handle(h) == CreateReview(h) \/ SubmitReview(h) \/ DeleteReview(h) \/ ProcessStatsJob(h)

Next ==
    \/ Settle
    \/ \E h \in Handlers : Handle(h)
    \/ \E r \in Readers : Find(r) \/ Fill(r)
    \/ DropLists
    \/ \E k \in Pages : Expire(k)
    \/ Crash

Spec == Init /\ [][Next]_vars

(* Redis keeps its clock.  Nothing else has to happen.                     *)
FairSpec == Spec /\ \A k \in Pages : WF_vars(Expire(k))

-----------------------------------------------------------------------------
(* Properties.                                                             *)

(* When no handler is on its way to store the average, what is stored is   *)
(* the average of the reviews there are - unless the last handler that was *)
(* to store it failed, or had read the ratings before another one changed  *)
(* them: then the average stays wrong until the next review.               *)
AverageIsCurrent ==
    fresh /\ (\A h \in Handlers : ~Owes(h)) => avg = rating

(* Every rating that is stored, averaged, kept in Redis or about to be, was  *)
(* given by the buyer it is shown for, on a purchase of his that was       *)
(* released at some time; and a purchase is shown with no verdict that was *)
(* never written.  (Verdicts change while reviews are under way, and readers *)
(* fill in late what they found early.)                                    *)
Earned(a) ==
    \A b \in Buyers :
        a[b] # None => Buyer[Of[a[b]]] = b /\ "released" \in verdicts[Of[a[b]]]

Truthful(k, answer) ==
    IF k \in PodPages
    THEN \A i \in DOMAIN answer : Earned(answer[i])
    ELSE \A v \in {"released", "refunded"} : answer = StatusFor(v) => v \in verdicts[k]

ShownIsEarned ==
    /\ Earned(id) /\ Earned(rating) /\ Earned(avg) /\ Earned(profile)
    /\ \A k \in Pages : page[k] # None => Truthful(k, page[k])
    /\ \A r \in Readers : hold[r] \notin {None, Absent} => Truthful(Page[r], hold[r])

(* No answer stays out of date: neither a reader that fills an entry late, *)
(* nor a handler that drops none, leaves one for ever.                     *)
PagesCatchUp == \A k \in Pages : <>[](page[k] \in {None, View(k)})
=============================================================================
