-------------------------- MODULE StorefrontProofs --------------------------
(***************************************************************************)
(* Types, verdicts and averages of Storefront, for any number of purchases, *)
(* handlers, readers and faults.                                           *)
(***************************************************************************)
EXTENDS Storefront, SettlementProofs

(* All that a handler does.                                                *)
HandlerStep(h) ==
    \/ FindPurchase(h) \/ CheckNoReview(h) \/ FindReview(h) \/ Write(h) \/ Conflict(h)
    \/ ReadRatings(h) \/ StoreAverage(h) \/ NoAverage(h) \/ ReadSeller(h) \/ StoreProfile(h)
    \/ DropPage(h) \/ HandlerFails(h)

LEMMA HandleIsStep ==
    ASSUME NEW h \in Handlers, Handle(h)
    PROVE  HandlerStep(h)
BY DEF Handle, CreateReview, SubmitReview, DeleteReview, ProcessStatsJob, HandlerStep

-----------------------------------------------------------------------------
(* Verdicts: whatever is not a step of Settlement leaves the rows alone.   *)
LEMMA SettlementGoesOn ==
    ASSUME [Next]_vars
    PROVE  [SettlementStep \/ SettlementCrash]_settlement
<1>1. ASSUME NEW h \in Handlers, HandlerStep(h) PROVE UNCHANGED settlement
  BY <1>1 DEF HandlerStep, FindPurchase, CheckNoReview, FindReview, Write, Conflict,
              ReadRatings, StoreAverage, NoAverage, ReadSeller, StoreProfile, DropPage,
              HandlerFails
<1>2. ASSUME NEW r \in Readers, Find(r) \/ Fill(r) PROVE UNCHANGED settlement
  BY <1>2 DEF Find, Fill
<1>3. ASSUME NEW k \in Pages, Expire(k) PROVE UNCHANGED settlement
  BY <1>3 DEF Expire
<1> QED
  BY <1>1, <1>2, <1>3, HandleIsStep DEF Next, Settle, Crash, DropLists, vars

(* Releases, refunds and fulfillment agree in the presence of reviews and  *)
(* readers, too.                                                           *)
THEOREM StorefrontVerdicts == Spec => []VerdictsAgree
<1>1. Init => SettlementInv
  BY SettlementInitially DEF Init, SceneInit
<1>2. SettlementInv /\ [Next]_vars => SettlementInv'
  BY SettlementGoesOn, SettlementInvStep
<1>3. SettlementInv => VerdictsAgree
  BY SettlementInvImplies
<1> QED
  BY <1>1, <1>2, <1>3, PTL DEF Spec

-----------------------------------------------------------------------------
(* Averages: a handler that has missed no write holds the ratings there are. *)
AverageInv ==
    /\ read \in [Handlers -> Ratings] /\ missed \in [Handlers -> BOOLEAN]
    /\ fresh \in BOOLEAN
    /\ pc \in [Handlers -> {"none", "find", "check", "write", "read", "store", "drop", "done",
                            "seller", "profile", "failed"}]
    /\ rating \in Ratings
    /\ \A h \in Handlers : pc[h] = "store" /\ ~missed[h] => read[h] = rating
    /\ \A h \in Stats : pc[h] \notin {"check", "write", "find", "drop"}
    /\ AverageIsCurrent

LEMMA AverageInitially ==
    ASSUME Init
    PROVE  AverageInv
BY StorefrontAssumption
   DEF Init, SceneInit, AverageInv, AverageIsCurrent, Unrated, Ratings, Starts, Handlers,
       Reviewers, Owes

LEMMA AverageStep ==
    ASSUME AverageInv, [Next]_vars
    PROVE  AverageInv'
<1> USE StorefrontAssumption DEF AverageInv, AverageIsCurrent
<1>1. ASSUME NEW h \in Handlers, FindPurchase(h) \/ CheckNoReview(h) \/ FindReview(h)
                                 \/ Conflict(h) \/ ReadSeller(h) \/ StoreProfile(h)
                                 \/ DropPage(h)
      PROVE AverageInv'
  BY <1>1 DEF FindPurchase, CheckNoReview, FindReview, Conflict, ReadSeller, StoreProfile,
              DropPage, Goto, reviews, averages, handling, Owes, Handlers, Reviewers
<1>2. ASSUME NEW h \in Handlers, Write(h) PROVE AverageInv'
  <2>1. rating' \in Ratings
    BY <1>2 DEF Write, WriteReview, Upsert, Ratings, Handlers, Reviewers
  <2>2. pc[h] = "write" /\ h \notin Stats /\ pc' = [pc EXCEPT ![h] = "read"]
    BY <1>2 DEF Write, Goto
  <2>3. missed' = [g \in Handlers |-> missed[g] \/ pc[g] = "store"]
    BY <1>2 DEF Write, WriteReview, Noticed
  <2>4. Owes(h)' /\ UNCHANGED <<read, fresh, avg>>
    BY <1>2, <2>2 DEF Write, Owes, averages
  <2>5. \A g \in Handlers : pc'[g] = "store" => missed'[g]
    BY <2>2, <2>3
  <2> QED
    BY <2>1, <2>2, <2>3, <2>4, <2>5
<1>3. ASSUME NEW h \in Handlers, ReadRatings(h) PROVE AverageInv'
  BY <1>3 DEF ReadRatings, Goto, reviews, averages, Owes
<1>4. ASSUME NEW h \in Handlers, StoreAverage(h) PROVE AverageInv'
  BY <1>4 DEF StoreAverage, Goto, reviews, Owes, Handlers, Reviewers
<1>5. ASSUME NEW h \in Handlers, NoAverage(h) PROVE AverageInv'
  BY <1>5 DEF NoAverage, HasAverage, Goto, reviews, averages, Owes, Handlers, Reviewers
<1>6. ASSUME NEW h \in Handlers, HandlerFails(h) PROVE AverageInv'
  <2>1. /\ UNCHANGED read
        /\ \/ pc' = [pc EXCEPT ![h] = "failed"]
           \/ h \in Stats /\ pc' = [pc EXCEPT ![h] = "seller"]
    BY <1>6 DEF HandlerFails, Goto, Starts
  <2>2. /\ pc' \in [Handlers -> {"none", "find", "check", "write", "read", "store", "drop",
                                 "done", "seller", "profile", "failed"}]
        /\ \A g \in Stats : pc'[g] \notin {"check", "write", "find", "drop"}
        /\ \A g \in Handlers : pc'[g] = "store" => pc[g] = "store"
        /\ \A g \in Handlers : Owes(g) => Owes(g)' \/ g = h
        /\ ~Owes(h)'
    BY <2>1 DEF Owes, Handlers
  <2>3. CASE UNCHANGED <<reviews, averages, missed>> /\ fresh' = (fresh /\ ~Owes(h))
    <3>1. fresh' \in BOOLEAN /\ (fresh' => fresh /\ ~Owes(h))
      BY <2>3
    <3>2. UNCHANGED <<rating, avg, missed>>
      BY <2>3 DEF reviews, averages
    <3> QED
      BY <2>1, <2>2, <3>1, <3>2
  <2>4. CASE pc[h] = "write" /\ WriteReview(h) /\ fresh' = FALSE
    <3>1. rating' \in Ratings
      BY <2>4 DEF WriteReview, Upsert, Ratings, Handlers, Reviewers
    <3>2. /\ missed' \in [Handlers -> BOOLEAN]
          /\ \A g \in Handlers : pc[g] = "store" => missed'[g]
      BY <2>4 DEF WriteReview, Noticed
    <3> QED
      BY <2>1, <2>2, <2>4, <3>1, <3>2
  <2>5. CASE pc[h] = "profile" /\ UNCHANGED <<reviews, avg, missed, fresh>>
    <3>1. UNCHANGED <<rating, avg, missed, fresh>> /\ ~Owes(h)
      BY <2>5 DEF reviews, Owes
    <3> QED
      BY <2>1, <2>2, <3>1
  <2>6. CASE /\ pc[h] = "store" /\ avg' = read[h] /\ fresh' = ~missed[h]
             /\ UNCHANGED <<reviews, missed>>
    <3>1. fresh' \in BOOLEAN /\ (fresh' => avg' = rating) /\ UNCHANGED <<rating, missed>>
      BY <2>6 DEF reviews
    <3> QED
      BY <2>1, <2>2, <3>1
  <2> QED
    BY <1>6, <2>3, <2>4, <2>5, <2>6 DEF HandlerFails
<1>7. CASE Crash
  <2>1. /\ UNCHANGED <<read, missed, avg, rating>>
        /\ fresh' = (fresh /\ \A h \in Handlers : ~Owes(h))
    BY <1>7 DEF Crash, averages, reviews
  <2>2. PICK again \in BOOLEAN :
          pc' = [h \in Handlers |->
                   CASE pc[h] \in {"none", "find", "done"} -> pc[h]
                     [] h \in Stats /\ again -> Starts(h)
                     [] OTHER -> "failed"]
    BY <1>7 DEF Crash
  <2>3. \A h \in Handlers : \/ pc'[h] = pc[h] /\ pc[h] \in {"none", "find", "done"}
                            \/ h \in Stats /\ pc'[h] = "seller"
                            \/ pc'[h] = "failed"
    BY <2>2 DEF Starts
  <2>4. pc' \in [Handlers -> {"none", "find", "check", "write", "read", "store", "drop", "done",
                              "seller", "profile", "failed"}]
    BY <2>2, <2>3
  <2>5. \A h \in Stats : pc'[h] \notin {"check", "write", "find", "drop"}
    BY <2>3 DEF Handlers
  <2> QED
    BY <2>1, <2>3, <2>4, <2>5
<1>8. CASE Settle \/ DropLists \/ UNCHANGED vars
           \/ (\E r \in Readers : Find(r) \/ Fill(r)) \/ (\E k \in Pages : Expire(k))
  <2>1. UNCHANGED <<reviews, averages, handling>>
    BY <1>8 DEF Settle, DropLists, vars, Find, Fill, Expire
  <2> QED
    BY <2>1 DEF reviews, averages, handling, Owes
<1> QED
  BY <1>1, <1>2, <1>3, <1>4, <1>5, <1>6, <1>7, <1>8, HandleIsStep DEF Next, HandlerStep

(* However reviews are written, deleted and recomputed, the stored average *)
(* is wrong only by a handler that failed or missed a write.               *)
THEOREM AverageStaysCurrent == Spec => []AverageIsCurrent
<1>1. AverageInv => AverageIsCurrent
  BY DEF AverageInv
<1> QED
  BY <1>1, AverageInitially, AverageStep, PTL DEF Spec

-----------------------------------------------------------------------------
(* Types.  TypeOK says of each page what it may show, but not that there   *)
(* are no other pages, nor that the statistics job writes no review.       *)
StorefrontTypes ==
    /\ TypeOK
    /\ page = [k \in Pages |-> page[k]] /\ hold = [r \in Readers |-> hold[r]]
    /\ \A h \in Stats : pc[h] \notin {"check", "write", "find", "drop"}

LEMMA ViewIsContents ==
    ASSUME StorefrontTypes, NEW k \in Pages
    PROVE  View(k) \in Contents(k)
<1>1. status \in [Purchases -> {"pending", "completed", "refunded"}]
      /\ avg \in Ratings /\ profile \in Ratings /\ rating \in Ratings
  BY DEF StorefrontTypes, TypeOK, SettlementTypeOK
<1>2. CASE k = "browse"
  BY <1>1, <1>2 DEF View, Contents, BrowseView, Lists, Listed, NotListed
<1>3. CASE k = "datapods"
  BY <1>1, <1>3 DEF View, Contents, DataPodsView, Lists, Listed, NotListed
<1>4. CASE k = "top-rated"
  BY <1>1, <1>4 DEF View, Contents, TopRatedView, Lists, Listed, NotListed
<1>5. CASE k = "datapod"
  BY <1>1, <1>5 DEF View, Contents, DetailsView, Lists
<1>6. CASE k \in Purchases
  <2>1. k \notin {"browse", "datapods", "top-rated", "datapod"}
    BY <1>6, StorefrontAssumption DEF PodPages, Lists
  <2> QED
    BY <1>1, <1>6, <2>1 DEF View, Contents, Lists
<1> QED
  BY <1>2, <1>3, <1>4, <1>5, <1>6 DEF Pages, PodPages, Lists

LEMMA TypesInitially ==
    ASSUME Init
    PROVE  StorefrontTypes
<1> USE SettlementAssumption, StorefrontAssumption
<1>1. PICK S \in Scenes : SceneInit(S)
  BY DEF Init
<1>2. SettlementTypeOK
  BY <1>1 DEF SceneInit, SettlementInit, SettlementTypeOK
<1>3. Unrated \in Ratings
  BY DEF Unrated, Ratings
<1>4. /\ pc \in [Handlers -> {"find", "seller", "none"}]
      /\ found \in [Removes -> {None}] /\ read \in [Handlers -> {Unrated}]
      /\ missed \in [Handlers -> BOOLEAN] /\ fresh \in BOOLEAN
      /\ page = [k \in Pages |-> None]
      /\ hold = [r \in Readers |-> IF r \in S THEN None ELSE Absent]
      /\ id = Unrated /\ rating = Unrated /\ avg = Unrated /\ profile = Unrated
  BY <1>1 DEF SceneInit, Starts
<1>5. \A h \in Stats : pc[h] \notin {"check", "write", "find", "drop"}
  BY <1>1 DEF SceneInit, Starts, Handlers
<1>6. \A k \in Pages : page[k] \in {None} \union Contents(k)
  BY <1>4
<1>7. \A r \in Readers : hold[r] \in {None, Absent} \union Contents(Page[r])
  BY <1>4
<1>8. page = [k \in Pages |-> page[k]] /\ hold = [r \in Readers |-> hold[r]]
  BY <1>4
<1> QED
  BY <1>2, <1>3, <1>4, <1>5, <1>6, <1>7, <1>8 DEF StorefrontTypes, TypeOK

LEMMA WriteTypes ==
    ASSUME StorefrontTypes, NEW h \in Handlers, h \notin Stats, WriteReview(h)
    PROVE  /\ id' \in Ratings /\ rating' \in Ratings
           /\ \A b \in Buyers : id'[b] = None <=> rating'[b] = None
           /\ missed' \in [Handlers -> BOOLEAN]
<1>1. /\ id \in Ratings /\ rating \in Ratings /\ missed \in [Handlers -> BOOLEAN]
      /\ \A b \in Buyers : id[b] = None <=> rating[b] = None
  BY DEF StorefrontTypes, TypeOK
<1>2. missed' \in [Handlers -> BOOLEAN]
  BY DEF WriteReview, Noticed
<1>3. CASE h \in Removes
  BY <1>1, <1>2, <1>3, StorefrontAssumption DEF WriteReview, Ratings
<1>4. CASE h \in Reviewers
  <2>1. h \notin Removes /\ h # None /\ Buyer[Of[h]] \in Buyers
    BY <1>4, StorefrontAssumption
  <2> QED
    BY <1>1, <1>2, <1>4, <2>1 DEF WriteReview, Upsert, Ratings
<1> QED
  BY <1>3, <1>4 DEF Handlers

Pcs == {"none", "find", "check", "write", "read", "store", "drop", "done", "seller",
        "profile", "failed"}

BooksOK ==
    /\ id \in Ratings /\ rating \in Ratings
    /\ \A b \in Buyers : id[b] = None <=> rating[b] = None

HandlingOK ==
    /\ pc \in [Handlers -> Pcs]
    /\ found \in [Removes -> Reviewers \union {None}]
    /\ read \in [Handlers -> Ratings]
    /\ missed \in [Handlers -> BOOLEAN] /\ fresh \in BOOLEAN
    /\ \A h \in Stats : pc[h] \notin {"check", "write", "find", "drop"}

PagesOK ==
    /\ \A k \in Pages : page[k] \in {None} \union Contents(k)
    /\ page = [k \in Pages |-> page[k]]

HoldOK ==
    /\ \A r \in Readers : hold[r] \in {None, Absent} \union Contents(Page[r])
    /\ hold = [r \in Readers |-> hold[r]]

LEMMA TypesApart ==
    StorefrontTypes <=> /\ BooksOK /\ HandlingOK /\ PagesOK /\ HoldOK /\ SettlementTypeOK
                        /\ avg \in Ratings /\ profile \in Ratings
BY DEF StorefrontTypes, TypeOK, BooksOK, HandlingOK, PagesOK, HoldOK, Pcs

LEMMA TypesTogether ==
    ASSUME BooksOK', HandlingOK', PagesOK', HoldOK', SettlementTypeOK', avg' \in Ratings,
           profile' \in Ratings
    PROVE  StorefrontTypes'
BY DEF StorefrontTypes, TypeOK, BooksOK, HandlingOK, PagesOK, HoldOK, Pcs

LEMMA HandlerTypesStep ==
    ASSUME StorefrontTypes, NEW h \in Handlers, Handle(h)
    PROVE  StorefrontTypes'
<1>t. /\ BooksOK /\ HandlingOK /\ PagesOK /\ HoldOK /\ SettlementTypeOK
      /\ avg \in Ratings /\ profile \in Ratings
  BY TypesApart
<1>s. HandlerStep(h)
  BY HandleIsStep
<1>1. UNCHANGED settlement /\ faults' \in 0 .. MaxFaults
  BY <1>s, <1>t, SettlementAssumption
     DEF HandlerStep, FindPurchase, CheckNoReview, FindReview, Write, Conflict,
         ReadRatings, StoreAverage, NoAverage, ReadSeller, StoreProfile, DropPage,
         HandlerFails, SettlementTypeOK
<1>2. SettlementTypeOK'
  BY <1>1, <1>t DEF settlement, rows, SettlementTypeOK
<1>3. UNCHANGED hold
  BY <1>s
     DEF HandlerStep, FindPurchase, CheckNoReview, FindReview, Write, Conflict,
         ReadRatings, StoreAverage, NoAverage, ReadSeller, StoreProfile, DropPage,
         HandlerFails, caching
<1>4. UNCHANGED page \/ page' = [page EXCEPT !["datapod"] = None]
  BY <1>s
     DEF HandlerStep, FindPurchase, CheckNoReview, FindReview, Write, Conflict,
         ReadRatings, StoreAverage, NoAverage, ReadSeller, StoreProfile, DropPage,
         HandlerFails, caching
<1>5. PagesOK'
  BY <1>t, <1>4 DEF PagesOK
<1>6. avg' \in Ratings /\ profile' \in Ratings
  BY <1>s, <1>t
     DEF HandlerStep, FindPurchase, CheckNoReview, FindReview, Write, Conflict,
         ReadRatings, StoreAverage, NoAverage, ReadSeller, StoreProfile, DropPage,
         HandlerFails, averages, HandlingOK
<1>7. \/ UNCHANGED reviews /\ missed' \in [Handlers -> BOOLEAN]
      \/ pc[h] = "write" /\ WriteReview(h)
  BY <1>s, <1>t
     DEF HandlerStep, FindPurchase, CheckNoReview, FindReview, Write, Conflict,
         ReadRatings, StoreAverage, NoAverage, ReadSeller, StoreProfile, DropPage,
         HandlerFails, HandlingOK
<1>8. BooksOK' /\ missed' \in [Handlers -> BOOLEAN]
  <2>1. CASE UNCHANGED reviews /\ missed' \in [Handlers -> BOOLEAN]
    BY <1>t, <2>1 DEF BooksOK, reviews
  <2>2. CASE pc[h] = "write" /\ WriteReview(h)
    BY <1>t, <2>2, WriteTypes DEF BooksOK, HandlingOK
  <2> QED BY <1>7, <2>1, <2>2
<1>9. /\ fresh' \in BOOLEAN
      /\ read' = read \/ read' = [read EXCEPT ![h] = rating]
      /\ found' = found \/ (h \in Removes /\ found' = [found EXCEPT ![h] = id[By[h]]])
  BY <1>s, <1>t
     DEF HandlerStep, FindPurchase, CheckNoReview, FindReview, Write, Conflict,
         ReadRatings, StoreAverage, NoAverage, ReadSeller, StoreProfile, DropPage,
         HandlerFails, HandlingOK
<1>10. \E l \in Pcs : /\ pc' = [pc EXCEPT ![h] = l]
                      /\ h \in Stats => l \notin {"check", "write", "find", "drop"}
  BY <1>s, <1>t, StorefrontAssumption
     DEF HandlerStep, FindPurchase, CheckNoReview, FindReview, Write, Conflict,
         ReadRatings, StoreAverage, NoAverage, ReadSeller, StoreProfile, DropPage,
         HandlerFails, HandlingOK, Pcs, Goto, Starts, Reviewers
<1>11. HandlingOK'
  <2>1. read' \in [Handlers -> Ratings]
    BY <1>t, <1>9 DEF HandlingOK, BooksOK
  <2>2. found' \in [Removes -> Reviewers \union {None}]
    BY <1>t, <1>9, StorefrontAssumption DEF HandlingOK, BooksOK, Ratings
  <2>3. /\ pc' \in [Handlers -> Pcs]
        /\ \A g \in Stats : pc'[g] \notin {"check", "write", "find", "drop"}
    BY <1>t, <1>10 DEF HandlingOK, Handlers
  <2> QED
    BY <1>8, <1>9, <2>1, <2>2, <2>3 DEF HandlingOK
<1> QED
  BY <1>t, <1>2, <1>3, <1>5, <1>6, <1>8, <1>11, TypesTogether DEF HoldOK

LEMMA ReaderTypesStep ==
    ASSUME StorefrontTypes, NEW r \in Readers, Find(r) \/ Fill(r)
    PROVE  StorefrontTypes'
<1>t. /\ BooksOK /\ HandlingOK /\ PagesOK /\ HoldOK /\ SettlementTypeOK
      /\ avg \in Ratings /\ profile \in Ratings
  BY TypesApart
<1>p. Page[r] \in Pages
  BY StorefrontAssumption
<1>1. UNCHANGED <<settlement, reviews, averages, handling>> /\ faults' \in 0 .. MaxFaults
  BY <1>t, SettlementAssumption DEF Find, Fill, SettlementTypeOK
<1>2. BooksOK' /\ HandlingOK' /\ SettlementTypeOK' /\ avg' \in Ratings /\ profile' \in Ratings
  BY <1>t, <1>1 DEF settlement, rows, reviews, averages, handling, BooksOK, HandlingOK,
                    SettlementTypeOK
<1>3. CASE Find(r)
  <2>1. UNCHANGED page /\ hold' = [hold EXCEPT ![r] = View(Page[r])]
    BY <1>3 DEF Find
  <2>2. View(Page[r]) \in Contents(Page[r])
    BY <1>p, ViewIsContents
  <2>3. HoldOK'
    BY <1>t, <2>1, <2>2 DEF HoldOK
  <2> QED
    BY <1>t, <1>2, <2>1, <2>3, TypesTogether DEF PagesOK
<1>4. CASE Fill(r)
  <2>1. /\ hold' = [hold EXCEPT ![r] = None] /\ hold[r] \notin {None, Absent}
        /\ UNCHANGED page \/ page' = [page EXCEPT ![Page[r]] = hold[r]]
    BY <1>4 DEF Fill
  <2>2. PagesOK'
    BY <1>t, <1>p, <2>1 DEF PagesOK, HoldOK
  <2>3. HoldOK'
    BY <1>t, <2>1 DEF HoldOK
  <2> QED
    BY <1>2, <2>2, <2>3, TypesTogether
<1> QED
  BY <1>3, <1>4

LEMMA SettlementTypeStep ==
    ASSUME SettlementTypeOK, SettlementStep \/ SettlementCrash
    PROVE  SettlementTypeOK'
<1>1. SettlementTypes'
  BY SettlementTypesStep DEF SettlementTypes, SettlementTypeOK
<1>2. faults' \in 0 .. MaxFaults
  BY SettlementAssumption
     DEF SettlementStep, SettlementCrash, FindEscrow, SettleEscrow, SettlePurchase, SettleFails,
         Validate, UpdateRow, UpdateEscrow, UpdateFails, SettlementTypeOK
<1> QED
  BY <1>1, <1>2 DEF SettlementTypes, SettlementTypeOK

LEMMA StorefrontTypesStep ==
    ASSUME StorefrontTypes, [Next]_vars
    PROVE  StorefrontTypes'
<1>t. /\ BooksOK /\ HandlingOK /\ PagesOK /\ HoldOK /\ SettlementTypeOK
      /\ avg \in Ratings /\ profile \in Ratings
  BY TypesApart
<1>1. CASE Settle
  <2>1. SettlementTypeOK'
    BY <1>1, <1>t, SettlementTypeStep DEF Settle
  <2>2. BooksOK' /\ HandlingOK' /\ PagesOK' /\ HoldOK' /\ avg' \in Ratings /\ profile' \in Ratings
    BY <1>1, <1>t DEF Settle, reviews, averages, handling, caching, BooksOK, HandlingOK,
                      PagesOK, HoldOK
  <2> QED
    BY <2>1, <2>2, TypesTogether
<1>2. CASE DropLists \/ (\E k \in Pages : Expire(k)) \/ UNCHANGED vars
  <2>1. UNCHANGED <<settlement, reviews, averages, handling, hold, faults>>
    BY <1>2 DEF DropLists, Expire, vars, caching
  <2>2. PagesOK'
    BY <1>2, <1>t DEF DropLists, Expire, vars, caching, PagesOK
  <2>3. /\ BooksOK' /\ HandlingOK' /\ HoldOK' /\ SettlementTypeOK'
        /\ avg' \in Ratings /\ profile' \in Ratings
    BY <1>t, <2>1 DEF settlement, rows, reviews, averages, handling, BooksOK, HandlingOK, HoldOK,
                      SettlementTypeOK
  <2> QED
    BY <2>2, <2>3, TypesTogether
<1>3. CASE Crash
  <2>1. SettlementTypeOK'
    BY <1>3, <1>t, SettlementTypeStep DEF Crash
  <2>2. UNCHANGED <<reviews, averages, found, read, missed, page>>
    BY <1>3 DEF Crash
  <2>3. fresh' \in BOOLEAN
    BY <1>3 DEF Crash
  <2>4. PICK again \in BOOLEAN :
          pc' = [h \in Handlers |->
                   CASE pc[h] \in {"none", "find", "done"} -> pc[h]
                     [] h \in Stats /\ again -> Starts(h)
                     [] OTHER -> "failed"]
    BY <1>3 DEF Crash
  <2>5. \A h \in Handlers : \/ pc'[h] = pc[h] /\ pc[h] \in {"none", "find", "done"}
                            \/ h \in Stats /\ pc'[h] = "seller"
                            \/ pc'[h] = "failed"
    BY <2>4 DEF Starts
  <2>6. pc' \in [Handlers -> Pcs]
    BY <2>4, <2>5 DEF Pcs
  <2>7. HandlingOK'
    BY <1>t, <2>2, <2>3, <2>5, <2>6 DEF HandlingOK, Handlers
  <2>8. HoldOK'
    BY <1>3, <1>t DEF Crash, HoldOK
  <2>9. BooksOK' /\ PagesOK' /\ avg' \in Ratings /\ profile' \in Ratings
    BY <1>t, <2>2 DEF reviews, averages, BooksOK, PagesOK
  <2> QED
    BY <2>1, <2>7, <2>8, <2>9, TypesTogether
<1> QED
  BY <1>1, <1>2, <1>3, HandlerTypesStep, ReaderTypesStep DEF Next

(* Type correctness of Storefront.                                         *)
THEOREM StorefrontTypeCorrect == Spec => []TypeOK
<1>1. StorefrontTypes => TypeOK
  BY DEF StorefrontTypes
<1> QED
  BY <1>1, TypesInitially, StorefrontTypesStep, PTL DEF Spec

-----------------------------------------------------------------------------
(* Verdicts that stay, in the presence of reviews and readers.             *)
VerdictsInv == SettlementInv /\ RowsTold

LEMMA VerdictsInitially ==
    ASSUME Init
    PROVE  VerdictsInv
BY SettlementInitially, RowsToldInitially DEF Init, SceneInit, VerdictsInv

LEMMA VerdictsStep ==
    ASSUME VerdictsInv, [Next]_vars
    PROVE  VerdictsInv'
<1>1. [SettlementStep \/ SettlementCrash]_settlement
  BY SettlementGoesOn
<1>2. SettlementInv'
  BY <1>1, SettlementInvStep DEF VerdictsInv
<1>3. RowsTold'
  BY <1>1, SettlementWrites, RowsToldStep DEF VerdictsInv, SettlementInv
<1> QED BY <1>2, <1>3 DEF VerdictsInv

(* Nothing that reviewers, readers and caches do lets a row change its     *)
(* verdict.                                                                *)
THEOREM StorefrontVerdictsStay == Spec => VerdictsStay
<1>1. VerdictsInv /\ [Next]_vars
        => [\A p \in Purchases \ (crossed' \union torn') :
              /\ status[p] # "pending" => status'[p] = status[p]
              /\ escrow[p] # "holding" => escrow'[p] = escrow[p]]_<<settlement, faults>>
  <2> SUFFICES ASSUME VerdictsInv, [Next]_vars, NEW p \in Purchases, p \notin crossed',
                      p \notin torn'
               PROVE  Stay(p)
    BY DEF Stay
  <2> QED BY SettlementGoesOn, VerdictsStayStep DEF VerdictsInv
<1> QED
  BY <1>1, VerdictsInitially, VerdictsStep, PTL DEF Spec, VerdictsStay

-----------------------------------------------------------------------------
(* What is shown was earned.  The check of the purchase is long past when a  *)
(* rating is written, but what it saw was written as a verdict; and what a *)
(* handler has read was earned when it was read.                           *)
EarnedInv ==
    /\ StorefrontTypes
    /\ RowsTold
    /\ \A h \in Reviewers : pc[h] \in {"check", "write"} => "released" \in verdicts[Of[h]]
    /\ \A h \in Handlers : Earned(read[h])
    /\ ShownIsEarned

(* What was earned, or told, stays so.                                     *)
LEMMA EarnedStays ==
    ASSUME NEW a \in Ratings, Earned(a),
           \A p \in Purchases : verdicts[p] \subseteq verdicts'[p]
    PROVE  Earned(a)'
BY StorefrontAssumption DEF Earned, Ratings

LEMMA TruthfulStays ==
    ASSUME NEW k \in Pages, NEW e, Truthful(k, e),
           \A p \in Purchases : verdicts[p] \subseteq verdicts'[p],
           k \in PodPages => \A i \in DOMAIN e : e[i] \in Ratings
    PROVE  Truthful(k, e)'
<1>1. CASE k \in PodPages
  BY <1>1, EarnedStays DEF Truthful
<1>2. CASE k \notin PodPages
  BY <1>2 DEF Truthful, Pages
<1> QED BY <1>1, <1>2

(* Answers about the datapod are made of ratings.                          *)
LEMMA AnswersAreRatings ==
    ASSUME NEW k \in PodPages, NEW e \in Contents(k)
    PROVE  \A i \in DOMAIN e : e[i] \in Ratings
BY DEF PodPages, Lists, Contents, NotListed

LEMMA ViewIsEarned ==
    ASSUME EarnedInv, NEW k \in Pages
    PROVE  Truthful(k, View(k))
<1>1. Earned(avg) /\ Earned(profile) /\ Earned(rating)
  BY DEF EarnedInv, ShownIsEarned
<1>2. CASE k \in Lists
  <2>1. View(k) = <<avg, profile>> \/ View(k) = <<>>
    BY <1>2 DEF View, Lists, BrowseView, DataPodsView, TopRatedView, Listed, NotListed
  <2> QED BY <1>1, <1>2, <2>1 DEF Truthful, PodPages
<1>3. CASE k = "datapod"
  BY <1>1, <1>3 DEF View, DetailsView, Truthful, PodPages
<1>4. CASE k \in Purchases
  <2>1. k \notin PodPages
    BY <1>4, StorefrontAssumption
  <2>2. View(k) = status[k]
    BY <2>1 DEF View, PodPages, Lists
  <2> QED BY <1>4, <2>1, <2>2 DEF Truthful, EarnedInv, RowsTold
<1> QED BY <1>2, <1>3, <1>4 DEF Pages, PodPages

LEMMA EarnedInitially ==
    ASSUME Init
    PROVE  EarnedInv
<1>1. PICK S \in Scenes : SceneInit(S)
  BY DEF Init
<1>2. StorefrontTypes /\ RowsTold
  BY <1>1, TypesInitially, RowsToldInitially DEF SceneInit
<1>3. Earned(Unrated)
  BY DEF Earned, Unrated
<1>4. /\ id = Unrated /\ rating = Unrated /\ avg = Unrated /\ profile = Unrated
      /\ read = [h \in Handlers |-> Unrated]
      /\ pc = [h \in Handlers |-> IF h \in S THEN Starts(h) ELSE "none"]
      /\ page = [k \in Pages |-> None]
      /\ hold = [r \in Readers |-> IF r \in S THEN None ELSE Absent]
  BY <1>1 DEF SceneInit
<1>5. \A h \in Handlers : pc[h] \notin {"check", "write"}
  BY <1>4 DEF Starts
<1>6. ShownIsEarned
  BY <1>3, <1>4 DEF ShownIsEarned
<1> QED BY <1>2, <1>3, <1>4, <1>5, <1>6 DEF EarnedInv, Handlers

(* Where the verdicts only grow, what a step leaves alone stays earned.    *)
LEMMA EarnedKept ==
    ASSUME EarnedInv, StorefrontTypes', RowsTold',
           \A p \in Purchases : verdicts[p] \subseteq verdicts'[p],
           UNCHANGED <<reviews, averages, read>>,
           \A h \in Reviewers : pc'[h] \in {"check", "write"} => pc[h] = pc'[h],
           \A k \in Pages : page'[k] \in {page[k], None},
           \A r \in Readers : hold'[r] \in {hold[r], None}
    PROVE  EarnedInv'
<1>t. /\ id \in Ratings /\ rating \in Ratings /\ avg \in Ratings /\ profile \in Ratings
      /\ read \in [Handlers -> Ratings]
      /\ \A k \in Pages : page[k] \in {None} \union Contents(k)
      /\ \A r \in Readers : hold[r] \in {None, Absent} \union Contents(Page[r])
  BY DEF EarnedInv, StorefrontTypes, TypeOK
<1>1. Earned(id)' /\ Earned(rating)' /\ Earned(avg)' /\ Earned(profile)'
  <2>1. \A a \in Ratings : Earned(a) => \A b \in Buyers :
            a[b] # None => Buyer[Of[a[b]]] = b /\ "released" \in verdicts'[Of[a[b]]]
    BY EarnedStays DEF Earned
  <2> QED BY <1>t, <2>1 DEF EarnedInv, ShownIsEarned, reviews, averages, Earned
<1>2. \A h \in Handlers : Earned(read[h])'
  BY <1>t, EarnedStays DEF EarnedInv, Earned
<1>3. \A k \in Pages : page'[k] # None => Truthful(k, page[k])'
  BY <1>t, AnswersAreRatings, TruthfulStays DEF EarnedInv, ShownIsEarned
<1>4. \A r \in Readers : hold'[r] \notin {None, Absent} => Truthful(Page[r], hold[r])'
  <2>1. \A r \in Readers : Page[r] \in Pages
    BY StorefrontAssumption
  <2> QED BY <1>t, <2>1, AnswersAreRatings, TruthfulStays DEF EarnedInv, ShownIsEarned
<1>5. ShownIsEarned'
  BY <1>1, <1>3, <1>4 DEF ShownIsEarned
<1>6. \A h \in Reviewers : pc'[h] \in {"check", "write"} => "released" \in verdicts'[Of[h]]
  BY StorefrontAssumption DEF EarnedInv
<1> QED BY <1>2, <1>5, <1>6 DEF EarnedInv

LEMMA EarnedByReader ==
    ASSUME EarnedInv, NEW r \in Readers, Find(r) \/ Fill(r)
    PROVE  EarnedInv'
<1>p. Page[r] \in Pages
  BY StorefrontAssumption
<1>t. /\ \A k \in Pages : page[k] \in {None} \union Contents(k)
      /\ \A q \in Readers : hold[q] \in {None, Absent} \union Contents(Page[q])
      /\ page = [k \in Pages |-> page[k]] /\ hold = [q \in Readers |-> hold[q]]
  BY DEF EarnedInv, StorefrontTypes, TypeOK
<1>u. UNCHANGED <<status, escrow, verdicts, id, rating, avg, profile, pc, read>>
  BY DEF Find, Fill, settlement, rows, reviews, averages, handling
<1>1. StorefrontTypes'
  BY ReaderTypesStep DEF EarnedInv
<1>2. \A k \in Pages : \A e : Truthful(k, e) => (IF k \in PodPages
            THEN \A i \in DOMAIN e : \A b \in Buyers :
                    e[i][b] # None => /\ Buyer[Of[e[i][b]]] = b
                                      /\ "released" \in verdicts'[Of[e[i][b]]]
            ELSE \A v \in {"released", "refunded"} : e = StatusFor(v) => v \in verdicts'[k])
  BY <1>u DEF Truthful, Earned
<1>3. \A k \in Pages : page'[k] # None => Truthful(k, page'[k])
  <2>1. CASE Find(r)
    BY <2>1 DEF Find, EarnedInv, ShownIsEarned
  <2>2. CASE Fill(r)
    <3>1. hold[r] \notin {None, Absent} /\ page' \in {page, [page EXCEPT ![Page[r]] = hold[r]]}
      BY <2>2 DEF Fill
    <3> QED BY <1>p, <1>t, <3>1 DEF EarnedInv, ShownIsEarned
  <2> QED BY <2>1, <2>2
<1>4. \A q \in Readers : hold'[q] \notin {None, Absent} => Truthful(Page[q], hold'[q])
  <2>1. CASE Find(r)
    <3>1. hold' = [hold EXCEPT ![r] = View(Page[r])] /\ Truthful(Page[r], View(Page[r]))
      BY <1>p, <2>1, ViewIsEarned DEF Find
    <3> QED BY <1>t, <3>1 DEF EarnedInv, ShownIsEarned
  <2>2. CASE Fill(r)
    <3>1. hold' = [hold EXCEPT ![r] = None]
      BY <2>2 DEF Fill
    <3> QED BY <1>t, <3>1 DEF EarnedInv, ShownIsEarned
  <2> QED BY <2>1, <2>2
<1>5. \A k \in Pages : page'[k] # None => Truthful(k, page[k])'
  BY <1>2, <1>3 DEF Truthful, Earned
<1>6. \A q \in Readers : hold'[q] \notin {None, Absent} => Truthful(Page[q], hold[q])'
  BY <1>2, <1>4, StorefrontAssumption DEF Truthful, Earned
<1>7. Earned(id)' /\ Earned(rating)' /\ Earned(avg)' /\ Earned(profile)'
  BY <1>u DEF EarnedInv, ShownIsEarned, Earned
<1>8. \A h \in Handlers : Earned(read[h])'
  BY <1>u DEF EarnedInv, Earned
<1>9. RowsTold'
  BY <1>u DEF EarnedInv, RowsTold
<1> QED BY <1>1, <1>5, <1>6, <1>7, <1>8, <1>9, <1>u DEF EarnedInv, ShownIsEarned

LEMMA EarnedByHandler ==
    ASSUME EarnedInv, NEW h \in Handlers, HandlerStep(h), StorefrontTypes'
    PROVE  EarnedInv'
<1>t. /\ id \in Ratings /\ rating \in Ratings /\ avg \in Ratings /\ profile \in Ratings
      /\ read \in [Handlers -> Ratings] /\ pc \in [Handlers -> Pcs]
      /\ page = [k \in Pages |-> page[k]]
  BY DEF EarnedInv, StorefrontTypes, TypeOK, Pcs
<1>u. UNCHANGED <<status, escrow, verdicts, hold>>
  BY DEF HandlerStep, FindPurchase, CheckNoReview, FindReview, Write, Conflict, ReadRatings,
         StoreAverage, NoAverage, ReadSeller, StoreProfile, DropPage, HandlerFails, settlement,
         rows, caching
<1>1. \A k \in Pages : page'[k] \in {page[k], None}
  BY <1>t
     DEF HandlerStep, FindPurchase, CheckNoReview, FindReview, Write, Conflict, ReadRatings,
         StoreAverage, NoAverage, ReadSeller, StoreProfile, DropPage, HandlerFails, caching
<1>2. /\ avg' \in {avg, read[h]} /\ profile' \in {profile, read[h]}
      /\ read' \in {read, [read EXCEPT ![h] = rating]}
  BY DEF HandlerStep, FindPurchase, CheckNoReview, FindReview, Write, Conflict, ReadRatings,
         StoreAverage, NoAverage, ReadSeller, StoreProfile, DropPage, HandlerFails, averages
<1>3. UNCHANGED <<id, rating>> \/ (pc[h] = "write" /\ WriteReview(h))
  BY DEF HandlerStep, FindPurchase, CheckNoReview, FindReview, Write, Conflict, ReadRatings,
         StoreAverage, NoAverage, ReadSeller, StoreProfile, DropPage, HandlerFails, reviews
<1>4. Earned(id') /\ Earned(rating')
  <2>1. CASE UNCHANGED <<id, rating>>
    BY <2>1 DEF EarnedInv, ShownIsEarned
  <2>2. CASE pc[h] = "write" /\ WriteReview(h) /\ h \in Removes
    <3>1. /\ \A b \in Buyers : id'[b] = (IF b = By[h] THEN None ELSE id[b])
          /\ \A b \in Buyers : rating'[b] = (IF b = By[h] THEN None ELSE rating[b])
      BY <1>t, <2>2 DEF WriteReview, Ratings
    <3>2. Earned(id) /\ Earned(rating)
      BY DEF EarnedInv, ShownIsEarned
    <3> QED BY <3>1, <3>2 DEF Earned
  <2>3. CASE pc[h] = "write" /\ WriteReview(h) /\ h \in Reviewers
    <3>1. "released" \in verdicts[Of[h]] /\ Buyer[Of[h]] \in Buyers /\ h \notin Removes
      BY <2>3, StorefrontAssumption DEF EarnedInv
    <3>2. Upsert(h)
      BY <2>3, <3>1 DEF WriteReview
    <3>3. /\ \A b \in Buyers : id'[b] = (IF b = Buyer[Of[h]] /\ id[b] = None THEN h ELSE id[b])
          /\ \A b \in Buyers : rating'[b] = (IF b = Buyer[Of[h]] THEN h ELSE rating[b])
      BY <1>t, <3>2 DEF Upsert, Ratings
    <3>4. Earned(id) /\ Earned(rating)
      BY DEF EarnedInv, ShownIsEarned
    <3> QED BY <3>1, <3>3, <3>4 DEF Earned
  <2>4. h \notin Stats \/ pc[h] # "write"
    BY DEF EarnedInv, StorefrontTypes
  <2> QED BY <1>3, <2>1, <2>2, <2>3, <2>4 DEF Handlers
<1>5. Earned(avg') /\ Earned(profile') /\ \A g \in Handlers : Earned(read'[g])
  BY <1>t, <1>2 DEF EarnedInv, ShownIsEarned
<1>6. \A g \in Reviewers : pc'[g] \in {"check", "write"} =>
          pc[g] \in {"check", "write"} \/ status[Of[g]] = "completed"
  BY <1>t, StorefrontAssumption
     DEF HandlerStep, FindPurchase, CheckNoReview, FindReview, Write, Conflict, ReadRatings,
         StoreAverage, NoAverage, ReadSeller, StoreProfile, DropPage, HandlerFails, Goto, Starts,
         Handlers, Reviewers
<1>7. \A g \in Reviewers : pc'[g] \in {"check", "write"} => "released" \in verdicts'[Of[g]]
  <2>1. \A g \in Reviewers : status[Of[g]] = "completed" => "released" \in verdicts[Of[g]]
    BY StorefrontAssumption DEF EarnedInv, RowsTold, StatusFor
  <2> QED BY <1>6, <1>u, <2>1 DEF EarnedInv
<1>8. Earned(id)' /\ Earned(rating)' /\ Earned(avg)' /\ Earned(profile)'
  BY <1>4, <1>5, <1>u DEF Earned
<1>9. \A g \in Handlers : Earned(read[g])'
  BY <1>5, <1>u DEF Earned
<1>10. \A k \in Pages : page'[k] # None => Truthful(k, page[k])'
  <2>1. \A k \in Pages : page'[k] # None => page'[k] = page[k] /\ Truthful(k, page'[k])
    BY <1>1 DEF EarnedInv, ShownIsEarned
  <2> QED BY <1>u, <2>1 DEF Truthful, Earned
<1>11. \A r \in Readers : hold'[r] \notin {None, Absent} => Truthful(Page[r], hold[r])'
  BY <1>u DEF EarnedInv, ShownIsEarned, Truthful, Earned
<1>12. RowsTold'
  BY <1>u DEF EarnedInv, RowsTold
<1> QED BY <1>7, <1>8, <1>9, <1>10, <1>11, <1>12 DEF EarnedInv, ShownIsEarned

LEMMA EarnedStep ==
    ASSUME EarnedInv, [Next]_vars
    PROVE  EarnedInv'
<1>t. StorefrontTypes' /\ SettlementTypes
  BY StorefrontTypesStep DEF EarnedInv, StorefrontTypes, TypeOK, SettlementTypeOK, SettlementTypes
<1>w. OneRowWritten
  BY SettlementGoesOn, SettlementWrites
<1>v. RowsTold' /\ \A p \in Purchases : verdicts[p] \subseteq verdicts'[p]
  BY <1>t, <1>w, RowsToldStep, VerdictsGrow DEF EarnedInv
<1>1. CASE Settle \/ DropLists \/ (\E k \in Pages : Expire(k)) \/ UNCHANGED vars
  <2>1. UNCHANGED <<reviews, averages, read, pc, hold>>
    BY <1>1 DEF Settle, DropLists, Expire, vars, handling, caching
  <2>2. \A k \in Pages : page'[k] \in {page[k], None}
    BY <1>1 DEF Settle, DropLists, Expire, vars, caching, EarnedInv, StorefrontTypes
  <2> QED BY <1>t, <1>v, <2>1, <2>2, EarnedKept
<1>2. CASE Crash
  <2>1. UNCHANGED <<reviews, averages, read, page>>
    BY <1>2 DEF Crash
  <2>2. \A h \in Handlers : pc'[h] \in {"check", "write"} => pc[h] = pc'[h]
    BY <1>2 DEF Crash, Starts
  <2>3. \A r \in Readers : hold'[r] \in {hold[r], None}
    BY <1>2 DEF Crash
  <2> QED BY <1>t, <1>v, <2>1, <2>2, <2>3, EarnedKept DEF Handlers
<1>3. CASE \E r \in Readers : Find(r) \/ Fill(r)
  BY <1>3, EarnedByReader
<1>4. CASE \E h \in Handlers : Handle(h)
  BY <1>4, <1>t, HandleIsStep, EarnedByHandler
<1> QED BY <1>1, <1>2, <1>3, <1>4 DEF Next

(* Whatever is stored, averaged, cached or on its way into a cache was     *)
(* given by the buyer it is shown for, on a purchase that was released.    *)
THEOREM WhatIsShownWasEarned == Spec => []ShownIsEarned
<1>1. EarnedInv => ShownIsEarned
  BY DEF EarnedInv
<1> QED
  BY <1>1, EarnedInitially, EarnedStep, PTL DEF Spec
=============================================================================
