--------------------------- MODULE ListingProofs ----------------------------
(***************************************************************************)
(* Proofs about Listing: the invariant IInv is inductive, and the safety   *)
(* properties of the module follow from it.                                *)
(***************************************************************************)
EXTENDS Listing, TLAPS

-----------------------------------------------------------------------------
(* The steps, by what they write.                                          *)

(* Steps of publishes, of the chain, of the clock and of the clean-up leave *)
(* the uploads alone.                                                      *)
LEMMA UploadsAlone ==
    ASSUME \/ \E c \in Publishes : PublishStep(c) \/ ExecutePublish(c)
           \/ \E h \in Contents : GrowOld(h)
           \/ CleanUp
    PROVE  UNCHANGED uploadVars
BY DEF PublishStep, StartPublish, FindStaging, SendPublish, ConfirmPublish, CreatePod,
       LinkStaging, AuditPublish, AnswerPublish, PublishThrows, ExecutePublish, PublishPTB, GrowOld,
       CleanUp, uploadVars, publishVars

(* Only four steps write datapods or staging rows on behalf of a publish.  *)
LEMMA PublishesAlone ==
    ASSUME \/ \E u \in Uploads : UploadStep(u)
           \/ \E h \in Contents : GrowOld(h)
           \/ CleanUp
    PROVE  UNCHANGED <<publishVars, pod>>
BY DEF UploadStep, StartUpload, StoreBlob, UploadToWalrus, FindExisting, FindNone, CreateStaging,
       UploadThrows, GrowOld, CleanUp, uploadVars, publishVars

(* The two writes of staging rows keep the type.                           *)
LEMMA RowTypes ==
    ASSUME TypeOK
    PROVE  /\ \A u \in Uploads : InsertStaging(u) => staging' \in [Contents -> Staging]
           /\ \A c \in Publishes : SetLinked(c) => staging' \in [Contents -> Staging]
<1>1. ASSUME NEW u \in Uploads, InsertStaging(u) PROVE staging' \in [Contents -> Staging]
  <2>1. [id |-> u, status |-> "pending", old |-> FALSE, linked |-> FALSE] \in Staging
    BY DEF Staging
  <2> QED BY <1>1, <2>1 DEF InsertStaging, TypeOK
<1>2. ASSUME NEW c \in Publishes, SetLinked(c) PROVE staging' \in [Contents -> Staging]
  BY <1>2 DEF SetLinked, TypeOK, Staging
<1> QED BY <1>1, <1>2

LEMMA TypeStep == TypeOK /\ [Next]_vars => TypeOK'
<1> SUFFICES ASSUME TypeOK, [Next]_vars PROVE TypeOK'
  OBVIOUS
<1> USE CallsAssumption DEF TypeOK, Staging, NoStaging, UpState, PubState
<1>1. ASSUME NEW u \in Uploads, UploadStep(u) PROVE TypeOK'
  <2>1. CASE StartUpload(u)
    BY <2>1 DEF StartUpload, UpGoto, publishVars
  <2>2. CASE StoreBlob(u)
    BY <2>2 DEF StoreBlob, UploadToWalrus, UpGoto, publishVars
  <2>3. CASE FindExisting(u)
    BY <2>3 DEF FindExisting, UpGoto, publishVars
  <2>4. CASE FindNone(u)
    BY <2>4 DEF FindNone, UpGoto, publishVars
  <2>5. CASE CreateStaging(u)
    BY <2>5 DEF CreateStaging, InsertStaging, UpGoto, publishVars
  <2>6. CASE UploadThrows(u)
    <3>1. staging' \in [Contents -> Staging] /\ stored' \subseteq Uploads
      BY <2>6, RowTypes DEF UploadThrows, UploadToWalrus
    <3> QED BY <2>6, <3>1 DEF UploadThrows, UploadToWalrus, publishVars
  <2> QED BY <1>1, <2>1, <2>2, <2>3, <2>4, <2>5, <2>6 DEF UploadStep
<1>2. ASSUME NEW c \in Publishes, PublishStep(c) PROVE TypeOK'
  <2>1. CASE StartPublish(c)
    BY <2>1 DEF StartPublish, PubGoto, uploadVars
  <2>2. CASE FindStaging(c)
    BY <2>2 DEF FindStaging, PubGoto, uploadVars
  <2>3. CASE SendPublish(c)
    BY <2>3 DEF SendPublish, PubGoto, uploadVars
  <2>4. CASE ConfirmPublish(c)
    BY <2>4 DEF ConfirmPublish, PubGoto, uploadVars
  <2>5. CASE CreatePod(c)
    BY <2>5 DEF CreatePod, InsertPod, PubGoto, uploadVars
  <2>6. CASE LinkStaging(c)
    <3>1. staging' \in [Contents -> Staging]
      BY <2>6, RowTypes DEF LinkStaging
    <3> QED BY <2>6, <3>1 DEF LinkStaging, PubGoto, uploadVars
  <2>7. CASE AuditPublish(c)
    BY <2>7 DEF AuditPublish, PubGoto, uploadVars
  <2>8. CASE AnswerPublish(c)
    BY <2>8 DEF AnswerPublish, PubGoto, uploadVars
  <2>9. CASE PublishThrows(c)
    <3>1. staging' \in [Contents -> Staging]
      BY <2>9, RowTypes DEF PublishThrows
    <3>2. pod' \in [Contents -> Uploads \union {None}]
      BY <2>9 DEF PublishThrows, InsertPod
    <3> QED BY <2>9, <3>1, <3>2 DEF PublishThrows, uploadVars
  <2> QED BY <1>2, <2>1, <2>2, <2>3, <2>4, <2>5, <2>6, <2>7, <2>8, <2>9 DEF PublishStep
<1>3. ASSUME NEW c \in Publishes, ExecutePublish(c) PROVE TypeOK'
  BY <1>3 DEF ExecutePublish, PublishPTB, uploadVars
<1>4. ASSUME NEW h \in Contents, GrowOld(h) PROVE TypeOK'
  BY <1>4 DEF GrowOld, uploadVars, publishVars
<1>5. CASE CleanUp
  BY <1>5 DEF CleanUp, uploadVars, publishVars
<1>6. CASE Crash
  BY <1>6 DEF Crash
<1>7. CASE UNCHANGED vars
  BY <1>7 DEF vars, uploadVars, publishVars
<1> QED BY <1>1, <1>2, <1>3, <1>4, <1>5, <1>6, <1>7 DEF Next

-----------------------------------------------------------------------------
(* Uploads and staging rows.                                               *)

LEMMA UploadsKept ==
    IInv /\ [Next]_vars => \A w \in Uploads : UploadInv(w)'
<1> SUFFICES ASSUME IInv, [Next]_vars, NEW w \in Uploads PROVE UploadInv(w)'
  OBVIOUS
<1> USE CallsAssumption DEF IInv, TypeOK, UploadInv
<1>1. ASSUME NEW u \in Uploads, UploadStep(u) PROVE UploadInv(w)'
  <2>1. CASE StartUpload(u) \/ StoreBlob(u) \/ FindNone(u)
    BY <2>1 DEF StartUpload, StoreBlob, UploadToWalrus, FindNone, UpGoto
  <2>2. CASE FindExisting(u)
    <3>1. StagingInv(Content[u]) /\ staging[Content[u]].status = "pending"
      BY <2>2 DEF FindExisting
    <3> QED BY <3>1, <2>2 DEF FindExisting, UpGoto, StagingInv
  <2>3. CASE CreateStaging(u)
    BY <2>3 DEF CreateStaging, UpGoto
  <2>4. CASE UploadThrows(u)
    BY <2>4 DEF UploadThrows, UploadToWalrus
  <2> QED BY <1>1, <2>1, <2>2, <2>3, <2>4 DEF UploadStep
<1>2. CASE \/ \E c \in Publishes : PublishStep(c) \/ ExecutePublish(c)
           \/ \E h \in Contents : GrowOld(h)
           \/ CleanUp
  BY <1>2, UploadsAlone DEF uploadVars
<1>3. CASE Crash
  BY <1>3 DEF Crash
<1>4. CASE UNCHANGED vars
  BY <1>4 DEF vars, uploadVars
<1> QED BY <1>1, <1>2, <1>3, <1>4 DEF Next

(* A blob stays stored.                                                    *)
LEMMA BlobsStay == [Next]_vars => stored \subseteq stored'
<1> SUFFICES ASSUME [Next]_vars PROVE stored \subseteq stored'
  OBVIOUS
<1>1. ASSUME NEW u \in Uploads, UploadStep(u) PROVE stored \subseteq stored'
  BY <1>1 DEF UploadStep, StartUpload, StoreBlob, UploadToWalrus, FindExisting, FindNone, CreateStaging,
              UploadThrows
<1>2. CASE \/ \E c \in Publishes : PublishStep(c) \/ ExecutePublish(c)
           \/ \E h \in Contents : GrowOld(h)
           \/ CleanUp
  BY <1>2, UploadsAlone DEF uploadVars
<1>3. CASE Crash \/ UNCHANGED vars
  BY <1>3 DEF Crash, vars, uploadVars
<1> QED BY <1>1, <1>2, <1>3 DEF Next

(* What can happen to the staging rows: one is inserted by an upload whose *)
(* blob is stored, one is linked, one ages, the pending old ones are gone. *)
RowInserted == \E u \in Uploads : up[u] = "create" /\ InsertStaging(u)
RowLinked   == \E c \in Publishes : pub[c] = "link" /\ SetLinked(c)
RowAged     == \E h \in Contents : staging' = [staging EXCEPT ![h].old = TRUE]
RowsCleaned == staging' = [h \in Contents |-> IF Expired(h) THEN NoStaging ELSE staging[h]]

LEMMA StagingSteps ==
    ASSUME [Next]_vars
    PROVE  RowInserted \/ RowLinked \/ RowAged \/ RowsCleaned \/ UNCHANGED staging
<1>1. ASSUME NEW u \in Uploads, UploadStep(u) PROVE RowInserted \/ UNCHANGED staging
  BY <1>1 DEF UploadStep, StartUpload, StoreBlob, UploadToWalrus, FindExisting, FindNone, CreateStaging,
              UploadThrows, UpGoto, RowInserted
<1>2. ASSUME NEW c \in Publishes, PublishStep(c) PROVE RowLinked \/ UNCHANGED staging
  BY <1>2 DEF PublishStep, StartPublish, FindStaging, SendPublish, ConfirmPublish,
              CreatePod, LinkStaging, AuditPublish, AnswerPublish, PublishThrows, PubGoto,
              RowLinked
<1>3. CASE (\E c \in Publishes : ExecutePublish(c)) \/ Crash \/ UNCHANGED vars
  BY <1>3 DEF ExecutePublish, PublishPTB, Crash, vars
<1>4. CASE (\E h \in Contents : GrowOld(h)) \/ CleanUp
  BY <1>4 DEF GrowOld, CleanUp, RowAged, RowsCleaned
<1> QED BY <1>1, <1>2, <1>3, <1>4 DEF Next

LEMMA StagingKept ==
    IInv /\ [Next]_vars => \A h \in Contents : StagingInv(h)'
<1> SUFFICES ASSUME IInv, [Next]_vars, NEW h \in Contents PROVE StagingInv(h)'
  OBVIOUS
<1>0. stored \subseteq stored'
  BY BlobsStay
<1>t. StagingInv(h) /\ staging \in [Contents -> Staging]
  BY DEF IInv, TypeOK
<1>1. CASE RowInserted
  <2>1. PICK u \in Uploads : up[u] = "create" /\ InsertStaging(u)
    BY <1>1 DEF RowInserted
  <2>2. u \in stored
    BY <2>1 DEF IInv, UploadInv
  <2> QED BY <1>0, <1>t, <2>1, <2>2, CallsAssumption DEF InsertStaging, StagingInv, Staging
<1>2. CASE RowLinked
  <2>1. PICK c \in Publishes : pub[c] = "link" /\ SetLinked(c)
    BY <1>2 DEF RowLinked
  <2>2. asked[c] \in Uploads /\ asked[c] \in stored
    BY <2>1 DEF IInv, PublishInv, TypeOK
  <2>3. Hash(c) \in Contents /\ staging[Hash(c)].status # "none"
    BY <2>1, <2>2, CallsAssumption DEF SetLinked, RowExists, Hash, IInv, StagingInv
  <2> QED BY <1>0, <1>t, <2>1, <2>3 DEF SetLinked, StagingInv, Staging
<1>3. CASE RowAged
  BY <1>0, <1>3, <1>t DEF RowAged, StagingInv, Staging
<1>4. CASE RowsCleaned
  BY <1>0, <1>4, <1>t DEF RowsCleaned, StagingInv, NoStaging
<1>5. CASE UNCHANGED staging
  BY <1>0, <1>5, <1>t DEF StagingInv
<1> QED BY <1>1, <1>2, <1>3, <1>4, <1>5, StagingSteps

-----------------------------------------------------------------------------
(* Datapods and publishes.                                                 *)

(* A datapod is inserted by a publish that saw its transaction succeed.    *)
PodInserted == \E c \in Publishes : pub[c] = "row" /\ InsertPod(c) /\ UNCHANGED <<asked, pubTx>>

LEMMA PodSteps ==
    ASSUME [Next]_vars
    PROVE  PodInserted \/ UNCHANGED pod
<1>1. CASE \/ \E u \in Uploads : UploadStep(u)
           \/ \E h \in Contents : GrowOld(h)
           \/ CleanUp
  BY <1>1, PublishesAlone
<1>2. ASSUME NEW c \in Publishes, PublishStep(c) PROVE PodInserted \/ UNCHANGED pod
  BY <1>2 DEF PublishStep, StartPublish, FindStaging, SendPublish, ConfirmPublish,
              CreatePod, LinkStaging, AuditPublish, AnswerPublish, PublishThrows, PubGoto,
              PodInserted
<1>3. CASE (\E c \in Publishes : ExecutePublish(c)) \/ Crash \/ UNCHANGED vars
  BY <1>3 DEF ExecutePublish, PublishPTB, Crash, vars
<1> QED BY <1>1, <1>2, <1>3 DEF Next

(* A datapod is never made over.                                           *)
LEMMA PodStays ==
    ASSUME TypeOK, [Next]_vars, NEW h \in Contents, pod[h] # None
    PROVE  pod'[h] = pod[h]
<1>1. CASE PodInserted
  <2>1. PICK c \in Publishes : InsertPod(c)
    BY <1>1 DEF PodInserted
  <2> QED BY <2>1 DEF InsertPod, TypeOK
<1>2. CASE UNCHANGED pod
  BY <1>2
<1> QED BY <1>1, <1>2, PodSteps

(* A published row keeps its id and its status.                            *)
LEMMA PublishedStays ==
    ASSUME TypeOK, [Next]_vars, NEW h \in Contents, staging[h].status = "published"
    PROVE  staging'[h].id = staging[h].id /\ staging'[h].status = "published"
<1>1. CASE RowInserted
  BY <1>1 DEF RowInserted, InsertStaging, TypeOK, Staging
<1>2. CASE RowLinked
  BY <1>2 DEF RowLinked, SetLinked, TypeOK, Staging
<1>3. CASE RowAged
  BY <1>3 DEF RowAged, TypeOK, Staging
<1>4. CASE RowsCleaned
  BY <1>4 DEF RowsCleaned, Expired
<1>5. CASE UNCHANGED staging
  BY <1>5
<1> QED BY <1>1, <1>2, <1>3, <1>4, <1>5, StagingSteps

(* A publish that did not move, or has failed, keeps its part of the       *)
(* invariant whatever else a step does.                                    *)
Stays(c) ==
    /\ pub'[c] = pub[c] \/ (pub'[c] = "failed" /\ pub[c] # "idle")
    /\ asked'[c] = asked[c]
    /\ pubTx'[c] = pubTx[c] \/ pubTx[c] = "sent"
    /\ audited \subseteq audited'

LEMMA StaysKept ==
    ASSUME IInv, [Next]_vars, NEW c \in Publishes, Stays(c)
    PROVE  PublishInv(c)'
<1>1. TypeOK /\ PublishInv(c) /\ stored \subseteq stored'
  BY BlobsStay DEF IInv
<1>2. CASE pub'[c] = "failed"
  <2>1. pub[c] # "idle" => asked[c] \in stored
    BY <1>1 DEF PublishInv
  <2> QED BY <1>1, <1>2, <2>1 DEF PublishInv, Stays, Created, Linked
<1>3. CASE pub'[c] = pub[c] /\ pub[c] \notin Created
  BY <1>1, <1>3 DEF PublishInv, Stays, Created, Linked
<1>4. CASE pub'[c] = pub[c] /\ pub[c] \in Created
  <2>1. asked[c] \in Uploads /\ asked[c] # None /\ Hash(c) \in Contents
    BY <1>1, <1>4, CallsAssumption DEF PublishInv, TypeOK, Created, Hash
  <2>2. Hash(c)' = Hash(c)
    BY DEF Hash, Stays
  <2>3. pod'[Hash(c)] = asked[c]
    BY <1>1, <1>4, <2>1, PodStays DEF PublishInv
  <2>4. pub[c] \in Linked =>
           staging'[Hash(c)].id = asked[c] /\ staging'[Hash(c)].status = "published"
    BY <1>1, <2>1, PublishedStays DEF PublishInv, RowExists
  <2> QED BY <1>1, <1>4, <2>2, <2>3, <2>4 DEF PublishInv, Stays, RowExists, Created, Linked
<1> QED BY <1>2, <1>3, <1>4 DEF Stays

(* Where a step moves a publish on, the guards and writes of the step give *)
(* what its new place needs.                                               *)
LEMMA MovesKept ==
    ASSUME IInv, [Next]_vars, NEW c \in Publishes, PublishStep(c)
    PROVE  PublishInv(c)'
<1>1. TypeOK /\ PublishInv(c) /\ stored \subseteq stored'
  BY BlobsStay DEF IInv
<1> USE CallsAssumption
<1>2. CASE StartPublish(c)
  <2>1. PICK u \in Uploads : answer[u] # None /\ asked' = [asked EXCEPT ![c] = answer[u]]
    BY <1>2 DEF StartPublish
  <2>2. answer[u] \in stored
    BY <2>1 DEF IInv, UploadInv
  <2> QED BY <1>1, <1>2, <2>1, <2>2
          DEF StartPublish, PubGoto, PublishInv, TypeOK, Created, Linked
<1>3. CASE FindStaging(c)
  BY <1>1, <1>3 DEF FindStaging, PubGoto, PublishInv, TypeOK, Created, Linked
<1>4. CASE SendPublish(c)
  BY <1>1, <1>4 DEF SendPublish, PubGoto, PublishInv, TypeOK, Created, Linked
<1>5. CASE ConfirmPublish(c)
  BY <1>1, <1>5 DEF ConfirmPublish, PubGoto, PublishInv, TypeOK, Created, Linked
<1>6. CASE CreatePod(c)
  <2>1. asked[c] \in Uploads /\ Hash(c) \in Contents
    BY <1>1, <1>6 DEF CreatePod, PubGoto, PublishInv, TypeOK, Hash
  <2>2. pod'[Hash(c)] = asked[c] /\ Hash(c)' = Hash(c)
    BY <1>1, <1>6, <2>1 DEF CreatePod, InsertPod, TypeOK, Hash
  <2> QED BY <1>1, <1>6, <2>2 DEF CreatePod, PubGoto, PublishInv, TypeOK, Created, Linked
<1>7. CASE LinkStaging(c)
  <2>1. asked[c] \in Uploads /\ Hash(c) \in Contents /\ Hash(c)' = Hash(c)
    BY <1>1, <1>7 DEF LinkStaging, PubGoto, PublishInv, TypeOK, Hash
  <2>2. staging'[Hash(c)].id = asked[c] /\ staging'[Hash(c)].status = "published"
    BY <1>1, <1>7, <2>1 DEF LinkStaging, SetLinked, RowExists, TypeOK, Staging
  <2> QED BY <1>1, <1>7, <2>1, <2>2
          DEF LinkStaging, PubGoto, PublishInv, RowExists, TypeOK, Created, Linked
<1>8. CASE AuditPublish(c)
  <2>1. Hash(c)' = Hash(c)
    BY <1>8 DEF AuditPublish, Hash
  <2> QED BY <1>1, <1>8, <2>1
          DEF AuditPublish, PubGoto, PublishInv, RowExists, TypeOK, Created, Linked
<1>9. CASE AnswerPublish(c)
  <2>1. Hash(c)' = Hash(c)
    BY <1>9 DEF AnswerPublish, Hash
  <2> QED BY <1>1, <1>9, <2>1
          DEF AnswerPublish, PubGoto, PublishInv, RowExists, TypeOK, Created, Linked
<1>10. CASE PublishThrows(c)
  <2>1. Stays(c)
    BY <1>1, <1>10 DEF PublishThrows, Stays, TypeOK
  <2> QED BY <2>1, StaysKept
<1> QED BY <1>2, <1>3, <1>4, <1>5, <1>6, <1>7, <1>8, <1>9, <1>10
        DEF PublishStep

(* No step moves more than one publish on.                                 *)
LEMMA OneMoves ==
    ASSUME TypeOK, Next
    PROVE  \/ \A d \in Publishes : Stays(d)
           \/ \E c \in Publishes :
                 PublishStep(c) /\ \A d \in Publishes \ {c} : Stays(d)
<1>1. CASE \/ \E u \in Uploads : UploadStep(u)
           \/ \E h \in Contents : GrowOld(h)
           \/ CleanUp
  BY <1>1, PublishesAlone DEF publishVars, Stays
<1>2. CASE \E c \in Publishes : ExecutePublish(c)
  BY <1>2 DEF ExecutePublish, PublishPTB, Stays, TypeOK
<1>3. CASE Crash
  BY <1>3 DEF Crash, Stays, TypeOK
<1>4. ASSUME NEW c \in Publishes, PublishStep(c)
      PROVE  \A d \in Publishes \ {c} : Stays(d)
  <2>1. CASE StartPublish(c) \/ FindStaging(c) \/ SendPublish(c) \/ ConfirmPublish(c)
    BY <2>1 DEF StartPublish, FindStaging, SendPublish, ConfirmPublish, PubGoto, Stays,
                TypeOK
  <2>2. CASE CreatePod(c) \/ LinkStaging(c) \/ AuditPublish(c) \/ AnswerPublish(c)
    BY <2>2 DEF CreatePod, LinkStaging, AuditPublish, AnswerPublish, PubGoto, Stays, TypeOK
  <2>3. CASE PublishThrows(c)
    BY <2>3 DEF PublishThrows, Stays, TypeOK
  <2> QED BY <1>4, <2>1, <2>2, <2>3 DEF PublishStep
<1> QED BY <1>1, <1>2, <1>3, <1>4 DEF Next

LEMMA PublishKept ==
    IInv /\ [Next]_vars => \A c \in Publishes : PublishInv(c)'
<1> SUFFICES ASSUME IInv, [Next]_vars PROVE \A c \in Publishes : PublishInv(c)'
  OBVIOUS
<1>1. CASE Next
  BY <1>1, OneMoves, StaysKept, MovesKept DEF IInv
<1>2. CASE UNCHANGED vars
  BY <1>2, StaysKept DEF vars, publishVars, Stays
<1> QED BY <1>1, <1>2

(* A second publish of a content that is on the market cannot insert it.   *)
LEMMA OneKept == IInv /\ [Next]_vars => OnePublish'
<1> SUFFICES ASSUME IInv, [Next]_vars, NEW c \in Publishes, NEW d \in Publishes,
                    pub'[c] \in Created, pub'[d] \in Created, Hash(d)' = Hash(c)'
             PROVE  d = c
  BY DEF OnePublish
<1>t. TypeOK /\ OnePublish /\ PublishInv(c) /\ PublishInv(d)
  BY DEF IInv
(* Whoever is past the insertion was so before, or inserts now.            *)
<1>1. ASSUME NEW e \in Publishes, pub'[e] \in Created
      PROVE  /\ Hash(e)' = Hash(e)
             /\ pub[e] \in Created \/ CreatePod(e)
  <2>1. CASE Stays(e)
    BY <1>1, <2>1 DEF Stays, Hash, Created
  <2>2. CASE PublishStep(e)
    BY <1>t, <1>1, <2>2 DEF PublishStep, StartPublish, FindStaging, SendPublish,
         ConfirmPublish, CreatePod, LinkStaging, AuditPublish, AnswerPublish,
         PublishThrows, PubGoto, TypeOK, Hash, Created
  <2>3. CASE UNCHANGED vars
    BY <1>1, <2>3 DEF vars, publishVars, Hash
  <2> QED BY <1>t, <2>1, <2>2, <2>3, OneMoves
<1>2. ASSUME NEW e \in Publishes, NEW f \in Publishes, e # f, CreatePod(e)
      PROVE  pub[f] \in Created => Hash(f) # Hash(e)
  <2>1. SUFFICES ASSUME pub[f] \in Created PROVE pod[Hash(f)] # None
    BY <1>2 DEF CreatePod, InsertPod
  <2>2. PublishInv(f) /\ TypeOK
    BY DEF IInv
  <2> QED BY <2>1, <2>2, CallsAssumption DEF PublishInv, TypeOK, Created
<1>3. ASSUME NEW e \in Publishes, NEW f \in Publishes, CreatePod(e), CreatePod(f)
      PROVE  e = f
  <2>1. pub' = [pub EXCEPT ![e] = "link"] /\ pub' = [pub EXCEPT ![f] = "link"]
        /\ pub[e] = "row" /\ pub[f] = "row"
    BY <1>3 DEF CreatePod, PubGoto
  <2> QED BY <1>t, <2>1 DEF TypeOK
<1> QED BY <1>t, <1>1, <1>2, <1>3 DEF OnePublish

-----------------------------------------------------------------------------
(* The safety properties.                                                  *)

(* What was executed stays executed, and was asked for before.             *)
LEMMA WitnessStays ==
    ASSUME IInv, [Next]_vars, NEW c \in Publishes, pubTx[c] = "ok"
    PROVE  pubTx'[c] = "ok" /\ asked'[c] = asked[c]
<1>1. TypeOK /\ PublishInv(c)
  BY DEF IInv
<1>2. CASE Stays(c)
  BY <1>2 DEF Stays
<1>3. CASE PublishStep(c)
  BY <1>1, <1>3 DEF PublishStep, StartPublish, FindStaging, SendPublish, ConfirmPublish,
       CreatePod, LinkStaging, AuditPublish, AnswerPublish, PublishThrows, PubGoto,
       PublishInv, TypeOK
<1>4. CASE UNCHANGED vars
  BY <1>4 DEF vars, publishVars
<1> QED BY <1>1, <1>2, <1>3, <1>4, OneMoves

LEMMA ListedKept == IInv /\ [Next]_vars => ListedIsBacked'
<1> SUFFICES ASSUME IInv, [Next]_vars, NEW h \in Contents, pod'[h] # None
             PROVE  /\ pod'[h] \in stored'
                    /\ Content[pod'[h]] = h
                    /\ \E c \in Publishes :
                          /\ asked'[c] = pod'[h]
                          /\ PublishBy[c] = UploadBy[pod'[h]]
                          /\ pubTx'[c] = "ok"
  BY DEF ListedIsBacked
<1>t. TypeOK /\ ListedIsBacked /\ stored \subseteq stored'
  BY BlobsStay DEF IInv
<1>1. CASE pod[h] # None
  <2>1. pod'[h] = pod[h]
    BY <1>t, <1>1, PodStays
  <2>2. PICK c \in Publishes : /\ asked[c] = pod[h]
                               /\ PublishBy[c] = UploadBy[pod[h]]
                               /\ pubTx[c] = "ok"
    BY <1>t, <1>1 DEF ListedIsBacked
  <2>3. asked'[c] = asked[c] /\ pubTx'[c] = "ok"
    BY <2>2, WitnessStays
  <2> QED BY <1>t, <1>1, <2>1, <2>2, <2>3 DEF ListedIsBacked
<1>2. CASE pod[h] = None
  <2>1. PICK c \in Publishes : /\ pub[c] = "row" /\ InsertPod(c)
                               /\ UNCHANGED <<asked, pubTx>>
    BY <1>2, PodSteps DEF PodInserted
  <2>2. PublishInv(c)
    BY DEF IInv
  <2>3. pod'[h] = asked[c] /\ Hash(c) = h
    BY <1>t, <1>2, <2>1 DEF InsertPod, TypeOK
  <2> QED BY <1>t, <2>1, <2>2, <2>3 DEF PublishInv, Hash
<1> QED BY <1>1, <1>2

LEMMA KeyKept == IInv /\ [Next]_vars => KeyFitsBlob'
<1> SUFFICES ASSUME IInv, [Next]_vars, NEW h \in Contents
             PROVE  /\ staging'[h].status = "published" => pod'[h] = staging'[h].id
                    /\ staging'[h].linked <=> staging'[h].status = "published"
  BY DEF KeyFitsBlob
<1>t. TypeOK /\ KeyFitsBlob /\ StagingInv(h)
  BY DEF IInv
<1>p. staging[h].status = "published" => pod'[h] = staging[h].id
  BY <1>t, PodStays DEF KeyFitsBlob, StagingInv
<1>1. CASE RowInserted
  BY <1>t, <1>p, <1>1 DEF RowInserted, InsertStaging, KeyFitsBlob, TypeOK, Staging
<1>2. CASE RowLinked
  <2>1. PICK c \in Publishes : pub[c] = "link" /\ SetLinked(c)
    BY <1>2 DEF RowLinked
  <2>2. CASE Hash(c) = h
    <3>1. PublishInv(c) /\ staging[h].id = asked[c]
      BY <2>1, <2>2 DEF IInv, SetLinked, RowExists
    <3>2. asked[c] # None /\ pod[h] = asked[c]
      BY <1>t, <2>1, <2>2, <3>1, CallsAssumption DEF PublishInv, TypeOK, Created
    <3> QED BY <1>t, <2>1, <2>2, <3>1, <3>2, PodStays DEF SetLinked, TypeOK, Staging
  <2>3. CASE Hash(c) # h
    BY <1>t, <1>p, <2>1, <2>3 DEF SetLinked, KeyFitsBlob, TypeOK, Staging
  <2> QED BY <2>2, <2>3
<1>3. CASE RowAged
  BY <1>t, <1>p, <1>3 DEF RowAged, KeyFitsBlob, TypeOK, Staging
<1>4. CASE RowsCleaned
  BY <1>t, <1>p, <1>4 DEF RowsCleaned, KeyFitsBlob, NoStaging
<1>5. CASE UNCHANGED staging
  BY <1>t, <1>p, <1>5 DEF KeyFitsBlob
<1> QED BY <1>1, <1>2, <1>3, <1>4, <1>5, StagingSteps

(* Uploads, publishes, staging rows and datapods fit together at every step *)
(* boundary, for any number of sellers, files and calls (uploadData,       *)
(* publishDataPod and cleanupExpiredUploads).                              *)
THEOREM ListingInvariance == Spec => []IInv
<1>1. Init => IInv
  <2> SUFFICES ASSUME Init PROVE IInv
    OBVIOUS
  <2> USE CallsAssumption DEF Init
  <2>1. TypeOK
    BY DEF TypeOK, Staging, NoStaging, UpState, PubState
  <2>2. /\ \A u \in Uploads : UploadInv(u)
        /\ \A h \in Contents : StagingInv(h)
    BY DEF UploadInv, StagingInv, NoStaging
  <2>3. (\A c \in Publishes : PublishInv(c)) /\ OnePublish
    BY DEF PublishInv, OnePublish, Created, Linked
  <2>4. ListedIsBacked /\ KeyFitsBlob
    BY DEF ListedIsBacked, KeyFitsBlob, NoStaging
  <2> QED BY <2>1, <2>2, <2>3, <2>4 DEF IInv
<1>2. IInv /\ [Next]_vars => IInv'
  BY TypeStep, UploadsKept, StagingKept, PublishKept, OneKept, ListedKept, KeyKept DEF IInv
<1> QED BY <1>1, <1>2, PTL DEF Spec

(* Every column and every program counter keeps its type.                  *)
THEOREM ListingTypeCorrect == Spec => []TypeOK
<1>1. IInv => TypeOK
  BY DEF IInv
<1> QED BY <1>1, ListingInvariance, PTL

(* A datapod on the market has its blob and was put there by its own       *)
(* seller, with the chain's word for it.                                   *)
THEOREM ListedMeansBacked == Spec => []ListedIsBacked
<1>1. IInv => ListedIsBacked
  BY DEF IInv
<1> QED BY <1>1, ListingInvariance, PTL

(* The key in a published staging row is the key of the datapod's blob.    *)
THEOREM KeysFitBlobs == Spec => []KeyFitsBlob
<1>1. IInv => KeyFitsBlob
  BY DEF IInv
<1> QED BY <1>1, ListingInvariance, PTL

(* A publish that was answered with success is complete for good, and the  *)
(* only one for its content.                                               *)
THEOREM SuccessMeansSellable == Spec => []SuccessIsSellable
<1>1. IInv => SuccessIsSellable
  <2> SUFFICES ASSUME IInv, NEW c \in Publishes, pub[c] = "done"
               PROVE  /\ pod[Hash(c)] = asked[c]
                      /\ RowExists(c)
                      /\ staging[Hash(c)].linked
                      /\ c \in audited
                      /\ \A d \in Publishes :
                            pub[d] = "done" /\ Hash(d) = Hash(c) => d = c
    BY DEF SuccessIsSellable
  <2>1. PublishInv(c) /\ TypeOK /\ OnePublish /\ KeyFitsBlob
    BY DEF IInv
  <2>2. Hash(c) \in Contents
    BY <2>1, CallsAssumption DEF PublishInv, TypeOK, Hash
  <2> QED BY <2>1, <2>2 DEF PublishInv, OnePublish, KeyFitsBlob, Created, Linked
<1> QED BY <1>1, ListingInvariance, PTL

(* Neither blob nor seller of a datapod ever changes.                      *)
THEOREM ListingNeverChanges == Spec => ListingIsStable
<1>1. IInv /\ [Next]_vars => [\A h \in Contents : pod[h] # None => pod'[h] = pod[h]]_vars
  <2> SUFFICES ASSUME IInv, [Next]_vars
               PROVE  \A h \in Contents : pod[h] # None => pod'[h] = pod[h]
    OBVIOUS
  <2> QED BY PodStays DEF IInv
<1> QED BY <1>1, ListingInvariance, PTL DEF Spec, ListingIsStable

-----------------------------------------------------------------------------
(* Listing implements Market.  When a step leaves what the market sees of  *)
(* the publishes and of the staging rows alone, ...                        *)

LEMMA EndorsedSame ==
    ASSUME \A c \in Publishes : pubTx'[c] = "ok" <=> pubTx[c] = "ok",
           \A c \in Publishes : pubTx[c] = "ok" => asked'[c] = asked[c]
    PROVE  Endorsed' = Endorsed
BY DEF Endorsed

LEMMA ToldSame ==
    ASSUME \A c \in Publishes : pub'[c] = "done" <=> pub[c] = "done",
           \A c \in Publishes : pub[c] = "done" => asked'[c] = asked[c]
    PROVE  Told' = Told
BY DEF Told

LEMMA KeyedSame ==
    ASSUME \A h \in Contents : /\ staging'[h].linked = staging[h].linked
                               /\ staging[h].linked => staging'[h].id = staging[h].id
    PROVE  Keyed' = Keyed
BY DEF Keyed

(* ... and what the two writes of a publish are to the market.             *)
LEMMA InsertIsOffer ==
    ASSUME IInv, NEW c \in Publishes, pub[c] = "row", InsertPod(c),
           UNCHANGED <<stored, asked, pubTx, staging>>,
           \A d \in Publishes : pub'[d] = "done" <=> pub[d] = "done"
    PROVE  \E u \in Uploads : TheMarket!Offer(u)
<1>1. PublishInv(c) /\ TypeOK
  BY DEF IInv
<1>2. asked[c] \in Uploads /\ asked[c] \in stored /\ asked[c] \in Endorsed
  BY <1>1 DEF PublishInv, TypeOK, Endorsed
<1>3. pod[Content[asked[c]]] = None /\ pod' = [pod EXCEPT ![Content[asked[c]]] = asked[c]]
  BY DEF InsertPod, Hash
<1>4. Endorsed' = Endorsed /\ Told' = Told /\ Keyed' = Keyed
  <2>1. Endorsed' = Endorsed
    BY EndorsedSame
  <2>2. Told' = Told
    BY ToldSame
  <2>3. Keyed' = Keyed
    BY DEF Keyed
  <2> QED BY <2>1, <2>2, <2>3
<1> QED BY <1>2, <1>3, <1>4 DEF TheMarket!Offer

LEMMA LinkIsKey ==
    ASSUME IInv, NEW c \in Publishes, pub[c] = "link", SetLinked(c),
           UNCHANGED <<stored, asked, pubTx, pod>>,
           \A d \in Publishes : pub'[d] = "done" <=> pub[d] = "done"
    PROVE  \E h \in Contents : TheMarket!Key(h)
<1>1. PublishInv(c) /\ TypeOK
  BY DEF IInv
<1>2. asked[c] \in Uploads /\ Hash(c) \in Contents
  BY <1>1, CallsAssumption DEF PublishInv, TypeOK, Hash
<1>3. pod[Hash(c)] = asked[c] /\ asked[c] # None /\ staging[Hash(c)].id = asked[c]
  BY <1>1, <1>2, CallsAssumption DEF PublishInv, Created, SetLinked, RowExists
<1>4. Keyed' = [Keyed EXCEPT ![Hash(c)] = pod[Hash(c)]]
  <2> SUFFICES ASSUME NEW h \in Contents
               PROVE  Keyed'[h] = IF h = Hash(c) THEN pod[Hash(c)] ELSE Keyed[h]
    BY <1>2 DEF Keyed
  <2>1. CASE h = Hash(c)
    <3>1. staging'[h].linked /\ staging'[h].id = asked[c]
      BY <1>1, <1>3, <2>1 DEF SetLinked, TypeOK, Staging
    <3> QED BY <1>3, <2>1, <3>1 DEF Keyed
  <2>2. CASE h # Hash(c)
    <3>1. staging'[h] = staging[h]
      BY <1>1, <2>2 DEF SetLinked, TypeOK
    <3> QED BY <2>2, <3>1 DEF Keyed
  <2> QED BY <2>1, <2>2
<1>5. Endorsed' = Endorsed /\ Told' = Told
  BY EndorsedSame, ToldSame
<1> QED BY <1>2, <1>3, <1>4, <1>5 DEF TheMarket!Key

(* What the market sees does not change, ...                               *)
Unseen == UNCHANGED <<stored, Endorsed, pod, Keyed, Told>>

(* ... or it sees one of its own actions.                                  *)
LEMMA UploadIsKeep ==
    ASSUME IInv, NEW u \in Uploads, UploadStep(u)
    PROVE  TheMarket!MarketNext \/ Unseen
<1>1. UNCHANGED <<pub, asked, pubTx, pod>>
  BY PublishesAlone DEF publishVars
<1>2. Endorsed' = Endorsed /\ Told' = Told
  BY <1>1, EndorsedSame, ToldSame
<1>3. Keyed' = Keyed
  <2>1. CASE InsertStaging(u)
    <3>1. TypeOK /\ Content[u] \in Contents /\ ~ staging[Content[u]].linked
      BY <2>1, CallsAssumption DEF IInv, KeyFitsBlob, InsertStaging
    <3>2. \A h \in Contents : /\ staging'[h].linked = staging[h].linked
                              /\ staging[h].linked => staging'[h].id = staging[h].id
      BY <2>1, <3>1 DEF InsertStaging, TypeOK, Staging
    <3> QED BY <3>2, KeyedSame
  <2>2. CASE UNCHANGED staging
    BY <2>2 DEF Keyed
  <2> QED BY <2>1, <2>2 DEF UploadStep, StartUpload, StoreBlob, FindExisting, FindNone,
                            CreateStaging, UploadThrows
<1>4. UNCHANGED stored \/ stored' = stored \union {u}
  BY DEF UploadStep, StartUpload, StoreBlob, UploadToWalrus, FindExisting, FindNone,
         CreateStaging, UploadThrows
<1> QED BY <1>1, <1>2, <1>3, <1>4 DEF TheMarket!MarketNext, TheMarket!Keep, Unseen

LEMMA PublishIsMarket ==
    ASSUME IInv, NEW c \in Publishes, PublishStep(c)
    PROVE  TheMarket!MarketNext \/ Unseen
<1>1. PublishInv(c) /\ TypeOK /\ stored' = stored
  BY UploadsAlone DEF IInv, uploadVars
<1>2. CASE StartPublish(c) \/ FindStaging(c) \/ SendPublish(c) \/ ConfirmPublish(c)
           \/ AuditPublish(c)
  <2>1. UNCHANGED <<pod, staging>>
    BY <1>2 DEF StartPublish, FindStaging, SendPublish, ConfirmPublish, AuditPublish
  <2>2. \A d \in Publishes : /\ pubTx'[d] = "ok" <=> pubTx[d] = "ok"
                             /\ pubTx[d] = "ok" => asked'[d] = asked[d]
    BY <1>1, <1>2 DEF StartPublish, FindStaging, SendPublish, ConfirmPublish, AuditPublish,
                      PubGoto, PublishInv, TypeOK
  <2>3. \A d \in Publishes : /\ pub'[d] = "done" <=> pub[d] = "done"
                             /\ pub[d] = "done" => asked'[d] = asked[d]
    BY <1>1, <1>2 DEF StartPublish, FindStaging, SendPublish, ConfirmPublish, AuditPublish,
                      PubGoto, TypeOK
  <2>4. Keyed' = Keyed
    BY <2>1 DEF Keyed
  <2>5. Endorsed' = Endorsed
    BY <2>2, EndorsedSame
  <2>6. Told' = Told
    BY <2>3, ToldSame
  <2> QED BY <1>1, <2>1, <2>4, <2>5, <2>6 DEF Unseen
<1>3. CASE CreatePod(c)
  <2>1. \A d \in Publishes : pub'[d] = "done" <=> pub[d] = "done"
    BY <1>1, <1>3 DEF CreatePod, PubGoto, TypeOK
  <2>2. \E u \in Uploads : TheMarket!Offer(u)
    BY <1>1, <1>3, <2>1, InsertIsOffer DEF CreatePod, PubGoto
  <2> QED BY <2>2 DEF TheMarket!MarketNext
<1>4. CASE LinkStaging(c)
  <2>1. \A d \in Publishes : pub'[d] = "done" <=> pub[d] = "done"
    BY <1>1, <1>4 DEF LinkStaging, PubGoto, TypeOK
  <2>2. \E h \in Contents : TheMarket!Key(h)
    BY <1>1, <1>4, <2>1, LinkIsKey DEF LinkStaging, PubGoto
  <2> QED BY <2>2 DEF TheMarket!MarketNext
<1>5. CASE AnswerPublish(c)
  <2>1. pub[c] = "answer" /\ pub' = [pub EXCEPT ![c] = "done"]
        /\ UNCHANGED <<staging, asked, pubTx, pod>>
    BY <1>5 DEF AnswerPublish, PubGoto
  <2>2. asked[c] \in Uploads /\ Hash(c) \in Contents
    BY <1>1, <2>1, CallsAssumption DEF PublishInv, TypeOK, Hash
  <2>3. Keyed[Content[asked[c]]] = asked[c]
    BY <1>1, <2>1, <2>2 DEF PublishInv, Linked, RowExists, IInv, KeyFitsBlob, Keyed, Hash
  <2>4. Told' = Told \union {asked[c]}
    BY <1>1, <2>1 DEF Told, TypeOK
  <2>5. Endorsed' = Endorsed
    BY <2>1, EndorsedSame
  <2>6. Keyed' = Keyed
    BY <2>1 DEF Keyed
  <2> QED BY <1>1, <2>1, <2>2, <2>3, <2>4, <2>5, <2>6 DEF TheMarket!MarketNext, TheMarket!Tell
<1>6. CASE PublishThrows(c)
  <2>1. pub[c] # "done" /\ pub' = [pub EXCEPT ![c] = "failed"] /\ UNCHANGED <<asked, pubTx>>
    BY <1>6 DEF PublishThrows
  <2>2. \A d \in Publishes : pub'[d] = "done" <=> pub[d] = "done"
    BY <1>1, <2>1 DEF TypeOK
  <2>3. CASE UNCHANGED <<staging, pod>>
    <3>1. Keyed' = Keyed
      BY <2>3 DEF Keyed
    <3>2. Endorsed' = Endorsed
      BY <2>1, EndorsedSame
    <3>3. Told' = Told
      BY <2>1, <2>2, ToldSame
    <3> QED BY <1>1, <2>3, <3>1, <3>2, <3>3 DEF Unseen
  <2>4. CASE pub[c] = "row" /\ InsertPod(c) /\ UNCHANGED staging
    BY <1>1, <2>1, <2>2, <2>4, InsertIsOffer DEF TheMarket!MarketNext
  <2>5. CASE pub[c] = "link" /\ SetLinked(c) /\ UNCHANGED pod
    BY <1>1, <2>1, <2>2, <2>5, LinkIsKey DEF TheMarket!MarketNext
  <2> QED BY <1>6, <2>3, <2>4, <2>5 DEF PublishThrows
<1> QED BY <1>2, <1>3, <1>4, <1>5, <1>6 DEF PublishStep

LEMMA ExecuteIsEndorse ==
    ASSUME IInv, NEW c \in Publishes, ExecutePublish(c)
    PROVE  TheMarket!MarketNext \/ Unseen
<1>1. PublishInv(c) /\ TypeOK
  BY DEF IInv
<1>2. pubTx[c] = "sent" /\ UNCHANGED <<stored, staging, pub, asked, pod>>
  BY DEF ExecutePublish, uploadVars
<1>3. Keyed' = Keyed
  BY <1>2 DEF Keyed
<1>4. Told' = Told
  BY <1>2, ToldSame
<1>5. asked[c] \in Uploads /\ asked[c] \in stored
  BY <1>1, <1>2 DEF PublishInv, TypeOK
<1>6. CASE pubTx' = [pubTx EXCEPT ![c] = "ok"] /\ PublishBy[c] = UploadBy[asked[c]]
  <2>1. Endorsed' = Endorsed \union {asked[c]}
    BY <1>1, <1>2, <1>6 DEF Endorsed, TypeOK
  <2> QED BY <1>2, <1>3, <1>4, <1>5, <2>1 DEF TheMarket!MarketNext, TheMarket!Endorse
<1>7. CASE \/ pubTx' = [pubTx EXCEPT ![c] = "aborted"]
           \/ pubTx' = [pubTx EXCEPT ![c] = "ok"] /\ PublishBy[c] # UploadBy[asked[c]]
  <2>1. Endorsed' = Endorsed
    BY <1>1, <1>2, <1>7 DEF Endorsed, TypeOK
  <2> QED BY <1>2, <1>3, <1>4, <2>1 DEF Unseen
<1> QED BY <1>6, <1>7 DEF ExecutePublish, PublishPTB

LEMMA RestIsUnseen ==
    ASSUME IInv, (\E h \in Contents : GrowOld(h)) \/ CleanUp \/ Crash \/ UNCHANGED vars
    PROVE  Unseen
<1>t. TypeOK
  BY DEF IInv
<1>1. UNCHANGED <<stored, asked, pubTx, pod>>
  BY DEF GrowOld, CleanUp, Crash, vars, uploadVars, publishVars
<1>2. \A d \in Publishes : pub'[d] = "done" <=> pub[d] = "done"
  BY <1>t DEF GrowOld, CleanUp, Crash, vars, publishVars, TypeOK
<1>3. \A h \in Contents : /\ staging'[h].linked = staging[h].linked
                          /\ staging[h].linked => staging'[h].id = staging[h].id
  <2>1. CASE \E h \in Contents : GrowOld(h)
    BY <1>t, <2>1 DEF GrowOld, TypeOK, Staging
  <2>2. CASE CleanUp
    <3>1. \A h \in Contents : Expired(h) => staging[h].linked = FALSE
      BY <1>t DEF IInv, KeyFitsBlob, Expired, TypeOK, Staging
    <3>2. \A h \in Contents : staging'[h] = IF Expired(h) THEN NoStaging ELSE staging[h]
      BY <2>2 DEF CleanUp
    <3>3. NoStaging.linked = FALSE
      BY DEF NoStaging
    <3> QED BY <3>1, <3>2, <3>3
  <2>3. CASE Crash \/ UNCHANGED vars
    BY <2>3 DEF Crash, vars
  <2> QED BY <2>1, <2>2, <2>3
<1>4. Endorsed' = Endorsed
  BY <1>1, EndorsedSame
<1>5. Told' = Told
  BY <1>1, <1>2, ToldSame
<1>6. Keyed' = Keyed
  <2>1. \A h \in Contents : staging[h].linked \in BOOLEAN /\ staging'[h].linked \in BOOLEAN
    BY <1>t, <1>3 DEF TypeOK, Staging
  <2> QED BY <1>3, <2>1, KeyedSame
<1> QED BY <1>1, <1>4, <1>5, <1>6 DEF Unseen

(* uploadData, publishDataPod and the clean-up keep the promise of Market  *)
(* for any number of sellers, files and calls: a file goes on the market   *)
(* once, with a stored blob, its own seller's word and its own key, and    *)
(* nothing that a seller was told is taken back.                           *)
THEOREM ListingKeepsMarket == Spec => MarketSpec
<1>1. Init => TheMarket!MarketInit
  <2> SUFFICES ASSUME Init PROVE TheMarket!MarketInit
    OBVIOUS
  <2>1. Endorsed = {} /\ Told = {}
    BY DEF Init, Endorsed, Told
  <2>2. Keyed = [h \in Contents |-> None]
    BY DEF Init, Keyed, NoStaging
  <2> QED BY <2>1, <2>2 DEF Init, TheMarket!MarketInit
<1>2. IInv /\ [Next]_vars => [TheMarket!MarketNext]_(TheMarket!marketVars)
  <2> SUFFICES ASSUME IInv, [Next]_vars PROVE TheMarket!MarketNext \/ Unseen
    BY DEF Unseen, TheMarket!marketVars
  <2> QED BY UploadIsKeep, PublishIsMarket, ExecuteIsEndorse, RestIsUnseen DEF Next
<1> QED BY <1>1, <1>2, ListingInvariance, PTL DEF Spec, MarketSpec, TheMarket!MarketSpec
=============================================================================
