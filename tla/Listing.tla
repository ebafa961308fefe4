------------------------------ MODULE Listing -------------------------------
(***************************************************************************)
(* How a file becomes a datapod on the market: uploadData and              *)
(* publishDataPod of src/controllers/seller.controller.ts, with the        *)
(* clean-up of staged uploads (src/jobs/cleanup.job.ts) beside them.       *)
(*                                                                         *)
(* An upload u is one call of uploadData and names the encryption key, the *)
(* Walrus blob and the UploadStaging row it makes; the row's id is the     *)
(* upload_id its answer carries.  A publish c is one call of               *)
(* publishDataPod.  The data hash is unique in both tables, so a table     *)
(* holds at most one row for each content.  Calls interleave at every      *)
(* await that reads or writes something another call can change; what is   *)
(* read of immutable data (the user, the staged metadata) is part of the   *)
(* step before it.  The chain executes a publish transaction at any time   *)
(* after it was sent, or never.                                            *)
(***************************************************************************)
CONSTANTS
    Contents,   \* data hashes
    Sellers,    \* users
    Uploads,    \* calls of uploadData ...
    UploadBy,   \* ... by UploadBy[u] ...
    Content,    \* ... of a file whose hash is Content[u]
    Publishes,  \* calls of publishDataPod ...
    PublishBy,  \* ... by PublishBy[c]
    None

ASSUME CallsAssumption ==
    /\ UploadBy \in [Uploads -> Sellers]
    /\ Content \in [Uploads -> Contents]
    /\ PublishBy \in [Publishes -> Sellers]
    /\ None \notin Uploads

VARIABLES
    up,       \* up[u], how far the upload has come
    answer,   \* answer[u], the upload_id it was answered
    stored,   \* the blobs Walrus holds
    staging,  \* staging[h], the UploadStaging row with dataHash h
    pub,      \* pub[c], how far the publish has come
    asked,    \* asked[c], the upload_id in its request
    pubTx,    \* pubTx[c], its transaction on the chain
    pod,      \* pod[h], the upload that the DataPod row with dataHash h is made of
    audited   \* publishes with a TransactionAudit row

uploadVars == <<up, answer, stored>>
publishVars == <<pub, asked, pubTx, audited>>
vars == <<uploadVars, staging, publishVars, pod>>

UpState  == {"idle", "store", "lookup", "create", "done", "failed"}
PubState == {"idle", "lookup", "send", "await", "row", "link", "audit", "answer",
             "done", "failed"}

(* old says that the row was created more than 24 hours ago; linked that   *)
(* its datapodId names the DataPod row with the same content.              *)
Staging == [id : Uploads \union {None}, status : {"none", "pending", "published"},
            old : BOOLEAN, linked : BOOLEAN]
NoStaging == [id |-> None, status |-> "none", old |-> FALSE, linked |-> FALSE]

TypeOK ==
    /\ up \in [Uploads -> UpState]
    /\ answer \in [Uploads -> Uploads \union {None}]
    /\ stored \subseteq Uploads
    /\ staging \in [Contents -> Staging]
    /\ pub \in [Publishes -> PubState]
    /\ asked \in [Publishes -> Uploads \union {None}]
    /\ pubTx \in [Publishes -> {"none", "sent", "ok", "aborted"}]
    /\ pod \in [Contents -> Uploads \union {None}]
    /\ audited \subseteq Publishes

Init ==
    /\ up = [u \in Uploads |-> "idle"]
    /\ answer = [u \in Uploads |-> None]
    /\ stored = {}
    /\ staging = [h \in Contents |-> NoStaging]
    /\ pub = [c \in Publishes |-> "idle"]
    /\ asked = [c \in Publishes |-> None]
    /\ pubTx = [c \in Publishes |-> "none"]
    /\ pod = [h \in Contents |-> None]
    /\ audited = {}

-----------------------------------------------------------------------------
(* uploadData.                                                             *)

UpGoto(u, from, to) ==
    /\ up[u] = from
    /\ up' = [up EXCEPT ![u] = to]

(* The file is hashed and encrypted under a new key.                       *)
StartUpload(u) ==
    /\ UpGoto(u, "idle", "store")
    /\ UNCHANGED <<answer, stored, staging, publishVars, pod>>

(* uploadToWalrus, at one of two publishers.  A blob is paid for 5 epochs; *)
(* what is said here of stored blobs is said of that time.                 *)
UploadToWalrus(u) == stored' = stored \union {u}

StoreBlob(u) ==
    /\ UpGoto(u, "store", "lookup")
    /\ UploadToWalrus(u)
    /\ UNCHANGED <<answer, staging, publishVars, pod>>

(* A pending row with the same content answers the call, whoever made it.  *)
FindExisting(u) ==
    /\ UpGoto(u, "lookup", "done")
    /\ staging[Content[u]].status = "pending"
    /\ answer' = [answer EXCEPT ![u] = staging[Content[u]].id]
    /\ UNCHANGED <<stored, staging, publishVars, pod>>

FindNone(u) ==
    /\ UpGoto(u, "lookup", "create")
    /\ staging[Content[u]].status = "none"
    /\ UNCHANGED <<answer, stored, staging, publishVars, pod>>

\* Mutant of InsertStaging: the status is the file's, not the row's.
InsertStored(u) ==
    /\ staging[Content[u]].status = "none"
    /\ staging' = [staging EXCEPT ![Content[u]] =
                     [id |-> u, status |-> "stored", old |-> FALSE, linked |-> FALSE]]

(* uploadStaging.create, which the unique data hash guards.                *)
InsertStaging(u) ==
    /\ staging[Content[u]].status = "none"
    /\ staging' = [staging EXCEPT ![Content[u]] =
                     [id |-> u, status |-> "pending", old |-> FALSE, linked |-> FALSE]]

CreateStaging(u) ==
    /\ UpGoto(u, "create", "done")
    /\ InsertStaging(u)
    /\ answer' = [answer EXCEPT ![u] = u]
    /\ UNCHANGED <<stored, publishVars, pod>>

(* A step throws - the content is published already, the unique key is     *)
(* taken, Walrus or the database is gone; a write may have been applied.   *)
UploadThrows(u) ==
    /\ up[u] \in {"store", "lookup", "create"}
    /\ up' = [up EXCEPT ![u] = "failed"]
    /\ \/ UNCHANGED <<stored, staging>>
       \/ up[u] = "store" /\ UploadToWalrus(u) /\ UNCHANGED staging
       \/ up[u] = "create" /\ InsertStaging(u) /\ UNCHANGED stored
    /\ UNCHANGED <<answer, publishVars, pod>>

-----------------------------------------------------------------------------
(* publishDataPod.                                                         *)

PubGoto(c, from, to) ==
    /\ pub[c] = from
    /\ pub' = [pub EXCEPT ![c] = to]

StartPublish(c) ==
    /\ PubGoto(c, "idle", "lookup")
    /\ \E u \in Uploads :
          /\ answer[u] # None
          /\ asked' = [asked EXCEPT ![c] = answer[u]]
    /\ UNCHANGED <<uploadVars, staging, pubTx, audited, pod>>

(* Publish c works on the staging row its request names, ...               *)
Hash(c) == Content[asked[c]]
RowExists(c) == staging[Hash(c)].id = asked[c]

(* ... which must be pending and the caller's own.                         *)
FindStaging(c) ==
    /\ PubGoto(c, "lookup", "send")
    /\ RowExists(c)
    /\ staging[Hash(c)].status = "pending"
    /\ UploadBy[asked[c]] = PublishBy[c]
    /\ UNCHANGED <<uploadVars, staging, asked, pubTx, audited, pod>>

SendPublish(c) ==
    /\ PubGoto(c, "send", "await")
    /\ pubTx' = [pubTx EXCEPT ![c] = "sent"]
    /\ UNCHANGED <<uploadVars, staging, asked, audited, pod>>

(* create_datapod takes effect, or the transaction aborts.                 *)
(* One call, create_datapod.                                               *)
PublishPTB(c) == \E outcome \in {"ok", "aborted"} : pubTx' = [pubTx EXCEPT ![c] = outcome]

ExecutePublish(c) ==
    /\ pubTx[c] = "sent"
    /\ PublishPTB(c)
    /\ UNCHANGED <<uploadVars, staging, pub, asked, audited, pod>>

\* Mutant: the outcome of the transaction is not looked at.
ConfirmUnseen(c) ==
    /\ PubGoto(c, "await", "row")
    /\ UNCHANGED <<uploadVars, staging, asked, pubTx, audited, pod>>

ConfirmPublish(c) ==
    /\ PubGoto(c, "await", "row")
    /\ pubTx[c] = "ok"
    /\ UNCHANGED <<uploadVars, staging, asked, pubTx, audited, pod>>

\* Mutant of InsertPod: an upsert.
UpsertPod(c) == pod' = [pod EXCEPT ![Hash(c)] = asked[c]]

(* dataPod.create: its datapodId is derived from the data hash, and both   *)
(* are unique.                                                             *)
InsertPod(c) ==
    /\ pod[Hash(c)] = None
    /\ pod' = [pod EXCEPT ![Hash(c)] = asked[c]]

CreatePod(c) ==
    /\ PubGoto(c, "row", "link")
    /\ InsertPod(c)
    /\ UNCHANGED <<uploadVars, staging, asked, pubTx, audited>>

\* Mutant of SetLinked: the row is looked up by its data hash.
LinkByHash(c) ==
    /\ staging[Hash(c)].status # "none"
    /\ staging' = [staging EXCEPT ![Hash(c)] =
                     [@ EXCEPT !.status = "published", !.linked = TRUE]]

(* uploadStaging.update throws when the row is gone.                       *)
SetLinked(c) ==
    /\ RowExists(c)
    /\ staging' = [staging EXCEPT ![Hash(c)] =
                     [@ EXCEPT !.status = "published", !.linked = TRUE]]

LinkStaging(c) ==
    /\ PubGoto(c, "link", "audit")
    /\ SetLinked(c)
    /\ UNCHANGED <<uploadVars, asked, pubTx, audited, pod>>

AuditPublish(c) ==
    /\ PubGoto(c, "audit", "answer")
    /\ audited' = audited \union {c}
    /\ UNCHANGED <<uploadVars, staging, asked, pubTx, pod>>

(* The market's cache is invalidated and the event broadcast, neither of   *)
(* which can fail the call, and the seller gets the answer.                *)
AnswerPublish(c) ==
    /\ PubGoto(c, "answer", "done")
    /\ UNCHANGED <<uploadVars, staging, asked, pubTx, audited, pod>>

PublishThrows(c) ==
    /\ pub[c] \in {"lookup", "send", "await", "row", "link", "audit"}
    /\ pub' = [pub EXCEPT ![c] = "failed"]
    /\ \/ UNCHANGED <<staging, audited, pod>>
       \/ pub[c] = "row" /\ InsertPod(c) /\ UNCHANGED <<staging, audited>>
       \/ pub[c] = "link" /\ SetLinked(c) /\ UNCHANGED <<audited, pod>>
       \/ pub[c] = "audit" /\ audited' = audited \union {c} /\ UNCHANGED <<staging, pod>>
    /\ UNCHANGED <<uploadVars, asked, pubTx>>

-----------------------------------------------------------------------------
(* Time passes, the daily job runs, the process dies.                      *)

GrowOld(h) ==
    /\ staging[h].status # "none"
    /\ ~ staging[h].old
    /\ staging' = [staging EXCEPT ![h].old = TRUE]
    /\ UNCHANGED <<uploadVars, publishVars, pod>>

\* Mutant of Expired: the status is not part of the filter.
ExpiredWhatever(h) == staging[h].old

(* cleanupExpiredUploads: pending, and created more than 24 hours ago.     *)
Expired(h) == staging[h].status = "pending" /\ staging[h].old

CleanUp ==
    /\ staging' = [h \in Contents |-> IF Expired(h) THEN NoStaging ELSE staging[h]]
    /\ UNCHANGED <<uploadVars, publishVars, pod>>

Crash ==
    /\ up' = [u \in Uploads |->
                IF up[u] \in {"idle", "done"} THEN up[u] ELSE "failed"]
    /\ pub' = [c \in Publishes |->
                 IF pub[c] \in {"idle", "done"} THEN pub[c] ELSE "failed"]
    /\ UNCHANGED <<answer, stored, staging, asked, pubTx, audited, pod>>

UploadStep(u) ==
    \/ StartUpload(u) \/ StoreBlob(u) \/ FindExisting(u) \/ FindNone(u)
    \/ CreateStaging(u) \/ UploadThrows(u)

PublishStep(c) ==
    \/ StartPublish(c) \/ FindStaging(c) \/ SendPublish(c) \/ ConfirmPublish(c)
    \/ CreatePod(c) \/ LinkStaging(c) \/ AuditPublish(c) \/ AnswerPublish(c)
    \/ PublishThrows(c)

Next ==
    \/ \E u \in Uploads : UploadStep(u)
    \/ \E c \in Publishes : PublishStep(c) \/ ExecutePublish(c)
    \/ \E h \in Contents : GrowOld(h)
    \/ CleanUp
    \/ Crash

Spec == Init /\ [][Next]_vars

-----------------------------------------------------------------------------
(* What is on the market is backed: the DataPod row of a content was made  *)
(* of an upload of that very content, whose blob Walrus holds, by a publish *)
(* of the upload's own seller whose transaction the chain has executed.    *)
(* (Late transactions, crashes and re-uploads of the same content.)        *)
ListedIsBacked ==
    \A h \in Contents :
        pod[h] # None =>
            /\ pod[h] \in stored
            /\ Content[pod[h]] = h
            /\ \E c \in Publishes :
                  /\ asked[c] = pod[h]
                  /\ PublishBy[c] = UploadBy[pod[h]]
                  /\ pubTx[c] = "ok"

(* A staging row that is marked published holds the key of the blob that   *)
(* the datapod of its content names: never that of another upload of the   *)
(* same content, made after the first one's row was cleaned up.  (The      *)
(* fulfillment worker decrypts the datapod's blob with that row's key.)    *)
KeyFitsBlob ==
    \A h \in Contents :
        /\ staging[h].status = "published" => pod[h] = staging[h].id
        /\ staging[h].linked <=> staging[h].status = "published"

(* A seller who was told that a datapod is published can sell it for ever: *)
(* it is on the market with this upload's blob, its key is reachable from  *)
(* the datapod, the audit row exists; and no other publish of the same     *)
(* content was told so.  (Double submissions, two sellers with the same    *)
(* file, the daily clean-up.)                                              *)
SuccessIsSellable ==
    \A c \in Publishes :
        pub[c] = "done" =>
            /\ pod[Hash(c)] = asked[c]
            /\ RowExists(c)
            /\ staging[Hash(c)].linked
            /\ c \in audited
            /\ \A d \in Publishes :
                  pub[d] = "done" /\ Hash(d) = Hash(c) => d = c

(* A datapod is made once for each content and never made over: neither its *)
(* blob nor its seller changes under the buyers.                           *)
ListingIsStable ==
    [][\A h \in Contents : pod[h] # None => pod'[h] = pod[h]]_vars

(* The uploads that a publish by their own seller has put on the chain, the *)
(* keys that can be reached from a datapod, and the uploads that a publish *)
(* was answered for.                                                       *)
Endorsed == {asked[c] : c \in {d \in Publishes :
                                  pubTx[d] = "ok" /\ PublishBy[d] = UploadBy[asked[d]]}}
Keyed == [h \in Contents |-> IF staging[h].linked THEN staging[h].id ELSE None]
Told == {asked[c] : c \in {d \in Publishes : pub[d] = "done"}}

TheMarket == INSTANCE Market
             WITH kept <- stored, endorsed <- Endorsed, offered <- pod,
                  keyed <- Keyed, told <- Told

(* Whatever uploads, publishes, late transactions, clean-ups and crashes   *)
(* come between, each step is one of Market's or changes nothing there: a  *)
(* file goes on the market once, backed, with its own key, and nothing that *)
(* a seller was told is taken back.                                        *)
MarketSpec == TheMarket!MarketSpec

-----------------------------------------------------------------------------
(* Why the invariants above hold.                                          *)

UploadInv(u) ==
    /\ up[u] \in {"lookup", "create"} => u \in stored
    /\ answer[u] # None => answer[u] \in stored

StagingInv(h) ==
    /\ staging[h].status = "none" <=> staging[h].id = None
    /\ staging[h].id # None => staging[h].id \in stored /\ Content[staging[h].id] = h

Created == {"link", "audit", "answer", "done"}
Linked  == {"audit", "answer", "done"}

PublishInv(c) ==
    /\ pub[c] # "idle" => asked[c] \in stored
    /\ pub[c] \in {"idle", "lookup", "send"} => pubTx[c] = "none"
    /\ pub[c] \in {"send", "await", "row"} \union Created =>
          UploadBy[asked[c]] = PublishBy[c]
    /\ pub[c] \in {"row"} \union Created => pubTx[c] = "ok"
    /\ pub[c] \in Created => pod[Hash(c)] = asked[c]
    /\ pub[c] \in Linked => RowExists(c) /\ staging[Hash(c)].status = "published"
    /\ pub[c] \in {"answer", "done"} => c \in audited

OnePublish ==
    \A c, d \in Publishes :
        pub[c] \in Created /\ pub[d] \in Created /\ Hash(d) = Hash(c) => d = c

(* The conjunction is inductive.  It ties how far a publish has come to the *)
(* rows it has written, and both to the upload it was asked to publish.    *)
IInv ==
    /\ TypeOK
    /\ \A u \in Uploads : UploadInv(u)
    /\ \A h \in Contents : StagingInv(h)
    /\ \A c \in Publishes : PublishInv(c)
    /\ OnePublish
    /\ ListedIsBacked
    /\ KeyFitsBlob

-----------------------------------------------------------------------------
(* "Store key for fulfillment job"                                         *)
(* (src/controllers/seller.controller.ts:143): whenever no publish is about *)
(* to link it, a datapod on the market has the staging row that holds its  *)
(* key, without which every purchase of it fails after it was paid.        *)
KeyKeptForFulfillment ==
    \A h \in Contents :
        (pod[h] # None /\ \A c \in Publishes : pub[c] = "link" => Hash(c) # h) =>
            /\ staging[h].id = pod[h]
            /\ staging[h].linked
=============================================================================
