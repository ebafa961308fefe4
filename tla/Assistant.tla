----------------------------- MODULE Assistant ------------------------------
(***************************************************************************)
(* The assistant: chats and deletions of conversations                     *)
(* (src/services/ai.service.ts), each behind the rate limiters of its      *)
(* route (src/middleware/rateLimiter.middleware.ts).                       *)
(*                                                                         *)
(* A limiter counts requests in Redis under a key made of the client and   *)
(* the path; Path[r] are the keys of request r, in the order of its        *)
(* limiters.  INCR and EXPIRE are two calls, and Redis ends a window only  *)
(* when EXPIRE was applied.  A conversation is named by the chat that      *)
(* created it; an exchange, the two messages one transaction saves, by its *)
(* chat.  Requests interleave at every await.                              *)
(***************************************************************************)
EXTENDS Naturals, Sequences

CONSTANTS
    Chats, Deletes,  \* requests
    Users, By,       \* By[r], whose they are
    Keys, Path,      \* the counters in Redis; Path[r] as above
    Max,             \* Max[k], the requests a window of k admits
    MaxFaults,       \* bound on failed calls and crashes
    None

Requests == Chats \union Deletes

ASSUME AssistantAssumption ==
    /\ Chats \intersect Deletes = {} /\ None \notin Requests
    /\ By \in [Requests -> Users]
    /\ Path \in [Requests -> Seq(Keys)]
    /\ Max \in [Keys -> Nat \ {0}]
    /\ MaxFaults \in Nat

VARIABLES
    count, ttl, \* count[k] in Redis, and whether k expires
    pc,         \* pc[r], where request r is
    stage,      \* stage[r], which of its limiters it is at
    target,     \* target[r], the conversation it is about; None: a new one
    seen,       \* seen[r], the exchanges a chat has shown to the model
    conv,       \* conv[k], the conversation that chat k created
    msgs,       \* msgs[k], its exchanges, oldest first
    unexpired,  \* keys whose EXPIRE was never applied: a call or process failed
    faults

redis == <<count, ttl, unexpired>>
talk == <<target, seen, conv, msgs>>
vars == <<redis, pc, stage, talk, faults>>

TypeOK ==
    /\ count \in [Keys -> Nat] /\ ttl \in [Keys -> BOOLEAN]
    /\ pc \in [Requests -> {"idle", "incr", "expire", "open", "ask", "save", "delete",
                            "done", "refused", "failed"}]
    /\ stage \in [Requests -> Nat]
    /\ \A r \in Requests : pc[r] \in {"incr", "expire"} => stage[r] \in 1 .. Len(Path[r])
    /\ target \in [Requests -> Chats \union {None}]
    /\ seen \in [Chats -> Seq(Chats)]
    /\ conv \in [Chats -> {"none", "live", "deleted"}]
    /\ msgs \in [Chats -> Seq(Chats)]
    /\ unexpired \subseteq Keys
    /\ faults \in 0 .. MaxFaults

Init ==
    /\ count = [k \in Keys |-> 0] /\ ttl = [k \in Keys |-> FALSE]
    /\ pc = [r \in Requests |-> "idle"] /\ stage = [r \in Requests |-> 0]
    /\ target = [r \in Requests |-> None]
    /\ seen = [r \in Chats |-> <<>>]
    /\ conv = [k \in Chats |-> "none"] /\ msgs = [k \in Chats |-> <<>>]
    /\ unexpired = {} /\ faults = 0

Goto(r, l) == pc' = [pc EXCEPT ![r] = l]

-----------------------------------------------------------------------------
(* The limiters.                                                           *)

Key(r) == Path[r][stage[r]]

\* Mutant of Proceed: one limiter too many.
ProceedPast(r) ==
    IF stage[r] <= Len(Path[r])
    THEN stage' = [stage EXCEPT ![r] = @ + 1] /\ Goto(r, "incr")
    ELSE Goto(r, "open") /\ UNCHANGED stage

(* On to the next limiter, or to the service.                              *)
Proceed(r) ==
    IF stage[r] < Len(Path[r])
    THEN stage' = [stage EXCEPT ![r] = @ + 1] /\ Goto(r, "incr")
    ELSE Goto(r, "open") /\ UNCHANGED stage

(* The request was the n-th of its window.                                 *)
Decide(r, n) ==
    IF n > Max[Key(r)] THEN Goto(r, "refused") /\ UNCHANGED stage ELSE Proceed(r)

(* A request arrives; it names a conversation that exists or existed, or,  *)
(* a chat, none.                                                           *)
Arrive(r) ==
    /\ pc[r] = "idle"
    /\ \E k \in {k \in Chats : conv[k] # "none"} \union (IF r \in Chats THEN {None} ELSE {}) :
          target' = [target EXCEPT ![r] = k]
    /\ stage' = [stage EXCEPT ![r] = 1]
    /\ Goto(r, IF Path[r] = <<>> THEN "open" ELSE "incr")
    /\ UNCHANGED <<redis, seen, conv, msgs, faults>>

\* Mutant of Incr: the new count is compared with nought.
IncrNeverFirst(r) ==
    /\ pc[r] = "incr"
    /\ count' = [count EXCEPT ![Key(r)] = @ + 1]
    /\ IF count'[Key(r)] = 0
       THEN Goto(r, "expire") /\ UNCHANGED stage
       ELSE Decide(r, count[Key(r)] + 1)
    /\ UNCHANGED <<ttl, unexpired, talk, faults>>

Incr(r) ==
    /\ pc[r] = "incr"
    /\ count' = [count EXCEPT ![Key(r)] = @ + 1]
    /\ IF count[Key(r)] = 0
       THEN Goto(r, "expire") /\ UNCHANGED stage
       ELSE Decide(r, count[Key(r)] + 1)
    /\ UNCHANGED <<ttl, unexpired, talk, faults>>

\* Mutant of Expire: it names a key that does not exist.
ExpireOther(r) ==
    /\ pc[r] = "expire"
    /\ Decide(r, 1)
    /\ UNCHANGED <<redis, talk, faults>>

Expire(r) ==
    /\ pc[r] = "expire"
    /\ ttl' = [ttl EXCEPT ![Key(r)] = TRUE]
    /\ Decide(r, 1)
    /\ UNCHANGED <<count, unexpired, talk, faults>>

(* Redis fails in one of the two calls, which may have been applied: the   *)
(* limiter lets the request pass.                                          *)
RedisFails(r) ==
    /\ faults < MaxFaults
    /\ \/ pc[r] = "incr" /\ UNCHANGED redis
       \/ /\ pc[r] = "incr"
          /\ count' = [count EXCEPT ![Key(r)] = @ + 1]
          /\ unexpired' = IF count[Key(r)] = 0 THEN unexpired \union {Key(r)} ELSE unexpired
          /\ UNCHANGED ttl
       \/ pc[r] = "expire" /\ unexpired' = unexpired \union {Key(r)} /\ UNCHANGED <<count, ttl>>
       \/ pc[r] = "expire" /\ ttl' = [ttl EXCEPT ![Key(r)] = TRUE]
                           /\ UNCHANGED <<count, unexpired>>
    /\ faults' = faults + 1
    /\ Proceed(r)
    /\ UNCHANGED talk

(* Redis drops a key at the end of its window.                             *)
WindowEnds(k) ==
    /\ ttl[k]
    /\ count' = [count EXCEPT ![k] = 0]
    /\ ttl' = [ttl EXCEPT ![k] = FALSE]
    /\ UNCHANGED <<unexpired, pc, stage, talk, faults>>

-----------------------------------------------------------------------------
(* chat() and deleteConversation().                                        *)

\* Mutant of Mine: it finds the conversation of whoever asks.
FoundByAnyone(r, k) == conv[k] = "live"

Mine(r, k) == conv[k] = "live" /\ By[k] = By[r]

NewConversation(r) ==
    /\ pc[r] = "open" /\ r \in Chats /\ target[r] = None
    /\ conv' = [conv EXCEPT ![r] = "live"]
    /\ target' = [target EXCEPT ![r] = r]
    /\ Goto(r, "ask")
    /\ UNCHANGED <<redis, stage, seen, msgs, faults>>

OpenConversation(r) ==
    /\ pc[r] = "open" /\ r \in Chats /\ target[r] # None
    /\ Mine(r, target[r])
    /\ seen' = [seen EXCEPT ![r] = msgs[target[r]]]
    /\ Goto(r, "ask")
    /\ UNCHANGED <<redis, stage, target, conv, msgs, faults>>

FindToDelete(r) ==
    /\ pc[r] = "open" /\ r \in Deletes
    /\ Mine(r, target[r])
    /\ Goto(r, "delete")
    /\ UNCHANGED <<redis, stage, talk, faults>>

NotFound(r) ==
    /\ pc[r] = "open" /\ target[r] # None
    /\ ~Mine(r, target[r])
    /\ Goto(r, "failed")
    /\ UNCHANGED <<redis, stage, talk, faults>>

ModelAnswers(r) ==
    /\ pc[r] = "ask"
    /\ Goto(r, "save")
    /\ UNCHANGED <<redis, stage, talk, faults>>

\* Mutant of InsertExchange: without the foreign key.
InsertAnyway(r) ==
    msgs' = [msgs EXCEPT ![target[r]] = Append(@, r)]

(* The two messages and updatedAt, in one transaction.  It fails when the  *)
(* conversation has gone.  The log is in the order of the commits; createdAt *)
(* by which it is read may tell another of two that are saved at one time. *)
InsertExchange(r) ==
    /\ conv[target[r]] = "live"
    /\ msgs' = [msgs EXCEPT ![target[r]] = Append(@, r)]

Save(r) ==
    /\ pc[r] = "save"
    /\ InsertExchange(r)
    /\ Goto(r, "done")
    /\ UNCHANGED <<redis, stage, target, seen, conv, faults>>

(* The messages go with their conversation (onDelete: Cascade).            *)
RemoveConversation(k) ==
    /\ conv[k] = "live"
    /\ conv' = [conv EXCEPT ![k] = "deleted"]
    /\ msgs' = [msgs EXCEPT ![k] = <<>>]

Delete(r) ==
    /\ pc[r] = "delete"
    /\ RemoveConversation(target[r])
    /\ Goto(r, "done")
    /\ UNCHANGED <<redis, stage, target, seen, faults>>

(* Foreign key or missing row: the write throws.                           *)
GoneMeanwhile(r) ==
    /\ pc[r] \in {"save", "delete"}
    /\ conv[target[r]] # "live"
    /\ Goto(r, "failed")
    /\ UNCHANGED <<redis, stage, talk, faults>>

(* A call throws: a write may have been applied.                           *)
CallFails(r) ==
    /\ pc[r] \in {"open", "ask", "save", "delete"} /\ faults < MaxFaults
    /\ faults' = faults + 1
    /\ Goto(r, "failed")
    /\ \/ UNCHANGED <<conv, msgs>>
       \/ /\ pc[r] = "open" /\ r \in Chats /\ target[r] = None
          /\ conv' = [conv EXCEPT ![r] = "live"]
          /\ UNCHANGED msgs
       \/ pc[r] = "save" /\ InsertExchange(r) /\ UNCHANGED conv
       \/ pc[r] = "delete" /\ RemoveConversation(target[r])
    /\ UNCHANGED <<redis, stage, target, seen>>

(* The process dies with its requests.                                     *)
Crash ==
    /\ faults < MaxFaults
    /\ faults' = faults + 1
    /\ unexpired' = unexpired \union {Key(r) : r \in {r \in Requests : pc[r] = "expire"}}
    /\ pc' = [r \in Requests |->
                IF pc[r] \in {"idle", "done", "refused"} THEN pc[r] ELSE "failed"]
    /\ UNCHANGED <<count, ttl, stage, talk>>

-----------------------------------------------------------------------------
Limit(r) == Incr(r) \/ Expire(r) \/ RedisFails(r)

Work(r) ==
    \/ NewConversation(r) \/ OpenConversation(r) \/ FindToDelete(r) \/ NotFound(r)
    \/ ModelAnswers(r) \/ Save(r) \/ Delete(r) \/ GoneMeanwhile(r) \/ CallFails(r)

Next ==
    \/ \E r \in Requests : Arrive(r) \/ Limit(r) \/ Work(r)
    \/ \E k \in Keys : WindowEnds(k)
    \/ Crash

Spec == Init /\ [][Next]_vars

(* Calls are answered or fail, and Redis keeps its clock.                  *)
FairSpec ==
    /\ Spec
    /\ \A r \in Requests : WF_vars(Limit(r) \/ Work(r))
    /\ \A k \in Keys : WF_vars(WindowEnds(k))

-----------------------------------------------------------------------------
(* Properties.                                                             *)

(* A counter that will never expire is one whose EXPIRE is still to come,  *)
(* or was lost with a failed call or a process: no interleaving of requests *)
(* and windows makes another.                                              *)
CountersExpire ==
    \A k \in Keys :
        count[k] > 0 /\ ~ttl[k] =>
            k \in unexpired \/ \E r \in Requests : pc[r] = "expire" /\ Key(r) = k

(* A client that was counted is counted from nought again, and so a client *)
(* over the limit is served again - unless the EXPIRE was lost.            *)
LockoutEnds ==
    \A k \in Keys : (count[k] > 0) ~> (count[k] = 0 \/ k \in unexpired)

(* What was answered is on record: the exchange of a chat that succeeded is *)
(* in its conversation, once, unless that was deleted; the model was shown *)
(* the exchanges that precede it from the first on, and a deleted          *)
(* conversation keeps nothing, whatever was in flight when it went.        *)
Prefix(s, t) == Len(s) <= Len(t) /\ \A i \in 1 .. Len(s) : s[i] = t[i]
ExchangesOnRecord ==
    /\ \A r \in Chats :
          pc[r] = "done" /\ conv[target[r]] = "live" =>
              \E i \in 1 .. Len(msgs[target[r]]) : msgs[target[r]][i] = r
    /\ \A k \in Chats :
          /\ conv[k] # "live" => msgs[k] = <<>>
          /\ \A i, j \in 1 .. Len(msgs[k]) :
                /\ i # j => msgs[k][i] # msgs[k][j]
                /\ By[msgs[k][i]] = By[k]
                /\ Len(seen[msgs[k][i]]) < i /\ Prefix(seen[msgs[k][i]], msgs[k])

(* Each step is one of the abstract dialogue, or none of its steps: only   *)
(* the user of a conversation adds to it or deletes it, whatever became of *)
(* it since it was looked up; what is added goes on from what the model was  *)
(* shown; and a request that failed, with its call applied or not, does not  *)
(* add a second time.                                                      *)
Closed == {r \in Requests : pc[r] \in {"done", "refused", "failed"}}
Answered == {r \in Chats : pc[r] = "done"}
TheDialogue == INSTANCE Dialogue WITH
    Owner <- By, state <- conv, log <- msgs, shown <- seen, closed <- Closed, answered <- Answered
DialogueSpec == TheDialogue!DialogueSpec
=============================================================================
