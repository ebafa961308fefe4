-------------------------- MODULE AssistantProofs ---------------------------
(***************************************************************************)
(* Counters that never expire have a failure behind them, and exchanges    *)
(* that were answered are on record, for any number of requests, users,    *)
(* counters and faults.                                                    *)
(*                                                                         *)
(* CountersExpire is inductive beside the types.  For ExchangesOnRecord one *)
(* has to know what requests in flight hold: a conversation they may use   *)
(* (TargetsInv), a prefix of its exchanges (ChatsInv), and no place in it  *)
(* yet (RecordInv).                                                        *)
(***************************************************************************)
EXTENDS Assistant, SequenceTheorems, TLAPS

Before == {"idle", "incr", "expire", "open"}

TargetsInv ==
    \A r \in Requests :
        /\ target[r] # None => conv[target[r]] # "none"
        /\ r \in Deletes /\ pc[r] # "idle" => target[r] # None
        /\ r \in Chats /\ pc[r] \in {"ask", "save", "done"} =>
              target[r] # None /\ By[target[r]] = By[r]
        /\ pc[r] \in {"ask", "save"} => r \in Chats
        /\ pc[r] = "delete" => r \in Deletes

ChatsInv ==
    \A r \in Chats :
        /\ pc[r] \in Before => conv[r] = "none" /\ seen[r] = <<>>
        /\ pc[r] \in {"ask", "save"} /\ conv[target[r]] = "live" =>
              Prefix(seen[r], msgs[target[r]])
        /\ pc[r] = "done" /\ conv[target[r]] = "live" =>
              \E i \in 1 .. Len(msgs[target[r]]) : msgs[target[r]][i] = r

(* Exchange i of conversation k.                                           *)
OnRecord(k, i) ==
    /\ pc[msgs[k][i]] \in {"done", "failed"}
    /\ target[msgs[k][i]] = k /\ By[msgs[k][i]] = By[k]
    /\ Len(seen[msgs[k][i]]) < i /\ Prefix(seen[msgs[k][i]], msgs[k])

RecordInv ==
    \A k \in Chats :
        /\ conv[k] # "live" => msgs[k] = <<>>
        /\ \A i \in 1 .. Len(msgs[k]) : OnRecord(k, i)
        /\ \A i, j \in 1 .. Len(msgs[k]) : i # j => msgs[k][i] # msgs[k][j]

TalkInv == TargetsInv /\ ChatsInv /\ RecordInv

AssistantInv == TypeOK /\ CountersExpire /\ TalkInv

-----------------------------------------------------------------------------
(* Types.                                                                  *)
Pcs == {"idle", "incr", "expire", "open", "ask", "save", "delete", "done", "refused", "failed"}

StageOK ==
    /\ pc \in [Requests -> Pcs] /\ stage \in [Requests -> Nat]
    /\ \A r \in Requests : pc[r] \in {"incr", "expire"} => stage[r] \in 1 .. Len(Path[r])

TalkOK ==
    /\ target \in [Requests -> Chats \union {None}] /\ seen \in [Chats -> Seq(Chats)]
    /\ conv \in [Chats -> {"none", "live", "deleted"}] /\ msgs \in [Chats -> Seq(Chats)]

RedisOK ==
    /\ count \in [Keys -> Nat] /\ ttl \in [Keys -> BOOLEAN] /\ unexpired \subseteq Keys

LEMMA TypesApart ==
    TypeOK <=> StageOK /\ TalkOK /\ RedisOK /\ faults \in 0 .. MaxFaults
BY DEF TypeOK, StageOK, TalkOK, RedisOK, Pcs

LEMMA TypesTogether ==
    ASSUME StageOK', TalkOK', RedisOK', faults' \in 0 .. MaxFaults
    PROVE  TypeOK'
BY DEF TypeOK, StageOK, TalkOK, RedisOK, Pcs

LEMMA PathLength ==
    ASSUME NEW r \in Requests
    PROVE  /\ Len(Path[r]) \in Nat /\ (Path[r] # <<>> => Len(Path[r]) # 0)
           /\ \A i \in 1 .. Len(Path[r]) : Path[r][i] \in Keys
BY AssistantAssumption, LenProperties, EmptySeq, ElementOfSeq

LEMMA KeyIsKey ==
    ASSUME StageOK, NEW r \in Requests, pc[r] \in {"incr", "expire"}
    PROVE  Key(r) \in Keys
BY PathLength DEF StageOK, Key

(* A step on: the request moves within the limiters or out of them.        *)
LEMMA GotoStage ==
    ASSUME StageOK, NEW r \in Requests, NEW l \in Pcs, l \notin {"incr", "expire"},
           Goto(r, l), UNCHANGED stage
    PROVE  StageOK'
BY DEF StageOK, Goto

LEMMA ProceedStage ==
    ASSUME StageOK, NEW r \in Requests, pc[r] \in {"incr", "expire"}, Proceed(r)
    PROVE  /\ StageOK'
           /\ \E l \in {"incr", "open"} : pc' = [pc EXCEPT ![r] = l]
           /\ \A q \in Requests : q # r => stage'[q] = stage[q]
<1>1. Len(Path[r]) \in Nat /\ stage[r] \in 1 .. Len(Path[r])
  BY PathLength DEF StageOK
<1>2. CASE stage[r] < Len(Path[r])
  <2>1. stage' = [stage EXCEPT ![r] = stage[r] + 1] /\ pc' = [pc EXCEPT ![r] = "incr"]
    BY <1>2 DEF Proceed, Goto
  <2>2. stage[r] + 1 \in 1 .. Len(Path[r])
    BY <1>1, <1>2
  <2> QED
    BY <2>1, <2>2 DEF StageOK, Pcs
<1>3. CASE ~(stage[r] < Len(Path[r]))
  BY <1>3 DEF Proceed, Goto, StageOK, Pcs
<1> QED
  BY <1>2, <1>3

LEMMA DecideStage ==
    ASSUME StageOK, NEW r \in Requests, pc[r] \in {"incr", "expire"}, NEW n, Decide(r, n)
    PROVE  /\ StageOK'
           /\ \E l \in {"incr", "open", "refused"} : pc' = [pc EXCEPT ![r] = l]
           /\ \A q \in Requests : q # r => stage'[q] = stage[q]
<1>1. CASE n > Max[Key(r)]
  BY <1>1 DEF Decide, Goto, StageOK, Pcs
<1>2. CASE ~(n > Max[Key(r)])
  BY <1>2, ProceedStage DEF Decide
<1> QED
  BY <1>1, <1>2

-----------------------------------------------------------------------------
(* The limiters.  What a step of a limiter does to requests, and to types  *)
(* and counters.                                                           *)
Moves(r, L) ==
    /\ \E l \in L : pc' = [pc EXCEPT ![r] = l]
    /\ \A q \in Requests : q # r => stage'[q] = stage[q]
    /\ UNCHANGED talk

LEMMA LimitStep ==
    ASSUME TypeOK, CountersExpire, NEW r \in Requests, Limit(r)
    PROVE  /\ TypeOK' /\ CountersExpire'
           /\ pc[r] \in {"incr", "expire"} /\ Moves(r, {"incr", "expire", "open", "refused"})
<1>t. StageOK /\ TalkOK /\ RedisOK /\ faults \in 0 .. MaxFaults
  BY TypesApart
<1>1. pc[r] \in {"incr", "expire"} /\ UNCHANGED talk
  BY DEF Limit, Incr, Expire, RedisFails
<1>k. Key(r) \in Keys
  BY <1>t, <1>1, KeyIsKey
<1>2. /\ StageOK'
      /\ \E l \in {"incr", "expire", "open", "refused"} : pc' = [pc EXCEPT ![r] = l]
      /\ \A q \in Requests : q # r => stage'[q] = stage[q]
      /\ pc[r] = "incr" /\ Incr(r) /\ count[Key(r)] = 0 =>
            pc' = [pc EXCEPT ![r] = "expire"] /\ UNCHANGED stage
  <2>1. CASE Incr(r)
    <3>1. CASE count[Key(r)] = 0
      BY <1>t, <2>1, <3>1 DEF Incr, Goto, StageOK, Pcs
    <3>2. CASE count[Key(r)] # 0
      BY <1>t, <1>1, <2>1, <3>2, DecideStage DEF Incr
    <3> QED BY <3>1, <3>2
  <2>2. CASE Expire(r)
    BY <1>t, <1>1, <2>2, DecideStage DEF Expire, Incr
  <2>3. CASE RedisFails(r) /\ ~Incr(r)
    BY <1>t, <1>1, <2>3, ProceedStage DEF RedisFails
  <2> QED BY <2>1, <2>2, <2>3 DEF Limit
<1>3. TalkOK'
  BY <1>t, <1>1 DEF talk, TalkOK
<1>4. RedisOK' /\ faults' \in 0 .. MaxFaults
  <2>1. RedisOK'
    <3>1. CASE Incr(r)
      BY <1>t, <1>k, <3>1 DEF Incr, RedisOK
    <3>2. CASE Expire(r)
      BY <1>t, <1>k, <3>2 DEF Expire, RedisOK
    <3>3. CASE RedisFails(r)
      <4>1. CASE UNCHANGED redis
        BY <1>t, <4>1 DEF redis, RedisOK
      <4>2. CASE /\ count' = [count EXCEPT ![Key(r)] = @ + 1]
                 /\ unexpired' = IF count[Key(r)] = 0 THEN unexpired \union {Key(r)} ELSE unexpired
                 /\ UNCHANGED ttl
        BY <1>t, <1>k, <4>2 DEF RedisOK
      <4>3. CASE unexpired' = unexpired \union {Key(r)} /\ UNCHANGED <<count, ttl>>
        BY <1>t, <1>k, <4>3 DEF RedisOK
      <4>4. CASE ttl' = [ttl EXCEPT ![Key(r)] = TRUE] /\ UNCHANGED <<count, unexpired>>
        BY <1>t, <1>k, <4>4 DEF RedisOK
      <4> QED
        BY <3>3, <4>1, <4>2, <4>3, <4>4 DEF RedisFails
    <3> QED BY <3>1, <3>2, <3>3 DEF Limit
  <2>2. faults' \in 0 .. MaxFaults
    BY <1>t, AssistantAssumption DEF Limit, Incr, Expire, RedisFails
  <2> QED BY <2>1, <2>2
<1>5. TypeOK'
  BY <1>2, <1>3, <1>4, TypesTogether
<1>6. CountersExpire'
  <2> SUFFICES ASSUME NEW k \in Keys, count'[k] > 0, ~ttl'[k], k \notin unexpired'
               PROVE  \E q \in Requests : pc'[q] = "expire" /\ Key(q)' = k
    BY DEF CountersExpire
  <2>1. \A q \in Requests : q # r => Key(q)' = Key(q) /\ pc'[q] = pc[q]
    BY <1>t, <1>2 DEF Key, StageOK
  <2>2. CASE k # Key(r)
    <3>1. count[k] = count'[k] /\ ~ttl[k] /\ k \notin unexpired
      BY <1>t, <1>k, <2>2 DEF Limit, Incr, Expire, RedisFails, redis, RedisOK
    <3>2. PICK q \in Requests : pc[q] = "expire" /\ Key(q) = k
      BY <3>1 DEF CountersExpire
    <3> QED
      BY <2>1, <2>2, <3>2
  <2>3. CASE k = Key(r)
    <3>1. CASE Incr(r) /\ count[k] = 0
      BY <1>t, <1>2, <2>3, <3>1 DEF Incr, Key, StageOK
    <3>2. CASE (Incr(r) /\ count[k] # 0) \/ (RedisFails(r) /\ pc[r] = "incr")
      <4>1. count[k] > 0 /\ ~ttl[k] /\ k \notin unexpired /\ pc[r] = "incr"
        BY <1>t, <1>k, <2>3, <3>2 DEF Incr, RedisFails, redis, RedisOK
      <4>2. PICK q \in Requests : pc[q] = "expire" /\ Key(q) = k
        BY <4>1 DEF CountersExpire
      <4> QED
        BY <2>1, <4>1, <4>2
    <3>3. CASE Expire(r) \/ (RedisFails(r) /\ pc[r] = "expire")
      BY <1>t, <1>k, <2>3, <3>3 DEF Expire, RedisFails, RedisOK
    <3> QED
      BY <1>1, <3>1, <3>2, <3>3 DEF Limit, RedisFails
  <2> QED BY <2>2, <2>3
<1> QED
  BY <1>1, <1>2, <1>5, <1>6 DEF Moves

-----------------------------------------------------------------------------
(* Outside the limiters counters stay, and so do the requests that are about *)
(* to set their expiry.                                                    *)
LEMMA CountersStay ==
    ASSUME CountersExpire, UNCHANGED redis,
           \A q \in Requests : pc[q] = "expire" => pc'[q] = "expire" /\ stage'[q] = stage[q]
    PROVE  CountersExpire'
BY DEF CountersExpire, redis, Key

LEMMA WindowStep ==
    ASSUME TypeOK, CountersExpire, NEW k \in Keys, WindowEnds(k)
    PROVE  TypeOK' /\ CountersExpire'
<1>1. TypeOK'
  BY DEF WindowEnds, TypeOK, talk
<1>2. CountersExpire'
  BY DEF WindowEnds, TypeOK, talk, CountersExpire, Key
<1> QED
  BY <1>1, <1>2

LEMMA CrashStep ==
    ASSUME TypeOK, CountersExpire, Crash
    PROVE  TypeOK' /\ CountersExpire'
<1>t. StageOK /\ TalkOK /\ RedisOK /\ faults \in 0 .. MaxFaults
  BY TypesApart
<1>1. StageOK'
  BY <1>t DEF Crash, StageOK, Pcs
<1>2. TalkOK'
  BY <1>t DEF Crash, TalkOK, talk
<1>3. RedisOK'
  <2>1. \A r \in Requests : pc[r] = "expire" => Key(r) \in Keys
    BY <1>t, KeyIsKey
  <2> QED
    BY <1>t, <2>1 DEF Crash, RedisOK
<1>4. faults' \in 0 .. MaxFaults
  BY <1>t, AssistantAssumption DEF Crash
<1>5. TypeOK'
  BY <1>1, <1>2, <1>3, <1>4, TypesTogether
<1>6. CountersExpire'
  BY DEF Crash, CountersExpire
<1> QED
  BY <1>5, <1>6

LEMMA ArriveStep ==
    ASSUME TypeOK, CountersExpire, NEW r \in Requests, Arrive(r)
    PROVE  TypeOK' /\ CountersExpire'
<1>t. StageOK /\ TalkOK /\ RedisOK /\ faults \in 0 .. MaxFaults
  BY TypesApart
<1>1. StageOK'
  <2>1. Path[r] # <<>> => 1 \in 1 .. Len(Path[r])
    BY PathLength
  <2> QED
    BY <1>t, <2>1 DEF Arrive, Goto, StageOK, Pcs
<1>2. TalkOK'
  BY <1>t DEF Arrive, TalkOK
<1>3. RedisOK' /\ faults' \in 0 .. MaxFaults
  BY <1>t DEF Arrive, redis, RedisOK
<1>4. TypeOK'
  BY <1>1, <1>2, <1>3, TypesTogether
<1>5. CountersExpire'
  BY <1>t, CountersStay DEF Arrive, Goto, StageOK
<1> QED
  BY <1>4, <1>5

LEMMA WorkStep ==
    ASSUME TypeOK, CountersExpire, TargetsInv, NEW r \in Requests, Work(r)
    PROVE  TypeOK' /\ CountersExpire'
<1>t. StageOK /\ TalkOK /\ RedisOK /\ faults \in 0 .. MaxFaults
  BY TypesApart
<1>1. /\ UNCHANGED redis /\ UNCHANGED stage
      /\ pc[r] \in {"open", "ask", "save", "delete"}
      /\ \E l \in {"ask", "save", "delete", "done", "failed"} : Goto(r, l)
  BY DEF Work, NewConversation, OpenConversation, FindToDelete, NotFound, ModelAnswers, Save,
         Delete, GoneMeanwhile, CallFails
<1>2. StageOK'
  BY <1>t, <1>1, GotoStage DEF Pcs
<1>3. RedisOK'
  BY <1>t, <1>1 DEF redis, RedisOK
<1>4. faults' \in 0 .. MaxFaults
  BY <1>t, AssistantAssumption
     DEF Work, NewConversation, OpenConversation, FindToDelete, NotFound, ModelAnswers, Save,
         Delete, GoneMeanwhile, CallFails
<1>5. TalkOK'
  <2>1. CASE NewConversation(r)
    BY <1>t, <2>1 DEF NewConversation, TalkOK
  <2>2. CASE OpenConversation(r)
    BY <1>t, <2>2 DEF OpenConversation, TalkOK
  <2>3. CASE UNCHANGED talk
    BY <1>t, <2>3 DEF talk, TalkOK
  <2>i. ASSUME InsertExchange(r), r \in Chats, UNCHANGED <<target, seen, conv>>
        PROVE  TalkOK'
    <3>1. \A k \in Chats : Append(msgs[k], r) \in Seq(Chats)
      BY <1>t, <2>i DEF TalkOK
    <3>2. msgs' \in [Chats -> Seq(Chats)]
      BY <1>t, <2>i, <3>1 DEF InsertExchange, TalkOK
    <3> QED
      BY <1>t, <2>i, <3>2 DEF TalkOK
  <2>d. ASSUME RemoveConversation(target[r]), UNCHANGED <<target, seen>>
        PROVE  TalkOK'
    BY <1>t, <2>d, EmptySeq DEF RemoveConversation, TalkOK
  <2>s. pc[r] = "save" => r \in Chats
    BY DEF TargetsInv
  <2>4. CASE Save(r)
    BY <2>4, <2>i, <2>s DEF Save
  <2>5. CASE Delete(r)
    BY <2>5, <2>d DEF Delete
  <2>6. CASE CallFails(r)
    <3>1. CASE UNCHANGED <<conv, msgs>>
      BY <1>t, <2>6, <3>1 DEF CallFails, TalkOK
    <3>2. CASE r \in Chats /\ conv' = [conv EXCEPT ![r] = "live"] /\ UNCHANGED msgs
      BY <1>t, <2>6, <3>2 DEF CallFails, TalkOK
    <3>3. CASE pc[r] = "save" /\ InsertExchange(r) /\ UNCHANGED conv
      BY <2>6, <2>i, <2>s, <3>3 DEF CallFails
    <3>4. CASE RemoveConversation(target[r])
      BY <2>6, <2>d, <3>4 DEF CallFails
    <3> QED BY <2>6, <3>1, <3>2, <3>3, <3>4 DEF CallFails
  <2> QED
    BY <2>1, <2>2, <2>3, <2>4, <2>5, <2>6
       DEF Work, FindToDelete, NotFound, ModelAnswers, GoneMeanwhile
<1>6. TypeOK'
  BY <1>2, <1>3, <1>4, <1>5, TypesTogether
<1>7. CountersExpire'
  BY <1>t, <1>1, CountersStay DEF Goto, StageOK
<1> QED
  BY <1>6, <1>7

-----------------------------------------------------------------------------
(* Requests that were answered or failed keep what is on record.           *)
LEMMA RecordStays ==
    ASSUME TypeOK, TalkInv, UNCHANGED msgs,
           \A q \in Requests : pc[q] \in {"done", "failed"} =>
              /\ pc'[q] \in {"done", "failed"}
              /\ target'[q] = target[q] /\ (q \in Chats => seen'[q] = seen[q]),
           \A k \in Chats : conv'[k] # "live" => conv[k] # "live"
    PROVE  RecordInv'
<1>1. ASSUME NEW k \in Chats, NEW i \in 1 .. Len(msgs[k])
      PROVE  OnRecord(k, i)'
  <2> DEFINE x == msgs[k][i]
  <2>1. x \in Chats /\ x \in Requests
    BY ElementOfSeq DEF TypeOK, Requests
  <2>2. OnRecord(k, i)
    BY DEF TalkInv, RecordInv
  <2>3. pc'[x] \in {"done", "failed"} /\ target'[x] = target[x] /\ seen'[x] = seen[x]
    BY <2>1, <2>2 DEF OnRecord
  <2> QED
    BY <2>2, <2>3 DEF OnRecord
<1>2. \A k \in Chats : \A i \in 1 .. Len(msgs'[k]) : OnRecord(k, i)'
  BY <1>1
<1> QED
  BY <1>2 DEF TalkInv, RecordInv

(* A request that is on its way is not on record.                          *)
LEMMA NotYetOnRecord ==
    ASSUME TypeOK, TalkInv, NEW r \in Requests, pc[r] \notin {"done", "failed"}
    PROVE  \A k \in Chats : \A i \in 1 .. Len(msgs[k]) : msgs[k][i] # r /\ msgs[k][i] \in Chats
BY ElementOfSeq DEF TypeOK, TalkInv, RecordInv, OnRecord

(* Requests move and the conversations stay.                               *)
QuietMove(q) ==
    \/ pc'[q] = pc[q]
    \/ pc[q] \in Before \ {"idle"} /\ pc'[q] \in {"incr", "expire", "open", "refused"}
    \/ pc[q] = "ask" /\ pc'[q] = "save"
    \/ pc[q] = "open" /\ pc'[q] = "delete" /\ q \in Deletes
    \/ pc[q] \notin {"idle", "done", "refused"} /\ pc'[q] = "failed"

LEMMA QuietStep ==
    ASSUME TypeOK, TalkInv, UNCHANGED talk, \A q \in Requests : QuietMove(q)
    PROVE  TalkInv'
<1>t. /\ \A q \in Requests : pc[q] \in Pcs
      /\ msgs \in [Chats -> Seq(Chats)] /\ target \in [Requests -> Chats \union {None}]
      /\ UNCHANGED target /\ UNCHANGED seen /\ UNCHANGED conv /\ UNCHANGED msgs
  BY DEF TypeOK, Pcs, talk
<1>1. TargetsInv'
  BY <1>t DEF TalkInv, TargetsInv, QuietMove, Before
<1>2. ChatsInv'
  <2> SUFFICES ASSUME NEW r \in Chats
               PROVE  /\ pc'[r] \in Before => conv[r] = "none" /\ seen[r] = <<>>
                      /\ pc'[r] \in {"ask", "save"} /\ conv[target[r]] = "live" =>
                            Prefix(seen[r], msgs[target[r]])
                      /\ pc'[r] = "done" /\ conv[target[r]] = "live" =>
                            \E i \in 1 .. Len(msgs[target[r]]) : msgs[target[r]][i] = r
    BY <1>t DEF ChatsInv, Prefix
  <2>1. /\ pc'[r] \in Before => pc[r] \in Before
        /\ pc'[r] \in {"ask", "save"} => pc[r] \in {"ask", "save"}
        /\ pc'[r] = "done" => pc[r] = "done"
    BY DEF QuietMove, Before, Requests
  <2> QED
    BY <2>1 DEF TalkInv, ChatsInv
<1>3. RecordInv'
  <2>1. \A q \in Requests : pc[q] \in {"done", "failed"} => pc'[q] \in {"done", "failed"}
    BY DEF QuietMove, Before
  <2> QED
    BY <1>t, <2>1, RecordStays
<1> QED
  BY <1>1, <1>2, <1>3 DEF TalkInv

(* A request arrives and names a conversation.                             *)
LEMMA ArriveTalk ==
    ASSUME TypeOK, TalkInv, NEW r \in Requests, Arrive(r)
    PROVE  TalkInv'
<1>t. /\ pc \in [Requests -> Pcs] /\ target \in [Requests -> Chats \union {None}]
      /\ None \notin Requests
  BY AssistantAssumption DEF TypeOK, Pcs
<1>a. /\ pc[r] = "idle" /\ UNCHANGED <<seen, conv, msgs>>
      /\ pc' = [pc EXCEPT ![r] = IF Path[r] = <<>> THEN "open" ELSE "incr"]
  BY DEF Arrive, Goto
<1>b. PICK k \in {k \in Chats : conv[k] # "none"} \union (IF r \in Chats THEN {None} ELSE {}) :
        target' = [target EXCEPT ![r] = k]
  BY DEF Arrive
<1>1. TargetsInv'
  BY <1>t, <1>a, <1>b, AssistantAssumption DEF TalkInv, TargetsInv, Requests
<1>2. ChatsInv'
  <2>1. pc'[r] \in Before /\ \A q \in Requests : q # r => pc'[q] = pc[q] /\ target'[q] = target[q]
    BY <1>t, <1>a, <1>b DEF Before
  <2>2. pc'[r] \notin {"ask", "save", "done"} /\ pc[r] \in Before
    BY <1>t, <1>a DEF Before
  <2> QED
    BY <1>a, <2>1, <2>2 DEF TalkInv, ChatsInv, Requests
<1>3. RecordInv'
  BY <1>t, <1>a, <1>b, RecordStays
<1> QED
  BY <1>1, <1>2, <1>3 DEF TalkInv

(* A chat creates its conversation; the reply of the database may be lost. *)
LEMMA CreateTalk ==
    ASSUME TypeOK, TalkInv, NEW r \in Chats, pc[r] = "open", target[r] = None,
           conv' = [conv EXCEPT ![r] = "live"], UNCHANGED <<seen, msgs>>,
           \/ target' = [target EXCEPT ![r] = r] /\ Goto(r, "ask")
           \/ UNCHANGED target /\ Goto(r, "failed")
    PROVE  TalkInv'
<1>t. /\ pc \in [Requests -> Pcs] /\ target \in [Requests -> Chats \union {None}]
      /\ conv \in [Chats -> {"none", "live", "deleted"}] /\ msgs \in [Chats -> Seq(Chats)]
      /\ None \notin Requests /\ r \in Requests /\ r \notin Deletes
  BY AssistantAssumption DEF TypeOK, Pcs, Requests
<1>1. conv[r] = "none" /\ seen[r] = <<>>
  BY DEF TalkInv, ChatsInv, Before
<1>2. \A q \in Requests : q # r => pc'[q] = pc[q] /\ target'[q] = target[q] /\ target[q] # r
  BY <1>t, <1>1 DEF Goto, TalkInv, TargetsInv
<1>3. TargetsInv'
  BY <1>t, <1>1 DEF Goto, TalkInv, TargetsInv, Requests
<1>4. ChatsInv'
  <2> SUFFICES ASSUME NEW q \in Chats
               PROVE  /\ pc'[q] \in Before => conv'[q] = "none" /\ seen[q] = <<>>
                      /\ pc'[q] \in {"ask", "save"} /\ conv'[target'[q]] = "live" =>
                            Prefix(seen[q], msgs[target'[q]])
                      /\ pc'[q] = "done" /\ conv'[target'[q]] = "live" =>
                            \E i \in 1 .. Len(msgs[target'[q]]) : msgs[target'[q]][i] = q
    BY DEF ChatsInv, Prefix
  <2>1. CASE q # r
    <3>1. conv'[q] = conv[q] /\ conv'[target[q]] = conv[target[q]]
      BY <1>t, <1>2, <2>1 DEF Requests
    <3> QED
      BY <1>2, <2>1, <3>1 DEF TalkInv, ChatsInv, Requests
  <2>2. CASE q = r
    <3>1. pc'[r] = "failed" \/ (pc'[r] = "ask" /\ target'[r] = r)
      BY <1>t DEF Goto
    <3>2. Prefix(seen[r], msgs[r])
      BY <1>1, <1>t, EmptySeq, LenProperties DEF Prefix
    <3> QED
      BY <2>2, <3>1, <3>2 DEF Before
  <2> QED BY <2>1, <2>2
<1>5. RecordInv'
  BY <1>t, <1>1, <1>2, RecordStays
<1> QED
  BY <1>3, <1>4, <1>5 DEF TalkInv

(* A chat is shown the conversation it names.                              *)
LEMMA OpenTalk ==
    ASSUME TypeOK, TalkInv, NEW r \in Requests, OpenConversation(r)
    PROVE  TalkInv'
<1>t. /\ pc \in [Requests -> Pcs] /\ target \in [Requests -> Chats \union {None}]
      /\ msgs \in [Chats -> Seq(Chats)] /\ seen \in [Chats -> Seq(Chats)]
      /\ None \notin Requests
  BY AssistantAssumption DEF TypeOK, Pcs
<1>a. /\ pc[r] = "open" /\ r \in Chats /\ target[r] \in Chats /\ By[target[r]] = By[r]
      /\ seen' = [seen EXCEPT ![r] = msgs[target[r]]] /\ pc' = [pc EXCEPT ![r] = "ask"]
      /\ UNCHANGED target /\ UNCHANGED conv /\ UNCHANGED msgs
  BY <1>t DEF OpenConversation, Goto, Mine
<1>1. TargetsInv'
  BY <1>t, <1>a, AssistantAssumption DEF TalkInv, TargetsInv, Requests
<1>2. ChatsInv'
  <2> SUFFICES ASSUME NEW q \in Chats
               PROVE  /\ pc'[q] \in Before => conv[q] = "none" /\ seen'[q] = <<>>
                      /\ pc'[q] \in {"ask", "save"} /\ conv[target[q]] = "live" =>
                            Prefix(seen'[q], msgs[target[q]])
                      /\ pc'[q] = "done" /\ conv[target[q]] = "live" =>
                            \E i \in 1 .. Len(msgs[target[q]]) : msgs[target[q]][i] = q
    BY <1>a DEF ChatsInv, Prefix
  <2>1. CASE q # r
    BY <1>t, <1>a, <2>1 DEF TalkInv, ChatsInv, Requests
  <2>2. CASE q = r
    <3>1. pc'[q] = "ask" /\ seen'[q] = msgs[target[q]] /\ Len(msgs[target[q]]) \in Nat
      BY <1>t, <1>a, <2>2, LenProperties
    <3> QED
      BY <3>1 DEF Before, Prefix
  <2> QED BY <2>1, <2>2
<1>3. RecordInv'
  BY <1>t, <1>a, RecordStays
<1> QED
  BY <1>1, <1>2, <1>3 DEF TalkInv

(* The exchange of a chat is saved; the reply of the database may be lost. *)
LEMMA InsertTalk ==
    ASSUME TypeOK, TalkInv, NEW r \in Requests, pc[r] = "save", InsertExchange(r),
           UNCHANGED <<target, seen, conv>>, NEW l \in {"done", "failed"}, Goto(r, l)
    PROVE  TalkInv'
<1>t. /\ pc \in [Requests -> Pcs] /\ target \in [Requests -> Chats \union {None}]
      /\ msgs \in [Chats -> Seq(Chats)] /\ seen \in [Chats -> Seq(Chats)]
      /\ None \notin Requests
  BY AssistantAssumption DEF TypeOK, Pcs
<1> DEFINE t == target[r]
           n == Len(msgs[t]) + 1
<1>a. /\ r \in Chats /\ t \in Chats /\ By[t] = By[r] /\ conv[t] = "live"
      /\ Prefix(seen[r], msgs[t])
      /\ msgs' = [msgs EXCEPT ![t] = Append(msgs[t], r)] /\ pc' = [pc EXCEPT ![r] = l]
      /\ UNCHANGED target /\ UNCHANGED seen /\ UNCHANGED conv
  <2>1. r \in Chats /\ target[r] # None /\ By[t] = By[r]
    BY DEF TalkInv, TargetsInv
  <2>2. conv[t] = "live" /\ msgs' = [msgs EXCEPT ![t] = Append(msgs[t], r)]
    BY DEF InsertExchange
  <2>3. Prefix(seen[r], msgs[t])
    BY <2>1, <2>2 DEF TalkInv, ChatsInv
  <2>4. t \in Chats
    BY <1>t, <2>1
  <2> QED
    BY <2>1, <2>2, <2>3, <2>4 DEF Goto
<1>b. /\ Len(msgs[t]) \in Nat /\ Len(msgs'[t]) = n /\ msgs'[t][n] = r
      /\ \A i \in 1 .. Len(msgs[t]) : msgs'[t][i] = msgs[t][i]
      /\ \A k \in Chats : k # t => msgs'[k] = msgs[k]
  BY <1>t, <1>a, LenProperties, AppendProperties
<1>c. \A q \in Requests : pc'[q] = IF q = r THEN l ELSE pc[q]
  BY <1>t, <1>a
<1>d. ASSUME NEW s \in Seq(Chats), NEW k \in Chats, Prefix(s, msgs[k])
      PROVE  Prefix(s, msgs'[k])
  <2>1. Len(s) \in Nat /\ Len(s) <= Len(msgs[k]) /\ \A i \in 1 .. Len(s) : s[i] = msgs[k][i]
    BY <1>d, LenProperties DEF Prefix
  <2>2. CASE k = t
    <3>1. Len(s) <= Len(msgs'[t]) /\ \A i \in 1 .. Len(s) : i \in 1 .. Len(msgs[t])
      BY <1>b, <2>1, <2>2
    <3>2. \A i \in 1 .. Len(s) : s[i] = msgs'[t][i]
      BY <1>b, <2>1, <2>2, <3>1
    <3> QED
      BY <2>2, <3>1, <3>2 DEF Prefix
  <2>3. CASE k # t
    BY <1>b, <2>1, <2>3 DEF Prefix
  <2> QED BY <2>2, <2>3
<1>1. TargetsInv'
  BY <1>a, <1>c DEF TalkInv, TargetsInv
<1>2. ChatsInv'
  <2> SUFFICES ASSUME NEW q \in Chats
               PROVE  /\ pc'[q] \in Before => conv[q] = "none" /\ seen[q] = <<>>
                      /\ pc'[q] \in {"ask", "save"} /\ conv[target[q]] = "live" =>
                            Prefix(seen[q], msgs'[target[q]])
                      /\ pc'[q] = "done" /\ conv[target[q]] = "live" =>
                            \E i \in 1 .. Len(msgs'[target[q]]) : msgs'[target[q]][i] = q
    BY <1>a DEF ChatsInv, Prefix
  <2>1. CASE q # r
    <3>1. pc'[q] = pc[q] /\ q \in Requests /\ seen[q] \in Seq(Chats)
      BY <1>t, <1>c, <2>1 DEF Requests
    <3>2. pc[q] \in Before => conv[q] = "none" /\ seen[q] = <<>>
      BY DEF TalkInv, ChatsInv
    <3>3. ASSUME pc[q] \in {"ask", "save"}, conv[target[q]] = "live"
          PROVE  Prefix(seen[q], msgs'[target[q]])
      <4>1. target[q] \in Chats
        BY <1>t, <3>1, <3>3 DEF TalkInv, TargetsInv
      <4>2. Prefix(seen[q], msgs[target[q]])
        BY <3>3 DEF TalkInv, ChatsInv
      <4> QED
        BY <1>d, <3>1, <4>1, <4>2
    <3>4. ASSUME pc[q] = "done", conv[target[q]] = "live"
          PROVE  \E i \in 1 .. Len(msgs'[target[q]]) : msgs'[target[q]][i] = q
      <4>1. target[q] \in Chats
        BY <1>t, <3>1, <3>4 DEF TalkInv, TargetsInv
      <4>2. PICK i \in 1 .. Len(msgs[target[q]]) : msgs[target[q]][i] = q
        BY <3>4 DEF TalkInv, ChatsInv
      <4> QED
        BY <1>b, <4>1, <4>2
    <3> QED BY <3>1, <3>2, <3>3, <3>4
  <2>2. CASE q = r
    <3>1. n \in 1 .. Len(msgs'[t]) /\ msgs'[t][n] = r
      BY <1>b
    <3> QED
      BY <1>c, <2>2, <3>1 DEF Before
  <2> QED BY <2>1, <2>2
<1>3. RecordInv'
  <2>1. ASSUME NEW k \in Chats, NEW i \in 1 .. Len(msgs'[k])
        PROVE  OnRecord(k, i)'
    <3>1. CASE i \in 1 .. Len(msgs[k])
      <4> DEFINE x == msgs[k][i]
      <4>1. x \in Chats /\ x \in Requests /\ x # r /\ msgs'[k][i] = x
        BY <1>b, <3>1, NotYetOnRecord DEF Requests
      <4>2. OnRecord(k, i)
        BY <3>1 DEF TalkInv, RecordInv
      <4>3. Prefix(seen[x], msgs'[k])
        BY <1>t, <1>d, <4>1, <4>2 DEF OnRecord
      <4> QED
        BY <1>a, <1>c, <4>1, <4>2, <4>3 DEF OnRecord
    <3>2. CASE i \notin 1 .. Len(msgs[k])
      <4>1. k = t /\ i = n
        BY <1>b, <3>2
      <4>2. Len(seen[r]) < n /\ Prefix(seen[r], msgs'[t])
        <5>1. Len(seen[r]) \in Nat /\ seen[r] \in Seq(Chats) /\ Len(seen[r]) <= Len(msgs[t])
          BY <1>t, <1>a, LenProperties DEF Prefix
        <5> QED
          BY <1>a, <1>b, <1>d, <5>1
      <4> QED
        BY <1>a, <1>b, <1>c, <4>1, <4>2 DEF OnRecord
    <3> QED BY <3>1, <3>2
  <2>2. ASSUME NEW k \in Chats, NEW i \in 1 .. Len(msgs'[k]), NEW j \in 1 .. Len(msgs'[k]), i # j
        PROVE  msgs'[k][i] # msgs'[k][j]
    <3>1. \A m \in 1 .. Len(msgs'[k]) : m \in 1 .. Len(msgs[k]) \/ (k = t /\ m = n)
      BY <1>b
    <3>2. \A m \in 1 .. Len(msgs[k]) : msgs'[k][m] = msgs[k][m] /\ msgs[k][m] # r
      BY <1>b, NotYetOnRecord
    <3>3. CASE i \in 1 .. Len(msgs[k]) /\ j \in 1 .. Len(msgs[k])
      <4>1. msgs[k][i] # msgs[k][j]
        BY <2>2, <3>3 DEF TalkInv, RecordInv
      <4> QED
        BY <3>2, <3>3, <4>1
    <3>4. CASE k = t /\ i = n
      <4>1. j \in 1 .. Len(msgs[k])
        BY <2>2, <3>1, <3>4
      <4> QED
        BY <1>b, <3>2, <3>4, <4>1
    <3>5. CASE k = t /\ j = n
      <4>1. i \in 1 .. Len(msgs[k])
        BY <2>2, <3>1, <3>5
      <4> QED
        BY <1>b, <3>2, <3>5, <4>1
    <3> QED
      BY <3>1, <3>3, <3>4, <3>5
  <2>3. \A k \in Chats : conv[k] # "live" => msgs'[k] = <<>>
    BY <1>a, <1>b DEF TalkInv, RecordInv
  <2> QED
    BY <1>a, <2>1, <2>2, <2>3 DEF RecordInv
<1> QED
  BY <1>1, <1>2, <1>3 DEF TalkInv

(* A conversation is deleted, with its messages.                           *)
LEMMA RemoveTalk ==
    ASSUME TypeOK, TalkInv, NEW r \in Requests, pc[r] = "delete", RemoveConversation(target[r]),
           UNCHANGED <<target, seen>>, NEW l \in {"done", "failed"}, Goto(r, l)
    PROVE  TalkInv'
<1>t. /\ pc \in [Requests -> Pcs] /\ target \in [Requests -> Chats \union {None}]
      /\ conv \in [Chats -> {"none", "live", "deleted"}] /\ msgs \in [Chats -> Seq(Chats)]
      /\ None \notin Requests
  BY AssistantAssumption DEF TypeOK, Pcs
<1> DEFINE t == target[r]
<1>a. /\ r \in Deletes /\ r \notin Chats /\ t \in Chats /\ conv[t] = "live"
      /\ conv' = [conv EXCEPT ![t] = "deleted"] /\ msgs' = [msgs EXCEPT ![t] = <<>>]
      /\ pc' = [pc EXCEPT ![r] = l] /\ UNCHANGED target /\ UNCHANGED seen
  BY <1>t, AssistantAssumption DEF RemoveConversation, Goto, TalkInv, TargetsInv
<1>b. /\ \A q \in Requests : pc'[q] = IF q = r THEN l ELSE pc[q]
      /\ \A k \in Chats : conv'[k] = IF k = t THEN "deleted" ELSE conv[k]
      /\ \A k \in Chats : k # t => msgs'[k] = msgs[k]
      /\ msgs'[t] = <<>> /\ Len(msgs'[t]) = 0
  BY <1>t, <1>a
<1>1. TargetsInv'
  BY <1>t, <1>a, <1>b DEF TalkInv, TargetsInv
<1>2. ChatsInv'
  <2> SUFFICES ASSUME NEW q \in Chats
               PROVE  /\ pc'[q] \in Before => conv'[q] = "none" /\ seen[q] = <<>>
                      /\ pc'[q] \in {"ask", "save"} /\ conv'[target[q]] = "live" =>
                            Prefix(seen[q], msgs'[target[q]])
                      /\ pc'[q] = "done" /\ conv'[target[q]] = "live" =>
                            \E i \in 1 .. Len(msgs'[target[q]]) : msgs'[target[q]][i] = q
    BY <1>a DEF ChatsInv, Prefix
  <2>1. pc'[q] = pc[q] /\ q \in Requests
    BY <1>a, <1>b DEF Requests
  <2>2. pc[q] \in Before => conv[q] = "none" /\ seen[q] = <<>> /\ q # t
    BY <1>a DEF TalkInv, ChatsInv
  <2>3. ASSUME pc[q] \in {"ask", "save", "done"}, conv'[target[q]] = "live"
        PROVE  conv[target[q]] = "live" /\ msgs'[target[q]] = msgs[target[q]]
    <3>1. target[q] \in Chats
      BY <1>t, <2>1, <2>3 DEF TalkInv, TargetsInv
    <3> QED
      BY <1>b, <2>3, <3>1
  <2> QED
    BY <1>b, <2>1, <2>2, <2>3 DEF TalkInv, ChatsInv
<1>3. RecordInv'
  <2> SUFFICES ASSUME NEW k \in Chats
               PROVE  /\ conv'[k] # "live" => msgs'[k] = <<>>
                      /\ \A i \in 1 .. Len(msgs'[k]) : OnRecord(k, i)'
                      /\ \A i, j \in 1 .. Len(msgs'[k]) : i # j => msgs'[k][i] # msgs'[k][j]
    BY DEF RecordInv
  <2>1. CASE k = t
    BY <1>b, <2>1
  <2>2. CASE k # t
    <3>1. conv'[k] = conv[k] /\ msgs'[k] = msgs[k]
      BY <1>b, <2>2
    <3>2. ASSUME NEW i \in 1 .. Len(msgs[k])
          PROVE  OnRecord(k, i)'
      <4> DEFINE x == msgs[k][i]
      <4>1. x \in Chats /\ x \in Requests /\ x # r
        BY NotYetOnRecord DEF Requests
      <4>2. OnRecord(k, i)
        BY DEF TalkInv, RecordInv
      <4> QED
        BY <1>a, <1>b, <3>1, <4>1, <4>2 DEF OnRecord
    <3> QED
      BY <3>1, <3>2 DEF TalkInv, RecordInv
  <2> QED BY <2>1, <2>2
<1> QED
  BY <1>1, <1>2, <1>3 DEF TalkInv

LEMMA WorkTalk ==
    ASSUME TypeOK, TalkInv, NEW r \in Requests, Work(r)
    PROVE  TalkInv'
<1>t. pc \in [Requests -> Pcs]
  BY DEF TypeOK, Pcs
<1>q. ASSUME UNCHANGED talk, NEW l, Goto(r, l),
             \/ pc[r] = "ask" /\ l = "save"
             \/ pc[r] = "open" /\ l = "delete" /\ r \in Deletes
             \/ pc[r] \in {"open", "ask", "save", "delete"} /\ l = "failed"
      PROVE  TalkInv'
  <2>1. \A q \in Requests : QuietMove(q)
    BY <1>t, <1>q DEF Goto, QuietMove
  <2> QED
    BY <1>q, <2>1, QuietStep
<1>1. CASE NewConversation(r)
  BY <1>1, CreateTalk DEF NewConversation
<1>2. CASE OpenConversation(r)
  BY <1>2, OpenTalk
<1>3. CASE FindToDelete(r)
  BY <1>3, <1>q DEF FindToDelete
<1>4. CASE NotFound(r)
  BY <1>4, <1>q DEF NotFound
<1>5. CASE ModelAnswers(r)
  BY <1>5, <1>q DEF ModelAnswers
<1>6. CASE Save(r)
  BY <1>6, InsertTalk DEF Save
<1>7. CASE Delete(r)
  BY <1>7, RemoveTalk DEF Delete
<1>8. CASE GoneMeanwhile(r)
  BY <1>8, <1>q DEF GoneMeanwhile
<1>9. CASE CallFails(r)
  <2>1. CASE UNCHANGED <<conv, msgs>>
    BY <1>9, <1>q, <2>1 DEF CallFails, talk
  <2>2. CASE /\ pc[r] = "open" /\ r \in Chats /\ target[r] = None
             /\ conv' = [conv EXCEPT ![r] = "live"]
             /\ UNCHANGED msgs
    BY <1>9, <2>2, CreateTalk DEF CallFails
  <2>3. CASE pc[r] = "save" /\ InsertExchange(r) /\ UNCHANGED conv
    BY <1>9, <2>3, InsertTalk DEF CallFails
  <2>4. CASE pc[r] = "delete" /\ RemoveConversation(target[r])
    BY <1>9, <2>4, RemoveTalk DEF CallFails
  <2> QED
    BY <1>9, <2>1, <2>2, <2>3, <2>4 DEF CallFails
<1> QED
  BY <1>1, <1>2, <1>3, <1>4, <1>5, <1>6, <1>7, <1>8, <1>9 DEF Work

LEMMA LimitTalk ==
    ASSUME TypeOK, CountersExpire, TalkInv, NEW r \in Requests, Limit(r)
    PROVE  TalkInv'
<1>1. pc[r] \in {"incr", "expire"} /\ Moves(r, {"incr", "expire", "open", "refused"})
  BY LimitStep
<1>2. \A q \in Requests : QuietMove(q)
  BY <1>1 DEF Moves, QuietMove, TypeOK, Before
<1> QED
  BY <1>1, <1>2, QuietStep DEF Moves

-----------------------------------------------------------------------------
LEMMA AssistantInitially ==
    ASSUME Init
    PROVE  AssistantInv
<1>1. TypeOK
  BY AssistantAssumption, EmptySeq DEF Init, TypeOK
<1>2. CountersExpire
  BY DEF Init, CountersExpire
<1>3. TargetsInv /\ ChatsInv /\ RecordInv
  <2>1. \A k \in Chats : Len(msgs[k]) = 0
    BY DEF Init
  <2> QED
    BY <2>1 DEF Init, TargetsInv, ChatsInv, RecordInv, Before, Requests
<1> QED
  BY <1>1, <1>2, <1>3 DEF AssistantInv, TalkInv

LEMMA AssistantStep ==
    ASSUME AssistantInv, [Next]_vars
    PROVE  AssistantInv'
<1>t. TypeOK /\ CountersExpire /\ TalkInv
  BY DEF AssistantInv
<1>1. ASSUME NEW r \in Requests, Arrive(r)
      PROVE  AssistantInv'
  BY <1>t, <1>1, ArriveStep, ArriveTalk DEF AssistantInv
<1>2. ASSUME NEW r \in Requests, Limit(r)
      PROVE  AssistantInv'
  BY <1>t, <1>2, LimitStep, LimitTalk DEF AssistantInv
<1>3. ASSUME NEW r \in Requests, Work(r)
      PROVE  AssistantInv'
  BY <1>t, <1>3, WorkStep, WorkTalk DEF AssistantInv, TalkInv
<1>4. ASSUME NEW k \in Keys, WindowEnds(k)
      PROVE  AssistantInv'
  <2>1. UNCHANGED talk /\ \A q \in Requests : QuietMove(q)
    BY <1>4 DEF WindowEnds, QuietMove
  <2> QED
    BY <1>t, <1>4, <2>1, WindowStep, QuietStep DEF AssistantInv
<1>5. CASE Crash
  <2>1. UNCHANGED talk /\ \A q \in Requests : QuietMove(q)
    BY <1>5 DEF Crash, QuietMove
  <2> QED
    BY <1>t, <1>5, <2>1, CrashStep, QuietStep DEF AssistantInv
<1>6. CASE UNCHANGED vars
  <2>1. UNCHANGED talk /\ UNCHANGED redis /\ UNCHANGED <<pc, stage, faults>>
    BY <1>6 DEF vars
  <2>2. TypeOK'
    BY <1>t, <2>1 DEF TypeOK, talk, redis
  <2>3. CountersExpire'
    BY <1>t, <2>1, CountersStay
  <2>4. TalkInv'
    BY <1>t, <2>1, QuietStep DEF QuietMove
  <2> QED
    BY <2>2, <2>3, <2>4 DEF AssistantInv
<1> QED
  BY <1>1, <1>2, <1>3, <1>4, <1>5, <1>6 DEF Next

LEMMA AssistantInvariant == Spec => []AssistantInv
BY AssistantInitially, AssistantStep, PTL DEF Spec

(* Every variable has its type.                                            *)
THEOREM AssistantTypeCorrect == Spec => []TypeOK
<1>1. AssistantInv => TypeOK
  BY DEF AssistantInv
<1> QED
  BY <1>1, AssistantInvariant, PTL

(* A counter of the limiter that will never expire is one whose EXPIRE is  *)
(* still to come or was lost with a failed call or a process.              *)
THEOREM CountersAlwaysExpire == Spec => []CountersExpire
<1>1. AssistantInv => CountersExpire
  BY DEF AssistantInv
<1> QED
  BY <1>1, AssistantInvariant, PTL

(* What chat() answered is on record, once and in the conversation of its  *)
(* user, behind the exchanges the model was shown; a deleted conversation  *)
(* keeps nothing.                                                          *)
THEOREM AnswersAreOnRecord == Spec => []ExchangesOnRecord
<1>1. AssistantInv => ExchangesOnRecord
  <2>1. ChatsInv /\ RecordInv => ExchangesOnRecord
    <3> SUFFICES ASSUME ChatsInv, RecordInv
                 PROVE  ExchangesOnRecord
      OBVIOUS
    <3>1. \A r \in Chats :
              pc[r] = "done" /\ conv[target[r]] = "live" =>
                  \E i \in 1 .. Len(msgs[target[r]]) : msgs[target[r]][i] = r
      BY DEF ChatsInv
    <3>2. \A k \in Chats : \A i \in 1 .. Len(msgs[k]) :
              /\ By[msgs[k][i]] = By[k]
              /\ Len(seen[msgs[k][i]]) < i /\ Prefix(seen[msgs[k][i]], msgs[k])
      BY DEF RecordInv, OnRecord
    <3>3. \A k \in Chats :
              /\ conv[k] # "live" => msgs[k] = <<>>
              /\ \A i, j \in 1 .. Len(msgs[k]) : i # j => msgs[k][i] # msgs[k][j]
      BY DEF RecordInv
    <3>4. \A k \in Chats :
              /\ conv[k] # "live" => msgs[k] = <<>>
              /\ \A i, j \in 1 .. Len(msgs[k]) :
                    /\ i # j => msgs[k][i] # msgs[k][j]
                    /\ By[msgs[k][i]] = By[k]
                    /\ Len(seen[msgs[k][i]]) < i /\ Prefix(seen[msgs[k][i]], msgs[k])
      BY <3>2, <3>3, Zenon
    <3> QED
      BY <3>1, <3>4, Zenon DEF ExchangesOnRecord
  <2> QED
    BY <2>1 DEF AssistantInv, TalkInv
<1> QED
  BY <1>1, AssistantInvariant, PTL

-----------------------------------------------------------------------------
(* The abstract dialogue.  What a deletion found stays its user's.         *)
DeletersInv == \A r \in Requests : pc[r] = "delete" => By[target[r]] = By[r]

LEMMA DeletersStep ==
    ASSUME AssistantInv, DeletersInv, [Next]_vars
    PROVE  DeletersInv'
<1>t. TypeOK /\ CountersExpire /\ pc \in [Requests -> Pcs]
      /\ target \in [Requests -> Chats \union {None}]
  BY DEF AssistantInv, TypeOK, Pcs
<1> SUFFICES ASSUME NEW q \in Requests, pc'[q] = "delete"
             PROVE  By[target'[q]] = By[q]
  BY DEF DeletersInv
<1>s. ASSUME pc'[q] = pc[q], target'[q] = target[q]
      PROVE  By[target'[q]] = By[q]
  BY <1>s DEF DeletersInv
<1>1. ASSUME NEW r \in Requests, Arrive(r)
      PROVE  By[target'[q]] = By[q]
  <2>1. q # r
    BY <1>t, <1>1 DEF Arrive, Goto
  <2> QED BY <1>t, <1>1, <1>s, <2>1 DEF Arrive, Goto
<1>2. ASSUME NEW r \in Requests, Limit(r)
      PROVE  By[target'[q]] = By[q]
  <2>1. Moves(r, {"incr", "expire", "open", "refused"})
    BY <1>t, <1>2, LimitStep
  <2>2. q # r /\ UNCHANGED target
    BY <1>t, <2>1 DEF Moves, talk
  <2> QED BY <1>t, <1>s, <2>1, <2>2 DEF Moves
<1>3. ASSUME NEW r \in Requests, Work(r)
      PROVE  By[target'[q]] = By[q]
  <2>1. CASE FindToDelete(r) /\ q = r
    BY <1>t, <2>1 DEF FindToDelete, Mine, talk
  <2>2. CASE ~FindToDelete(r) \/ q # r
    <3>1. q # r
      BY <1>t, <1>3, <2>2
         DEF Work, NewConversation, OpenConversation, NotFound, ModelAnswers, Save,
             Delete, GoneMeanwhile, CallFails, Goto
    <3>2. pc'[q] = pc[q] /\ target'[q] = target[q]
      BY <1>t, <1>3, <3>1
         DEF Work, NewConversation, OpenConversation, FindToDelete, NotFound, ModelAnswers, Save,
             Delete, GoneMeanwhile, CallFails, Goto, talk
    <3> QED BY <1>s, <3>2
  <2> QED BY <2>1, <2>2
<1>4. CASE (\E k \in Keys : WindowEnds(k)) \/ Crash \/ UNCHANGED vars
  <2>1. pc'[q] = pc[q] /\ target'[q] = target[q]
    BY <1>t, <1>4 DEF WindowEnds, Crash, vars, talk
  <2> QED BY <1>s, <2>1
<1> QED
  BY <1>1, <1>2, <1>3, <1>4 DEF Next

-----------------------------------------------------------------------------
Finished == {"done", "refused", "failed"}

(* A request goes on, or is closed; a chat that is done has been answered. *)
LEMMA GotoCloses ==
    ASSUME pc \in [Requests -> Pcs], NEW r \in Requests, pc[r] \notin Finished,
           NEW l, Goto(r, l)
    PROVE  /\ r \notin Closed
           /\ Closed' = IF l \in Finished THEN Closed \union {r} ELSE Closed
           /\ Answered' = IF l = "done" /\ r \in Chats THEN Answered \union {r} ELSE Answered
<1>1. \A q \in Requests : pc'[q] = IF q = r THEN l ELSE pc[q]
  BY DEF Goto
<1>2. r \notin Closed /\ r \notin Answered
  BY DEF Closed, Answered, Finished
<1>3. Closed' = IF l \in Finished THEN Closed \union {r} ELSE Closed
  BY <1>1 DEF Closed, Finished
<1>4. Answered' = IF l = "done" /\ r \in Chats THEN Answered \union {r} ELSE Answered
  BY <1>1 DEF Answered, Requests, Finished
<1> QED BY <1>2, <1>3, <1>4

(* Steps that touch no conversation may only close requests.               *)
LEMMA SilentStep ==
    ASSUME UNCHANGED <<seen, conv, msgs>>,
           \A q \in Requests : /\ pc[q] \in Finished => pc'[q] \in Finished
                               /\ pc'[q] = "done" <=> pc[q] = "done"
    PROVE  TheDialogue!DialogueNext
<1>1. Closed' = Closed \union Closed' /\ Closed' \in SUBSET Requests
  BY DEF Closed, Finished
<1>2. Answered' = Answered
  BY DEF Answered, Requests
<1>3. TheDialogue!GiveUp(Closed')
  BY <1>1, <1>2 DEF TheDialogue!GiveUp
<1> QED
  BY <1>1, <1>3 DEF TheDialogue!DialogueNext, Requests

LEMMA BeginDialogue ==
    ASSUME TypeOK, TalkInv, NEW r \in Chats, pc[r] = "open",
           conv' = [conv EXCEPT ![r] = "live"], UNCHANGED <<seen, msgs>>,
           NEW l \in {"ask", "failed"}, Goto(r, l)
    PROVE  TheDialogue!DialogueNext
<1>t. pc \in [Requests -> Pcs] /\ r \in Requests
  BY DEF TypeOK, Pcs, Requests
<1>1. conv[r] = "none"
  BY DEF TalkInv, ChatsInv, Before
<1>2. /\ r \notin Closed /\ Answered' = Answered
      /\ Closed' \in {Closed, Closed \union {r}}
  BY <1>t, GotoCloses DEF Finished
<1> QED
  BY <1>1, <1>2 DEF TheDialogue!DialogueNext, TheDialogue!Begin

LEMMA ShowDialogue ==
    ASSUME TypeOK, NEW r \in Requests, OpenConversation(r)
    PROVE  TheDialogue!DialogueNext
<1>t. pc \in [Requests -> Pcs] /\ target[r] \in Chats /\ r \in Chats
  BY DEF TypeOK, Pcs, OpenConversation
<1>1. r \notin Closed /\ Closed' = Closed /\ Answered' = Answered
  BY <1>t, GotoCloses DEF OpenConversation, Finished
<1>2. TheDialogue!Show(r, target[r])
  BY <1>1 DEF OpenConversation, Mine, TheDialogue!Show, TheDialogue!MayUse
<1> QED
  BY <1>t, <1>2 DEF TheDialogue!DialogueNext

LEMMA AddDialogue ==
    ASSUME TypeOK, TalkInv, NEW r \in Requests, pc[r] = "save", InsertExchange(r),
           UNCHANGED <<seen, conv>>, NEW l \in {"done", "failed"}, Goto(r, l)
    PROVE  TheDialogue!DialogueNext
<1>1. r \in Chats /\ target[r] # None /\ By[target[r]] = By[r]
  BY DEF TalkInv, TargetsInv
<1>t. pc \in [Requests -> Pcs] /\ target[r] \in Chats
  BY <1>1 DEF TypeOK, Pcs
<1>2. conv[target[r]] = "live" /\ Prefix(seen[r], msgs[target[r]])
  BY <1>1 DEF InsertExchange, TalkInv, ChatsInv
<1>3. /\ r \notin Closed /\ Closed' = Closed \union {r}
      /\ Answered' \in {Answered, Answered \union {r}}
  BY <1>t, <1>1, GotoCloses DEF Finished
<1>4. TheDialogue!Prefix(seen[r], msgs[target[r]])
  BY <1>2 DEF Prefix, TheDialogue!Prefix
<1>5. TheDialogue!Add(r, target[r])
  BY <1>1, <1>2, <1>3, <1>4 DEF InsertExchange, TheDialogue!Add, TheDialogue!MayUse
<1> QED
  BY <1>t, <1>1, <1>5 DEF TheDialogue!DialogueNext

LEMMA EraseDialogue ==
    ASSUME TypeOK, TalkInv, DeletersInv, NEW r \in Requests, pc[r] = "delete",
           RemoveConversation(target[r]), UNCHANGED seen,
           NEW l \in {"done", "failed"}, Goto(r, l)
    PROVE  TheDialogue!DialogueNext
<1>1. r \in Deletes /\ target[r] # None /\ By[target[r]] = By[r]
  BY DEF TalkInv, TargetsInv, DeletersInv
<1>2. r \notin Chats
  BY <1>1, AssistantAssumption
<1>t. pc \in [Requests -> Pcs] /\ target[r] \in Chats
  BY <1>1 DEF TypeOK, Pcs
<1>3. /\ r \notin Closed /\ Closed' = Closed \union {r} /\ Answered' = Answered
  BY <1>t, <1>2, GotoCloses DEF Finished
<1>4. TheDialogue!Erase(r, target[r])
  BY <1>1, <1>3 DEF RemoveConversation, TheDialogue!Erase, TheDialogue!MayUse
<1> QED
  BY <1>t, <1>1, <1>4 DEF TheDialogue!DialogueNext

LEMMA WorkDialogue ==
    ASSUME TypeOK, TalkInv, DeletersInv, NEW r \in Requests, Work(r)
    PROVE  TheDialogue!DialogueNext
<1>t. pc \in [Requests -> Pcs]
  BY DEF TypeOK, Pcs
<1>q. ASSUME UNCHANGED <<seen, conv, msgs>>, pc[r] \in {"open", "ask", "save", "delete"},
             NEW l \in {"delete", "save", "failed"}, Goto(r, l)
      PROVE  TheDialogue!DialogueNext
  <2>1. \A q \in Requests : pc'[q] = IF q = r THEN l ELSE pc[q]
    BY <1>t, <1>q DEF Goto
  <2> QED
    BY <1>q, <2>1, SilentStep DEF Finished
<1>1. CASE NewConversation(r)
  BY <1>1, BeginDialogue DEF NewConversation
<1>2. CASE OpenConversation(r)
  BY <1>2, ShowDialogue
<1>3. CASE FindToDelete(r)
  BY <1>3, <1>q DEF FindToDelete, talk
<1>4. CASE NotFound(r)
  BY <1>4, <1>q DEF NotFound, talk
<1>5. CASE ModelAnswers(r)
  BY <1>5, <1>q DEF ModelAnswers, talk
<1>6. CASE Save(r)
  BY <1>6, AddDialogue DEF Save
<1>7. CASE Delete(r)
  BY <1>7, EraseDialogue DEF Delete
<1>8. CASE GoneMeanwhile(r)
  BY <1>8, <1>q DEF GoneMeanwhile, talk
<1>9. CASE CallFails(r)
  <2>1. CASE UNCHANGED <<conv, msgs>>
    BY <1>9, <1>q, <2>1 DEF CallFails
  <2>2. CASE /\ pc[r] = "open" /\ r \in Chats /\ target[r] = None
             /\ conv' = [conv EXCEPT ![r] = "live"]
             /\ UNCHANGED msgs
    BY <1>9, <2>2, BeginDialogue DEF CallFails
  <2>3. CASE pc[r] = "save" /\ InsertExchange(r) /\ UNCHANGED conv
    BY <1>9, <2>3, AddDialogue DEF CallFails
  <2>4. CASE pc[r] = "delete" /\ RemoveConversation(target[r])
    BY <1>9, <2>4, EraseDialogue DEF CallFails
  <2> QED
    BY <1>9, <2>1, <2>2, <2>3, <2>4 DEF CallFails
<1> QED
  BY <1>1, <1>2, <1>3, <1>4, <1>5, <1>6, <1>7, <1>8, <1>9 DEF Work

LEMMA NextDialogue ==
    ASSUME AssistantInv, DeletersInv, Next
    PROVE  TheDialogue!DialogueNext
<1>t. TypeOK /\ CountersExpire /\ TalkInv /\ pc \in [Requests -> Pcs]
  BY DEF AssistantInv, TypeOK, Pcs
<1>1. ASSUME NEW r \in Requests, Arrive(r)
      PROVE  TheDialogue!DialogueNext
  <2>1. /\ UNCHANGED <<seen, conv, msgs>>
        /\ \A q \in Requests : /\ pc[q] \in Finished => pc'[q] \in Finished
                               /\ pc'[q] = "done" <=> pc[q] = "done"
    BY <1>t, <1>1 DEF Arrive, Goto, Finished
  <2> QED BY <2>1, SilentStep
<1>2. ASSUME NEW r \in Requests, Limit(r)
      PROVE  TheDialogue!DialogueNext
  <2>1. pc[r] \in {"incr", "expire"} /\ Moves(r, {"incr", "expire", "open", "refused"})
    BY <1>t, <1>2, LimitStep
  <2>2. /\ UNCHANGED <<seen, conv, msgs>>
        /\ \A q \in Requests : /\ pc[q] \in Finished => pc'[q] \in Finished
                               /\ pc'[q] = "done" <=> pc[q] = "done"
    BY <1>t, <2>1 DEF Moves, talk, Finished
  <2> QED BY <2>2, SilentStep
<1>3. ASSUME NEW r \in Requests, Work(r)
      PROVE  TheDialogue!DialogueNext
  BY <1>t, <1>3, WorkDialogue
<1>4. CASE (\E k \in Keys : WindowEnds(k)) \/ Crash
  <2>1. /\ UNCHANGED <<seen, conv, msgs>>
        /\ \A q \in Requests : /\ pc[q] \in Finished => pc'[q] \in Finished
                               /\ pc'[q] = "done" <=> pc[q] = "done"
    BY <1>t, <1>4 DEF WindowEnds, Crash, talk, Finished
  <2> QED BY <2>1, SilentStep
<1> QED
  BY <1>1, <1>2, <1>3, <1>4 DEF Next

(* chat() and deleteConversation() keep the promise of Dialogue for any    *)
(* number of requests, users and faults: a conversation is added to and    *)
(* deleted by its own user alone, what is added goes on from what the model  *)
(* was shown, and no request writes twice.                                 *)
THEOREM AssistantKeepsDialogue == Spec => DialogueSpec
<1>1. Init => TheDialogue!DialogueInit /\ DeletersInv
  <2> SUFFICES ASSUME Init PROVE TheDialogue!DialogueInit /\ DeletersInv
    OBVIOUS
  <2>1. Closed = {} /\ Answered = {} /\ DeletersInv
    BY DEF Init, Closed, Answered, DeletersInv, Requests
  <2> QED BY <2>1 DEF Init, TheDialogue!DialogueInit
<1>2. AssistantInv /\ DeletersInv /\ [Next]_vars
        => [TheDialogue!DialogueNext]_(TheDialogue!dialogueVars)
  <2>1. CASE UNCHANGED vars
    BY <2>1 DEF vars, talk, TheDialogue!dialogueVars, Closed, Answered
  <2> QED BY <2>1, NextDialogue
<1>3. AssistantInv /\ DeletersInv /\ [Next]_vars => DeletersInv'
  BY DeletersStep
<1> QED
  BY <1>1, <1>2, <1>3, AssistantInvariant, PTL DEF Spec, DialogueSpec, TheDialogue!DialogueSpec
=============================================================================
