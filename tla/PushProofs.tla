----------------------------- MODULE PushProofs -----------------------------
(***************************************************************************)
(* Both maps of connections agree, and every open connection has been sent *)
(* what was for it and nothing else, for any number of connections, users  *)
(* and messages.  What is needed besides the two properties and the types: *)
(* a connection that was never made has been sent nothing.                 *)
(***************************************************************************)
EXTENDS Push, SequenceTheorems, TLAPS

Silent == \A c \in Conns : sock[c] = "none" => inbox[c] = {}

PushInv == TypeOK /\ MapsAgree /\ Delivered /\ Silent

-----------------------------------------------------------------------------
LEMMA PushInitially ==
    ASSUME Init
    PROVE  PushInv
<1>1. TypeOK
  BY PushAssumption DEF Init, TypeOK
<1>2. MapsAgree /\ Silent
  BY DEF Init, MapsAgree, Silent
<1>3. Delivered
  BY DEF Init, Delivered, Mine
<1> QED
  BY <1>1, <1>2, <1>3 DEF PushInv

(* A message is for those open connections the sender chooses.             *)
LEMMA SendStep ==
    ASSUME PushInv, NEW C, NEW u \in Users \union {All}, Send(C, u),
           \A c \in Conns : sock[c] = "open" => (c \in C <=> u \in {All, Owner[c]}),
           UNCHANGED <<sock, joined>>
    PROVE  /\ to' \in Seq(Users \union {All}) /\ Len(to') = Len(to) + 1
           /\ inbox' \in [Conns -> SUBSET (1 .. Len(to'))]
           /\ Delivered' /\ Silent'
<1>t. /\ to \in Seq(Users \union {All}) /\ Len(to) \in Nat
      /\ inbox \in [Conns -> SUBSET (1 .. Len(to))] /\ joined \in [Conns -> 0 .. Len(to)]
  BY LenProperties DEF PushInv, TypeOK
<1>1. /\ to' = Append(to, u)
      /\ inbox' = [c \in Conns |-> IF c \in C /\ sock[c] = "open"
                                   THEN inbox[c] \union {Len(to) + 1} ELSE inbox[c]]
  BY DEF Send
<1>2. /\ to' \in Seq(Users \union {All}) /\ Len(to') = Len(to) + 1
      /\ \A i \in 1 .. Len(to) : to'[i] = to[i]
      /\ to'[Len(to) + 1] = u
  BY <1>t, <1>1, AppendProperties
<1>3. inbox' \in [Conns -> SUBSET (1 .. Len(to'))]
  BY <1>t, <1>1, <1>2
<1>4. ASSUME NEW c \in Conns
      PROVE  Mine(c)' = IF u \in {All, Owner[c]} THEN Mine(c) \union {Len(to) + 1} ELSE Mine(c)
  <2>1. joined'[c] = joined[c] /\ joined[c] \in 0 .. Len(to)
    BY <1>t
  <2>2. \A i : i \in joined[c] + 1 .. Len(to') <=>
                   i \in joined[c] + 1 .. Len(to) \/ i = Len(to) + 1
    BY <1>t, <1>2, <2>1
  <2>3. \A i \in joined[c] + 1 .. Len(to) : i \in 1 .. Len(to)
    BY <1>t, <2>1
  <2> QED
    BY <1>t, <1>2, <2>1, <2>2, <2>3 DEF Mine
<1>5. Delivered'
  <2> SUFFICES ASSUME NEW c \in Conns
               PROVE  /\ inbox'[c] \subseteq Mine(c)'
                      /\ sock[c] = "open" => inbox'[c] = Mine(c)'
    BY DEF Delivered
  <2>1. inbox[c] \subseteq Mine(c) /\ (sock[c] = "open" => inbox[c] = Mine(c))
    BY DEF PushInv, Delivered
  <2>2. inbox'[c] = IF c \in C /\ sock[c] = "open" THEN inbox[c] \union {Len(to) + 1} ELSE inbox[c]
    BY <1>1
  <2> QED
    BY <1>4, <2>1, <2>2
<1>6. Silent'
  BY <1>1 DEF PushInv, Silent
<1> QED
  BY <1>2, <1>3, <1>5, <1>6

(* A step that sends none changes no inbox.                                *)
LEMMA InboxesStay ==
    ASSUME PushInv, UNCHANGED sent, UNCHANGED joined,
           \A c \in Conns : sock'[c] \in {"open", "none"} => sock'[c] = sock[c]
    PROVE  Delivered' /\ Silent'
BY DEF sent, PushInv, Delivered, Mine, Silent

LEMMA DisconnectStep ==
    ASSUME PushInv, NEW D \in SUBSET Conns, NEW A \in [Conns -> Nat],
           \A c \in Conns \ D : A[c] <= Limit, Disconnect(D, A)
    PROVE  /\ clients' \subseteq Conns /\ registered' = clients' /\ clients' = clients \ D
           /\ age' \in [Conns -> 0 .. Limit] /\ subs' \in [Conns -> SUBSET Topics]
BY PushAssumption DEF Disconnect, PushInv, TypeOK, MapsAgree

LEMMA PushStep ==
    ASSUME PushInv, [Next]_vars
    PROVE  PushInv'
<1> USE PushAssumption
<1>t. TypeOK /\ MapsAgree
  BY DEF PushInv
<1>1. ASSUME NEW c \in Conns, Connect(c) PROVE PushInv'
  <2>1. /\ sock' = [sock EXCEPT ![c] = "open"] /\ sock[c] = "none" /\ Owner[c] # None
        /\ clients' = clients \union {c} /\ registered' = registered \union {c}
        /\ joined' = [joined EXCEPT ![c] = Len(to)] /\ UNCHANGED <<age, subs, sent, serving>>
    BY <1>1 DEF Connect
  <2>2. Len(to) \in 0 .. Len(to)
    BY <1>t, LenProperties DEF TypeOK
  <2>3. TypeOK'
    BY <1>t, <2>1, <2>2 DEF TypeOK, sent
  <2>4. MapsAgree'
    BY <1>t, <2>1 DEF TypeOK, MapsAgree
  <2>5. Silent'
    BY <1>t, <2>1 DEF TypeOK, PushInv, Silent, sent
  <2>6. Delivered'
    <3> SUFFICES ASSUME NEW d \in Conns
                 PROVE  /\ inbox'[d] \subseteq Mine(d)'
                        /\ sock'[d] = "open" => inbox'[d] = Mine(d)'
      BY DEF Delivered
    <3>1. CASE d = c
      <4>1. inbox'[d] = {}
        BY <2>1, <3>1 DEF PushInv, Silent, sent
      <4>2. joined'[d] = Len(to) /\ to' = to
        BY <1>t, <2>1, <3>1 DEF TypeOK, sent
      <4>3. Mine(d)' = {}
        BY <2>2, <4>2 DEF Mine
      <4> QED
        BY <4>1, <4>3
    <3>2. CASE d # c
      BY <1>t, <2>1, <3>2 DEF TypeOK, PushInv, Delivered, Mine, sent
    <3> QED BY <3>1, <3>2
  <2> QED
    BY <2>3, <2>4, <2>5, <2>6 DEF PushInv
<1>2. ASSUME NEW c \in Conns, Reject(c) \/ ClientCloses(c) PROVE PushInv'
  <2>1. /\ sock' = [sock EXCEPT ![c] = "closing"] /\ sock[c] \in {"none", "open"}
        /\ UNCHANGED <<maps, age, subs, sent, joined, serving>>
    BY <1>2 DEF Reject, ClientCloses
  <2>2. TypeOK'
    BY <1>t, <2>1 DEF TypeOK, maps, sent
  <2>3. MapsAgree'
    BY <1>t, <2>1 DEF TypeOK, MapsAgree, maps
  <2>4. Delivered' /\ Silent'
    BY <1>t, <2>1, InboxesStay DEF TypeOK
  <2> QED
    BY <2>2, <2>3, <2>4 DEF PushInv
<1>3. ASSUME NEW c \in Conns, Closed(c) PROVE PushInv'
  <2>1. /\ sock' = [sock EXCEPT ![c] = "closed"] /\ Disconnect({c}, age)
        /\ UNCHANGED <<sent, joined, serving>>
    BY <1>3 DEF Closed
  <2>2. /\ clients' \subseteq Conns /\ registered' = clients' /\ clients' = clients \ {c}
        /\ age' \in [Conns -> 0 .. Limit] /\ subs' \in [Conns -> SUBSET Topics]
    <3>1. age \in [Conns -> Nat] /\ \A d \in Conns \ {c} : age[d] <= Limit
      BY <1>t DEF TypeOK
    <3> QED
      BY <2>1, <3>1, DisconnectStep
  <2>3. TypeOK'
    BY <1>t, <2>1, <2>2 DEF TypeOK, sent
  <2>4. MapsAgree'
    BY <1>t, <2>1, <2>2 DEF TypeOK, MapsAgree
  <2>5. Delivered' /\ Silent'
    BY <1>t, <2>1, InboxesStay DEF TypeOK
  <2> QED
    BY <2>3, <2>4, <2>5 DEF PushInv
<1>4. ASSUME NEW c \in Conns, Ping(c) PROVE PushInv'
  BY <1>4, <1>t, InboxesStay DEF Ping, PushInv, TypeOK, MapsAgree, maps, sent
<1>5. ASSUME NEW c \in Conns, NEW T \in SUBSET Topics, Subscribe(c, T) \/ Unsubscribe(c, T)
      PROVE PushInv'
  <2>1. /\ UNCHANGED <<sock, maps, age, sent, joined, serving>>
        /\ subs' \in [Conns -> SUBSET Topics]
    BY <1>5, <1>t DEF Subscribe, Unsubscribe, TypeOK
  <2> QED
    BY <1>t, <2>1, InboxesStay DEF PushInv, TypeOK, MapsAgree, maps, sent
<1>6. CASE Heartbeat
  <2> DEFINE silent == {c \in clients : age[c] + 1 > Limit}
             A == [c \in Conns |-> IF c \in clients THEN age[c] + 1 ELSE age[c]]
  <2>1. /\ sock' = [c \in Conns |-> IF c \in silent /\ sock[c] = "open" THEN "closing" ELSE sock[c]]
        /\ Disconnect(silent, A) /\ UNCHANGED <<sent, joined, serving>>
    BY <1>6 DEF Heartbeat
  <2>2. silent \in SUBSET Conns /\ A \in [Conns -> Nat] /\ \A c \in Conns \ silent : A[c] <= Limit
    BY <1>t DEF TypeOK
  <2>3. /\ clients' \subseteq Conns /\ registered' = clients' /\ clients' = clients \ silent
        /\ age' \in [Conns -> 0 .. Limit] /\ subs' \in [Conns -> SUBSET Topics]
    <3> HIDE DEF silent, A
    <3> QED BY <2>1, <2>2, DisconnectStep
  <2> HIDE DEF silent, A
  <2>4. TypeOK'
    BY <1>t, <2>1, <2>3 DEF TypeOK, sent
  <2>5. MapsAgree'
    BY <1>t, <2>1, <2>3 DEF TypeOK, MapsAgree
  <2>6. Delivered' /\ Silent'
    BY <1>t, <2>1, InboxesStay DEF TypeOK
  <2> QED
    BY <2>4, <2>5, <2>6 DEF PushInv
<1>7. CASE Shutdown
  <2>1. /\ sock' = [c \in Conns |-> IF c \in clients /\ sock[c] = "open" THEN "closing" ELSE sock[c]]
        /\ UNCHANGED <<maps, age, subs, sent, joined>> /\ serving' = FALSE
    BY <1>7 DEF Shutdown
  <2>2. TypeOK'
    BY <1>t, <2>1 DEF TypeOK, maps, sent
  <2>3. MapsAgree'
    BY <1>t, <2>1 DEF TypeOK, MapsAgree, maps
  <2>4. Delivered' /\ Silent'
    BY <1>t, <2>1, InboxesStay DEF TypeOK
  <2> QED
    BY <2>2, <2>3, <2>4 DEF PushInv
<1>8. ASSUME NEW k \in Kinds, Broadcast(k) PROVE PushInv'
  <2>1. /\ LogEvent(Len(to) + 1) /\ Send(registered, All)
        /\ UNCHANGED <<sock, maps, age, subs, joined, unsent, serving>>
    BY <1>8 DEF Broadcast
  <2>2. /\ to' \in Seq(Users \union {All}) /\ Len(to') = Len(to) + 1
        /\ inbox' \in [Conns -> SUBSET (1 .. Len(to'))]
        /\ Delivered' /\ Silent'
    BY <1>t, <2>1, SendStep DEF MapsAgree
  <2>3. eventLog' \in Seq(1 .. Len(to')) /\ Len(eventLog') <= MaxLog
    <3>1. /\ eventLog \in Seq(1 .. Len(to)) /\ Len(to) \in Nat
          /\ Len(eventLog) \in Nat /\ Len(eventLog) <= MaxLog
      BY <1>t, LenProperties DEF TypeOK
    <3>2. eventLog \in Seq(1 .. Len(to'))
      BY <2>2, <3>1, SeqMonotonic
    <3> DEFINE l == Append(eventLog, Len(to) + 1)
    <3>3. l \in Seq(1 .. Len(to')) /\ Len(l) = Len(eventLog) + 1
      BY <2>2, <3>1, <3>2, AppendProperties
    <3>4. eventLog' = IF Len(l) > MaxLog THEN Tail(l) ELSE l
      BY <2>1 DEF LogEvent
    <3> HIDE DEF l
    <3>5. l # <<>>
      <4>1. Len(l) # 0
        BY <3>1, <3>3
      <4> QED
        BY <4>1, EmptySeq
    <3>6. Tail(l) \in Seq(1 .. Len(to')) /\ Len(Tail(l)) = Len(l) - 1
      BY <3>3, <3>5, HeadTailProperties
    <3>7. CASE Len(l) > MaxLog
      <4>1. eventLog' = Tail(l) /\ Len(eventLog') = Len(l) - 1
        BY <3>4, <3>6, <3>7
      <4> QED
        BY <3>1, <3>3, <3>6, <4>1
    <3>8. CASE Len(l) <= MaxLog
      <4>1. eventLog' = l
        BY <3>1, <3>3, <3>4, <3>8
      <4> QED
        BY <3>3, <3>8, <4>1
    <3> QED
      BY <3>1, <3>3, <3>7, <3>8
  <2>4. joined' \in [Conns -> 0 .. Len(to')]
    BY <1>t, <2>1, <2>2, LenProperties DEF TypeOK
  <2>5. TypeOK' /\ MapsAgree'
    BY <1>t, <2>1, <2>2, <2>3, <2>4 DEF TypeOK, MapsAgree, maps
  <2> QED
    BY <2>2, <2>5 DEF PushInv
<1>9. ASSUME NEW u \in Users, SendToUser(u) PROVE PushInv'
  <2>1. /\ Send({c \in registered : Owner[c] = u}, u)
        /\ UNCHANGED <<sock, maps, age, subs, joined, eventLog, unsent, serving>>
    BY <1>9 DEF SendToUser
  <2>2. /\ to' \in Seq(Users \union {All}) /\ Len(to') = Len(to) + 1
        /\ inbox' \in [Conns -> SUBSET (1 .. Len(to'))]
        /\ Delivered' /\ Silent'
    <3>1. \A c \in Conns : sock[c] = "open" =>
              (c \in {d \in registered : Owner[d] = u} <=> u \in {All, Owner[c]})
      BY <1>t DEF MapsAgree
    <3> QED
      BY <2>1, <3>1, SendStep
  <2>3. eventLog' \in Seq(1 .. Len(to'))
    BY <1>t, <2>1, <2>2, SeqMonotonic, LenProperties DEF TypeOK
  <2>4. joined' \in [Conns -> 0 .. Len(to')]
    BY <1>t, <2>1, <2>2, LenProperties DEF TypeOK
  <2>5. TypeOK' /\ MapsAgree'
    BY <1>t, <2>1, <2>2, <2>3, <2>4 DEF TypeOK, MapsAgree, maps
  <2> QED
    BY <2>2, <2>5 DEF PushInv
<1>10. CASE (\E k \in Kinds : DropUnparsed(k)) \/ UNCHANGED vars
  <2>1. UNCHANGED <<sock, maps, age, subs, joined, to, inbox, eventLog, serving>>
        /\ unsent' \subseteq Kinds
    BY <1>10, <1>t DEF DropUnparsed, vars, maps, sent, TypeOK
  <2> QED
    BY <1>t, <2>1 DEF PushInv, TypeOK, MapsAgree, maps, Delivered, Mine, Silent
<1> QED
  BY <1>1, <1>2, <1>3, <1>4, <1>5, <1>6, <1>7, <1>8, <1>9, <1>10 DEF Next

LEMMA PushInvariance == Spec => []PushInv
BY PushInitially, PushStep, PTL DEF Spec

(* Type correctness of Push: among others, the log of events is bounded.   *)
THEOREM PushTypeCorrect == Spec => []TypeOK
<1>1. PushInv => TypeOK
  BY DEF PushInv
<1> QED
  BY <1>1, PushInvariance, PTL

(* Server and broadcaster agree on who is connected.                       *)
THEOREM MapsAlwaysAgree == Spec => []MapsAgree
<1>1. PushInv => MapsAgree
  BY DEF PushInv
<1> QED
  BY <1>1, PushInvariance, PTL

(* Every open connection is sent what is for it, and nothing else.         *)
THEOREM AlwaysDelivered == Spec => []Delivered
<1>1. PushInv => Delivered
  BY DEF PushInv
<1> QED
  BY <1>1, PushInvariance, PTL
=============================================================================
