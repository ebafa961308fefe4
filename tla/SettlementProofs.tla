-------------------------- MODULE SettlementProofs --------------------------
(***************************************************************************)
(* VerdictsAgree holds for any number of calls, purchases and faults.  It  *)
(* is not inductive: one has to know, of a purchase on which nobody ever   *)
(* crossed or failed half-way, how far its one writer has come.            *)
(***************************************************************************)
EXTENDS Settlement, TLAPS

(* The rows of p when nobody is at work on it: they tell one story, and    *)
(* they have told it from the first.                                       *)
Settled(p) ==
    /\ status[p] = StatusFor(escrow[p])
    /\ verdicts[p] = IF escrow[p] = "holding" THEN {} ELSE {escrow[p]}

(* The rows of p when call c is at work on it, and nobody else is.         *)
CallOwns(c, p) ==
    /\ worker[p] \notin {"row", "escrow"}
    /\ \A d \in CallsAt(p) : d = c
    /\ at[c] = "escrow" => Settled(p) /\ Admits(c)
    /\ at[c] = "purchase" => escrow[p] = Verdict(c) /\ verdicts[p] = {Verdict(c)}

(* The rows of p while the worker is at work on it, perhaps once more.     *)
WorkerOwns(p) ==
    /\ \/ verdicts[p] = {"released"}
       \/ verdicts[p] = {} /\ status[p] = "pending" /\ escrow[p] = "holding"
    /\ escrow[p] # "refunded"
    /\ worker[p] = "escrow" => verdicts[p] = {"released"} /\ status[p] = "completed"

OneWriter(p) ==
    /\ ~AtWork(p) => Settled(p)
    /\ \A c \in CallsAt(p) : CallOwns(c, p)
    /\ worker[p] \in {"row", "escrow"} => WorkerOwns(p)

SettlementTypes ==
    /\ status \in [Purchases -> {"pending", "completed", "refunded"}]
    /\ escrow \in [Purchases -> {"holding", "released", "refunded"}]
    /\ at \in [Calls -> {"none", "find", "escrow", "purchase", "done", "failed"}]
    /\ worker \in [Purchases -> {"none", "waiting", "row", "escrow", "done"}]
    /\ verdicts \in [Purchases -> SUBSET {"released", "refunded"}]
    /\ crossed \subseteq Purchases /\ torn \subseteq Purchases

SettlementInv ==
    /\ SettlementTypes
    /\ \A p \in Purchases \ (crossed \union torn) : OneWriter(p)

-----------------------------------------------------------------------------
LEMMA SettlementInitially ==
    ASSUME NEW S \in Scenes, SettlementInit(S)
    PROVE  SettlementInv
BY DEF SettlementInit, SettlementInv, SettlementTypes, OneWriter, AtWork, CallsAt, Settled,
       StatusFor

LEMMA SettlementTypesStep ==
    ASSUME SettlementTypes, SettlementStep \/ SettlementCrash
    PROVE  SettlementTypes'
<1> USE SettlementAssumption DEF SettlementTypes
<1>1. ASSUME NEW c \in Calls, FindEscrow(c) PROVE SettlementTypes'
  BY <1>1 DEF FindEscrow, Begin, rows
<1>2. ASSUME NEW c \in Calls, SettleEscrow(c) PROVE SettlementTypes'
  BY <1>2 DEF SettleEscrow, WriteEscrow, Verdict
<1>3. ASSUME NEW c \in Calls, SettlePurchase(c) PROVE SettlementTypes'
  BY <1>3 DEF SettlePurchase, WriteStatus, StatusFor, Verdict
<1>4. ASSUME NEW c \in Calls, SettleFails(c) PROVE SettlementTypes'
  BY <1>4 DEF SettleFails, WriteStatus, WriteEscrow, StatusFor, Verdict, rows
<1>5. ASSUME NEW p \in Purchases, Validate(p) PROVE SettlementTypes'
  BY <1>5 DEF Validate, Begin, rows
<1>6. ASSUME NEW p \in Purchases, UpdateRow(p) PROVE SettlementTypes'
  BY <1>6 DEF UpdateRow, WriteStatus, StatusFor
<1>7. ASSUME NEW p \in Purchases, UpdateEscrow(p) PROVE SettlementTypes'
  BY <1>7 DEF UpdateEscrow, WriteEscrow
<1>8. ASSUME NEW p \in Purchases, UpdateFails(p) PROVE SettlementTypes'
  BY <1>8 DEF UpdateFails, WriteStatus, WriteEscrow, StatusFor, rows
<1>9. CASE SettlementCrash
  BY <1>9 DEF SettlementCrash, rows
<1> QED
  BY <1>1, <1>2, <1>3, <1>4, <1>5, <1>6, <1>7, <1>8, <1>9 DEF SettlementStep

(* A step of somebody who is no writer of the purchase.                    *)
LEMMA WriterStays ==
    ASSUME SettlementTypes, NEW p \in Purchases, OneWriter(p),
           status'[p] = status[p], escrow'[p] = escrow[p], verdicts'[p] = verdicts[p],
           worker'[p] = worker[p],
           CallsAt(p)' = CallsAt(p), \A c \in CallsAt(p) : at'[c] = at[c]
    PROVE  OneWriter(p)'
<1>1. \A c \in CallsAt(p) : For[c] = p
  BY DEF CallsAt
<1>2. Settled(p)' = Settled(p) /\ AtWork(p)' = AtWork(p)
  BY DEF Settled, AtWork
<1> QED
  BY <1>1, <1>2 DEF OneWriter, AtWork, Settled, CallOwns, WorkerOwns, Admits

LEMMA OthersKeep ==
    ASSUME SettlementTypes, NEW p \in Purchases, OneWriter(p),
           status'[p] = status[p], escrow'[p] = escrow[p], verdicts'[p] = verdicts[p],
           worker'[p] = worker[p],
           \A c \in Calls : For[c] = p => at'[c] = at[c]
    PROVE  OneWriter(p)'
<1>1. CallsAt(p)' = CallsAt(p)
  BY DEF CallsAt
<1>2. \A c \in CallsAt(p) : at'[c] = at[c]
  BY DEF CallsAt
<1> QED
  BY <1>1, <1>2, WriterStays

LEMMA SettlementInvStep ==
    ASSUME SettlementInv, [SettlementStep \/ SettlementCrash]_settlement
    PROVE  SettlementInv'
<1>u. CASE UNCHANGED settlement
  <2>1. SettlementTypes'
    BY <1>u DEF settlement, rows, SettlementInv, SettlementTypes
  <2>2. \A p \in Purchases \ (crossed \union torn) : OneWriter(p)'
    BY <1>u, OthersKeep DEF settlement, rows, SettlementInv
  <2> QED
    BY <1>u, <2>1, <2>2 DEF settlement, SettlementInv
<1> SUFFICES ASSUME SettlementStep \/ SettlementCrash PROVE SettlementInv'
  BY <1>u
<1>t. SettlementTypes /\ SettlementTypes'
  BY SettlementTypesStep DEF SettlementInv
<1> SUFFICES ASSUME NEW p \in Purchases, p \notin crossed', p \notin torn'
             PROVE  OneWriter(p)'
  BY <1>t DEF SettlementInv
<1> USE SettlementAssumption
<1>1. ASSUME NEW c \in Calls, FindEscrow(c) PROVE OneWriter(p)'
  <2>0. p \notin torn /\ p \notin crossed
    BY <1>1 DEF FindEscrow, Begin
  <2>1. OneWriter(p)
    BY <2>0 DEF SettlementInv
  <2>2. CASE For[c] # p
    BY <1>1, <1>t, <2>1, <2>2, OthersKeep DEF FindEscrow, rows, SettlementTypes
  <2>3. CASE For[c] = p /\ ~Admits(c)
    <3>1. CallsAt(p)' = CallsAt(p)
      BY <1>1, <1>t, <2>3 DEF FindEscrow, CallsAt, SettlementTypes
    <3>2. \A d \in CallsAt(p) : at'[d] = at[d]
      BY <1>1, <1>t, <2>3 DEF FindEscrow, CallsAt, SettlementTypes
    <3>3. status' = status /\ escrow' = escrow /\ verdicts' = verdicts /\ worker' = worker
      BY <1>1 DEF FindEscrow, rows
    <3> QED
      BY <1>t, <2>1, <3>1, <3>2, <3>3, WriterStays
  <2>4. CASE For[c] = p /\ Admits(c)
    <3>1. ~AtWork(p)
      BY <1>1, <2>4 DEF FindEscrow, Begin
    <3>2. CallsAt(p)' = {c} /\ at'[c] = "escrow"
      BY <1>1, <1>t, <2>4, <3>1 DEF FindEscrow, CallsAt, AtWork, SettlementTypes
    <3>3. Settled(p)' /\ Admits(c)' /\ worker'[p] \notin {"row", "escrow"}
      BY <1>1, <2>1, <2>4, <3>1 DEF FindEscrow, rows, OneWriter, Settled, Admits, AtWork
    <3> QED
      BY <3>2, <3>3 DEF OneWriter, AtWork, CallOwns
  <2> QED BY <2>2, <2>3, <2>4
<1>2. ASSUME NEW c \in Calls, SettleEscrow(c) PROVE OneWriter(p)'
  <2>1. OneWriter(p)
    BY <1>2 DEF SettlementInv, SettleEscrow
  <2>2. CASE For[c] # p
    BY <1>2, <1>t, <2>1, <2>2, OthersKeep DEF SettleEscrow, WriteEscrow, SettlementTypes
  <2>3. CASE For[c] = p
    <3>1. c \in CallsAt(p) /\ CallOwns(c, p)
      BY <1>2, <2>1, <2>3 DEF SettleEscrow, CallsAt, OneWriter
    <3>2. CallsAt(p)' = {c} /\ at'[c] = "purchase" /\ worker'[p] \notin {"row", "escrow"}
      BY <1>2, <1>t, <2>3, <3>1 DEF SettleEscrow, CallsAt, CallOwns, SettlementTypes
    <3>3. escrow'[p] = Verdict(c) /\ verdicts'[p] = verdicts[p] \union {Verdict(c)}
      BY <1>2, <1>t, <2>3 DEF SettleEscrow, WriteEscrow, SettlementTypes
    <3>4. verdicts[p] \subseteq {Verdict(c)}
      BY <1>2, <1>t, <2>3, <3>1
         DEF SettleEscrow, CallOwns, Settled, Admits, Verdict, SettlementTypes
    <3> QED
      BY <3>2, <3>3, <3>4 DEF OneWriter, AtWork, CallOwns
  <2> QED BY <2>2, <2>3
<1>3. ASSUME NEW c \in Calls, SettlePurchase(c) PROVE OneWriter(p)'
  <2>1. OneWriter(p)
    BY <1>3 DEF SettlementInv, SettlePurchase
  <2>2. CASE For[c] # p
    BY <1>3, <1>t, <2>1, <2>2, OthersKeep DEF SettlePurchase, WriteStatus, SettlementTypes
  <2>3. CASE For[c] = p
    <3>1. c \in CallsAt(p) /\ CallOwns(c, p)
      BY <1>3, <2>1, <2>3 DEF SettlePurchase, CallsAt, OneWriter
    <3>2. CallsAt(p)' = {} /\ worker'[p] \notin {"row", "escrow"}
      BY <1>3, <1>t, <2>3, <3>1 DEF SettlePurchase, CallsAt, CallOwns, SettlementTypes
    <3>3. /\ escrow'[p] = Verdict(c) /\ verdicts'[p] = {Verdict(c)}
          /\ status'[p] = StatusFor(Verdict(c))
      BY <1>3, <1>t, <2>3, <3>1 DEF SettlePurchase, WriteStatus, CallOwns, SettlementTypes
    <3> QED
      BY <3>2, <3>3 DEF OneWriter, AtWork, Settled, Verdict
  <2> QED BY <2>2, <2>3
<1>4. ASSUME NEW c \in Calls, SettleFails(c) PROVE OneWriter(p)'
  <2>1. p \notin torn /\ p \notin crossed
    BY <1>4 DEF SettleFails
  <2>2. OneWriter(p)
    BY <2>1 DEF SettlementInv
  <2>3. CASE For[c] # p
    BY <1>4, <1>t, <2>2, <2>3, OthersKeep
       DEF SettleFails, WriteEscrow, WriteStatus, rows, SettlementTypes
  <2>4. CASE For[c] = p
    <3>1. at[c] = "escrow" /\ UNCHANGED <<rows, worker>>
      BY <1>4, <2>4 DEF SettleFails
    <3>2. c \in CallsAt(p) /\ CallOwns(c, p)
      BY <2>2, <2>4, <3>1 DEF CallsAt, OneWriter
    <3>3. CallsAt(p)' = {} /\ worker'[p] \notin {"row", "escrow"}
      BY <1>4, <1>t, <2>4, <3>1, <3>2 DEF SettleFails, CallsAt, CallOwns, SettlementTypes
    <3> QED
      BY <3>1, <3>2, <3>3 DEF rows, OneWriter, AtWork, Settled, CallOwns
  <2> QED BY <2>3, <2>4
<1>5. ASSUME NEW q \in Purchases, Validate(q) PROVE OneWriter(p)'
  <2>1. p \notin torn /\ p \notin crossed /\ (p = q => ~AtWork(p))
    BY <1>5 DEF Validate, Begin
  <2>2. OneWriter(p)
    BY <2>1 DEF SettlementInv
  <2>3. CASE p # q
    BY <1>5, <1>t, <2>2, <2>3, OthersKeep DEF Validate, rows, SettlementTypes
  <2>4. CASE p = q
    <3>1. Settled(p) /\ CallsAt(p) = {}
      BY <2>1, <2>2, <2>4 DEF OneWriter, AtWork
    <3>2. CallsAt(p)' = {} /\ worker'[p] = "row"
      BY <1>5, <1>t, <2>4, <3>1 DEF Validate, CallsAt, SettlementTypes
    <3>3. /\ status'[p] = "pending" /\ escrow'[p] = escrow[p] /\ verdicts'[p] = verdicts[p]
          /\ status[p] = "pending"
      BY <1>5, <2>4 DEF Validate, rows
    <3>4. escrow[p] = "holding" /\ verdicts[p] = {}
      BY <1>t, <3>1, <3>3 DEF Settled, StatusFor, SettlementTypes
    <3> QED
      BY <3>2, <3>3, <3>4 DEF OneWriter, AtWork, WorkerOwns
  <2> QED BY <2>3, <2>4
<1>6. ASSUME NEW q \in Purchases, UpdateRow(q) \/ UpdateEscrow(q) PROVE OneWriter(p)'
  <2>1. OneWriter(p)
    BY <1>6 DEF SettlementInv, UpdateRow, UpdateEscrow
  <2>2. CASE p # q
    BY <1>6, <1>t, <2>1, <2>2, OthersKeep
       DEF UpdateRow, UpdateEscrow, WriteStatus, WriteEscrow, SettlementTypes
  <2>3. CASE p = q
    <3>1. WorkerOwns(p) /\ CallsAt(p) = {} /\ CallsAt(p)' = {}
      BY <1>6, <2>1, <2>3 DEF UpdateRow, UpdateEscrow, OneWriter, CallOwns, CallsAt
    <3>2. CASE UpdateRow(q)
      <4>1. worker'[p] = "escrow" /\ status'[p] = "completed" /\ escrow'[p] = escrow[p]
        BY <1>t, <2>3, <3>2 DEF UpdateRow, WriteStatus, StatusFor, SettlementTypes
      <4>2. verdicts'[p] = verdicts[p] \union {"released"}
        BY <1>t, <2>3, <3>2 DEF UpdateRow, WriteStatus, SettlementTypes
      <4> QED
        BY <3>1, <4>1, <4>2 DEF OneWriter, AtWork, WorkerOwns
    <3>3. CASE UpdateEscrow(q)
      <4>1. /\ worker'[p] = "done" /\ status'[p] = status[p] /\ escrow'[p] = "released"
            /\ worker[p] = "escrow"
        BY <1>t, <2>3, <3>3 DEF UpdateEscrow, WriteEscrow, SettlementTypes
      <4>2. verdicts'[p] = verdicts[p] \union {"released"}
        BY <1>t, <2>3, <3>3 DEF UpdateEscrow, WriteEscrow, SettlementTypes
      <4> QED
        BY <3>1, <4>1, <4>2 DEF OneWriter, AtWork, WorkerOwns, Settled, StatusFor
    <3> QED BY <1>6, <3>2, <3>3
  <2> QED BY <2>2, <2>3
<1>7. ASSUME NEW q \in Purchases, UpdateFails(q) PROVE OneWriter(p)'
  <2>1. p \notin torn /\ p \notin crossed
    BY <1>7 DEF UpdateFails
  <2>2. OneWriter(p)
    BY <2>1 DEF SettlementInv
  <2>3. CASE p # q
    BY <1>7, <1>t, <2>2, <2>3, OthersKeep
       DEF UpdateFails, WriteStatus, WriteEscrow, rows, SettlementTypes
  <2>4. CASE p = q
    <3>1. WorkerOwns(p) /\ CallsAt(p) = {} /\ CallsAt(p)' = {}
      BY <1>7, <2>2, <2>4 DEF UpdateFails, OneWriter, CallOwns, CallsAt
    <3>2. WorkerOwns(p)' \/ worker'[p] # "escrow"
      BY <1>t, <1>7, <2>4 DEF UpdateFails, SettlementTypes
    <3>3. /\ \/ verdicts'[p] = {"released"}
             \/ verdicts'[p] = {} /\ status'[p] = "pending" /\ escrow'[p] = "holding"
          /\ escrow'[p] # "refunded"
      BY <1>t, <1>7, <2>4, <3>1
         DEF UpdateFails, WorkerOwns, WriteStatus, WriteEscrow, rows, SettlementTypes
    <3>4. \/ worker'[p] = "row"
          \/ worker'[p] = "waiting" /\ verdicts'[p] = {}
      BY <1>t, <1>7, <2>4 DEF UpdateFails, SettlementTypes
    <3> QED
      BY <3>1, <3>3, <3>4 DEF OneWriter, AtWork, WorkerOwns, Settled, StatusFor
  <2> QED BY <2>3, <2>4
<1>8. CASE SettlementCrash
  <2>1. p \notin torn /\ p \notin crossed
    BY <1>8 DEF SettlementCrash
  <2>2. OneWriter(p)
    BY <2>1 DEF SettlementInv
  <2>3. /\ UNCHANGED rows
        /\ worker[p] \in {"row", "escrow"} => verdicts[p] = {}
        /\ \A c \in CallsAt(p) : at[c] # "purchase"
    BY <1>8 DEF SettlementCrash
  <2>4. CallsAt(p)' = {} /\ worker'[p] \notin {"row", "escrow"}
    BY <1>8, <1>t DEF SettlementCrash, CallsAt, SettlementTypes
  <2>5. Settled(p)
    <3>1. CASE worker[p] \in {"row", "escrow"}
      BY <2>2, <2>3, <3>1 DEF OneWriter, WorkerOwns, Settled, StatusFor
    <3>2. ASSUME NEW c \in CallsAt(p) PROVE Settled(p)
      BY <2>2, <2>3, <3>2 DEF OneWriter, CallOwns, CallsAt
    <3> QED BY <2>2, <3>1, <3>2 DEF OneWriter, AtWork
  <2> QED
    BY <2>3, <2>4, <2>5 DEF rows, OneWriter, AtWork, Settled
<1> QED
  BY <1>1, <1>2, <1>3, <1>4, <1>5, <1>6, <1>7, <1>8 DEF SettlementStep

LEMMA SettlementInvImplies ==
    ASSUME SettlementInv
    PROVE  VerdictsAgree
<1> SUFFICES ASSUME NEW p \in Purchases, p \notin crossed, p \notin torn
             PROVE  /\ ~({"released", "refunded"} \subseteq verdicts[p])
                    /\ ~AtWork(p) => status[p] = StatusFor(escrow[p])
  BY DEF VerdictsAgree
<1>1. OneWriter(p)
  BY DEF SettlementInv
<1>2. CASE ~AtWork(p)
  BY <1>1, <1>2 DEF OneWriter, Settled
<1>3. CASE worker[p] \in {"row", "escrow"}
  BY <1>1, <1>3 DEF OneWriter, WorkerOwns, AtWork
<1>4. ASSUME NEW c \in CallsAt(p) PROVE ~({"released", "refunded"} \subseteq verdicts[p])
  BY <1>1, <1>4 DEF OneWriter, CallOwns, CallsAt, Settled
<1> QED
  BY <1>2, <1>3, <1>4 DEF AtWork

(* Release, refund and fulfillment of a purchase, one after the other in   *)
(* any order and with any number of calls, never contradict each other in  *)
(* the database; only calls that cross, or one that fails half-way, do.    *)
THEOREM VerdictsNeverContradict == SettlementSpec => []VerdictsAgree
<1>1. ASSUME NEW S \in Scenes, SettlementInit(S) PROVE SettlementInv
  BY <1>1, SettlementInitially
<1>2. SettlementInv /\ [SettlementStep \/ SettlementCrash]_<<settlement, faults>>
        => SettlementInv'
  BY SettlementInvStep DEF settlement
<1>3. SettlementInv => VerdictsAgree
  BY SettlementInvImplies
<1>4. (\E S \in Scenes : SettlementInit(S)) => SettlementInv
  BY <1>1
<1> QED
  BY <1>2, <1>3, <1>4, PTL DEF SettlementSpec

-----------------------------------------------------------------------------
(* What a row tells was written as a verdict; verdicts are not forgotten.  *)
RowsTold ==
    \A p \in Purchases, v \in {"released", "refunded"} :
        status[p] = StatusFor(v) \/ escrow[p] = v => v \in verdicts[p]

(* A verdict is written in one row, or in none.                            *)
OneRowWritten ==
    \/ \E p \in Purchases, v \in {"released", "refunded"} :
          \/ WriteStatus(p, v) /\ UNCHANGED escrow
          \/ WriteEscrow(p, v) /\ UNCHANGED status
    \/ UNCHANGED rows

LEMMA SettlementWrites ==
    ASSUME [SettlementStep \/ SettlementCrash]_settlement
    PROVE  OneRowWritten
<1>1. ASSUME NEW c \in Calls, SettleEscrow(c) \/ SettlePurchase(c) \/ SettleFails(c)
      PROVE  OneRowWritten
  <2>1. For[c] \in Purchases /\ Verdict(c) \in {"released", "refunded"}
    BY SettlementAssumption DEF Verdict
  <2>2. \/ WriteStatus(For[c], Verdict(c)) /\ UNCHANGED escrow
        \/ WriteEscrow(For[c], Verdict(c)) /\ UNCHANGED status
        \/ UNCHANGED rows
    BY <1>1 DEF SettleEscrow, SettlePurchase, SettleFails
  <2> QED BY <2>1, <2>2 DEF OneRowWritten
<1>2. ASSUME NEW p \in Purchases, UpdateRow(p) \/ UpdateEscrow(p) \/ UpdateFails(p)
      PROVE  OneRowWritten
  BY <1>2 DEF UpdateRow, UpdateEscrow, UpdateFails, OneRowWritten
<1>3. CASE \/ \E c \in Calls : FindEscrow(c)
           \/ \E p \in Purchases : Validate(p)
           \/ SettlementCrash
           \/ UNCHANGED settlement
  BY <1>3 DEF FindEscrow, Validate, SettlementCrash, settlement, OneRowWritten
<1> QED BY <1>1, <1>2, <1>3 DEF SettlementStep

LEMMA VerdictsGrow ==
    ASSUME SettlementTypes, OneRowWritten, NEW p \in Purchases
    PROVE  verdicts[p] \subseteq verdicts'[p]
BY DEF SettlementTypes, OneRowWritten, WriteStatus, WriteEscrow, rows

LEMMA RowsToldStep ==
    ASSUME SettlementTypes, RowsTold, OneRowWritten
    PROVE  RowsTold'
<1> SUFFICES ASSUME NEW p \in Purchases, NEW v \in {"released", "refunded"},
                    status'[p] = StatusFor(v) \/ escrow'[p] = v
             PROVE  v \in verdicts'[p]
  BY DEF RowsTold
<1>1. CASE UNCHANGED rows
  BY <1>1 DEF rows, RowsTold
<1>2. ASSUME NEW q \in Purchases, NEW w \in {"released", "refunded"},
             WriteStatus(q, w), UNCHANGED escrow
      PROVE  v \in verdicts'[p]
  BY <1>2 DEF WriteStatus, StatusFor, RowsTold, SettlementTypes
<1>3. ASSUME NEW q \in Purchases, NEW w \in {"released", "refunded"},
             WriteEscrow(q, w), UNCHANGED status
      PROVE  v \in verdicts'[p]
  BY <1>3 DEF WriteEscrow, RowsTold, SettlementTypes
<1> QED BY <1>1, <1>2, <1>3 DEF OneRowWritten

LEMMA RowsToldInitially ==
    ASSUME NEW S \in Scenes, SettlementInit(S)
    PROVE  RowsTold
BY DEF SettlementInit, RowsTold, StatusFor

Stay(p) ==
    /\ status[p] # "pending" => status'[p] = status[p]
    /\ escrow[p] # "holding" => escrow'[p] = escrow[p]

(* A step of a writer of p repeats what p's rows tell; other steps do not  *)
(* touch them.                                                             *)
LEMMA VerdictsStayStep ==
    ASSUME SettlementInv, RowsTold, [SettlementStep \/ SettlementCrash]_settlement,
           NEW p \in Purchases, p \notin crossed', p \notin torn'
    PROVE  Stay(p)
<1>t. SettlementTypes
  BY DEF SettlementInv
<1>1. CASE status'[p] = status[p] /\ escrow'[p] = escrow[p]
  BY <1>1 DEF Stay
<1>2. ASSUME NEW c \in Calls, SettleEscrow(c) \/ SettlePurchase(c) PROVE Stay(p)
  <2>1. OneWriter(p)
    BY <1>2 DEF SettlementInv, SettleEscrow, SettlePurchase
  <2>2. CASE For[c] # p
    BY <1>t, <1>2, <2>2
       DEF SettleEscrow, SettlePurchase, WriteEscrow, WriteStatus, SettlementTypes, Stay
  <2>3. CASE For[c] = p /\ SettleEscrow(c)
    <3>1. Admits(c) /\ status'[p] = status[p] /\ escrow'[p] = Verdict(c)
      BY <1>t, <2>1, <2>3
         DEF SettleEscrow, WriteEscrow, CallsAt, OneWriter, CallOwns, SettlementTypes
    <3> QED BY <1>t, <2>3, <3>1 DEF Admits, Verdict, Stay, SettlementTypes
  <2>4. CASE For[c] = p /\ SettlePurchase(c)
    <3>1. verdicts[p] = {Verdict(c)}
      BY <2>1, <2>4 DEF SettlePurchase, CallsAt, OneWriter, CallOwns
    <3>2. escrow'[p] = escrow[p] /\ status'[p] = StatusFor(Verdict(c))
      BY <1>t, <2>4 DEF SettlePurchase, WriteStatus, SettlementTypes
    <3>3. status[p] # "pending" => status[p] = StatusFor(Verdict(c))
      <4>1. \A v \in {"released", "refunded"} : status[p] = StatusFor(v) => v = Verdict(c)
        BY <3>1 DEF RowsTold
      <4> QED BY <1>t, <4>1 DEF StatusFor, SettlementTypes
    <3> QED BY <3>2, <3>3 DEF Stay
  <2> QED BY <1>2, <2>2, <2>3, <2>4
<1>3. ASSUME NEW c \in Calls, SettleFails(c) PROVE Stay(p)
  BY <1>t, <1>3
     DEF SettleFails, WriteEscrow, WriteStatus, rows, SettlementTypes, Stay
<1>4. ASSUME NEW q \in Purchases, UpdateRow(q) \/ UpdateEscrow(q) \/ UpdateFails(q)
      PROVE  Stay(p)
  <2>1. OneWriter(p)
    BY <1>4 DEF SettlementInv, UpdateRow, UpdateEscrow, UpdateFails
  <2>2. CASE q # p
    BY <1>t, <1>4, <2>2 DEF UpdateRow, UpdateEscrow, UpdateFails, WriteEscrow, WriteStatus, rows,
                            SettlementTypes, Stay
  <2>3. CASE q = p
    <3>1. WorkerOwns(p)
      BY <1>4, <2>1, <2>3 DEF UpdateRow, UpdateEscrow, UpdateFails, OneWriter
    <3>2. status[p] # "refunded" /\ escrow[p] # "refunded"
      BY <3>1 DEF WorkerOwns, RowsTold, StatusFor
    <3>3. /\ status'[p] \in {status[p], "completed"}
          /\ escrow'[p] \in {escrow[p], "released"}
      BY <1>t, <1>4, <2>3
         DEF UpdateRow, UpdateEscrow, UpdateFails, WriteEscrow, WriteStatus, StatusFor, rows,
             SettlementTypes
    <3> QED BY <1>t, <3>2, <3>3 DEF Stay, SettlementTypes
  <2> QED BY <2>2, <2>3
<1>5. CASE \/ \E c \in Calls : FindEscrow(c)
           \/ \E q \in Purchases : Validate(q)
           \/ SettlementCrash
           \/ UNCHANGED settlement
  BY <1>5 DEF FindEscrow, Validate, SettlementCrash, settlement, rows, Stay
<1> QED BY <1>2, <1>3, <1>4, <1>5 DEF SettlementStep

(* No verdict in a row is ever written over by another, but on a purchase  *)
(* where calls crossed or one failed half-way.                             *)
THEOREM VerdictsNeverChange == SettlementSpec => VerdictsStay
<1>1. ASSUME NEW S \in Scenes, SettlementInit(S) PROVE SettlementInv /\ RowsTold
  BY <1>1, SettlementInitially, RowsToldInitially
<1>2. (\E S \in Scenes : SettlementInit(S)) => SettlementInv /\ RowsTold
  BY <1>1
<1>3. SettlementInv /\ RowsTold /\ [SettlementStep \/ SettlementCrash]_<<settlement, faults>>
        => (SettlementInv /\ RowsTold)'
  BY SettlementInvStep, SettlementWrites, RowsToldStep DEF settlement, SettlementInv
<1>4. SettlementInv /\ RowsTold /\ [SettlementStep \/ SettlementCrash]_<<settlement, faults>>
        => [\A p \in Purchases \ (crossed' \union torn') :
              /\ status[p] # "pending" => status'[p] = status[p]
              /\ escrow[p] # "holding" => escrow'[p] = escrow[p]]_<<settlement, faults>>
  BY VerdictsStayStep DEF settlement, Stay
<1> QED
  BY <1>2, <1>3, <1>4, PTL DEF SettlementSpec, VerdictsStay
=============================================================================
