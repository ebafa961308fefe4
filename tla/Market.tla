------------------------------- MODULE Market -------------------------------
(***************************************************************************)
(* What a seller's upload and publish promise: a file goes on the market   *)
(* once, with a blob that can be downloaded and the word of its own seller; *)
(* what is on the market is never withdrawn or exchanged; the key of that  *)
(* blob, and of no other upload of the file, may be put beside it; and a   *)
(* seller is told of success only when both are there.                     *)
(*                                                                         *)
(* Listing is shown to implement this specification, although there any    *)
(* number of calls upload and publish the same file at the same time, the  *)
(* chain answers late, and staged uploads are cleaned up beside them.      *)
(***************************************************************************)
CONSTANTS
    Contents,  \* the files
    Uploads,   \* the uploads of them ...
    Content,   \* ... Content[u] is the file that u uploads
    None

VARIABLES
    kept,      \* the uploads whose blob can be downloaded
    endorsed,  \* the uploads that their own seller has put on the chain
    offered,   \* offered[h], the upload that is on the market for file h
    keyed,     \* keyed[h], the upload whose key the market holds for file h
    told       \* the uploads whose seller was told that they are published

marketVars == <<kept, endorsed, offered, keyed, told>>

MarketInit ==
    /\ kept = {} /\ endorsed = {} /\ told = {}
    /\ offered = [h \in Contents |-> None]
    /\ keyed = [h \in Contents |-> None]

Keep(u) == kept' = kept \union {u} /\ UNCHANGED <<endorsed, offered, keyed, told>>

Endorse(u) ==
    /\ u \in kept
    /\ endorsed' = endorsed \union {u}
    /\ UNCHANGED <<kept, offered, keyed, told>>

Offer(u) ==
    /\ u \in kept \intersect endorsed
    /\ offered[Content[u]] = None
    /\ offered' = [offered EXCEPT ![Content[u]] = u]
    /\ UNCHANGED <<kept, endorsed, keyed, told>>

Key(h) ==
    /\ offered[h] # None
    /\ keyed' = [keyed EXCEPT ![h] = offered[h]]
    /\ UNCHANGED <<kept, endorsed, offered, told>>

Tell(u) ==
    /\ keyed[Content[u]] = u
    /\ told' = told \union {u}
    /\ UNCHANGED <<kept, endorsed, offered, keyed>>

MarketNext ==
    \/ \E u \in Uploads : Keep(u) \/ Endorse(u) \/ Offer(u) \/ Tell(u)
    \/ \E h \in Contents : Key(h)

MarketSpec == MarketInit /\ [][MarketNext]_marketVars
=============================================================================
