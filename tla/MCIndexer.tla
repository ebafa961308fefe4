----------------------------- MODULE MCIndexer ------------------------------
(***************************************************************************)
(* Constants for Indexer.  The height of the first event is no number, that *)
(* of the third goes backwards, and the type of the fourth is not mapped.  *)
(* One loop meets all of them with one fault or mishap, or the first one   *)
(* with three; two loops meet the first two events.                        *)
(***************************************************************************)
EXTENDS Indexer

CONSTANTS A, B

MCKnown == {1, 2, 3}
MCHeight == [e \in 1 .. N |-> <<NaN, 1, 0, 1>>[e]]
MCScenes ==
    {[events |-> 4, loops |-> {A}, faults |-> 1],
     [events |-> 1, loops |-> {A}, faults |-> 3],
     [events |-> 2, loops |-> {A, B}, faults |-> 1]}
=============================================================================
