---------------------------- MODULE MCAssistant -----------------------------
(***************************************************************************)
(* Constants for Assistant: three chats of two users behind one address,   *)
(* and one deletion.  The limit of the address lets two of the chats pass. *)
(***************************************************************************)
EXTENDS Assistant

CONSTANTS r1, r2, r3, d1, u1, u2

MCChats == {r1, r2, r3}
MCDeletes == {d1}
MCBy == [r \in MCChats \union MCDeletes |-> IF r = r3 THEN u2 ELSE u1]
MCPath ==
    [r \in MCChats \union MCDeletes |->
       CASE r \in {r1, r2} -> <<"ip chat", "u1 chat">>
         [] r = r3 -> <<"ip chat">>
         [] OTHER -> <<>>]
MCMax == [k \in {"ip chat", "u1 chat"} |-> IF k = "ip chat" THEN 2 ELSE 1]
=============================================================================
