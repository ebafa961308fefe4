------------------------------ MODULE Dialogue ------------------------------
(***************************************************************************)
(* What the assistant promises: a conversation is a log that only its own  *)
(* user adds to and deletes; the model is shown such a log, and what it    *)
(* answers is added only to a log that goes on from what it was shown; a   *)
(* request adds or deletes at most once, and a chat that was answered has  *)
(* added; a conversation that was deleted is empty and stays so.           *)
(*                                                                         *)
(* Assistant is shown to implement this specification, although its        *)
(* requests interleave between any two calls, calls fail after they were   *)
(* applied, and processes die.                                             *)
(***************************************************************************)
EXTENDS Naturals, Sequences

CONSTANTS
    Chats, Deletes,  \* requests, to talk and to delete; a log is named by
                     \* the chat that began it
    Owner            \* Owner[r], whose they are

VARIABLES
    state,     \* state[k], whether log k is there
    log,       \* log[k], the chats whose exchanges it holds
    shown,     \* shown[r], the log the model was shown for chat r
    closed,    \* the requests that will do nothing any more
    answered   \* the chats whose client has the answer

dialogueVars == <<state, log, shown, closed, answered>>

Prefix(s, t) == Len(s) <= Len(t) /\ \A i \in 1 .. Len(s) : s[i] = t[i]

DialogueInit ==
    /\ state = [k \in Chats |-> "none"] /\ log = [k \in Chats |-> <<>>]
    /\ shown = [r \in Chats |-> <<>>]
    /\ closed = {} /\ answered = {}

MayUse(r, k) == r \notin closed /\ state[k] = "live" /\ Owner[k] = Owner[r]

Begin(r) ==
    /\ r \notin closed /\ state[r] = "none"
    /\ state' = [state EXCEPT ![r] = "live"]
    /\ closed' \in {closed, closed \union {r}}
    /\ UNCHANGED <<log, shown, answered>>

Show(r, k) ==
    /\ MayUse(r, k)
    /\ shown' = [shown EXCEPT ![r] = log[k]]
    /\ UNCHANGED <<state, log, closed, answered>>

Add(r, k) ==
    /\ MayUse(r, k)
    /\ Prefix(shown[r], log[k])
    /\ log' = [log EXCEPT ![k] = Append(@, r)]
    /\ closed' = closed \union {r}
    /\ answered' \in {answered, answered \union {r}}
    /\ UNCHANGED <<state, shown>>

Erase(r, k) ==
    /\ MayUse(r, k)
    /\ state' = [state EXCEPT ![k] = "deleted"]
    /\ log' = [log EXCEPT ![k] = <<>>]
    /\ closed' = closed \union {r}
    /\ UNCHANGED <<shown, answered>>

GiveUp(R) ==
    /\ closed' = closed \union R
    /\ UNCHANGED <<state, log, shown, answered>>

DialogueNext ==
    \/ \E r \in Chats : Begin(r) \/ \E k \in Chats : Show(r, k) \/ Add(r, k)
    \/ \E r \in Deletes, k \in Chats : Erase(r, k)
    \/ \E R \in SUBSET (Chats \union Deletes) : GiveUp(R)

DialogueSpec == DialogueInit /\ [][DialogueNext]_dialogueVars
=============================================================================
