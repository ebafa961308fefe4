-------------------------------- MODULE Push --------------------------------
(***************************************************************************)
(* Messages to the browsers: the WebSocket server and its broadcaster      *)
(* (src/websocket).  A connection is registered in two maps, the server's  *)
(* and the broadcaster's, when its token is good, and leaves both when its *)
(* socket closes or when it has sent no ping for too long.  Every handler  *)
(* is synchronous, so every handler is one step.                           *)
(*                                                                         *)
(* Messages are numbered in the order in which they are sent; what a client *)
(* has been sent is a set of numbers, as a socket keeps the order.  Time   *)
(* passes from one heartbeat to the next.                                  *)
(***************************************************************************)
EXTENDS Naturals, Sequences

CONSTANTS
    Conns,     \* connections that are ever made
    Users,     \* addresses
    Owner,     \* Owner[c], the address in the token of c; None: no good token
    Topics,    \* event names a client can subscribe to
    Kinds,     \* events that somebody broadcasts ...
    Given,     \* ... with the fields Given[k]
    Limit,     \* whole heartbeats in 30 seconds
    MaxLog,    \* messages kept for getRecentEvents
    MaxSent,   \* bound on the messages of a behaviour
    All, None

ASSUME PushAssumption ==
    /\ Owner \in [Conns -> Users \union {None}]
    /\ None \notin Users /\ All \notin Users /\ None # All
    /\ Kinds \subseteq DOMAIN Given
    /\ Limit \in Nat /\ MaxLog \in Nat \ {0} /\ MaxSent \in Nat

VARIABLES
    sock,       \* sock[c], the readyState of its socket
    clients,    \* the connections in the server's map ...
    registered, \* ... and in the broadcaster's
    age,        \* age[c], heartbeats since its last ping
    subs,       \* subs[c], its subscriptions
    to,         \* to[i], whom message i was for
    inbox,      \* inbox[c], the messages sent to c
    joined,     \* joined[c], the messages sent before c was registered
    eventLog,   \* the recent broadcasts
    unsent,     \* events that were not broadcast because they did not parse
    serving     \* not shut down

maps == <<clients, registered>>
sent == <<to, inbox, eventLog, unsent>>
vars == <<sock, maps, age, subs, sent, joined, serving>>

TypeOK ==
    /\ sock \in [Conns -> {"none", "open", "closing", "closed"}]
    /\ clients \subseteq Conns /\ registered \subseteq Conns
    /\ age \in [Conns -> 0 .. Limit]
    /\ subs \in [Conns -> SUBSET Topics]
    /\ to \in Seq(Users \union {All})
    /\ inbox \in [Conns -> SUBSET (1 .. Len(to))]
    /\ joined \in [Conns -> 0 .. Len(to)]
    /\ eventLog \in Seq(1 .. Len(to)) /\ Len(eventLog) <= MaxLog
    /\ unsent \subseteq Kinds
    /\ serving \in BOOLEAN

Init ==
    /\ sock = [c \in Conns |-> "none"]
    /\ clients = {} /\ registered = {}
    /\ age = [c \in Conns |-> 0]
    /\ subs = [c \in Conns |-> {}]
    /\ to = <<>> /\ inbox = [c \in Conns |-> {}] /\ joined = [c \in Conns |-> 0]
    /\ eventLog = <<>> /\ unsent = {}
    /\ serving = TRUE

-----------------------------------------------------------------------------
(* Connections.                                                            *)

Connect(c) ==
    /\ serving /\ sock[c] = "none" /\ Owner[c] # None
    /\ sock' = [sock EXCEPT ![c] = "open"]
    /\ clients' = clients \union {c}
    /\ registered' = registered \union {c}
    /\ joined' = [joined EXCEPT ![c] = Len(to)]
    /\ UNCHANGED <<age, subs, sent, serving>>

(* A connection without a good token is closed and never registered.       *)
Reject(c) ==
    /\ serving /\ sock[c] = "none" /\ Owner[c] = None
    /\ sock' = [sock EXCEPT ![c] = "closing"]
    /\ UNCHANGED <<maps, age, subs, sent, joined, serving>>

\* Mutant of Disconnect: the server's map is cleared first.
DisconnectTwice(D, A) ==
    /\ clients' = clients \ D
    /\ registered' = registered \ (D \intersect clients')
    /\ age' = [c \in Conns |-> IF c \in D THEN 0 ELSE A[c]]
    /\ subs' = [c \in Conns |-> IF c \in D THEN {} ELSE subs[c]]

(* handleDisconnect of every connection of D; those not in the map are left. *)
(* What the client object knew goes with it; A are the ages of the others. *)
Disconnect(D, A) ==
    /\ clients' = clients \ D
    /\ registered' = registered \ (D \intersect clients)
    /\ age' = [c \in Conns |-> IF c \in D THEN 0 ELSE A[c]]
    /\ subs' = [c \in Conns |-> IF c \in D THEN {} ELSE subs[c]]

(* The socket has closed, from either side.                                *)
Closed(c) ==
    /\ sock[c] \in {"open", "closing"}
    /\ sock' = [sock EXCEPT ![c] = "closed"]
    /\ Disconnect({c}, age)
    /\ UNCHANGED <<sent, joined, serving>>

(* The client starts to close: the server's socket is no longer open.      *)
ClientCloses(c) ==
    /\ sock[c] = "open"
    /\ sock' = [sock EXCEPT ![c] = "closing"]
    /\ UNCHANGED <<maps, age, subs, sent, joined, serving>>

(* A message of c arrives: its socket has not closed, and c is known.      *)
Heard(c) == sock[c] \in {"open", "closing"} /\ c \in clients

Ping(c) ==
    /\ Heard(c)
    /\ age' = [age EXCEPT ![c] = 0]
    /\ UNCHANGED <<sock, maps, subs, sent, joined, serving>>

Subscribe(c, T) ==
    /\ Heard(c)
    /\ subs' = [subs EXCEPT ![c] = @ \union T]
    /\ UNCHANGED <<sock, maps, age, sent, joined, serving>>

Unsubscribe(c, T) ==
    /\ Heard(c)
    /\ subs' = [subs EXCEPT ![c] = @ \ T]
    /\ UNCHANGED <<sock, maps, age, sent, joined, serving>>

\* Mutant of Heartbeat: who has been silent for one more.
HeartbeatLate ==
    /\ serving
    /\ LET silent == {c \in clients : age[c] > Limit}
       IN  /\ sock' = [c \in Conns |->
                         IF c \in silent /\ sock[c] = "open" THEN "closing" ELSE sock[c]]
           /\ Disconnect(silent, [c \in Conns |->
                                   IF c \in clients THEN age[c] + 1 ELSE age[c]])
    /\ UNCHANGED <<sent, joined, serving>>

\* Mutant of Heartbeat: the server's own ping counts as a sign of life.
HeartbeatRefreshes ==
    /\ serving
    /\ LET silent == {c \in clients : age[c] + 1 > Limit}
       IN  /\ sock' = [c \in Conns |->
                         IF c \in silent /\ sock[c] = "open" THEN "closing" ELSE sock[c]]
           /\ Disconnect(silent, [c \in Conns |-> IF c \in clients THEN 0 ELSE age[c]])
    /\ UNCHANGED <<sent, joined, serving>>

(* Every 15 seconds: who has been silent for more than 30 is closed and    *)
(* leaves the maps at once, the others get a ping.                         *)
Heartbeat ==
    /\ serving
    /\ LET silent == {c \in clients : age[c] + 1 > Limit}
       IN  /\ sock' = [c \in Conns |->
                         IF c \in silent /\ sock[c] = "open" THEN "closing" ELSE sock[c]]
           /\ Disconnect(silent, [c \in Conns |->
                                   IF c \in clients THEN age[c] + 1 ELSE age[c]])
    /\ UNCHANGED <<sent, joined, serving>>

Shutdown ==
    /\ serving
    /\ serving' = FALSE
    /\ sock' = [c \in Conns |->
                  IF c \in clients /\ sock[c] = "open" THEN "closing" ELSE sock[c]]
    /\ UNCHANGED <<maps, age, subs, sent, joined>>

-----------------------------------------------------------------------------
(* Messages.                                                               *)
(* The fields without which the parser of an event type returns null.      *)
DataPodPublishedSchema == {"datapod_id", "seller", "title", "category", "price"}
DataPodDelistedSchema == {"datapod_id", "seller_address"}
PurchaseRequestCreatedSchema == {"purchase_id", "datapod_id", "buyer", "seller", "price"}
PurchaseCompletedSchema == {"purchase_id", "datapod_id", "buyer", "seller", "encrypted_blob_id"}
PaymentReleasedSchema == {"seller_address", "amount"}
ReviewAddedSchema == {"datapod_id", "buyer", "rating"}

(* transformEventToMessage finds something to send.                        *)
Parses(k) ==
    \/ k = "datapod.published" /\ DataPodPublishedSchema \subseteq Given[k]
    \/ k = "datapod.delisted" /\ DataPodDelistedSchema \subseteq Given[k]
    \/ k = "purchase.created" /\ PurchaseRequestCreatedSchema \subseteq Given[k]
    \/ k = "purchase.completed" /\ PurchaseCompletedSchema \subseteq Given[k]
    \/ k = "payment.released" /\ PaymentReleasedSchema \subseteq Given[k]
    \/ k = "review.added" /\ ReviewAddedSchema \subseteq Given[k]

(* What the callers of broadcastEvent give.                                *)
PublishGives == {"datapod_id", "title", "category", "price_sui", "seller_address", "kiosk_id"}
CompletionGives == {"purchase_id", "datapod_id", "buyer_address", "seller_address", "status"}
ReleaseGives == {"seller_address", "amount_sui", "purchase_id"}
CallersGive ==
    [k \in {"datapod.published", "purchase.completed", "payment.released"} |->
       CASE k = "datapod.published" -> PublishGives
         [] k = "purchase.completed" -> CompletionGives
         [] OTHER -> ReleaseGives]

(* send() of a client does nothing when its socket is not open.            *)
Send(C, u) ==
    /\ Len(to) < MaxSent
    /\ to' = Append(to, u)
    /\ inbox' = [c \in Conns |->
                   IF c \in C /\ sock[c] = "open"
                   THEN inbox[c] \union {Len(to) + 1} ELSE inbox[c]]

LogEvent(m) ==
    LET l == Append(eventLog, m)
    IN  eventLog' = IF Len(l) > MaxLog THEN Tail(l) ELSE l

(* broadcastEvent of an event that parses: to all, whatever they subscribe *)
(* to.                                                                     *)
Broadcast(k) ==
    /\ Parses(k)
    /\ LogEvent(Len(to) + 1)
    /\ Send(registered, All)
    /\ UNCHANGED <<sock, maps, age, subs, joined, unsent, serving>>

DropUnparsed(k) ==
    /\ ~Parses(k)
    /\ unsent' = unsent \union {k}
    /\ UNCHANGED <<sock, maps, age, subs, joined, to, inbox, eventLog, serving>>

\* Mutant of SendToUser: the filter is lost.
SendToAnyUser(u) ==
    /\ Send(registered, u)
    /\ UNCHANGED <<sock, maps, age, subs, joined, eventLog, unsent, serving>>

(* broadcastToUser, and broadcastToAddress: a client's userId is its       *)
(* address.                                                                *)
SendToUser(u) ==
    /\ Send({c \in registered : Owner[c] = u}, u)
    /\ UNCHANGED <<sock, maps, age, subs, joined, eventLog, unsent, serving>>

-----------------------------------------------------------------------------
Next ==
    \/ \E c \in Conns : Connect(c) \/ Reject(c) \/ Closed(c) \/ ClientCloses(c) \/ Ping(c)
    \/ \E c \in Conns, T \in SUBSET Topics : Subscribe(c, T) \/ Unsubscribe(c, T)
    \/ Heartbeat \/ Shutdown
    \/ \E k \in Kinds : Broadcast(k) \/ DropUnparsed(k)
    \/ \E u \in Users : SendToUser(u)

Spec == Init /\ [][Next]_vars

(* The heartbeat is a setInterval.  A socket that is closing gets closed:  *)
(* ws destroys it when the peer does not answer.                           *)
FairSpec ==
    /\ Spec
    /\ WF_vars(Heartbeat)
    /\ \A c \in Conns : WF_vars(sock[c] = "closing" /\ Closed(c))

-----------------------------------------------------------------------------
(* Properties.                                                             *)

(* The two maps, of different classes and changed one after the other, hold *)
(* the same connections: every one whose socket is open, and none whose    *)
(* socket is closed or whose token was refused.                            *)
MapsAgree ==
    /\ registered = clients
    /\ \A c \in Conns :
          /\ sock[c] = "open" => c \in clients
          /\ c \in clients => sock[c] \in {"open", "closing"} /\ Owner[c] # None

(* As long as its socket is open a client has been sent everything since it *)
(* connected that was for all or for its user, and never anything else.    *)
Mine(c) == {i \in joined[c] + 1 .. Len(to) : to[i] \in {All, Owner[c]}}
Delivered ==
    \A c \in Conns : /\ inbox[c] \subseteq Mine(c)
                     /\ sock[c] = "open" => inbox[c] = Mine(c)

(* A client that goes silent does not stay connected: it leaves the maps,  *)
(* or keeps pinging, or the server was shut down and the socket closes.    *)
SilentIsDropped ==
    \A c \in Conns : <>[](c \notin clients) \/ []<><<Ping(c)>>_vars

(* "Real-time WebSocket broadcast" (README.md:373): an event the backend   *)
(* broadcasts reaches the clients that are connected.                      *)
EventsArePushed == unsent = {}
=============================================================================
