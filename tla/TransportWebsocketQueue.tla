---------------------- MODULE TransportWebsocketQueue ----------------------
(***************************************************************************)
(* The websocket with the queue it really has: TransportWebsocket, whose   *)
(* queue is a sequence that WRITEABLE empties in one step, with the linked *)
(* list of TransportQueue in its place, and the loop of the WRITEABLE      *)
(* callback one message at a time.                                         *)
(*                                                                         *)
(* Nothing else happens while the loop runs: the callback is on the stack, *)
(* and lws_write calls nobody back.                                        *)
(***************************************************************************)
EXTENDS Naturals, Sequences, FiniteSets, Functions

CONSTANTS
    Contexts, Messages, NULL, MaxQueue,    \* see TransportWebsocket
    Nodes                                  \* see TransportQueue

ASSUME NoNullAssumption == NULL \notin Contexts \cup Nodes \cup Messages

ASSUME FiniteNodesAssumption == IsFiniteSet(Nodes)

ASSUME BoundAssumption == MaxQueue \in Nat

VARIABLES
    host, ws_status, ws_context, ws, link, writable, written,
    alive, head, tail, reserved, next, object, allocated, popped, enqueued, free,
    pc,       \* where the WRITEABLE callback is: "out", "loop" or "write"
    taken     \* history: the messages this callback has popped

List == INSTANCE TransportQueue WITH Objects <- Messages

listVars == <<alive, head, tail, reserved, next, object, allocated, popped, enqueued, free>>
websocketVars == <<host, ws_status, ws_context, ws, link, writable, written>>
vars == <<websocketVars, listVars, pc, taken>>

(* As far as the websocket's own specification goes the loop is one step,  *)
(* its last: until then the messages popped are still in the queue.        *)
Websocket == INSTANCE TransportWebsocket WITH queue <- taken \o List!Contents

Init ==
    /\ List!Init
    /\ host \in BOOLEAN
    /\ ws_status = "CLOSED"
    /\ ws_context = NULL
    /\ ws = NULL
    /\ link = [c \in Contexts |-> "none"]
    /\ writable = FALSE
    /\ written = {}
    /\ pc = "create"
    /\ taken = <<>>

-----------------------------------------------------------------------------
(* transport_websocket_create creates the queue *)
Create ==
    /\ pc = "create"
    /\ pc' = "out"
    /\ List!Create
    /\ UNCHANGED <<websocketVars, taken>>

(* What has nothing to do with the queue *)
Unqueued ==
    /\ pc = "out"
    /\ UNCHANGED <<listVars, pc, taken>>
    /\ \/ \E cb \in Websocket!Callbacks : Websocket!Open(cb) \/ Websocket!Close(cb)
       \/ Websocket!Established \/ Websocket!ConnectionError \/ Websocket!Closed

(* transport_websocket_write, with a node for the message *)
Write(message) ==
    /\ pc = "out"
    /\ IF ws_context # NULL
       THEN /\ List!PushReserved(message) \/ List!PushAllocated(message)
            /\ writable' = (writable \/ (ws = ws_context /\ link[ws_context] = "established"))
       ELSE UNCHANGED <<listVars, writable>>
    /\ UNCHANGED <<host, ws_status, ws_context, ws, link, written, pc, taken>>

(* The WRITEABLE callback: while the queue is not empty ... *)
EnterLoop ==
    /\ pc = "out"
    /\ Websocket!Linked("established")
    /\ writable
    /\ pc' = "loop"
    /\ UNCHANGED <<websocketVars, listVars, taken>>

(* ... pop a message, ... *)
PopMessage ==
    /\ pc = "loop"
    /\ ~List!IsEmpty
    /\ List!PopNode
    /\ taken' = Append(taken, object[head])
    /\ pc' = "write"
    /\ UNCHANGED websocketVars

(* ... write it, and release it, ... *)
WriteMessage ==
    /\ pc = "write"
    /\ pc' = "loop"
    /\ UNCHANGED <<websocketVars, listVars, taken>>

(* ... or fail to, return -1 without releasing it, and lose the connection.*)
(* An operator <A>_<Fault> is <A> with a fault in it, and serves only to   *)
(* show that a property notices.                                           *)
WriteFails_Requeues ==
    /\ pc = "write"
    /\ pc' = "out"
    /\ written' = written \cup {taken[i] : i \in 1 .. Len(taken) - 1}
    /\ ws_status' = "CLOSED"
    /\ link' = [link EXCEPT ![ws_context] = "dead"]
    /\ writable' = FALSE
    /\ List!PushReserved(popped)
    /\ taken' = <<>>
    /\ UNCHANGED <<host, ws_context, ws>>

WriteFails ==
    /\ pc = "write"
    /\ pc' = "out"
    /\ written' = written \cup {taken[i] : i \in 1 .. Len(taken) - 1}
    /\ ws_status' = "CLOSED"
    /\ link' = [link EXCEPT ![ws_context] = "dead"]
    /\ writable' = FALSE
    /\ taken' = <<>>
    /\ UNCHANGED <<host, ws_context, ws, listVars>>

LeaveLoop ==
    /\ pc = "loop"
    /\ List!IsEmpty
    /\ pc' = "out"
    /\ written' = written \cup Range(taken)
    /\ writable' = FALSE
    /\ taken' = <<>>
    /\ UNCHANGED <<host, ws_status, ws_context, ws, link, listVars>>

Writing == EnterLoop \/ PopMessage \/ WriteMessage \/ WriteFails \/ LeaveLoop

Next ==
    \/ Create
    \/ Unqueued
    \/ Len(enqueued) < MaxQueue /\ \E message \in Messages : Write(message)
    \/ Writing

Spec == Init /\ [][Next]_vars

(* As in TransportWebsocket; and the callback on the stack runs on.        *)
Fairness ==
    /\ WF_vars(Unqueued /\ (Websocket!Established \/ Websocket!ConnectionError))
    /\ WF_vars(Writing)

FairSpec == Spec /\ Fairness

-----------------------------------------------------------------------------
(* With the list for a queue, and the loop step by step, the websocket does*)
(* what TransportWebsocket says, and with its fairness: messages leave in  *)
(* the order in which they were enqueued, a failing write loses one of     *)
(* them, those behind it stay, and the queue drains.                       *)
WebsocketSpec == Websocket!FairSpec
=============================================================================
