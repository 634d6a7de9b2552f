------------------------- MODULE TransportWebsocket -------------------------
(***************************************************************************)
(* The client websocket of lib/universal_transport_websocket.c: one struct *)
(* that wraps a libwebsockets context, the connection made in it, and the  *)
(* queue of messages waiting for room in the write buffer.                 *)
(*                                                                         *)
(* An action is one call of the API, or one callback that libwebsockets    *)
(* makes from transport_websocket_run.  libwebsockets itself is external:  *)
(* `link' is what it knows of the connection of each context.              *)
(*                                                                         *)
(* Everything runs on one thread, so an action is atomic but for the       *)
(* handler callbacks fired inside it.  Such an action has a parameter cb   *)
(* that names the callback, and the owner of the websocket conjoins its    *)
(* own reaction to it.                                                     *)
(***************************************************************************)
EXTENDS Naturals, Sequences, Functions

CONSTANTS
    Contexts,    \* the lws contexts that can be allocated
    Messages,    \* what the owner writes, told apart by name
    NULL,
    MaxQueue     \* bound of the model: see Client and Serviced

ASSUME ContextAssumption == NULL \notin Contexts
ASSUME MaxQueueAssumption == MaxQueue \in Nat

VARIABLES
    host,        \* TRUE iff transport_websocket_configure_url found a host
    ws_status,   \* the last connection callback recorded
    ws_context,  \* the context serviced and destroyed, or NULL
    ws,          \* the connection asked for room to write, named by the
                 \* context it was made in; never reset, so it may dangle
    queue,       \* the messages enqueued and not popped yet
    link,        \* libwebsockets' state of the connection of each context
    writable,    \* a WRITEABLE callback is pending on the connection
    written      \* history: messages written on the current connection

websocketVars == <<host, ws_status, ws_context, ws, queue, link, writable, written>>

Statuses == {"CLOSED", "ESTABLISHED", "CONNECTION_ERROR"}

(* "none": no such context; "dead": the context exists, its connection was *)
(* never made, or failed, or is closed.                                    *)
LinkStates == {"none", "connecting", "established", "dead"}

Callbacks == {"none", "open", "close", "fail"}

Live(c) == c # NULL /\ link[c] \in {"connecting", "established"}

TypeOK ==
    /\ host \in BOOLEAN
    /\ ws_status \in Statuses
    /\ ws_context \in Contexts \cup {NULL}
    /\ ws \in Contexts \cup {NULL}
    /\ queue \in Seq(Messages)
    /\ link \in [Contexts -> LinkStates]
    /\ writable \in BOOLEAN
    /\ written \subseteq Messages

(* transport_websocket_create.  An operator <A>_<Fault> is <A> with a      *)
(* fault in it, and serves only to show that a property notices.           *)
Create_WithoutStatus ==
    /\ host \in BOOLEAN
    /\ ws_status = NULL
    /\ ws_context = NULL
    /\ ws = NULL
    /\ queue = <<>>
    /\ link = [c \in Contexts |-> "none"]
    /\ writable = FALSE
    /\ written = {}

Create ==
    /\ host \in BOOLEAN
    /\ ws_status = "CLOSED"
    /\ ws_context = NULL
    /\ ws = NULL
    /\ queue = <<>>
    /\ link = [c \in Contexts |-> "none"]
    /\ writable = FALSE
    /\ written = {}

-----------------------------------------------------------------------------
(* transport_websocket_open.  Neither an attempt under way nor a context   *)
(* left by an earlier connection is looked at.                             *)
MayOpen == ws_status = "CLOSED" /\ host

OpenSkipped ==
    /\ ~MayOpen
    /\ UNCHANGED websocketVars

(* lws_create_context returns NULL *)
OpenWithoutContext ==
    /\ MayOpen
    /\ UNCHANGED websocketVars

(* lws_client_connect starts a connection *)
OpenConnecting_KeepsWs ==
    /\ MayOpen
    /\ \E c \in {d \in Contexts : link[d] = "none"} :
          /\ ws_context' = c
          /\ link' = [link EXCEPT ![c] = "connecting"]
    /\ writable' = FALSE
    /\ UNCHANGED <<host, ws_status, ws, queue, written>>

OpenConnecting ==
    /\ MayOpen
    /\ \E c \in {d \in Contexts : link[d] = "none"} :
          /\ ws_context' = c
          /\ ws' = c
          /\ link' = [link EXCEPT ![c] = "connecting"]
    /\ writable' = FALSE
    /\ UNCHANGED <<host, ws_status, queue, written>>

(* lws_client_connect returns NULL, after a CONNECTION_ERROR or without *)
OpenRefused(cb) ==
    /\ MayOpen
    /\ cb \in {"none", "fail"}
    /\ \E c \in {d \in Contexts : link[d] = "none"} :
          /\ ws_context' = c
          /\ link' = [link EXCEPT ![c] = "dead"]
    /\ ws_status' = IF cb = "fail" THEN "CONNECTION_ERROR" ELSE ws_status
    /\ writable' = FALSE
    /\ UNCHANGED <<host, ws, queue, written>>

Open(cb) ==
    \/ cb = "none" /\ OpenSkipped
    \/ cb = "none" /\ OpenWithoutContext
    \/ cb = "none" /\ OpenConnecting
    \/ OpenRefused(cb)

(* transport_websocket_close.  lws_context_destroy closes the connection   *)
(* of the context: CLOSED for an established one, CONNECTION_ERROR or      *)
(* nothing for one under way.                                              *)
CallbacksOnDestroy ==
    CASE link[ws_context] = "established" -> {"close"}
      [] link[ws_context] = "connecting"  -> {"fail", "none"}
      [] OTHER                            -> {"none"}

CloseSkipped(cb) ==
    /\ ws_context = NULL
    /\ cb = "none"
    /\ UNCHANGED websocketVars

CloseContext(cb) ==
    /\ ws_context # NULL
    /\ cb \in CallbacksOnDestroy
    /\ ws_status' = CASE cb = "close" -> "CLOSED"
                      [] cb = "fail"  -> "CONNECTION_ERROR"
                      [] OTHER        -> ws_status
    /\ link' = [link EXCEPT ![ws_context] = "none"]
    /\ ws_context' = NULL
    /\ writable' = FALSE
    /\ UNCHANGED <<host, ws, queue, written>>

Close(cb) == CloseSkipped(cb) \/ CloseContext(cb)

(* transport_websocket_write.  lws_callback_on_writable takes effect on an *)
(* established connection; on a dangling or NULL ws the call is undefined: *)
(* it comes to nothing, as here, or the program ends there.                *)
Write_WithoutRequest(message) ==
    /\ queue' = IF ws_context # NULL THEN Append(queue, message) ELSE queue
    /\ UNCHANGED <<host, ws_status, ws_context, ws, link, writable, written>>

Write(message) ==
    IF ws_context # NULL
    THEN /\ queue' = Append(queue, message)
         /\ writable' = (writable \/ (ws = ws_context /\ link[ws_context] = "established"))
         /\ UNCHANGED <<host, ws_status, ws_context, ws, link, written>>
    ELSE UNCHANGED websocketVars

-----------------------------------------------------------------------------
(* websocket_callback, from lws_service on ws_context: the one context     *)
(* that transport_websocket_run services.                                  *)
Linked(status) == ws_context # NULL /\ link[ws_context] = status

ConnectionError ==
    /\ Linked("connecting")
    /\ ws_status' = "CONNECTION_ERROR"
    /\ link' = [link EXCEPT ![ws_context] = "dead"]
    /\ UNCHANGED <<host, ws_context, ws, queue, writable, written>>

Established_WithoutRequest ==
    /\ Linked("connecting")
    /\ ws_status' = "ESTABLISHED"
    /\ link' = [link EXCEPT ![ws_context] = "established"]
    /\ writable' = FALSE
    /\ written' = {}
    /\ UNCHANGED <<host, ws_context, ws, queue>>

Established ==
    /\ Linked("connecting")
    /\ ws_status' = "ESTABLISHED"
    /\ link' = [link EXCEPT ![ws_context] = "established"]
    /\ writable' = TRUE
    /\ written' = {}
    /\ UNCHANGED <<host, ws_context, ws, queue>>

Disconnect_KeepsStatus ==
    /\ UNCHANGED ws_status
    /\ link' = [link EXCEPT ![ws_context] = "dead"]
    /\ writable' = FALSE

Disconnect ==
    /\ ws_status' = "CLOSED"
    /\ link' = [link EXCEPT ![ws_context] = "dead"]
    /\ writable' = FALSE

(* the peer or the network ends the connection *)
Closed ==
    /\ Linked("established")
    /\ Disconnect
    /\ UNCHANGED <<host, ws_context, ws, queue, written>>

(* Only the owner reacts to a message; the copy it is given is its own. *)
Receive ==
    /\ Linked("established")
    /\ UNCHANGED websocketVars

(* The WRITEABLE callback pops and writes until the queue is empty ... *)
Writeable ==
    /\ Linked("established")
    /\ writable
    /\ writable' = FALSE
    /\ queue' = <<>>
    /\ written' = written \cup Range(queue)
    /\ UNCHANGED <<host, ws_status, ws_context, ws, link>>

(* ... or lws_write fails or writes in part: the message popped is lost,   *)
(* and -1 makes libwebsockets close the connection at once.                *)
WriteFails_KeepsLink ==
    /\ Linked("established")
    /\ writable
    /\ \E n \in 1 .. Len(queue) :
          /\ queue' = SubSeq(queue, n + 1, Len(queue))
          /\ written' = written \cup {queue[i] : i \in 1 .. n - 1}
    /\ UNCHANGED <<host, ws_status, ws_context, ws, link, writable>>

WriteFails ==
    /\ Linked("established")
    /\ writable
    /\ \E n \in 1 .. Len(queue) :
          /\ queue' = SubSeq(queue, n + 1, Len(queue))
          /\ written' = written \cup {queue[i] : i \in 1 .. n - 1}
    /\ Disconnect
    /\ UNCHANGED <<host, ws_context, ws>>

-----------------------------------------------------------------------------
(* The websocket on its own, under an owner that calls the API in any      *)
(* order.  Bounded by MaxQueue.                                            *)
Client ==
    \/ \E cb \in Callbacks : Open(cb) \/ Close(cb)
    \/ /\ Len(queue) < MaxQueue
       /\ \E message \in Messages : Write(message)

Service ==
    Established \/ ConnectionError \/ Closed \/ Receive \/ Writeable \/ WriteFails

Next == Client \/ Service

Spec == Create /\ [][Next]_websocketVars

(* transport_websocket_run is called in a loop, and libwebsockets reports  *)
(* the outcome of an attempt and the room to write in the end: room, that  *)
(* is a WRITEABLE callback, comes again and again as long as it is asked   *)
(* for on a connection that lasts.                                         *)
Fairness ==
    /\ WF_websocketVars(Established \/ ConnectionError)
    /\ WF_websocketVars(Writeable \/ WriteFails)

FairSpec == Spec /\ Fairness

-----------------------------------------------------------------------------
(* Whatever the owner calls and whatever contexts it abandons, at most one *)
(* connection is established at a time, and ws_status says ESTABLISHED     *)
(* exactly when it is the one of the context being serviced: the status    *)
(* guards transport_websocket_open although ws_context does not.           *)
StatusTracksLink ==
    \A c \in Contexts :
        link[c] = "established" <=> (c = ws_context /\ ws_status = "ESTABLISHED")

(* A message waiting on an established connection always has a WRITEABLE   *)
(* callback coming, also when it was enqueued before the connection was    *)
(* there (ESTABLISHED asks for it) or during an earlier one.               *)
QueuedIsServed ==
    Linked("established") /\ queue # <<>> => writable

(* The ws handed to lws_callback_on_writable is the connection of the      *)
(* context being serviced whenever that context has a connection at all.   *)
WritesToItsLink == Live(ws_context) => ws = ws_context

(* A message that leaves the queue is written, or its connection ends in   *)
(* the same step: the owner never waits on a live connection for the       *)
(* answer to what was lost in a failed write.                              *)
LostWithItsLink ==
    [][Range(queue) \subseteq Range(queue') \cup written' \/ ~Live(ws_context)']_websocketVars

(* Every message enqueued is written in the end, or its connection is lost *)
(* first.                                                                  *)
QueueDrains ==
    Linked("established") ~> (queue = <<>> \/ ~Linked("established"))

=============================================================================
