-------------------------- MODULE TransportSession --------------------------
(***************************************************************************)
(* The session of lib/universal_transport_session.c: a Ragel state machine *)
(* driven by the application, by reachability and by the callbacks of its  *)
(* websocket (TransportWebsocket, whose variables it shares).              *)
(*                                                                         *)
(* The library is single threaded but not atomic: while an event is being  *)
(* processed the machine calls the websocket, which calls it back, and the *)
(* application's handler, which may call the session again.  So a step     *)
(* here is one Ragel action of the transition being taken, `todo' holds    *)
(* the actions left of it, and everything that enters the machine does so  *)
(* through push_event, with its one slot for an event that comes too soon. *)
(***************************************************************************)
EXTENDS Naturals, Sequences, Functions

CONSTANTS
    Contexts, NULL, MaxQueue,   \* see TransportWebsocket
    HandlerCalls,     \* what the application may call from its handler
    ServiceMessages   \* what the service may send

ASSUME ContextAssumption == NULL \notin Contexts
ASSUME MaxQueueAssumption == MaxQueue \in Nat
ASSUME HandlerCallsAssumption == HandlerCalls \subseteq {"open", "close", "send"}
ASSUME ServiceMessagesAssumption ==
    ServiceMessages \subseteq {"SESSION_AUTHENTICATED", "SESSION_CLOSE", "EXAMPLE_ECHO"}

VARIABLES
    host, ws_status, ws_context, ws, queue, link, writable, written,
    state,          \* transport_session_state
    current_event,  \* the event being processed
    next_event,     \* the one event pushed meanwhile
    cs,             \* where the transition being taken leads
    todo,           \* the Ragel actions it has left to run
    in_handler,     \* a handler callback of the application is running
    observing,      \* reachability reports changes
    opened,         \* history: the handler was last told that the session opened
    faulted         \* history: the machine has entered its error state

Messages == {"SESSION_AUTHENTICATE", "SESSION_CLOSE", "EXAMPLE_PING"}

Websocket == INSTANCE TransportWebsocket

websocketVars == <<host, ws_status, ws_context, ws, queue, link, writable, written>>
machineVars == <<state, current_event, next_event, cs, todo, faulted>>
vars == <<websocketVars, machineVars, in_handler, observing, opened>>

States == {"error", "idle", "connecting", "connected", "connecting_retry",
           "connecting_unreachable", "authenticating", "authenticated"}

NONE == "NONE"

Events == {"BECOME_ACTIVE", "RESIGN_ACTIVE", "CONNECTION_ESTABLISHED",
           "CONNECTION_FAILED", "CONNECTION_DISCONNECTED",
           "SESSION_INFO_EXISTS", "AUTHENTICATED_RECEIVED", "CLOSE_RECEIVED",
           "REACHABILITY_IS_REACHABLE", "REACHABILITY_IS_UNREACHABLE",
           "CONNECTION_RETRY", "TIMEOUT"}

(* The Ragel actions that do something: do_wait_and_retry, do_set_timeout, *)
(* do_cancel_timeout and do_check_config have their bodies commented out,  *)
(* so nothing ever pushes CONNECTION_RETRY or TIMEOUT.                     *)
Actions == {"do_connect", "do_disconnect_and_save", "do_check_session_info",
            "do_check_reachability", "do_start_observing_reachability",
            "do_stop_observing_reachability", "do_authenticate",
            "do_close_session", "did_open_session", "did_close_session"}

TypeOK ==
    /\ Websocket!TypeOK
    /\ state \in States
    /\ current_event \in Events \cup {NONE}
    /\ next_event \in Events \cup {NONE}
    /\ cs \in States
    /\ todo \in Seq(Actions)
    /\ in_handler \in BOOLEAN
    /\ observing \in BOOLEAN
    /\ opened \in BOOLEAN
    /\ faulted \in BOOLEAN

(* transport_session_create, which ends with the BEGIN event: start to idle *)
Init ==
    /\ Websocket!Create
    /\ state = "idle"
    /\ current_event = NONE
    /\ next_event = NONE
    /\ cs = "idle"
    /\ todo = <<>>
    /\ in_handler = FALSE
    /\ observing = FALSE
    /\ opened = FALSE
    /\ faulted = FALSE

-----------------------------------------------------------------------------
(* The machine: where a transition leads, and the actions run on the way.  *)
(* The names are the labels of the generated code: st<n> is the state n    *)
(* with no action, tr<n> a transition.  An operator tr<n>_<Fault> is tr<n> *)
(* with a fault in it, and serves only to show that a property notices.    *)
To(target, actions) == [target |-> target, actions |-> actions]

st0 == To("error", <<>>)
st1 == To("idle", <<>>)
st2_Reconnects == To("connecting", <<"do_connect">>)
st2 == To("connecting", <<>>)
st3 == To("connected", <<>>)
st4 == To("connecting_retry", <<>>)
st5 == To("connecting_unreachable", <<>>)
st6 == To("authenticating", <<>>)
st7 == To("authenticated", <<>>)

tr3_KeepsConnection == st1
tr3  == To("idle", <<"do_disconnect_and_save">>)
tr15_Ignored == st6
tr15 == To("idle", <<"do_disconnect_and_save">>)
tr12_KeepsObserver == tr3
tr12 == To("idle", <<"do_stop_observing_reachability", "do_disconnect_and_save">>)
tr0  == To("connecting", <<"do_connect">>)
tr14 == To("connecting", <<"do_stop_observing_reachability", "do_connect">>)
tr5  == To("connected", <<"do_check_session_info">>)
tr20_Disconnects ==
    To("connected", <<"do_close_session", "did_close_session", "do_disconnect_and_save">>)
tr20 == To("connected", <<"do_close_session", "did_close_session">>)
tr6_IgnoresFailure == st2
tr6  == To("connecting_retry", <<"do_check_reachability">>)
tr17_KeepsWaiting == st6
tr17 == To("connecting_retry", <<"do_check_reachability">>)
tr10_Dropped == st0
tr10 == To("connecting_retry", <<>>)
tr19 == To("connecting_retry", <<>>)
tr22_TellsNobody == tr6
tr22_Disconnects == To("connecting_retry", <<"did_close_session", "do_disconnect_and_save">>)
tr22 == To("connecting_retry", <<"did_close_session", "do_check_reachability">>)
tr23_TellsNobody == st4
tr23_Disconnects == To("idle", <<"did_close_session", "do_disconnect_and_save">>)
tr23 == To("connecting_retry", <<"did_close_session">>)
tr11 == To("connecting_unreachable", <<"do_start_observing_reachability">>)
tr8_AsksNothing == st6
tr8  == To("authenticating", <<"do_authenticate">>)
tr18 == To("authenticated", <<"did_open_session">>)

Lost == {"CONNECTION_FAILED", "CONNECTION_DISCONNECTED"}

FromIdle(event) ==
    CASE event = "BECOME_ACTIVE" -> tr0
      [] event \in Lost          -> st1
      [] OTHER                   -> st0

FromConnecting(event) ==
    CASE event = "RESIGN_ACTIVE"          -> tr3
      [] event = "BECOME_ACTIVE"          -> st2
      [] event = "CONNECTION_ESTABLISHED" -> tr5
      [] event = "CONNECTION_FAILED"      -> tr6
      [] OTHER                            -> st0

FromConnected(event) ==
    CASE event = "RESIGN_ACTIVE"       -> tr3
      [] event = "BECOME_ACTIVE"       -> st3
      [] event = "SESSION_INFO_EXISTS" -> tr8
      [] event \in Lost                -> tr6
      [] OTHER                         -> st0

FromConnectingRetry(event) ==
    CASE event = "RESIGN_ACTIVE"               -> tr3
      [] event = "BECOME_ACTIVE"               -> st4
      [] event = "CONNECTION_RETRY"            -> tr0
      [] event = "REACHABILITY_IS_REACHABLE"   -> tr10
      [] event = "REACHABILITY_IS_UNREACHABLE" -> tr11
      [] OTHER                                 -> st0

FromConnectingUnreachable(event) ==
    CASE event = "RESIGN_ACTIVE"             -> tr12
      [] event \in {"BECOME_ACTIVE", "REACHABILITY_IS_UNREACHABLE"} -> st5
      [] event = "REACHABILITY_IS_REACHABLE" -> tr14
      [] OTHER                               -> st0

FromAuthenticating(event) ==
    CASE event = "RESIGN_ACTIVE"          -> tr15
      [] event = "BECOME_ACTIVE"          -> st6
      [] event = "AUTHENTICATED_RECEIVED" -> tr18
      [] event = "CLOSE_RECEIVED"         -> tr19
      [] event = "TIMEOUT"                -> tr8
      [] event \in Lost                   -> tr17
      [] OTHER                            -> st0

FromAuthenticated(event) ==
    CASE event = "RESIGN_ACTIVE"  -> tr20
      [] event \in {"BECOME_ACTIVE", "AUTHENTICATED_RECEIVED"} -> st7
      [] event = "CLOSE_RECEIVED" -> tr23
      [] event \in Lost           -> tr22
      [] OTHER                    -> st0

(* The switch has no case for state 0: any event falls out of it at the    *)
(* label of state 1.                                                       *)
FromError_Restarts(event) == To("start", <<>>)
FromError(event) == st1

Transition(s, event) ==
    CASE s = "idle"                   -> FromIdle(event)
      [] s = "connecting"             -> FromConnecting(event)
      [] s = "connected"              -> FromConnected(event)
      [] s = "connecting_retry"       -> FromConnectingRetry(event)
      [] s = "connecting_unreachable" -> FromConnectingUnreachable(event)
      [] s = "authenticating"         -> FromAuthenticating(event)
      [] s = "authenticated"          -> FromAuthenticated(event)
      [] s = "error"                  -> FromError(event)

(* transport_session_state_set_event, up to its first Ragel action *)
SetEvent(s, event) ==
    /\ current_event' = event
    /\ cs' = Transition(s, event).target
    /\ todo' = Transition(s, event).actions
    /\ faulted' = (faulted \/ cs' = "error")

(* transport_session_state_push_event *)
PushEvent(event) ==
    IF current_event # NONE
    THEN /\ next_event' = event
         /\ UNCHANGED <<state, current_event, cs, todo, faulted>>
    ELSE /\ SetEvent(state, event)
         /\ UNCHANGED <<state, next_event>>

(* ... and what follows the last: the new state is assigned only now, and  *)
(* the event pushed meanwhile is processed next.                           *)
FinishEvent_KeepsNext ==
    /\ current_event # NONE /\ todo = <<>> /\ ~in_handler
    /\ state' = cs
    /\ IF next_event # NONE
       THEN SetEvent(cs, next_event)
       ELSE current_event' = NONE /\ UNCHANGED <<cs, todo, faulted>>
    /\ UNCHANGED <<websocketVars, next_event, in_handler, observing, opened>>

FinishEvent ==
    /\ current_event # NONE /\ todo = <<>> /\ ~in_handler
    /\ state' = cs
    /\ next_event' = NONE
    /\ IF next_event # NONE
       THEN SetEvent(cs, next_event)
       ELSE current_event' = NONE /\ UNCHANGED <<cs, todo, faulted>>
    /\ UNCHANGED <<websocketVars, in_handler, observing, opened>>

-----------------------------------------------------------------------------
(* One step per Ragel action.                                              *)
Run(action) ==
    /\ todo # <<>> /\ ~in_handler
    /\ Head(todo) = action
    /\ todo' = Tail(todo)
    /\ UNCHANGED <<state, current_event, cs, faulted>>

(* A callback of the websocket finds an event being processed, and is kept *)
(* in next_event.                                                          *)
EventOf(cb) ==
    CASE cb = "open"  -> "CONNECTION_ESTABLISHED"
      [] cb = "close" -> "CONNECTION_DISCONNECTED"
      [] cb = "fail"  -> "CONNECTION_FAILED"

Called(cb) == next_event' = IF cb = "none" THEN next_event ELSE EventOf(cb)

DoConnect ==
    /\ Run("do_connect")
    /\ \E cb \in Websocket!Callbacks : Websocket!Open(cb) /\ Called(cb)
    /\ UNCHANGED <<in_handler, observing, opened>>

DoDisconnectAndSave ==
    /\ Run("do_disconnect_and_save")
    /\ \E cb \in Websocket!Callbacks : Websocket!Close(cb) /\ Called(cb)
    /\ UNCHANGED <<in_handler, observing, opened>>

DoCheckSessionInfo ==
    /\ Run("do_check_session_info")
    /\ next_event' = "SESSION_INFO_EXISTS"
    /\ UNCHANGED <<websocketVars, in_handler, observing, opened>>

(* transport_reachability_status may answer either way *)
DoCheckReachability ==
    /\ Run("do_check_reachability")
    /\ next_event' \in {"REACHABILITY_IS_REACHABLE", "REACHABILITY_IS_UNREACHABLE"}
    /\ UNCHANGED <<websocketVars, in_handler, observing, opened>>

DoStartObserving ==
    /\ Run("do_start_observing_reachability")
    /\ observing' = TRUE
    /\ UNCHANGED <<websocketVars, next_event, in_handler, opened>>

DoStopObserving ==
    /\ Run("do_stop_observing_reachability")
    /\ observing' = FALSE
    /\ UNCHANGED <<websocketVars, next_event, in_handler, opened>>

DoAuthenticate ==
    /\ Run("do_authenticate")
    /\ Websocket!Write("SESSION_AUTHENTICATE")
    /\ UNCHANGED <<next_event, in_handler, observing, opened>>

DoCloseSession_PushesNothing ==
    /\ Run("do_close_session")
    /\ Websocket!Write("SESSION_CLOSE")
    /\ UNCHANGED <<next_event, in_handler, observing, opened>>

DoCloseSession ==
    /\ Run("do_close_session")
    /\ Websocket!Write("SESSION_CLOSE")
    /\ next_event' = "RESIGN_ACTIVE"
    /\ UNCHANGED <<in_handler, observing, opened>>

DidOpenSession ==
    /\ Run("did_open_session")
    /\ in_handler' = TRUE
    /\ opened' = TRUE
    /\ UNCHANGED <<websocketVars, next_event, observing>>

DidCloseSession ==
    /\ Run("did_close_session")
    /\ in_handler' = TRUE
    /\ opened' = FALSE
    /\ UNCHANGED <<websocketVars, next_event, observing>>

HandlerReturns ==
    /\ in_handler
    /\ in_handler' = FALSE
    /\ UNCHANGED <<websocketVars, machineVars, observing, opened>>

Step ==
    \/ DoConnect \/ DoDisconnectAndSave
    \/ DoCheckSessionInfo \/ DoCheckReachability
    \/ DoStartObserving \/ DoStopObserving
    \/ DoAuthenticate \/ DoCloseSession
    \/ DidOpenSession \/ DidCloseSession \/ HandlerReturns
    \/ FinishEvent

-----------------------------------------------------------------------------
(* The application calls between two events, or from its handler.          *)
Idle == current_event = NONE
MayCall(call) == Idle \/ (in_handler /\ call \in HandlerCalls)

(* transport_session_open, transport_session_close *)
AppOpen ==
    /\ MayCall("open")
    /\ PushEvent("BECOME_ACTIVE")
    /\ UNCHANGED <<websocketVars, in_handler, observing, opened>>

AppClose ==
    /\ MayCall("close")
    /\ PushEvent("RESIGN_ACTIVE")
    /\ UNCHANGED <<websocketVars, in_handler, observing, opened>>

(* transport_session_example_ping and _echo: whatever the state *)
AppSend ==
    /\ MayCall("send")
    /\ Len(queue) < MaxQueue
    /\ Websocket!Write("EXAMPLE_PING")
    /\ UNCHANGED <<machineVars, in_handler, observing, opened>>

App == AppOpen \/ AppClose \/ AppSend

(* The callbacks that transport_session_run leads to.                      *)
(* Established is bounded by MaxQueue: every connection enqueues messages. *)
WebsocketOpens ==
    /\ Idle
    /\ Len(queue) <= MaxQueue
    /\ Websocket!Established
    /\ PushEvent(EventOf("open"))
    /\ UNCHANGED <<in_handler, observing, opened>>

WebsocketFails ==
    /\ Idle
    /\ Websocket!ConnectionError
    /\ PushEvent(EventOf("fail"))
    /\ UNCHANGED <<in_handler, observing, opened>>

WebsocketCloses ==
    /\ Idle
    /\ Websocket!Closed \/ Websocket!WriteFails
    /\ PushEvent(EventOf("close"))
    /\ UNCHANGED <<in_handler, observing, opened>>

WebsocketWrites ==
    /\ Idle
    /\ Websocket!Writeable
    /\ UNCHANGED <<machineVars, in_handler, observing, opened>>

(* transport_session_receive_message *)
ReceiveMessage(name) ==
    CASE name = "SESSION_AUTHENTICATED" -> PushEvent("AUTHENTICATED_RECEIVED")
      [] name = "SESSION_CLOSE"         -> PushEvent("CLOSE_RECEIVED")
      [] OTHER                          -> UNCHANGED machineVars

WebsocketReads ==
    /\ Idle
    /\ Websocket!Receive
    /\ \E name \in ServiceMessages : ReceiveMessage(name)
    /\ UNCHANGED <<in_handler, observing, opened>>

(* transport_session_reachability_callback: the platform's bridge reports  *)
(* between two events, and only while it is asked to.                      *)
ReachabilityCallback ==
    /\ Idle
    /\ observing
    /\ \E event \in {"REACHABILITY_IS_REACHABLE", "REACHABILITY_IS_UNREACHABLE"} :
          PushEvent(event)
    /\ UNCHANGED <<websocketVars, in_handler, observing, opened>>

Service == WebsocketOpens \/ WebsocketFails \/ WebsocketCloses \/ WebsocketWrites \/ WebsocketReads

Next == Step \/ App \/ Service \/ ReachabilityCallback

Spec == Init /\ [][Next]_vars

(* The machine runs on and the handler returns.  The loop that calls       *)
(* transport_session_run is not starved by the calls of the application,   *)
(* and libwebsockets reports the outcome of every attempt it services.     *)
Fairness ==
    /\ WF_vars(Step)
    /\ SF_vars(WebsocketOpens \/ WebsocketFails)

FairSpec == Spec /\ Fairness
-----------------------------------------------------------------------------
(* The application is told that the session opened exactly while           *)
(* transport_session_is_open says so, as soon as the machine is at rest:   *)
(* no way out of AUTHENTICATED, the error state included, skips            *)
(* did_close_session, and no way in skips did_open_session.                *)
OpenedIffAuthenticated == Idle => (opened <=> state = "authenticated")

(* open_callback and close_callback alternate, however events are pushed   *)
(* out of order from the handler itself.                                   *)
NotificationsAlternate ==
    [][(DidOpenSession => ~opened) /\ (DidCloseSession => opened)]_vars

(* Reachability is observed exactly while the session waits for it: no     *)
(* path leaves the observer running, or waits without one.                 *)
ObservingIffUnreachable == Idle => (observing <=> state = "connecting_unreachable")

(* A session that claims a connection has one that libwebsockets holds     *)
(* established, and so have do_authenticate and do_close_session when      *)
(* their turn comes: they never write to a dangling ws.                    *)
ConnectedHasLink ==
    \/ Idle /\ state \in {"connected", "authenticating", "authenticated"}
    \/ todo # <<>> /\ Head(todo) \in {"do_authenticate", "do_close_session"}
    => Websocket!Linked("established") /\ ws = ws_context

(* transport_websocket_open overwrites ws_context, but never that of an    *)
(* attempt or a connection still alive, which nobody would service again.  *)
NoLinkAbandoned == \A c \in Contexts : Websocket!Live(c) => c = ws_context

(* Once it has asked for authentication, the session has its               *)
(* SESSION_AUTHENTICATE written or queued on the very connection it waits  *)
(* on, whatever a failed write or a reconnection did to the queue.         *)
AuthenticateNotLost ==
    state \in {"authenticating", "authenticated"} /\ Websocket!Linked("established")
    => "SESSION_AUTHENTICATE" \in Range(queue) \cup written

(* The only pairs of a state and an event that send the machine to its     *)
(* error state: the application closes an idle session, or something       *)
(* happens to the connection that CLOSE_RECEIVED leaves open in            *)
(* CONNECTING_RETRY, or that an error leaves open in IDLE and the states   *)
(* opened from there, or the service speaks to a session whose             *)
(* RESIGN_ACTIVE was overwritten in CONNECTED.  In particular an attempt   *)
(* that succeeds or fails, and reachability, are always expected.          *)
UnexpectedEvents ==
    {<<"idle", "RESIGN_ACTIVE">>}
    \cup ({"connecting", "connecting_retry"} \X {"CONNECTION_DISCONNECTED"})
    \cup ({"idle", "connecting", "connecting_retry", "connected"}
          \X {"AUTHENTICATED_RECEIVED", "CLOSE_RECEIVED"})

ErrorCauses == ~Idle /\ cs = "error" => <<state, current_event>> \in UnexpectedEvents

(* An idle session holds no context, unless it came there by way of the    *)
(* error state, which runs no action.                                      *)
IdleIsDisconnected == Idle /\ state = "idle" /\ ~faulted => ws_context = NULL

(* push_event has one slot: "state machine is single threaded, this is     *)
(* safe" (universal_transport_session.c:498).  No event waiting in it is   *)
(* replaced by another.                                                    *)
NoEventOverwritten ==
    [][next_event # NONE => next_event' \in {next_event, NONE}]_vars

(* CONNECTED is passed through: SESSION_INFO_EXISTS, or the RESIGN_ACTIVE  *)
(* that do_close_session pushes, follows before the machine is at rest.    *)
ConnectedIsTransient == Idle => state # "connected"

(* set_event calls itself for the event that waits, on the C stack: the    *)
(* chain always ends, also when the handler pushes an event every time.    *)
RunsToCompletion == []<>Idle

(* transport_session_close ends in IDLE with the context destroyed, by way *)
(* of CONNECTED and the pushed RESIGN_ACTIVE when a session is open, in a  *)
(* machine that has not been through its error state.                      *)
CloseDisconnects ==
    (current_event = "RESIGN_ACTIVE" /\ ~faulted)
        ~> (Idle /\ state = "idle" /\ ws_context = NULL)

(* A session in CONNECTING on an attempt that libwebsockets has under way  *)
(* learns of its outcome.                                                  *)
AttemptResolves ==
    (state = "connecting" /\ Websocket!Linked("connecting")) ~> state # "connecting"

(* The do_connect of REACHABILITY_IS_REACHABLE connects                    *)
(* (docs/transport_session_state.dot:27): transport_websocket_open is not  *)
(* skipped because the attempt before, whose failure led here, failed.     *)
DoConnectTries ==
    [][DoConnect /\ state = "connecting_unreachable" /\ host => ws_status = "CLOSED"]_vars

(* A connection that is lost is an event the machine expects: it does not  *)
(* end in the state that is logged as an error                             *)
(* (universal_transport_session.c:470).                                    *)
LossIsExpected == cs = "error" => current_event # "CONNECTION_DISCONNECTED"

(* do_close_session closes the session (universal_transport_session.c:220):*)
(* the SESSION_CLOSE it writes leaves before the connection is destroyed.  *)
CloseIsSent ==
    [][DoDisconnectAndSave /\ Websocket!Linked("established") => "SESSION_CLOSE" \notin Range(queue)]_vars

-----------------------------------------------------------------------------
(* The inductive invariant behind the safety properties.  It speaks of cs, *)
(* which is the state at rest and the state to come during a transition.   *)
ActionLists ==
    {<<>>, <<"do_stop_observing_reachability", "do_disconnect_and_save">>,
     <<"do_stop_observing_reachability", "do_connect">>,
     <<"do_close_session", "did_close_session">>,
     <<"did_close_session", "do_check_reachability">>}
    \cup {<<action>> : action \in Actions}

Pending(action) == action \in Range(todo)

Reported == {"REACHABILITY_IS_REACHABLE", "REACHABILITY_IS_UNREACHABLE"}
Connected == {"connected", "authenticating", "authenticated"}

(* A machine at rest has nothing left to do, and each action is left only  *)
(* on the way to the states that its transitions lead to.                  *)
ControlInv ==
    /\ todo \in ActionLists
    /\ Idle => todo = <<>> /\ cs = state /\ ~in_handler /\ next_event = NONE
    /\ Pending("do_connect") =>
          cs = "connecting" /\ next_event \in {NONE, "BECOME_ACTIVE", "RESIGN_ACTIVE"}
    /\ Pending("do_disconnect_and_save") => cs = "idle"
    /\ Pending("do_check_session_info") => cs = "connected"
    /\ Pending("do_check_reachability") => cs = "connecting_retry"
    /\ Pending("do_authenticate") => cs = "authenticating"
    /\ Pending("do_close_session") => cs = "connected"

(* The event that waits is one the state to come expects, or a call of the *)
(* application.                                                            *)
NextEventInv ==
    \/ next_event \in {NONE, "BECOME_ACTIVE", "RESIGN_ACTIVE"}
    \/ next_event = "SESSION_INFO_EXISTS" /\ cs = "connected"
    \/ next_event \in Reported /\ cs = "connecting_retry"
    \/ next_event = "CONNECTION_FAILED" /\ cs \in {"connecting", "idle"}
    \/ next_event = "CONNECTION_DISCONNECTED" /\ cs = "idle"

(* What the state to come says of the connection. *)
LinkInv ==
    /\ Websocket!StatusTracksLink
    /\ Websocket!WritesToItsLink
    /\ NoLinkAbandoned
    /\ cs \in Connected => Websocket!Linked("established")
    /\ Websocket!Linked("connecting") =>
          \/ cs = "connecting" /\ ~Pending("do_connect")
          \/ Pending("do_disconnect_and_save")
    /\ \/ cs = "connecting_unreachable"
       \/ next_event \in Reported \cup {"CONNECTION_FAILED", "CONNECTION_DISCONNECTED"}
       \/ Pending("do_check_reachability")
       => ~Websocket!Live(ws_context)

NotifyInv ==
    /\ Pending("did_open_session") => ~opened /\ cs = "authenticated"
    /\ Pending("did_close_session") => opened /\ cs # "authenticated"
    /\ ~Pending("did_open_session") /\ ~Pending("did_close_session")
       => (opened <=> cs = "authenticated")

ObserveInv ==
    /\ Pending("do_start_observing_reachability") =>
          ~observing /\ cs = "connecting_unreachable"
    /\ Pending("do_stop_observing_reachability") =>
          observing /\ cs # "connecting_unreachable"
    /\ ~Pending("do_start_observing_reachability")
       /\ ~Pending("do_stop_observing_reachability")
       => (observing <=> cs = "connecting_unreachable")

IInv ==
    /\ TypeOK /\ ControlInv /\ NextEventInv /\ LinkInv /\ NotifyInv /\ ObserveInv
    /\ ErrorCauses
=============================================================================
