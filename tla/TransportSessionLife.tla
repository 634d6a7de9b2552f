------------------------ MODULE TransportSessionLife ------------------------
(***************************************************************************)
(* The whole life of a session: TransportSession, whose Next it takes as   *)
(* it is, with transport_session_release at the end, and with the call     *)
(* stack told apart: what runs inside a callback of lws_service, and what  *)
(* inside the lws_context_destroy of the release.                          *)
(*                                                                         *)
(* Released in any other state than after a close, the session still has   *)
(* its context: lws_context_destroy then calls back, at a moment when no   *)
(* event is being processed, so that the machine runs, and the handler,    *)
(* on a session that is half freed.                                        *)
(***************************************************************************)
EXTENDS TransportSession

VARIABLES
    stage,       \* how far transport_session_release has come
    freed,       \* what has been freed
    misused,     \* history: what was used all the same, or destroyed twice
    in_service,  \* lws_service is on the stack, below the event processed
    asked        \* history: the application's last call was an open

lifeVars == <<vars, stage, freed, misused, in_service, asked>>

Stages == {"alive", "destroying", "released"}
Parts == {"reachability", "websocket", "context"}

LifeTypeOK ==
    /\ TypeOK
    /\ stage \in Stages
    /\ freed \subseteq Parts
    /\ misused \subseteq Parts
    /\ in_service \in BOOLEAN
    /\ asked \in BOOLEAN

LifeInit ==
    /\ Init
    /\ stage = "alive"
    /\ freed = {} /\ misused = {}
    /\ in_service = FALSE
    /\ asked = FALSE

-----------------------------------------------------------------------------
(* What a Ragel action hands to code outside the machine: the three of     *)
(* reachability its struct, do_disconnect_and_save the context.  An        *)
(* operator <A>_<Fault> is <A> with a fault in it, and serves only to show *)
(* that a property notices.                                                *)
Uses(action) ==
    CASE action \in {"do_check_reachability", "do_start_observing_reachability",
                     "do_stop_observing_reachability"} -> {"reachability"}
      [] action = "do_disconnect_and_save" -> {"context"}
      [] OTHER -> {}

UsedNow == IF todo # <<>> /\ ~in_handler THEN Uses(Head(todo)) ELSE {}

(* What the application asks for, in the order of its calls *)
Asking ==
    \/ AppOpen /\ asked' = TRUE
    \/ AppClose /\ asked' = FALSE
    \/ AppSend /\ UNCHANGED asked

(* Before the release: lws_service is on the stack until what it called    *)
(* back has been dealt with.                                               *)
Living ==
    /\ stage = "alive"
    /\ \/ Step /\ in_service' = (in_service /\ ~Idle') /\ UNCHANGED asked
       \/ Service /\ in_service' = ~Idle' /\ UNCHANGED asked
       \/ Asking /\ UNCHANGED in_service
       \/ ReachabilityCallback /\ UNCHANGED <<in_service, asked>>
    /\ UNCHANGED <<stage, freed, misused>>

(* transport_session_release up to lws_context_destroy, which calls back   *)
(* with ws_context still in place                                          *)
Release ==
    /\ stage = "alive"
    /\ Idle
    /\ stage' = "destroying"
    /\ freed' = {"reachability", "context"}
    /\ UNCHANGED <<host, ws, queue, written,
                   misused, in_service, asked, in_handler, observing, opened>>
    /\ \/ /\ ws_context = NULL
          /\ UNCHANGED <<ws_context, ws_status, link, writable, machineVars>>
       \/ /\ ws_context # NULL
          /\ \E cb \in Websocket!CallbacksOnDestroy :
                /\ ws_status' = CASE cb = "close" -> "CLOSED"
                                  [] cb = "fail"  -> "CONNECTION_ERROR"
                                  [] OTHER        -> ws_status
                /\ IF cb = "none" THEN UNCHANGED machineVars ELSE PushEvent(EventOf(cb))
          /\ link' = [link EXCEPT ![ws_context] = "none"]
          /\ writable' = FALSE
          /\ UNCHANGED ws_context

(* what the callbacks set going, before lws_context_destroy returns *)
Unwinding ==
    /\ stage = "destroying"
    /\ ~Idle
    /\ (Step /\ UNCHANGED asked) \/ Asking
    /\ misused' = misused \cup (UsedNow \cap freed)
    /\ UNCHANGED <<stage, freed, in_service>>

(* ... and the rest of it: ws_context is reset, the websocket is freed, the *)
(* queue read from the freed struct and destroyed, and the session freed   *)
Released ==
    /\ stage = "destroying"
    /\ Idle
    /\ stage' = "released"
    /\ ws_context' = NULL
    /\ freed' = freed \cup {"websocket"}
    /\ misused' = misused \cup ({"websocket"} \cap freed')
    /\ UNCHANGED <<host, ws_status, ws, queue, link, writable, written,
                   machineVars, in_handler, observing, opened, in_service, asked>>

LifeNext == Living \/ Release \/ Unwinding \/ Released

LifeSpec == LifeInit /\ [][LifeNext]_lifeVars

(* As in TransportSession; and what has begun to be released is C code on  *)
(* the stack, that runs on.                                                *)
LifeFairness ==
    /\ WF_lifeVars(Living /\ Step)
    /\ WF_lifeVars(Unwinding /\ Step)

FairLifeSpec == LifeSpec /\ LifeFairness

-----------------------------------------------------------------------------
(* Whatever the session was in the middle of, no connection survives its   *)
(* release, to call back into memory that is freed; and an application that*)
(* releases an open session is told that it closed.                        *)
ReleasedHasNoLink == \A c \in Contexts : ~Websocket!Live(c)
ReleasedIsClosed == ~opened

ReleasedForGood == stage = "released" => ReleasedHasNoLink /\ ReleasedIsClosed

(* What the callbacks of the destruction set going never reaches           *)
(* do_disconnect_and_save, which would destroy the context inside its own  *)
(* destruction.                                                            *)
DestroyedOnce == "context" \notin misused

(* Released after a close, as the tests do it, the session is not called   *)
(* back any more: neither the machine nor the handler runs on what is      *)
(* freed.  (A machine that has been through its error state may hold a     *)
(* connection while it is idle.)                                           *)
ClosedReleasesQuietly ==
    [][Release /\ state = "idle" /\ ~faulted => Idle']_lifeVars

(* The context is not destroyed by a callback that lws_service makes for   *)
(* it, if the handler does not close the session: a connection lost or     *)
(* closed by the service, and every message, leaves the context in place.  *)
ContextOutlivesItsCallback ==
    in_service /\ todo # <<>> => Head(todo) # "do_disconnect_and_save"

(* If the handler does not open or close the session itself, the session   *)
(* implements the lifecycle that an application relies on.                 *)
Lifecycle == INSTANCE SessionLifecycle
    WITH wanted <- asked, told <- opened, is_open <- state = "authenticated"

LifecycleSpec == Lifecycle!Spec
=============================================================================
