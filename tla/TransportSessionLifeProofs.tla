--------------------- MODULE TransportSessionLifeProofs ---------------------
(***************************************************************************)
(* The release of the session, for every set of contexts, whatever the     *)
(* session was doing, and whatever the handler calls meanwhile.            *)
(***************************************************************************)
EXTENDS TransportSessionLife, TransportSessionProofs

(* What the one callback of lws_context_destroy sets going: at most the    *)
(* close_callback, with whatever the handler calls in it, then             *)
(* do_check_reachability, whose report takes the place of those calls, and *)
(* the start of the observer.                                              *)
AtEnd ==
    /\ todo = <<>> /\ next_event = NONE /\ ~in_handler
    /\ ~opened /\ cs # "authenticated"

Telling ==
    /\ cs = "connecting_retry"
    /\ todo = <<"did_close_session", "do_check_reachability">>
    /\ state = "authenticated" /\ opened /\ ~in_handler

Checking ==
    /\ cs = "connecting_retry"
    /\ todo = <<"do_check_reachability">>
    /\ ~opened

Reporting ==
    /\ cs = "connecting_retry"
    /\ todo = <<>> /\ next_event \in Reported
    /\ ~opened /\ ~in_handler

Observing ==
    /\ cs = "connecting_unreachable"
    /\ todo = <<"do_start_observing_reachability">>
    /\ next_event = NONE /\ ~opened /\ ~in_handler

UnwindInv == AtEnd \/ (~Idle /\ (Telling \/ Checking \/ Reporting \/ Observing))

LifeInv ==
    /\ stage \in Stages
    /\ "context" \notin misused
    /\ stage = "alive" => IInv
    /\ stage = "destroying" => ReleasedHasNoLink /\ UnwindInv
    /\ stage = "released" => ReleasedHasNoLink /\ ReleasedIsClosed

-----------------------------------------------------------------------------
LEMMA LifeInitInv == LifeInit => LifeInv
  BY InitInv DEF LifeInit, LifeInv, Stages

(* What the session is doing when it is released decides what is called    *)
(* back, and where that leads.                                             *)
LEMMA DestroyedLink ==
    ASSUME IInv, Idle, Release
    PROVE  ReleasedHasNoLink'
  <1>1. \A c \in Contexts : Websocket!Live(c) => c = ws_context
    BY DEF IInv, LinkInv, NoLinkAbandoned
  <1>2. link \in [Contexts -> {"none", "connecting", "established", "dead"}]
    BY DEF IInv, TypeOK, Websocket!TypeOK, Websocket!LinkStates
  <1>3. CASE ws_context = NULL
    BY <1>1, <1>3 DEF Release, ReleasedHasNoLink, Websocket!Live
  <1>4. CASE ws_context # NULL
    BY <1>1, <1>2, <1>4 DEF Release, ReleasedHasNoLink, Websocket!Live
  <1> QED
    BY <1>3, <1>4

LEMMA CalledBack ==
    ASSUME IInv, Idle, NEW event \in Lost, PushEvent(event),
           event = "CONNECTION_FAILED" => state = "connecting",
           state # "connecting_unreachable",
           UNCHANGED <<in_handler, opened>>
    PROVE  UnwindInv'
  <1>1. /\ next_event = NONE /\ ~in_handler /\ state \in States
        /\ opened <=> state = "authenticated"
    BY IdleFacts
  <1>2. SetEvent(state, event) /\ next_event' = NONE
    BY <1>1 DEF PushEvent, Idle
  <1>3. current_event' # NONE
    BY <1>2 DEF SetEvent, Lost, NONE
  <1>4. CASE state \in {"idle", "error", "connecting_retry"}
    <2>1. todo' = <<>> /\ ~opened /\ cs' # "authenticated"
      BY <1>1, <1>2, <1>4 DEF SetEvent, Transition, FromIdle, FromError, FromConnectingRetry,
         To, st0, st1, Lost
    <2> QED
      BY <1>1, <1>2, <2>1 DEF UnwindInv, AtEnd
  <1>5. CASE state = "connecting"
    <2>1. /\ ~opened
          /\ \/ todo' = <<>> /\ cs' # "authenticated"
             \/ todo' = <<"do_check_reachability">> /\ cs' = "connecting_retry"
      BY <1>1, <1>2, <1>5 DEF SetEvent, Transition, FromConnecting, To, st0, tr6, Lost
    <2> QED
      BY <1>1, <1>2, <1>3, <2>1 DEF UnwindInv, AtEnd, Checking, Idle
  <1>6. CASE state \in {"connected", "authenticating"}
    <2>1. todo' = <<"do_check_reachability">> /\ cs' = "connecting_retry" /\ ~opened
      BY <1>1, <1>2, <1>6 DEF SetEvent, Transition, FromConnected, FromAuthenticating,
         To, tr6, tr17, Lost
    <2> QED
      BY <1>1, <1>2, <1>3, <2>1 DEF UnwindInv, Checking, Idle
  <1>7. CASE state = "authenticated"
    <2>1. /\ todo' = <<"did_close_session", "do_check_reachability">>
          /\ cs' = "connecting_retry" /\ opened /\ state' = "authenticated"
      BY <1>1, <1>2, <1>7 DEF PushEvent, Idle, SetEvent, Transition, FromAuthenticated, To, tr22, Lost
    <2> QED
      BY <1>1, <1>2, <1>3, <2>1 DEF UnwindInv, Telling, Idle
  <1> QED
    BY <1>1, <1>4, <1>5, <1>6, <1>7 DEF States

LEMMA ReleaseStep ==
    ASSUME IInv, Release
    PROVE  ReleasedHasNoLink' /\ UnwindInv'
  <1>1. Idle /\ UNCHANGED <<in_handler, opened>>
    BY DEF Release
  <1>2. /\ todo = <<>> /\ next_event = NONE /\ ~in_handler
        /\ opened => Websocket!Linked("established")
        /\ opened <=> cs = "authenticated"
        /\ Websocket!Linked("connecting") => state = "connecting"
        /\ state = "connecting_unreachable" => ~Websocket!Live(ws_context)
    BY <1>1, IdleFacts DEF Connected
  <1>3. ASSUME ~opened, UNCHANGED machineVars
        PROVE  UnwindInv'
    BY <1>1, <1>2, <1>3 DEF UnwindInv, AtEnd, machineVars
  <1>4. ASSUME ws_context = NULL
        PROVE  UnwindInv'
    BY <1>2, <1>3, <1>4 DEF Release, Websocket!Linked
  <1>5. ASSUME ws_context # NULL
        PROVE  UnwindInv'
    <2>1. PICK cb \in Websocket!CallbacksOnDestroy :
             IF cb = "none" THEN UNCHANGED machineVars ELSE PushEvent(EventOf(cb))
      BY <1>5 DEF Release
    <2>2. \/ cb = "none" /\ ~Websocket!Linked("established")
          \/ cb = "fail" /\ Websocket!Linked("connecting")
          \/ cb = "close" /\ Websocket!Linked("established")
      BY <1>5 DEF Websocket!CallbacksOnDestroy, Websocket!Linked
    <2>3. CASE cb = "none"
      BY <1>2, <1>3, <2>1, <2>2, <2>3
    <2>4. CASE cb # "none"
      <3>1. PushEvent(EventOf(cb)) /\ EventOf(cb) \in Lost
        BY <2>1, <2>2, <2>4 DEF EventOf, Lost
      <3>2. EventOf(cb) = "CONNECTION_FAILED" => state = "connecting"
        BY <1>2, <2>2, <2>4 DEF EventOf
      <3>3. state # "connecting_unreachable"
        BY <1>2, <2>2, <2>4 DEF Websocket!Linked, Websocket!Live
      <3> QED
        BY <1>1, <3>1, <3>2, <3>3, CalledBack
    <2> QED
      BY <2>3, <2>4
  <1> QED
    BY <1>1, <1>4, <1>5, DestroyedLink

-----------------------------------------------------------------------------
(* The machine on its way through the release.                             *)
LEMMA UnwindStep ==
    ASSUME UnwindInv, ReleasedHasNoLink, ~Idle, Step
    PROVE  ReleasedHasNoLink' /\ UnwindInv'
  <1> USE DEF UnwindInv, Idle
  <1>1. ASSUME NEW action, Run(action)
        PROVE  /\ \/ Telling /\ action = "did_close_session"
                  \/ Checking /\ action = "do_check_reachability"
                  \/ Observing /\ action = "do_start_observing_reachability"
               /\ ~in_handler /\ todo' = Tail(todo) /\ ~Idle'
               /\ UNCHANGED <<current_event, cs>>
    BY <1>1 DEF Run, AtEnd, Telling, Checking, Reporting, Observing
  <1>2. CASE DidCloseSession
    <2>1. Run("did_close_session") /\ UNCHANGED websocketVars /\ ~opened'
      BY <1>2 DEF DidCloseSession
    <2>2. Telling /\ ~Idle' /\ cs' = cs /\ todo' = Tail(todo)
      BY <1>1, <2>1
    <2>3. todo' = <<"do_check_reachability">>
      BY <2>2 DEF Telling
    <2> QED
      BY <2>1, <2>2, <2>3 DEF Telling, Checking, websocketVars, ReleasedHasNoLink, Websocket!Live
  <1>3. CASE DoCheckReachability
    <2>1. /\ Run("do_check_reachability") /\ UNCHANGED <<websocketVars, opened, in_handler>>
          /\ next_event' \in Reported
      BY <1>3 DEF DoCheckReachability, Reported
    <2>2. Checking /\ ~in_handler /\ ~Idle' /\ cs' = cs /\ todo' = Tail(todo)
      BY <1>1, <2>1
    <2>3. todo' = <<>>
      BY <2>2 DEF Checking
    <2> QED
      BY <2>1, <2>2, <2>3 DEF Checking, Reporting, websocketVars, ReleasedHasNoLink, Websocket!Live
  <1>4. CASE DoStartObserving
    <2>1. /\ Run("do_start_observing_reachability")
          /\ UNCHANGED <<websocketVars, next_event, opened, in_handler, cs>>
      BY <1>1, <1>4 DEF DoStartObserving
    <2>2. Observing /\ todo' = Tail(todo)
      BY <1>1, <2>1
    <2>3. todo' = <<>>
      BY <2>2 DEF Observing
    <2> QED
      BY <2>1, <2>2, <2>3 DEF Observing, AtEnd, websocketVars, ReleasedHasNoLink, Websocket!Live
  <1>5. CASE HandlerReturns
    <2>1. Checking
      BY <1>5 DEF HandlerReturns, AtEnd, Telling, Reporting, Observing
    <2>2. UNCHANGED <<websocketVars, current_event, cs, todo, opened>>
      BY <1>5 DEF HandlerReturns, machineVars
    <2> QED
      BY <2>1, <2>2 DEF Checking, websocketVars, ReleasedHasNoLink, Websocket!Live
  <1>6. CASE FinishEvent
    <2>1. /\ todo = <<>> /\ ~in_handler /\ next_event' = NONE
          /\ UNCHANGED <<websocketVars, in_handler, opened>>
      BY <1>6 DEF FinishEvent
    <2>2. ReleasedHasNoLink'
      BY <2>1 DEF websocketVars, ReleasedHasNoLink, Websocket!Live
    <2>3. CASE AtEnd
      <3>1. todo' = <<>> /\ cs' = cs
        BY <1>6, <2>3 DEF FinishEvent, AtEnd
      <3> QED
        BY <2>1, <2>2, <2>3, <3>1 DEF AtEnd
    <2>4. CASE Reporting
      <3>1. SetEvent("connecting_retry", next_event)
        BY <1>6, <2>4 DEF FinishEvent, Reporting, Reported, NONE
      <3>2. \/ todo' = <<>> /\ cs' # "authenticated"
            \/ todo' = <<"do_start_observing_reachability">> /\ cs' = "connecting_unreachable"
        BY <2>4, <3>1 DEF SetEvent, Transition, FromConnectingRetry, To, tr10, tr11,
           Reporting, Reported
      <3>3. current_event' # NONE
        BY <2>4, <3>1 DEF SetEvent, Reporting, Reported, NONE
      <3> QED
        BY <2>1, <2>2, <2>4, <3>2, <3>3 DEF AtEnd, Observing, Reporting
    <2> QED
      BY <2>1, <2>3, <2>4 DEF Telling, Checking, Observing
  <1> QED
    BY <1>1, <1>2, <1>3, <1>4, <1>5, <1>6
       DEF Step, DoConnect, DoDisconnectAndSave, DoCheckSessionInfo, DoStopObserving,
           DoAuthenticate, DoCloseSession, DidOpenSession

(* What the handler calls waits in next_event, or in the queue.            *)
LEMMA UnwindCall ==
    ASSUME UnwindInv, ReleasedHasNoLink, ~Idle, Asking
    PROVE  ReleasedHasNoLink' /\ UnwindInv'
  <1>1. /\ in_handler
        /\ UNCHANGED <<link, current_event, cs, todo, in_handler, opened>>
    <2>1. CASE AppOpen
      BY <2>1 DEF AppOpen, MayCall, PushEvent, Idle, websocketVars
    <2>2. CASE AppClose
      BY <2>2 DEF AppClose, MayCall, PushEvent, Idle, websocketVars
    <2>3. CASE AppSend
      BY <2>3 DEF AppSend, MayCall, Idle, machineVars, Websocket!Write, Websocket!websocketVars
    <2> QED
      BY <2>1, <2>2, <2>3 DEF Asking
  <1>2. Checking
    BY <1>1 DEF UnwindInv, AtEnd, Telling, Reporting, Observing
  <1> QED
    BY <1>1, <1>2 DEF UnwindInv, Checking, Idle, ReleasedHasNoLink, Websocket!Live

LEMMA UnwindUses == UnwindInv => "context" \notin UsedNow
  <1> SUFFICES ASSUME UnwindInv, todo # <<>>
               PROVE  "context" \notin Uses(Head(todo))
    BY DEF UsedNow
  <1>1. Head(todo) \in {"did_close_session", "do_check_reachability",
                        "do_start_observing_reachability"}
    BY DEF UnwindInv, AtEnd, Telling, Checking, Reporting, Observing
  <1> QED
    BY <1>1 DEF Uses

LEMMA LifeNextInv == LifeInv /\ [LifeNext]_lifeVars => LifeInv'
  <1> SUFFICES ASSUME LifeInv, [LifeNext]_lifeVars PROVE LifeInv'
    OBVIOUS
  <1> USE DEF LifeInv, Stages
  <1>1. CASE Living
    <2>1. /\ stage = "alive" /\ stage' = "alive" /\ misused' = misused
          /\ [Next]_vars
      BY <1>1 DEF Living, Asking, Next, App
    <2> QED
      BY <2>1, NextInv
  <1>2. CASE Release
    <2>1. stage = "alive" /\ stage' = "destroying" /\ misused' = misused
      BY <1>2 DEF Release
    <2> QED
      BY <1>2, <2>1, ReleaseStep
  <1>3. CASE Unwinding
    <2>1. /\ stage = "destroying" /\ stage' = "destroying" /\ ~Idle
          /\ misused' = misused \cup (UsedNow \cap freed)
          /\ Step \/ Asking
      BY <1>3 DEF Unwinding
    <2> QED
      BY <2>1, UnwindStep, UnwindCall, UnwindUses
  <1>4. CASE Released
    <2>1. /\ stage = "destroying" /\ stage' = "released" /\ Idle
          /\ misused' = misused \cup ({"websocket"} \cap freed')
          /\ UNCHANGED <<link, opened>>
      BY <1>4 DEF Released
    <2>2. ~opened
      BY <2>1 DEF UnwindInv, AtEnd
    <2> QED
      BY <2>1, <2>2 DEF ReleasedHasNoLink, ReleasedIsClosed, Websocket!Live
  <1>5. CASE UNCHANGED lifeVars
    <2>1. UNCHANGED <<vars, stage, misused>>
      BY <1>5 DEF lifeVars
    <2>2. UnwindInv => UnwindInv'
      BY <2>1 DEF vars, machineVars, UnwindInv, AtEnd, Telling, Checking, Reporting, Observing, Idle
    <2>3. ReleasedHasNoLink => ReleasedHasNoLink'
      BY <2>1 DEF vars, websocketVars, ReleasedHasNoLink, Websocket!Live
    <2>4. ReleasedIsClosed => ReleasedIsClosed'
      BY <2>1 DEF vars, ReleasedIsClosed
    <2> QED
      BY <2>1, <2>2, <2>3, <2>4, NextInv
  <1> QED
    BY <1>1, <1>2, <1>3, <1>4, <1>5 DEF LifeNext

-----------------------------------------------------------------------------
THEOREM LifeSound == LifeSpec => []LifeInv
  BY LifeInitInv, LifeNextInv, PTL DEF LifeSpec

(* Until it is released, the session keeps the invariant that it has       *)
(* without a release.                                                      *)
THEOREM AliveAsEver == LifeSpec => [](stage = "alive" => IInv)
  <1>1. LifeInv => (stage = "alive" => IInv)
    BY DEF LifeInv
  <1> QED
    BY <1>1, LifeSound, PTL

(* A session released in any state leaves no connection that could call    *)
(* back, and an application that knows that it closed.                     *)
THEOREM ReleasedEntirely == LifeSpec => []ReleasedForGood
  <1>1. LifeInv => ReleasedForGood
    BY DEF LifeInv, ReleasedForGood
  <1> QED
    BY <1>1, LifeSound, PTL

(* The destruction of the context never sets going another one.            *)
THEOREM ContextDestroyedOnce == LifeSpec => []DestroyedOnce
  <1>1. LifeInv => DestroyedOnce
    BY DEF LifeInv, DestroyedOnce
  <1> QED
    BY <1>1, LifeSound, PTL

(* transport_websocket_release frees its struct before it destroys the     *)
(* queue, which it reads from the struct: so it is on every release.       *)
THEOREM ReadsFreedWebsocket == LifeSpec => [](stage = "released" => "websocket" \in misused)
  <1> DEFINE Read == stage = "released" => "websocket" \in misused
  <1>1. LifeInit => Read
    BY DEF LifeInit
  <1>2. Read /\ [LifeNext]_lifeVars => Read'
    BY DEF LifeNext, Living, Release, Unwinding, Released, lifeVars
  <1> QED
    BY <1>1, <1>2, PTL DEF LifeSpec

-----------------------------------------------------------------------------
(* How far what lws_context_destroy has called back is from its end.       *)
Left ==
    IF Idle THEN 0
    ELSE IF todo = <<>> THEN (IF next_event = NONE THEN 1 ELSE 3)
    ELSE IF todo = <<"do_start_observing_reachability">> THEN 2
    ELSE IF todo = <<"do_check_reachability">> THEN (IF in_handler THEN 5 ELSE 4)
    ELSE 6

LEMMA LeftFalls ==
    ASSUME UnwindInv, ~Idle, Step
    PROVE  Left' < Left
  <1> USE DEF Idle
  <1>1. \/ AtEnd /\ Left = 1
        \/ Observing /\ Left = 2
        \/ Reporting /\ Left = 3
        \/ Checking /\ Left = IF in_handler THEN 5 ELSE 4
        \/ Telling /\ Left = 6
    BY DEF UnwindInv, AtEnd, Observing, Reporting, Checking, Telling, Left, Reported, NONE
  <1>2. ASSUME NEW action, Run(action)
        PROVE  /\ Head(todo) = action /\ todo # <<>> /\ ~in_handler
               /\ todo' = Tail(todo) /\ current_event' = current_event
    BY <1>2 DEF Run
  <1>3. CASE DidCloseSession
    <2>1. Telling /\ Left = 6
      BY <1>1, <1>2, <1>3 DEF DidCloseSession, AtEnd, Observing, Reporting, Checking
    <2>2. todo' = <<"do_check_reachability">> /\ current_event' = current_event
      BY <1>2, <1>3, <2>1 DEF DidCloseSession, Telling
    <2> QED
      BY <2>1, <2>2 DEF Left
  <1>4. CASE DoCheckReachability
    <2>1. Checking /\ Left = 4
      BY <1>1, <1>2, <1>4 DEF DoCheckReachability, AtEnd, Observing, Reporting, Telling
    <2>2. todo' = <<>> /\ current_event' = current_event
      BY <1>2, <1>4, <2>1 DEF DoCheckReachability, Checking
    <2> QED
      BY <2>1, <2>2 DEF Left
  <1>5. CASE DoStartObserving
    <2>1. Observing /\ Left = 2
      BY <1>1, <1>2, <1>5 DEF DoStartObserving, AtEnd, Checking, Reporting, Telling
    <2>2. todo' = <<>> /\ current_event' = current_event /\ next_event' = NONE
      BY <1>2, <1>5, <2>1 DEF DoStartObserving, Observing
    <2> QED
      BY <2>1, <2>2 DEF Left
  <1>6. CASE HandlerReturns
    <2>1. Checking /\ Left = 5
      BY <1>1, <1>6 DEF HandlerReturns, AtEnd, Telling, Reporting, Observing
    <2>2. ~in_handler' /\ UNCHANGED <<todo, current_event>>
      BY <1>6 DEF HandlerReturns, machineVars
    <2> QED
      BY <2>1, <2>2 DEF Left, Checking
  <1>7. CASE FinishEvent
    <2>1. todo = <<>> /\ next_event' = NONE
      BY <1>7 DEF FinishEvent
    <2>2. CASE AtEnd /\ Left = 1
      BY <1>7, <2>2 DEF FinishEvent, AtEnd, Left
    <2>3. CASE Reporting /\ Left = 3
      <3>1. SetEvent("connecting_retry", next_event)
        BY <1>7, <2>3 DEF FinishEvent, Reporting, Reported, NONE
      <3>2. todo' = <<>> \/ todo' = <<"do_start_observing_reachability">>
        BY <2>3, <3>1 DEF SetEvent, Transition, FromConnectingRetry, To, tr10, tr11,
           Reporting, Reported
      <3> QED
        BY <2>1, <2>3, <3>2 DEF Left
    <2> QED
      BY <1>1, <2>1, <2>2, <2>3 DEF Observing, Checking, Telling
  <1>8. ASSUME NEW action, Run(action)
        PROVE  action \in {"did_close_session", "do_check_reachability",
                           "do_start_observing_reachability"}
    BY <1>1, <1>2, <1>8 DEF AtEnd, Telling, Checking, Reporting, Observing
  <1> QED
    BY <1>3, <1>4, <1>5, <1>6, <1>7, <1>8
       DEF Step, DoConnect, DoDisconnectAndSave, DoCheckSessionInfo, DoStopObserving,
           DoAuthenticate, DoCloseSession, DidOpenSession

(* The release of a session does not go round in circles either: whatever  *)
(* the session was doing, and whatever its handler calls once more, at most*)
(* six steps of the machine lead to the end of lws_context_destroy.        *)
THEOREM ReleaseDescends ==
    LifeSpec => [][Unwinding => /\ Left \in 1 .. 6
                                /\ Left' = Left \/ Left' < Left
                                /\ Step => Left' < Left]_lifeVars
  <1> DEFINE Falls == /\ Left \in 1 .. 6
                      /\ Left' = Left \/ Left' < Left
                      /\ Step => Left' < Left
  <1>1. ASSUME LifeInv, Unwinding
        PROVE  Falls
    <2>1. ~Idle /\ UnwindInv
      BY <1>1 DEF Unwinding, LifeInv
    <2>2. Left \in 1 .. 6
      BY <2>1 DEF Left
    <2>3. Step => Left' < Left
      BY <2>1, LeftFalls
    <2>4. Asking => Left' = Left
      <3> SUFFICES ASSUME Asking PROVE Left' = Left
        OBVIOUS
      <3>1. in_handler /\ UNCHANGED <<in_handler, todo, current_event>>
        BY <2>1 DEF Asking, AppOpen, AppClose, AppSend, MayCall, PushEvent, Idle, machineVars
      <3>2. todo = <<"do_check_reachability">>
        BY <2>1, <3>1 DEF UnwindInv, AtEnd, Telling, Reporting, Observing, Checking
      <3> QED
        BY <3>1, <3>2 DEF Left, Idle
    <2> QED
      BY <1>1, <2>2, <2>3, <2>4 DEF Unwinding
  <1> HIDE DEF Falls
  <1>2. LifeInv /\ [LifeNext]_lifeVars => [Unwinding => Falls]_lifeVars
    BY <1>1
  <1>3. LifeSpec => [][Unwinding => Falls]_lifeVars
    BY <1>2, LifeSound, PTL DEF LifeSpec
  <1> QED
    BY <1>3 DEF Falls

-----------------------------------------------------------------------------
(* Types, which IInv has of a session that lives, and which the callbacks  *)
(* of its destruction preserve.                                            *)
LEMMA TransitionTypes ==
    ASSUME NEW s \in States, NEW event \in Events
    PROVE  Transition(s, event).target \in States /\ Transition(s, event).actions \in ActionLists
  <1> DEFINE Ways == [target : States, actions : ActionLists]
  <1>1. /\ {st0, st1, st2, st3, st4, st5, st6, st7} \subseteq Ways
        /\ {tr0, tr3, tr5, tr6, tr8, tr10, tr11, tr12, tr14} \subseteq Ways
        /\ {tr15, tr17, tr18, tr19, tr20, tr22, tr23} \subseteq Ways
    BY DEF To, States, ActionLists, Actions, st0, st1, st2, st3, st4, st5, st6, st7,
       tr0, tr3, tr5, tr6, tr8, tr10, tr11, tr12, tr14, tr15, tr17, tr18, tr19, tr20, tr22, tr23
  <1> HIDE DEF Ways
  <1>2. Transition(s, event) \in Ways
    <2>1. s \in {"idle", "error", "connecting", "connected"} => Transition(s, event) \in Ways
      BY <1>1 DEF Transition, FromIdle, FromError, FromConnecting, FromConnected
    <2>2. s \in {"connecting_retry", "connecting_unreachable"} => Transition(s, event) \in Ways
      BY <1>1 DEF Transition, FromConnectingRetry, FromConnectingUnreachable
    <2>3. s \in {"authenticating", "authenticated"} => Transition(s, event) \in Ways
      BY <1>1 DEF Transition, FromAuthenticating, FromAuthenticated
    <2> QED
      BY <2>1, <2>2, <2>3 DEF States
  <1> QED
    BY <1>2 DEF Ways

MachineTypes ==
    /\ state \in States /\ cs \in States
    /\ current_event \in Events \cup {NONE} /\ next_event \in Events \cup {NONE}
    /\ todo \in Seq(Actions)
    /\ faulted \in BOOLEAN

LEMMA SetEventTypes ==
    ASSUME MachineTypes, NEW s \in States, NEW event \in Events, SetEvent(s, event),
           state' \in States, next_event' \in Events \cup {NONE}
    PROVE  MachineTypes'
  BY TransitionTypes, ListsOfActions DEF MachineTypes, SetEvent

LEMMA PushEventTypes ==
    ASSUME MachineTypes, NEW event \in Events, PushEvent(event)
    PROVE  MachineTypes'
  <1>1. CASE current_event # NONE
    BY <1>1 DEF MachineTypes, PushEvent
  <1>2. CASE current_event = NONE
    <2>1. SetEvent(state, event) /\ UNCHANGED <<state, next_event>>
      BY <1>2 DEF PushEvent
    <2>2. state \in States /\ next_event' \in Events \cup {NONE}
      BY <2>1 DEF MachineTypes
    <2> QED
      BY <2>1, <2>2, SetEventTypes
  <1> QED
    BY <1>1, <1>2

LEMMA UnwindTypes ==
    ASSUME TypeOK, UnwindInv, ~Idle, Step \/ Asking
    PROVE  TypeOK'
  <1>0. MachineTypes /\ Websocket!TypeOK /\ in_handler \in BOOLEAN /\ observing \in BOOLEAN
        /\ opened \in BOOLEAN
    BY DEF TypeOK, MachineTypes
  <1>1. ASSUME UNCHANGED websocketVars
        PROVE  Websocket!TypeOK'
    BY <1>0, <1>1 DEF websocketVars, Websocket!TypeOK
  <1>2. ASSUME UNCHANGED machineVars
        PROVE  MachineTypes'
    BY <1>0, <1>2 DEF machineVars, MachineTypes
  <1>3. ASSUME MachineTypes', UNCHANGED websocketVars, in_handler' \in BOOLEAN,
               observing' \in BOOLEAN, opened' \in BOOLEAN
        PROVE  TypeOK'
    BY <1>1, <1>3 DEF MachineTypes, TypeOK
  <1>4. ASSUME NEW action, Run(action), next_event' \in Events \cup {NONE}
        PROVE  MachineTypes'
    <2>1. todo # <<>> /\ todo' = Tail(todo) /\ UNCHANGED <<state, current_event, cs, faulted>>
      BY <1>4 DEF Run
    <2> QED
      BY <1>0, <1>4, <2>1 DEF MachineTypes
  <1>5. ASSUME NEW action, Run(action)
        PROVE  action \in {"did_close_session", "do_check_reachability",
                           "do_start_observing_reachability"}
    BY <1>5 DEF Run, UnwindInv, AtEnd, Telling, Checking, Reporting, Observing
  <1>6. CASE DidCloseSession \/ DoStartObserving
    <2>1. PICK action : Run(action)
      BY <1>6 DEF DidCloseSession, DoStartObserving
    <2>2. next_event' \in Events \cup {NONE} /\ UNCHANGED websocketVars
      BY <1>0, <1>6 DEF DidCloseSession, DoStartObserving, MachineTypes
    <2>3. in_handler' \in BOOLEAN /\ observing' \in BOOLEAN /\ opened' \in BOOLEAN
      BY <1>0, <1>6 DEF DidCloseSession, DoStartObserving
    <2> QED
      BY <1>3, <1>4, <2>1, <2>2, <2>3
  <1>7. CASE DoCheckReachability
    <2>1. next_event' \in Events \cup {NONE} /\ Run("do_check_reachability")
      BY <1>7 DEF DoCheckReachability, Events
    <2> QED
      BY <1>0, <1>3, <1>4, <1>7, <2>1 DEF DoCheckReachability
  <1>8. CASE HandlerReturns
    BY <1>0, <1>2, <1>3, <1>8 DEF HandlerReturns
  <1>9. CASE FinishEvent
    <2>1. MachineTypes'
      <3>1. CASE next_event = NONE
        BY <1>0, <1>9, <3>1 DEF FinishEvent, MachineTypes
      <3>2. CASE next_event # NONE
        <4>1. cs \in States /\ next_event \in Events
          BY <1>0, <3>2 DEF MachineTypes
        <4>2. SetEvent(cs, next_event) /\ state' = cs /\ next_event' = NONE
          BY <1>9, <3>2 DEF FinishEvent
        <4> QED
          BY <1>0, <4>1, <4>2, SetEventTypes
      <3> QED
        BY <3>1, <3>2
    <2> QED
      BY <1>0, <1>3, <1>9, <2>1 DEF FinishEvent
  <1>10. CASE AppOpen \/ AppClose
    <2>1. MachineTypes'
      BY <1>0, <1>10, PushEventTypes DEF AppOpen, AppClose, Events
    <2> QED
      BY <1>0, <1>3, <1>10, <2>1 DEF AppOpen, AppClose
  <1>11. CASE AppSend
    <2>1. UNCHANGED machineVars /\ UNCHANGED <<in_handler, observing, opened>>
          /\ Websocket!Write("EXAMPLE_PING") /\ "EXAMPLE_PING" \in Messages
      BY <1>11 DEF AppSend, Messages
    <2>2. Websocket!TypeOK'
      <3> USE DEF Websocket!TypeOK, Websocket!Write, Websocket!websocketVars
      <3>1. UNCHANGED <<host, ws_status, ws_context, ws, link, written>>
        BY <2>1
      <3>2. queue' \in Seq(Messages)
        BY <1>0, <2>1
      <3>3. writable' \in BOOLEAN
        BY <1>0, <2>1
      <3> QED
        BY <1>0, <3>1, <3>2, <3>3
    <2> QED
      BY <1>0, <1>2, <2>1, <2>2 DEF MachineTypes, TypeOK
  <1>12. CASE Step
    BY <1>5, <1>6, <1>7, <1>8, <1>9, <1>12
       DEF Step, DoConnect, DoDisconnectAndSave, DoCheckSessionInfo, DoStopObserving,
           DoAuthenticate, DoCloseSession, DidOpenSession
  <1> QED
    BY <1>10, <1>11, <1>12 DEF Asking

LEMMA ReleaseTypes == TypeOK /\ Release => TypeOK'
  <1> SUFFICES ASSUME TypeOK, Release PROVE TypeOK'
    OBVIOUS
  <1>1. UNCHANGED <<host, ws, queue, written, in_handler, observing, opened, ws_context>>
    BY DEF Release
  <1>2. MachineTypes
    BY DEF TypeOK, MachineTypes
  <1>3. MachineTypes'
    <2>1. UNCHANGED machineVars \/ \E event \in Events : PushEvent(event)
      BY DEF Release, Websocket!CallbacksOnDestroy, EventOf, Events
    <2> QED
      BY <1>2, <2>1, PushEventTypes DEF MachineTypes, machineVars
  <1>4. Websocket!TypeOK'
    <2> USE DEF Websocket!TypeOK, TypeOK
    <2>1. ws_status' \in Websocket!Statuses /\ writable' \in BOOLEAN
      BY DEF Release, Websocket!Statuses
    <2>2. link' \in [Contexts -> Websocket!LinkStates]
      BY DEF Release, Websocket!LinkStates
    <2> QED
      BY <1>1, <2>1, <2>2
  <1> QED
    BY <1>1, <1>3, <1>4 DEF TypeOK, MachineTypes

(* Every variable keeps its type through the whole life of the session,    *)
(* the callbacks made while it is being freed included.                    *)
THEOREM LifeTypeCorrect == LifeSpec => []LifeTypeOK
  <1>1. LifeInit => LifeTypeOK
    BY InitInv DEF LifeInit, LifeTypeOK, IInv, Stages
  <1>2. LifeInv /\ LifeTypeOK /\ [LifeNext]_lifeVars => LifeTypeOK'
    <2> SUFFICES ASSUME LifeInv, LifeTypeOK, [LifeNext]_lifeVars PROVE LifeTypeOK'
      OBVIOUS
    <2> USE DEF LifeTypeOK, Stages, Parts
    <2>1. CASE Living
      <3>1. IInv /\ Next
        BY <2>1 DEF Living, LifeInv, Asking, Next, App
      <3>2. TypeOK'
        BY <3>1, NextInv DEF IInv
      <3>3. in_service' \in BOOLEAN /\ asked' \in BOOLEAN
        BY <2>1 DEF Living, Asking
      <3> QED
        BY <2>1, <3>2, <3>3 DEF Living
    <2>2. CASE Release
      BY <2>2, ReleaseTypes DEF Release
    <2>3. CASE Unwinding
      <3>1. TypeOK'
        BY <2>3, UnwindTypes DEF Unwinding, LifeInv
      <3>2. asked' \in BOOLEAN
        BY <2>3 DEF Unwinding, Asking
      <3> QED
        BY <2>3, <3>1, <3>2 DEF Unwinding
    <2>4. CASE Released
      <3>1. Websocket!TypeOK'
        BY <2>4 DEF Released, TypeOK, Websocket!TypeOK
      <3>2. TypeOK'
        BY <2>4, <3>1 DEF Released, TypeOK, machineVars
      <3> QED
        BY <2>4, <3>2 DEF Released
    <2>5. CASE UNCHANGED lifeVars
      <3>1. Websocket!TypeOK'
        BY <2>5 DEF lifeVars, vars, websocketVars, TypeOK, Websocket!TypeOK
      <3>2. TypeOK'
        BY <2>5, <3>1 DEF lifeVars, vars, machineVars, TypeOK
      <3> QED
        BY <2>5, <3>2 DEF lifeVars
    <2> QED
      BY <2>1, <2>2, <2>3, <2>4, <2>5 DEF LifeNext
  <1> QED
    BY <1>1, <1>2, LifeSound, PTL DEF LifeSpec

-----------------------------------------------------------------------------
(* The callbacks alternate to the end: the close_callback that the release *)
(* of an open session sets going comes to who was told that it opened.     *)
THEOREM CallbacksAlternateToTheEnd == LifeSpec => NotificationsAlternate
  <1> DEFINE Alternate == (DidOpenSession => ~opened) /\ (DidCloseSession => opened)
  <1>1. LifeInv /\ stage = "alive" => Alternate
    <2> SUFFICES ASSUME IInv PROVE Alternate
      BY DEF LifeInv
    <2>1. /\ Run("did_open_session") => Pending("did_open_session")
          /\ Run("did_close_session") => Pending("did_close_session")
      BY RunPops DEF IInv, ControlInv
    <2> QED
      BY <2>1 DEF IInv, NotifyInv, DidOpenSession, DidCloseSession
  <1>2. LifeInv /\ stage = "destroying" => Alternate
    BY DEF LifeInv, UnwindInv, AtEnd, Telling, Checking, Reporting, Observing,
       DidOpenSession, DidCloseSession, Run
  <1>3. LifeInv /\ [LifeNext]_lifeVars => [Alternate]_vars
    <2>1. LifeNext => stage \in {"alive", "destroying"}
      BY DEF LifeNext, Living, Release, Unwinding, Released
    <2>2. UNCHANGED lifeVars => UNCHANGED vars
      BY DEF lifeVars
    <2> HIDE DEF Alternate
    <2> QED
      BY <1>1, <1>2, <2>1, <2>2
  <1> QED
    BY <1>3, LifeSound, PTL DEF LifeSpec, NotificationsAlternate

-----------------------------------------------------------------------------
(* The lifecycle, for a handler that only sends.  A notification is made   *)
(* on the way into AUTHENTICATED or out of it; and who does not want the   *)
(* session is out of it, or on the way out.                                *)
TellInv ==
    /\ Pending("did_open_session") => state # "authenticated"
    /\ Pending("did_close_session") => state = "authenticated"

LeavingInv ==
    ~asked => \/ cs \in {"idle", "error"}
              \/ /\ cs = "connected"
                 /\ Pending("do_close_session") \/ next_event = "RESIGN_ACTIVE"

LifecycleInv ==
    /\ LifeInv
    /\ stage = "alive" => TellInv /\ SlotInv /\ LeavingInv

(* A transition that notifies starts where it must. *)
LEMMA WaysToTell ==
    ASSUME NEW s \in States, NEW event \in Events, SetEvent(s, event)
    PROVE  /\ Pending("did_open_session")' => s = "authenticating"
           /\ Pending("did_close_session")' => s = "authenticated"
  <1> DEFINE Quiet == {<<>>, <<"do_connect">>, <<"do_disconnect_and_save">>,
                       <<"do_check_session_info">>, <<"do_check_reachability">>,
                       <<"do_authenticate">>, <<"do_start_observing_reachability">>,
                       <<"do_stop_observing_reachability", "do_disconnect_and_save">>,
                       <<"do_stop_observing_reachability", "do_connect">>}
  <1>1. ASSUME NEW list \in Quiet
        PROVE  "did_open_session" \notin Range(list) /\ "did_close_session" \notin Range(list)
    BY RangeOfLists
  <1>2. \/ todo' \in Quiet
        \/ s = "authenticating" /\ todo' = <<"did_open_session">>
        \/ s = "authenticated"
    <2> USE DEF SetEvent, Transition, To, Lost
    <2>1. s = "idle" \/ s = "error" => todo' \in Quiet
      BY DEF FromIdle, FromError, st0, st1, tr0
    <2>2. s = "connecting" \/ s = "connected" => todo' \in Quiet
      BY DEF FromConnecting, FromConnected, st0, st2, st3, tr3, tr5, tr6, tr8
    <2>3. s = "connecting_retry" => todo' \in Quiet
      BY DEF FromConnectingRetry, st0, st4, tr0, tr3, tr10, tr11
    <2>4. s = "connecting_unreachable" => todo' \in Quiet
      BY DEF FromConnectingUnreachable, st0, st5, tr12, tr14
    <2>5. s = "authenticating" => todo' \in Quiet \/ todo' = <<"did_open_session">>
      BY DEF FromAuthenticating, st0, st6, tr8, tr15, tr17, tr18, tr19
    <2> QED
      BY <2>1, <2>2, <2>3, <2>4, <2>5 DEF States
  <1>3. s = "authenticated" => "did_open_session" \notin Range(todo')
    <2>1. s = "authenticated" =>
             todo' \in {<<>>, <<"did_close_session">>, <<"do_close_session", "did_close_session">>,
                        <<"did_close_session", "do_check_reachability">>}
      BY DEF SetEvent, Transition, To, Lost, FromAuthenticated, st0, st7, tr20, tr22, tr23
    <2> QED
      BY <2>1, RangeOfLists
  <1>4. "did_close_session" \notin Range(<<"did_open_session">>)
    BY RangeOfLists
  <1> HIDE DEF Quiet
  <1> QED
    BY <1>1, <1>2, <1>3, <1>4 DEF Pending

LEMMA TellNext == IInv /\ TellInv /\ Next => TellInv'
  <1> SUFFICES ASSUME IInv, TellInv, Next PROVE TellInv'
    OBVIOUS
  <1>1. ASSUME NEW action, Run(action)
        PROVE  TellInv'
    <2>1. state' = state /\ \A other : Pending(other)' <=> Pending(other) /\ other # action
      BY <1>1, RunPops DEF Run, IInv, ControlInv
    <2> QED
      BY <2>1 DEF TellInv
  <1>2. ASSUME UNCHANGED machineVars
        PROVE  TellInv'
    BY <1>2 DEF machineVars, TellInv, Pending
  <1>3. ASSUME NEW event \in Events, PushEvent(event)
        PROVE  TellInv'
    <2>1. CASE Idle
      BY <1>3, <2>1, WaysToTell DEF PushEvent, Idle, TellInv, IInv, TypeOK
    <2>2. CASE ~Idle
      BY <1>3, <2>2 DEF PushEvent, Idle, TellInv, Pending
    <2> QED
      BY <2>1, <2>2
  <1>4. CASE FinishEvent
    <2>1. /\ todo = <<>> /\ state' = cs
          /\ IF next_event # NONE THEN SetEvent(cs, next_event)
                                  ELSE UNCHANGED <<cs, todo, faulted>>
      BY <1>4 DEF FinishEvent
    <2>2. CASE next_event # NONE
      BY <2>1, <2>2, WaysToTell DEF TellInv, IInv, TypeOK
    <2>3. CASE next_event = NONE
      BY <2>1, <2>3, RangeOfLists DEF TellInv, Pending
    <2> QED
      BY <2>2, <2>3
  <1>5. CASE Step
    BY <1>1, <1>2, <1>4, <1>5
       DEF Step, DoConnect, DoDisconnectAndSave, DoCheckSessionInfo, DoCheckReachability,
           DoStartObserving, DoStopObserving, DoAuthenticate, DoCloseSession,
           DidOpenSession, DidCloseSession, HandlerReturns
  <1>6. CASE App
    BY <1>2, <1>3, <1>6 DEF App, AppOpen, AppClose, AppSend, Events
  <1>7. CASE Service \/ ReachabilityCallback
    <2>1. UNCHANGED machineVars \/ \E event \in Events : PushEvent(event)
      BY <1>7 DEF Service, WebsocketOpens, WebsocketFails, WebsocketCloses, WebsocketWrites,
         WebsocketReads, ReceiveMessage, EventOf, ReachabilityCallback, Events
    <2> QED
      BY <2>1, <1>2, <1>3
  <1> QED
    BY <1>5, <1>6, <1>7 DEF Next

-----------------------------------------------------------------------------
(* RESIGN_ACTIVE leads out of the session, from wherever it is.            *)
LEMMA ResignLeaves ==
    ASSUME NEW s \in States, SetEvent(s, "RESIGN_ACTIVE")
    PROVE  \/ cs' \in {"idle", "error"}
           \/ cs' = "connected" /\ Pending("do_close_session")'
  <1>1. \/ cs' \in {"idle", "error"}
        \/ cs' = "connected" /\ todo' = <<"do_close_session", "did_close_session">>
    <2> USE DEF SetEvent, Transition, To, Lost
    <2>1. s \in {"idle", "error", "connecting", "connected"} => cs' \in {"idle", "error"}
      BY DEF FromIdle, FromError, FromConnecting, FromConnected, st0, st1, tr3
    <2>2. s \in {"connecting_retry", "connecting_unreachable", "authenticating"}
          => cs' \in {"idle", "error"}
      BY DEF FromConnectingRetry, FromConnectingUnreachable, FromAuthenticating, tr3, tr12, tr15
    <2>3. s = "authenticated"
          => cs' = "connected" /\ todo' = <<"do_close_session", "did_close_session">>
      BY DEF FromAuthenticated, tr20
    <2> QED
      BY <2>1, <2>2, <2>3 DEF States
  <1>2. "do_close_session" \in Range(<<"do_close_session", "did_close_session">>)
    BY RangeOfLists
  <1> QED
    BY <1>1, <1>2 DEF Pending

(* Who has left stays out, but for BECOME_ACTIVE. *)
LEMMA LeftStaysOut ==
    ASSUME NEW s \in {"idle", "error"}, NEW event \in Events \ {"BECOME_ACTIVE"},
           SetEvent(s, event)
    PROVE  cs' \in {"idle", "error"}
  BY DEF SetEvent, Transition, FromIdle, FromError, st0, st1, To, Lost

LEMMA LeavingFinish ==
    ASSUME IInv, SlotInv, LeavingInv, FinishEvent, asked' = asked
    PROVE  LeavingInv'
  <1> SUFFICES ASSUME ~asked PROVE LeavingInv'
    BY DEF LeavingInv
  <1>1. /\ todo = <<>> /\ next_event \in Events \cup {NONE} /\ next_event # "BECOME_ACTIVE"
        /\ IF next_event # NONE THEN SetEvent(cs, next_event)
                                ELSE UNCHANGED <<cs, todo, faulted>>
    BY DEF FinishEvent, IInv, TypeOK, SlotInv
  <1>2. \/ cs \in {"idle", "error"}
        \/ cs = "connected" /\ next_event = "RESIGN_ACTIVE"
    BY <1>1, RangeOfLists DEF LeavingInv, Pending
  <1>3. CASE cs \in {"idle", "error"}
    BY <1>1, <1>3, LeftStaysOut DEF LeavingInv
  <1>4. CASE cs = "connected" /\ next_event = "RESIGN_ACTIVE"
    <2>1. SetEvent("connected", "RESIGN_ACTIVE")
      BY <1>1, <1>4 DEF NONE
    <2>2. cs' = "idle"
      BY <2>1 DEF SetEvent, Transition, FromConnected, tr3, To, Lost
    <2> QED
      BY <2>2 DEF LeavingInv
  <1> QED
    BY <1>2, <1>3, <1>4

LEMMA LeavingStep ==
    ASSUME IInv, SlotInv, SlotInv', LeavingInv, Step, asked' = asked,
           FinishEvent \/ (next_event # NONE => next_event' \in {next_event, NONE})
    PROVE  LeavingInv'
  <1> SUFFICES ASSUME ~asked PROVE LeavingInv'
    BY DEF LeavingInv
  <1>1. CASE FinishEvent
    BY <1>1, LeavingFinish
  <1>2. ASSUME NEW action, Run(action), ~FinishEvent,
               action = "do_close_session" => next_event' = "RESIGN_ACTIVE"
        PROVE  LeavingInv'
    <2>1. cs' = cs /\ \A other : Pending(other)' <=> Pending(other) /\ other # action
      BY <1>2, RunPops DEF Run, IInv, ControlInv
    <2>2. CASE cs = "connected" /\ next_event = "RESIGN_ACTIVE"
      <3>1. ~Pending("do_check_session_info")' /\ ~Pending("do_close_session")'
        BY <2>1, <2>2 DEF SlotInv, Pushers, NONE
      <3>2. next_event' # NONE
        BY <2>1, <2>2, <3>1 DEF SlotInv
      <3> QED
        BY <1>2, <2>1, <2>2, <3>2 DEF LeavingInv, NONE
    <2>3. CASE cs = "connected" /\ Pending("do_close_session")
      BY <1>2, <2>1, <2>3 DEF LeavingInv
    <2>4. CASE cs \in {"idle", "error"}
      BY <2>1, <2>4 DEF LeavingInv
    <2> QED
      BY <2>2, <2>3, <2>4 DEF LeavingInv
  <1>3. CASE HandlerReturns
    BY <1>3 DEF HandlerReturns, machineVars, LeavingInv, Pending
  <1>4. CASE DoCloseSession /\ ~FinishEvent
    BY <1>2, <1>4 DEF DoCloseSession
  <1>5. ASSUME NEW action \in Actions \ {"do_close_session"}, Run(action), ~FinishEvent
        PROVE  LeavingInv'
    BY <1>2, <1>5
  <1> QED
    BY <1>1, <1>3, <1>4, <1>5
       DEF Step, DoConnect, DoDisconnectAndSave, DoCheckSessionInfo, DoCheckReachability,
           DoStartObserving, DoStopObserving, DoAuthenticate, DidOpenSession, DidCloseSession,
           Actions

LEMMA LeavingOutside ==
    ASSUME HandlerCalls \subseteq {"send"}, IInv, SlotInv, LeavingInv,
           \/ (Service \/ ReachabilityCallback) /\ asked' = asked
           \/ Asking
    PROVE  LeavingInv'
  <1>1. ASSUME UNCHANGED machineVars, asked' = asked
        PROVE  LeavingInv'
    BY <1>1 DEF machineVars, LeavingInv, Pending
  <1>2. ASSUME Idle, NEW event \in Events \ {"BECOME_ACTIVE"}, PushEvent(event), asked' = asked
        PROVE  LeavingInv'
    <2>1. SetEvent(cs, event) /\ todo = <<>> /\ next_event = NONE
      BY <1>2, IdleFacts DEF PushEvent, Idle
    <2>2. ~asked => cs \in {"idle", "error"}
      BY <2>1, RangeOfLists DEF LeavingInv, Pending, NONE
    <2> QED
      BY <1>2, <2>1, <2>2, LeftStaysOut DEF LeavingInv
  <1>3. CASE (Service \/ ReachabilityCallback) /\ asked' = asked
    <2>1. \/ UNCHANGED machineVars
          \/ Idle /\ \E event \in Events \ {"BECOME_ACTIVE"} : PushEvent(event)
      BY <1>3 DEF Service, WebsocketOpens, WebsocketFails, WebsocketCloses, WebsocketWrites,
         WebsocketReads, ReceiveMessage, EventOf, ReachabilityCallback, Events
    <2> QED
      BY <1>1, <1>2, <1>3, <2>1
  <1>4. CASE AppOpen /\ asked' = TRUE
    BY <1>4 DEF LeavingInv
  <1>5. CASE AppClose
    <2>1. Idle /\ PushEvent("RESIGN_ACTIVE")
      BY <1>5 DEF AppClose, MayCall
    <2>2. SetEvent(state, "RESIGN_ACTIVE") /\ state \in States
      BY <2>1, IdleFacts DEF PushEvent, Idle
    <2> QED
      BY <2>2, ResignLeaves DEF LeavingInv
  <1>6. CASE AppSend /\ asked' = asked
    BY <1>1, <1>6 DEF AppSend
  <1> QED
    BY <1>3, <1>4, <1>5, <1>6 DEF Asking

-----------------------------------------------------------------------------
LEMMA LifecycleNextInv ==
    ASSUME HandlerCalls \subseteq {"send"}, LifecycleInv, [LifeNext]_lifeVars
    PROVE  LifecycleInv'
  <1>1. LifeInv'
    BY LifeNextInv DEF LifecycleInv
  <1>2. CASE stage' # "alive"
    BY <1>1, <1>2 DEF LifecycleInv
  <1>3. CASE Living
    <2>1. IInv /\ SlotInv /\ TellInv /\ LeavingInv /\ Next
      BY <1>3 DEF Living, LifecycleInv, LifeInv, Asking, Next, App
    <2>2. SlotInv' /\ (next_event # NONE => next_event' \in {next_event, NONE})
      BY <2>1, SlotNext
    <2>3. TellInv'
      BY <2>1, TellNext
    <2>4. LeavingInv'
      BY <1>3, <2>1, <2>2, LeavingStep, LeavingOutside DEF Living
    <2> QED
      BY <1>1, <2>2, <2>3, <2>4 DEF LifecycleInv
  <1>4. CASE UNCHANGED lifeVars
    <2>1. UNCHANGED <<machineVars, stage, asked>>
      BY <1>4 DEF lifeVars, vars
    <2>2. /\ TellInv => TellInv'
          /\ SlotInv => SlotInv'
          /\ LeavingInv => LeavingInv'
      BY <2>1 DEF machineVars, TellInv, SlotInv, LeavingInv, Pending
    <2> QED
      BY <1>1, <2>1, <2>2 DEF LifecycleInv
  <1> QED
    BY <1>2, <1>3, <1>4 DEF LifeNext, Release, Unwinding, Released

LEMMA LifecycleInit == LifeInit => LifecycleInv /\ Lifecycle!Init
  <1> SUFFICES ASSUME LifeInit PROVE LifecycleInv /\ Lifecycle!Init
    OBVIOUS
  <1>1. LifeInv /\ SlotInv
    BY LifeInitInv, SlotInit DEF LifeInit
  <1>2. TellInv /\ LeavingInv
    BY RangeOfLists DEF LifeInit, Init, TellInv, LeavingInv, Pending
  <1> QED
    BY <1>1, <1>2 DEF LifecycleInv, LifeInit, Init, Lifecycle!Init

-----------------------------------------------------------------------------
(* The release of a session whose handler only sends, too, needs but one   *)
(* slot: whatever the destruction of the context calls back finds it empty.*)
EndInv ==
    stage # "alive" => /\ state # "connected" /\ cs # "connected"
                       /\ todo # <<>> => next_event = NONE

LEMMA EndRelease == IInv /\ SlotInv /\ Release => EndInv' /\ next_event' = next_event
  <1> SUFFICES ASSUME IInv, SlotInv, Release PROVE EndInv' /\ next_event' = next_event
    OBVIOUS
  <1>1. Idle /\ cs = state /\ state # "connected" /\ state \in States /\ next_event = NONE
    <2>1. Idle
      BY DEF Release
    <2> QED
      BY <2>1, IdleFacts, RangeOfLists DEF SlotInv, Pending
  <1>2. CASE UNCHANGED machineVars
    BY <1>1, <1>2 DEF machineVars, EndInv
  <1>3. ASSUME NEW event \in Lost, PushEvent(event)
        PROVE  EndInv' /\ next_event' = next_event
    <2>1. SetEvent(state, event) /\ state' = state /\ next_event' = next_event
      BY <1>1, <1>3 DEF PushEvent, Idle
    <2>2. cs' # "connected"
      <3> USE DEF SetEvent, Transition, To, Lost
      <3>1. state \in {"idle", "error", "connecting"} => cs' # "connected"
        BY <2>1 DEF FromIdle, FromError, FromConnecting, st0, st1, tr6
      <3>2. state \in {"connecting_retry", "connecting_unreachable"} => cs' # "connected"
        BY <2>1 DEF FromConnectingRetry, FromConnectingUnreachable, st0
      <3>3. state \in {"authenticating", "authenticated"} => cs' # "connected"
        BY <2>1 DEF FromAuthenticating, FromAuthenticated, tr17, tr22
      <3> QED
        BY <1>1, <3>1, <3>2, <3>3 DEF States
    <2> QED
      BY <1>1, <2>1, <2>2 DEF EndInv
  <1>4. UNCHANGED machineVars \/ \E event \in Lost : PushEvent(event)
    BY DEF Release, Websocket!CallbacksOnDestroy, EventOf, Lost
  <1> QED
    BY <1>2, <1>3, <1>4

LEMMA EndUnwinds ==
    ASSUME HandlerCalls \subseteq {"send"}, UnwindInv, EndInv, Unwinding
    PROVE  EndInv' /\ (next_event # NONE => next_event' \in {next_event, NONE})
  <1>1. /\ stage = "destroying" /\ state # "connected" /\ cs # "connected" /\ ~Idle
        /\ todo # <<>> => next_event = NONE
    BY DEF Unwinding, EndInv
  <1>2. ASSUME NEW action, Run(action)
        PROVE  /\ \/ action = "did_close_session" /\ Telling
                  \/ action \in {"do_check_reachability", "do_start_observing_reachability"}
                     /\ todo' = <<>>
               /\ next_event = NONE /\ UNCHANGED <<state, cs>>
    <2>1. todo # <<>> /\ todo' = Tail(todo) /\ Head(todo) = action /\ UNCHANGED <<state, cs>>
      BY <1>2 DEF Run
    <2>2. Telling \/ Checking \/ Observing
      BY <2>1 DEF UnwindInv, AtEnd, Reporting
    <2>3. CASE Telling
      BY <1>1, <2>1, <2>3 DEF Telling
    <2>4. CASE Checking
      BY <1>1, <2>1, <2>4 DEF Checking
    <2>5. CASE Observing
      BY <1>1, <2>1, <2>5 DEF Observing
    <2> QED
      BY <2>2, <2>3, <2>4, <2>5
  <1>3. CASE DidCloseSession
    BY <1>1, <1>2, <1>3 DEF DidCloseSession, EndInv
  <1>4. CASE DoCheckReachability
    BY <1>1, <1>2, <1>4 DEF DoCheckReachability, EndInv
  <1>5. CASE DoStartObserving
    BY <1>1, <1>2, <1>5 DEF DoStartObserving, EndInv
  <1>6. CASE HandlerReturns \/ Asking
    <2>1. UNCHANGED machineVars
      BY <1>1, <1>6 DEF HandlerReturns, Asking, AppOpen, AppClose, AppSend, MayCall
    <2> QED
      BY <1>1, <2>1 DEF machineVars, EndInv
  <1>7. CASE FinishEvent
    <2>1. state' = cs /\ next_event' = NONE
      BY <1>7 DEF FinishEvent
    <2>2. cs' # "connected"
      <3>1. CASE next_event = NONE
        BY <1>1, <1>7, <3>1 DEF FinishEvent
      <3>2. CASE next_event # NONE
        <4>1. Reporting /\ SetEvent("connecting_retry", next_event)
          BY <1>7, <3>2 DEF FinishEvent, UnwindInv, AtEnd, Telling, Checking, Reporting, Observing
        <4> QED
          BY <4>1 DEF SetEvent, Transition, FromConnectingRetry, To, tr10, tr11,
             Reporting, Reported
      <3> QED
        BY <3>1, <3>2
    <2> QED
      BY <1>1, <2>1, <2>2 DEF EndInv
  <1>8. CASE Step
    BY <1>2, <1>3, <1>4, <1>5, <1>6, <1>7, <1>8
       DEF Step, DoConnect, DoDisconnectAndSave, DoCheckSessionInfo, DoStopObserving,
           DoAuthenticate, DoCloseSession, DidOpenSession
  <1> QED
    BY <1>6, <1>8 DEF Unwinding

LEMMA EndNext ==
    ASSUME HandlerCalls \subseteq {"send"}, LifecycleInv, EndInv, [LifeNext]_lifeVars
    PROVE  EndInv' /\ (next_event # NONE => next_event' \in {next_event, NONE})
  <1>1. CASE Living
    <2>1. IInv /\ SlotInv /\ Next /\ stage' = "alive"
      BY <1>1 DEF Living, LifecycleInv, LifeInv, Asking, Next, App
    <2> QED
      BY <2>1, SlotNext DEF EndInv
  <1>2. CASE Release
    BY <1>2, EndRelease DEF Release, LifecycleInv, LifeInv
  <1>3. CASE Unwinding
    BY <1>3, EndUnwinds DEF Unwinding, LifecycleInv, LifeInv
  <1>4. CASE Released \/ UNCHANGED lifeVars
    <2>1. UNCHANGED machineVars /\ (stage # "alive" <=> stage' # "alive" \/ Released)
      BY <1>4 DEF Released, lifeVars, vars
    <2> QED
      BY <1>4, <2>1 DEF Released, lifeVars, vars, machineVars, EndInv
  <1> QED
    BY <1>1, <1>2, <1>3, <1>4 DEF LifeNext

LEMMA EndSound ==
    ASSUME HandlerCalls \subseteq {"send"}
    PROVE  LifeSpec => [](LifecycleInv /\ EndInv)
  <1>1. LifeInit => LifecycleInv /\ EndInv
    BY LifecycleInit DEF LifeInit, EndInv
  <1>2. LifecycleInv /\ EndInv /\ [LifeNext]_lifeVars => (LifecycleInv /\ EndInv)'
    BY LifecycleNextInv, EndNext
  <1> QED
    BY <1>1, <1>2, PTL DEF LifeSpec

(* No event waiting in next_event is replaced by another, from the creation*)
(* of the session to its end, if the handler only sends.                   *)
THEOREM OneSlotToTheEnd ==
    ASSUME HandlerCalls \subseteq {"send"}
    PROVE  LifeSpec => NoEventOverwritten
  <1>1. LifecycleInv /\ EndInv /\ [LifeNext]_lifeVars
        => [next_event # NONE => next_event' \in {next_event, NONE}]_vars
    BY EndNext
  <1> QED
    BY <1>1, EndSound, PTL DEF LifeSpec, NoEventOverwritten

(* ... and the machine does not rest in CONNECTED while it is released.    *)
THEOREM ConnectedIsPassedToTheEnd ==
    ASSUME HandlerCalls \subseteq {"send"}
    PROVE  LifeSpec => []ConnectedIsTransient
  <1>1. LifecycleInv /\ EndInv => ConnectedIsTransient
    <2>1. CASE stage = "alive"
      BY <2>1, IdleFacts, RangeOfLists
         DEF LifecycleInv, LifeInv, SlotInv, ConnectedIsTransient, Pending
    <2>2. CASE stage # "alive"
      BY <2>2 DEF EndInv, ConnectedIsTransient
    <2> QED
      BY <2>1, <2>2
  <1> QED
    BY <1>1, EndSound, PTL

-----------------------------------------------------------------------------
(* Each step is one of the lifecycle, or none: a callback is itself, what  *)
(* is_open returns settles when the transition is finished, and all else   *)
(* is not seen by the application.                                         *)
LEMMA StepSimulates ==
    ASSUME LifecycleInv, Step, asked' = asked, stage \in {"alive", "destroying"},
           stage = "destroying" => ~Idle
    PROVE  [Lifecycle!Next]_(Lifecycle!lifecycleVars)
  <1> USE DEF Lifecycle!Next, Lifecycle!lifecycleVars
  <1>1. CASE DidOpenSession
    <2>1. stage = "alive"
      BY <1>1 DEF DidOpenSession, Run, LifecycleInv, LifeInv, UnwindInv, AtEnd, Telling,
         Checking, Reporting, Observing
    <2>2. Pending("did_open_session") /\ state' = state /\ opened' = TRUE
      BY <1>1, <2>1, RunPops DEF DidOpenSession, Run, LifecycleInv, LifeInv, IInv, ControlInv
    <2>3. ~opened /\ cs = "authenticated" /\ state # "authenticated"
      BY <2>1, <2>2 DEF LifecycleInv, LifeInv, IInv, NotifyInv, TellInv
    <2>4. asked
      BY <2>1, <2>3 DEF LifecycleInv, LeavingInv
    <2> QED
      BY <2>2, <2>3, <2>4 DEF Lifecycle!OpenCallback
  <1>2. CASE DidCloseSession
    <2>1. opened /\ state = "authenticated"
      <3>1. CASE stage = "alive"
        <4>1. Pending("did_close_session")
          BY <1>2, <3>1, RunPops DEF DidCloseSession, LifecycleInv, LifeInv, IInv, ControlInv
        <4> QED
          BY <3>1, <4>1 DEF LifecycleInv, LifeInv, IInv, NotifyInv, TellInv
      <3>2. CASE stage = "destroying"
        BY <1>2, <3>2 DEF DidCloseSession, Run, LifecycleInv, LifeInv, UnwindInv, AtEnd,
           Telling, Checking, Reporting, Observing
      <3> QED
        BY <3>1, <3>2
    <2>2. state' = state /\ opened' = FALSE
      BY <1>2 DEF DidCloseSession, Run
    <2> QED
      BY <2>1, <2>2 DEF Lifecycle!CloseCallback
  <1>3. CASE FinishEvent
    <2>1. state' = cs /\ opened' = opened /\ todo = <<>>
      BY <1>3 DEF FinishEvent
    <2>2. opened <=> cs = "authenticated"
      <3>1. CASE stage = "alive"
        BY <2>1, <3>1, AtRest DEF LifecycleInv, LifeInv
      <3>2. CASE stage = "destroying"
        BY <2>1, <3>2 DEF LifecycleInv, LifeInv, UnwindInv, AtEnd, Telling, Checking,
           Reporting, Observing
      <3> QED
        BY <3>1, <3>2
    <2>3. opened \in BOOLEAN => (state' = "authenticated") = opened
      BY <2>1, <2>2
    <2> QED
      BY <2>1, <2>2, <2>3 DEF Lifecycle!Settle
  <1>4. ASSUME UNCHANGED <<state, opened>>
        PROVE  [Lifecycle!Next]_(Lifecycle!lifecycleVars)
    BY <1>4
  <1> QED
    BY <1>1, <1>2, <1>3, <1>4
       DEF Step, DoConnect, DoDisconnectAndSave, DoCheckSessionInfo, DoCheckReachability,
           DoStartObserving, DoStopObserving, DoAuthenticate, DoCloseSession, HandlerReturns,
           Run, machineVars

LEMMA LifeSimulates ==
    ASSUME LifecycleInv, [LifeNext]_lifeVars
    PROVE  [Lifecycle!Next]_(Lifecycle!lifecycleVars)
  <1> USE DEF Lifecycle!lifecycleVars
  <1>1. ASSUME UNCHANGED <<state, opened, asked>>
        PROVE  [Lifecycle!Next]_(Lifecycle!lifecycleVars)
    BY <1>1
  <1>2. ASSUME NEW event \in Events, PushEvent(event)
        PROVE  state' = state
    BY <1>2 DEF PushEvent
  <1>3. CASE Asking
    <2>1. state' = state /\ opened' = opened
      BY <1>2, <1>3 DEF Asking, AppOpen, AppClose, AppSend, Events, machineVars
    <2>2. asked' = TRUE \/ asked' = FALSE \/ asked' = asked
      BY <1>3 DEF Asking
    <2> QED
      BY <2>1, <2>2 DEF Lifecycle!Next, Lifecycle!Ask, Lifecycle!Leave
  <1>4. CASE Living
    <2>1. CASE Step /\ asked' = asked
      BY <1>4, <2>1, StepSimulates DEF Living
    <2>2. CASE (Service \/ ReachabilityCallback) /\ asked' = asked
      <3>1. UNCHANGED machineVars \/ \E event \in Events : PushEvent(event)
        BY <2>2 DEF Service, WebsocketOpens, WebsocketFails, WebsocketCloses, WebsocketWrites,
           WebsocketReads, ReceiveMessage, EventOf, ReachabilityCallback, Events
      <3>2. opened' = opened
        BY <2>2 DEF Service, WebsocketOpens, WebsocketFails, WebsocketCloses, WebsocketWrites,
           WebsocketReads, ReceiveMessage, ReachabilityCallback
      <3> QED
        BY <1>1, <1>2, <2>2, <3>1, <3>2 DEF machineVars
    <2> QED
      BY <1>3, <1>4, <2>1, <2>2 DEF Living
  <1>5. CASE Release
    <2>1. UNCHANGED machineVars \/ \E event \in Events : PushEvent(event)
      BY <1>5 DEF Release, Websocket!CallbacksOnDestroy, EventOf, Events
    <2> QED
      BY <1>1, <1>2, <1>5, <2>1 DEF Release, machineVars
  <1>6. CASE Unwinding
    BY <1>3, <1>6, StepSimulates DEF Unwinding
  <1>7. CASE Released \/ UNCHANGED lifeVars
    BY <1>1, <1>7 DEF Released, machineVars, lifeVars, vars
  <1> QED
    BY <1>4, <1>5, <1>6, <1>7 DEF LifeNext

(* The session implements the safety part of the lifecycle, as long as the *)
(* handler does not open or close it: open_callback comes only to who      *)
(* asked last and alternates with close_callback, and what                 *)
(* transport_session_is_open returns follows what was told.                *)
THEOREM LifecycleSafety ==
    ASSUME HandlerCalls \subseteq {"send"}
    PROVE  LifeSpec => Lifecycle!Init /\ [][Lifecycle!Next]_(Lifecycle!lifecycleVars)
  <1>1. LifeInit => LifecycleInv /\ Lifecycle!Init
    BY LifecycleInit
  <1>2. LifecycleInv /\ [LifeNext]_lifeVars => LifecycleInv'
    BY LifecycleNextInv
  <1>3. LifecycleInv /\ [LifeNext]_lifeVars => [Lifecycle!Next]_(Lifecycle!lifecycleVars)
    BY LifeSimulates
  <1> QED
    BY <1>1, <1>2, <1>3, PTL DEF LifeSpec

-----------------------------------------------------------------------------
(* What the session keeps of its context without a release, it keeps as    *)
(* long as it lives.                                                       *)
AliveIdleInv == stage = "alive" => IdleInv

LEMMA AliveIdleInit == LifeInit => AliveIdleInv
  BY DEF LifeInit, Init, Websocket!Create, IdleInv, AliveIdleInv

LEMMA AliveIdleNext == LifeInv /\ AliveIdleInv /\ [LifeNext]_lifeVars => AliveIdleInv'
  <1> SUFFICES ASSUME LifeInv, AliveIdleInv, [LifeNext]_lifeVars, stage' = "alive"
               PROVE  IdleInv'
    BY DEF AliveIdleInv
  <1>1. CASE Living
    <2>1. IInv /\ IdleInv /\ Next
      BY <1>1 DEF Living, LifeInv, AliveIdleInv, Asking, Next, App
    <2> QED
      BY <2>1, IdleSteps, IdleOutside DEF Next
  <1>2. CASE UNCHANGED lifeVars
    BY <1>2 DEF lifeVars, vars, websocketVars, machineVars, AliveIdleInv, IdleInv, Pending
  <1> QED
    BY <1>1, <1>2 DEF LifeNext, Release, Unwinding, Released

(* Released at rest in IDLE, the session holds no context, so that nothing *)
(* is called back.                                                         *)
THEOREM QuietAfterClose == LifeSpec => ClosedReleasesQuietly
  <1>1. LifeInv /\ AliveIdleInv => (Release /\ state = "idle" /\ ~faulted => Idle')
    <2> SUFFICES ASSUME IInv, IdleInv, Release, state = "idle", ~faulted PROVE Idle'
      BY DEF LifeInv, AliveIdleInv, Release
    <2>1. ws_context = NULL
      BY IdleFacts, RangeOfLists DEF IdleInv, Release, Pending
    <2> QED
      BY <2>1 DEF Release, Idle, machineVars
  <1>2. LifeInv /\ AliveIdleInv /\ [LifeNext]_lifeVars
        => [Release /\ state = "idle" /\ ~faulted => Idle']_lifeVars
    BY <1>1
  <1> QED
    BY <1>2, AliveIdleInit, AliveIdleNext, LifeSound, PTL DEF LifeSpec, ClosedReleasesQuietly

(* What an application that closed the session finds once the machine is   *)
(* at rest: nothing is connected, whatever was going on when it called.    *)
ClosedAtRest ==
    stage = "alive" /\ Idle /\ ~asked /\ ~faulted => state = "idle" /\ ws_context = NULL

(* transport_session_close, called last by the application, ends in IDLE   *)
(* with the context destroyed whenever the machine is at rest, if it has   *)
(* not been through its error state and the handler only sends: the safety *)
(* half of CloseDisconnects.                                               *)
THEOREM ClosedIsDisconnected ==
    ASSUME HandlerCalls \subseteq {"send"}
    PROVE  LifeSpec => []ClosedAtRest
  <1>1. LifeInit => LifecycleInv /\ AliveIdleInv
    BY LifecycleInit, AliveIdleInit
  <1>2. LifecycleInv /\ [LifeNext]_lifeVars => LifecycleInv'
    BY LifecycleNextInv
  <1>3. LifecycleInv /\ AliveIdleInv /\ [LifeNext]_lifeVars => AliveIdleInv'
    BY AliveIdleNext DEF LifecycleInv
  <1>4. LifecycleInv /\ AliveIdleInv => ClosedAtRest
    <2> SUFFICES ASSUME IInv, LeavingInv, IdleInv, Idle, ~asked, ~faulted
                 PROVE  state = "idle" /\ ws_context = NULL
      BY DEF LifecycleInv, LifeInv, AliveIdleInv, ClosedAtRest
    <2>1. cs = state /\ next_event # "RESIGN_ACTIVE" /\ \A action : ~Pending(action)
      BY IdleFacts, RangeOfLists DEF Pending, NONE
    <2> QED
      BY <2>1 DEF LeavingInv, IdleInv
  <1> QED
    BY <1>1, <1>2, <1>3, <1>4, PTL DEF LifeSpec

-----------------------------------------------------------------------------
(* What lws_service sets going, for a handler that only sends: neither the *)
(* actions that open or destroy a connection, nor an event that leads to   *)
(* them.                                                                   *)
Disruptive == {"do_connect", "do_disconnect_and_save", "do_close_session"}

Harmless(s, event) ==
    \/ event \in {"CONNECTION_ESTABLISHED", "CONNECTION_FAILED", "CONNECTION_DISCONNECTED",
                  "AUTHENTICATED_RECEIVED", "CLOSE_RECEIVED"}
    \/ event = "SESSION_INFO_EXISTS" /\ s = "connected"
    \/ event \in Reported /\ s = "connecting_retry"

ServedInv ==
    in_service => /\ stage = "alive" /\ ~Idle
                  /\ \A action \in Disruptive : ~Pending(action)
                  /\ next_event = NONE \/ Harmless(cs, next_event)

LEMMA HarmlessWays ==
    ASSUME NEW s \in States, NEW event \in Events, Harmless(s, event), SetEvent(s, event)
    PROVE  \A action \in Disruptive : ~Pending(action)'
  <1> DEFINE Rest == {<<>>, <<"do_check_session_info">>, <<"do_check_reachability">>,
                      <<"do_authenticate">>, <<"did_open_session">>, <<"did_close_session">>,
                      <<"did_close_session", "do_check_reachability">>,
                      <<"do_start_observing_reachability">>}
  <1>1. todo' \in Rest
    <2> USE DEF SetEvent, Transition, To, Lost, Harmless, Reported
    <2>1. s \in {"idle", "error", "connecting", "connected"} => todo' \in Rest
      BY DEF FromIdle, FromError, FromConnecting, FromConnected, st0, st1, tr5, tr6, tr8
    <2>2. s \in {"connecting_retry", "connecting_unreachable"} => todo' \in Rest
      BY DEF FromConnectingRetry, FromConnectingUnreachable, st0, tr10, tr11
    <2>3. s \in {"authenticating", "authenticated"} => todo' \in Rest
      BY DEF FromAuthenticating, FromAuthenticated, st0, st7, tr17, tr18, tr19, tr22, tr23
    <2> QED
      BY <2>1, <2>2, <2>3 DEF States
  <1>2. ASSUME NEW list \in Rest, NEW action \in Disruptive
        PROVE  action \notin Range(list)
    BY <1>2, RangeOfLists DEF Disruptive
  <1> QED
    BY <1>1, <1>2 DEF Pending

LEMMA ServedStep ==
    ASSUME IInv, ServedInv, Step, stage = "alive", stage' = stage,
           in_service, in_service', ~Idle'
    PROVE  ServedInv'
  <1>0. /\ \A action \in Disruptive : ~Pending(action)
        /\ next_event = NONE \/ Harmless(cs, next_event)
    BY DEF ServedInv
  <1>1. ASSUME NEW action \in Actions \ Disruptive, Run(action),
               next_event' # next_event => Harmless(cs, next_event')
        PROVE  ServedInv'
    <2>1. cs' = cs /\ \A other : Pending(other)' <=> Pending(other) /\ other # action
      BY <1>1, RunPops DEF Run, IInv, ControlInv
    <2> QED
      BY <1>0, <1>1, <2>1 DEF ServedInv, Harmless
  <1>2. CASE DoConnect \/ DoDisconnectAndSave \/ DoCloseSession
    <2>1. PICK action \in Disruptive : Run(action)
      BY <1>2 DEF DoConnect, DoDisconnectAndSave, DoCloseSession, Disruptive
    <2>2. Pending(action)
      BY <2>1, RunPops DEF Run, IInv, ControlInv
    <2> QED
      BY <1>0, <2>1, <2>2
  <1>3. CASE DoCheckSessionInfo
    <2>1. Run("do_check_session_info") /\ Pending("do_check_session_info")
      BY <1>3, RunPops DEF DoCheckSessionInfo, Run, IInv, ControlInv
    <2>2. cs = "connected" /\ next_event' = "SESSION_INFO_EXISTS"
      BY <1>3, <2>1 DEF DoCheckSessionInfo, IInv, ControlInv
    <2> QED
      BY <1>1, <2>1, <2>2 DEF Harmless, Actions, Disruptive
  <1>4. CASE DoCheckReachability
    <2>1. Run("do_check_reachability") /\ Pending("do_check_reachability")
      BY <1>4, RunPops DEF DoCheckReachability, Run, IInv, ControlInv
    <2>2. cs = "connecting_retry" /\ next_event' \in Reported
      BY <1>4, <2>1 DEF DoCheckReachability, IInv, ControlInv, Reported
    <2> QED
      BY <1>1, <2>1, <2>2 DEF Harmless, Actions, Disruptive
  <1>5. CASE HandlerReturns
    BY <1>0, <1>5 DEF HandlerReturns, machineVars, ServedInv, Pending, Harmless
  <1>6. CASE FinishEvent
    <2>1. next_event # NONE
      BY <1>6 DEF FinishEvent, Idle
    <2>2. SetEvent(cs, next_event) /\ next_event' = NONE
      BY <1>6, <2>1 DEF FinishEvent
    <2>3. cs \in States /\ next_event \in Events
      BY <2>1 DEF IInv, TypeOK
    <2> QED
      BY <1>0, <2>1, <2>2, <2>3, HarmlessWays DEF ServedInv
  <1>7. CASE DoStartObserving \/ DoStopObserving \/ DoAuthenticate \/ DidOpenSession \/ DidCloseSession
    BY <1>1, <1>7 DEF DoStartObserving, DoStopObserving, DoAuthenticate, DidOpenSession,
       DidCloseSession, Actions, Disruptive
  <1> QED
    BY <1>2, <1>3, <1>4, <1>5, <1>6, <1>7 DEF Step

LEMMA ServedNext ==
    ASSUME HandlerCalls \subseteq {"send"}, LifeInv, ServedInv, [LifeNext]_lifeVars
    PROVE  ServedInv'
  <1> SUFFICES ASSUME in_service' PROVE ServedInv'
    BY DEF ServedInv
  <1>1. CASE Living
    <2>1. IInv /\ stage = "alive" /\ stage' = "alive"
      BY <1>1 DEF Living, LifeInv
    <2>2. CASE Step /\ in_service' = (in_service /\ ~Idle')
      <3>1. in_service /\ ~Idle'
        BY <2>2
      <3> QED
        BY <2>1, <2>2, <3>1, ServedStep
    <2>3. CASE Service /\ in_service' = ~Idle'
      <3>1. Idle /\ ~Idle'
        BY <2>3 DEF Service, WebsocketOpens, WebsocketFails, WebsocketCloses, WebsocketWrites,
           WebsocketReads
      <3>2. PICK event \in Events : PushEvent(event) /\ Harmless(state, event)
        BY <2>3, <3>1 DEF Service, WebsocketOpens, WebsocketFails, WebsocketCloses,
           WebsocketWrites, WebsocketReads, ReceiveMessage, EventOf, Events, Harmless,
           machineVars, Idle
      <3>3. SetEvent(state, event) /\ next_event' = NONE
        BY <2>1, <3>1, <3>2, IdleFacts DEF PushEvent, Idle, IInv, ControlInv
      <3> QED
        BY <2>1, <3>1, <3>2, <3>3, HarmlessWays DEF ServedInv, IInv, TypeOK
    <2>4. CASE Asking /\ in_service' = in_service
      <3>1. UNCHANGED machineVars
        BY <2>1, <2>4 DEF Asking, AppOpen, AppClose, AppSend, MayCall, ServedInv
      <3> QED
        BY <2>1, <2>4, <3>1 DEF machineVars, ServedInv, Idle, Pending, Harmless
    <2>5. CASE ReachabilityCallback /\ in_service' = in_service
      BY <2>5 DEF ReachabilityCallback, ServedInv
    <2> QED
      BY <1>1, <2>2, <2>3, <2>4, <2>5 DEF Living
  <1>2. CASE Release \/ Unwinding \/ Released
    BY <1>2 DEF Release, Unwinding, Released, ServedInv
  <1>3. CASE UNCHANGED lifeVars
    BY <1>3 DEF lifeVars, vars, machineVars, ServedInv, Idle, Pending, Harmless
  <1> QED
    BY <1>1, <1>2, <1>3 DEF LifeNext

(* Nothing that lws_service calls back destroys the context, unless the    *)
(* handler closes the session.                                             *)
THEOREM ContextOutlives ==
    ASSUME HandlerCalls \subseteq {"send"}
    PROVE  LifeSpec => []ContextOutlivesItsCallback
  <1>1. LifeInit => ServedInv
    BY DEF LifeInit, ServedInv
  <1>2. LifeInv /\ ServedInv /\ [LifeNext]_lifeVars => ServedInv'
    BY ServedNext
  <1>3. LifeInv /\ ServedInv => ContextOutlivesItsCallback
    <2> SUFFICES ASSUME LifeInv, ServedInv, in_service, todo # <<>>
                 PROVE  Head(todo) # "do_disconnect_and_save"
      BY DEF ContextOutlivesItsCallback
    <2>1. IInv /\ ~Pending("do_disconnect_and_save")
      BY DEF ServedInv, LifeInv, Disruptive
    <2>2. Head(todo) \in Range(todo)
      BY <2>1, RangeOfLists DEF IInv, ControlInv, ActionLists
    <2> QED
      BY <2>1, <2>2 DEF Pending
  <1> QED
    BY <1>1, <1>2, <1>3, LifeSound, PTL DEF LifeSpec
=============================================================================
