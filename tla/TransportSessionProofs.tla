----------------------- MODULE TransportSessionProofs -----------------------
(***************************************************************************)
(* The inductive invariant IInv of TransportSession, proved for every set  *)
(* of contexts, every bound of the queue and every choice of what the      *)
(* application and the service do, and what follows from it.               *)
(***************************************************************************)
EXTENDS TransportSession, TLAPS

(* The contents of the lists of actions. *)
LEMMA RangeOfLists ==
    /\ Range(<<>>) = {}
    /\ \A a : Range(<<a>>) = {a}
    /\ \A a, b : Range(<<a, b>>) = {a, b}
  BY DEF Range

LEMMA ListsOfActions == ActionLists \subseteq Seq(Actions)
  <1>1. <<>> \in Seq(Actions)
    OBVIOUS
  <1>2. \A a \in Actions : <<a>> \in Seq(Actions)
    OBVIOUS
  <1>3. \A a, b \in Actions : <<a, b>> \in Seq(Actions)
    OBVIOUS
  <1>4. ASSUME NEW list \in ActionLists
        PROVE  \/ list = <<>>
               \/ \E a \in Actions : list = <<a>>
               \/ \E a, b \in Actions : list = <<a, b>>
    BY <1>4 DEF ActionLists, Actions
  <1> QED
    BY <1>1, <1>2, <1>3, <1>4

(* Running the first action of a list leaves a list without it. *)
LEMMA RunPops ==
    ASSUME todo \in ActionLists, NEW action, Run(action)
    PROVE  /\ todo' \in ActionLists
           /\ Pending(action)
           /\ \A other : Pending(other)' <=> Pending(other) /\ other # action
  <1>1. CASE todo = <<>>
    BY <1>1 DEF Run
  <1>2. CASE \E a \in Actions : todo = <<a>>
    <2>1. PICK a \in Actions : todo = <<a>>
      BY <1>2
    <2>2. a = action /\ todo' = <<>>
      BY <2>1 DEF Run
    <2>3. todo' \in ActionLists
      BY <2>2 DEF ActionLists
    <2> QED
      BY <2>1, <2>2, <2>3, RangeOfLists DEF Pending
  <1>3. CASE todo \in ActionLists /\ \E a, b \in Actions : a # b /\ todo = <<a, b>>
    <2>1. PICK a, b \in Actions : a # b /\ todo = <<a, b>>
      BY <1>3
    <2>2. a = action /\ todo' = <<b>>
      BY <2>1 DEF Run
    <2>3. todo' \in ActionLists
      BY <2>2 DEF ActionLists
    <2>4. Range(todo) = {a, b} /\ Range(todo') = {b}
      BY <2>1, <2>2, RangeOfLists
    <2> QED
      BY <2>1, <2>2, <2>3, <2>4 DEF Pending
  <1>4. todo = <<>> \/ (\E a \in Actions : todo = <<a>>)
                    \/ (\E a, b \in Actions : a # b /\ todo = <<a, b>>)
    BY DEF ActionLists, Actions
  <1> QED
    BY <1>1, <1>2, <1>3, <1>4

-----------------------------------------------------------------------------
(* The events that IInv lets reach each state. *)
Expected(s, event) ==
    \/ event \in {"BECOME_ACTIVE", "RESIGN_ACTIVE"}
    \/ event = "SESSION_INFO_EXISTS" /\ s = "connected"
    \/ event \in Reported /\ s \in {"connecting_retry", "connecting_unreachable"}
    \/ event = "CONNECTION_ESTABLISHED" /\ s = "connecting"
    \/ event = "CONNECTION_FAILED" /\ s \in {"connecting", "idle"}
    \/ event \in {"CONNECTION_DISCONNECTED", "AUTHENTICATED_RECEIVED", "CLOSE_RECEIVED"}
       /\ s # "connecting_unreachable"

(* The edges an expected event can take: the lists of actions with the     *)
(* states they come from and lead to.                                      *)
Edge(s, event, t, a) ==
    /\ t \in States
    /\ \/ a = <<>> /\ s # "authenticated" /\ s # "connecting_unreachable"
          /\ t \notin {"authenticated", "connecting_unreachable"}
          /\ (t \in Connected => s \in Connected)
          /\ (s = "connecting" /\ event \in {"BECOME_ACTIVE", "RESIGN_ACTIVE"}
              => t = "connecting")
       \/ a = <<>> /\ s = t /\ t \in {"authenticated", "connecting_unreachable"}
       \/ a = <<"do_connect">> /\ s = "idle" /\ t = "connecting"
          /\ event = "BECOME_ACTIVE"
       \/ a = <<"do_disconnect_and_save">> /\ t = "idle"
          /\ s \notin {"authenticated", "connecting_unreachable"}
       \/ a = <<"do_check_session_info">> /\ s = "connecting" /\ t = "connected"
          /\ event = "CONNECTION_ESTABLISHED"
       \/ a = <<"do_check_reachability">> /\ t = "connecting_retry"
          /\ s \notin {"authenticated", "connecting_unreachable"}
          /\ event \in {"CONNECTION_FAILED", "CONNECTION_DISCONNECTED"}
       \/ a = <<"do_authenticate">> /\ s = "connected" /\ t = "authenticating"
          /\ event = "SESSION_INFO_EXISTS"
       \/ a = <<"do_start_observing_reachability">> /\ s = "connecting_retry"
          /\ t = "connecting_unreachable" /\ event \in Reported
       \/ a = <<"do_stop_observing_reachability", "do_disconnect_and_save">>
          /\ s = "connecting_unreachable" /\ t = "idle"
       \/ a = <<"do_stop_observing_reachability", "do_connect">>
          /\ s = "connecting_unreachable" /\ t = "connecting"
          /\ event \in Reported
       \/ a = <<"did_open_session">> /\ s = "authenticating" /\ t = "authenticated"
          /\ event = "AUTHENTICATED_RECEIVED"
       \/ a = <<"do_close_session", "did_close_session">> /\ s = "authenticated"
          /\ t = "connected" /\ event = "RESIGN_ACTIVE"
       \/ a = <<"did_close_session">> /\ s = "authenticated"
          /\ t = "connecting_retry" /\ event = "CLOSE_RECEIVED"
       \/ a = <<"did_close_session", "do_check_reachability">>
          /\ s = "authenticated" /\ t = "connecting_retry"
          /\ event = "CONNECTION_DISCONNECTED"
    /\ t = "error" => <<s, event>> \in UnexpectedEvents
    /\ s \in Connected /\ event = "CONNECTION_DISCONNECTED" => t \notin Connected

LEMMA Edges ==
    ASSUME NEW s \in States, NEW event \in Events, Expected(s, event)
    PROVE  Edge(s, event, Transition(s, event).target, Transition(s, event).actions)
  <1>1. CASE s = "idle"
    BY <1>1 DEF Edge, Transition, FromIdle, To, st0, tr0, st1, Lost,
       Expected, States, Reported, Connected, UnexpectedEvents
  <1>2. CASE s = "connecting"
    BY <1>2 DEF Edge, Transition, FromConnecting, To, st0, tr3, st2, tr5, tr6, Lost,
       Expected, States, Reported, Connected, UnexpectedEvents
  <1>3. CASE s = "connected"
    BY <1>3 DEF Edge, Transition, FromConnected, To, st0, tr3, st3, tr8, tr6, Lost,
       Expected, States, Reported, Connected, UnexpectedEvents
  <1>4. CASE s = "connecting_retry"
    BY <1>4 DEF Edge, Transition, FromConnectingRetry, To, st0, tr3, st4, tr0, tr10, tr11, Lost,
       Expected, States, Reported, Connected, UnexpectedEvents
  <1>5. CASE s = "connecting_unreachable"
    BY <1>5 DEF Edge, Transition, FromConnectingUnreachable, To, st0, tr12, st5, tr14, Lost,
       Expected, States, Reported, Connected, UnexpectedEvents
  <1>6. CASE s = "authenticating"
    BY <1>6 DEF Edge, Transition, FromAuthenticating, To, st0, tr15, st6, tr18, tr19, tr8, tr17, Lost,
       Expected, States, Reported, Connected, UnexpectedEvents
  <1>7. CASE s = "authenticated"
    BY <1>7 DEF Edge, Transition, FromAuthenticated, To, st0, tr20, st7, tr23, tr22, Lost,
       Expected, States, Reported, Connected, UnexpectedEvents
  <1>8. CASE s = "error"
    BY <1>8 DEF Edge, Transition, FromError, To, st0, st1, Lost,
       Expected, States, Reported, Connected, UnexpectedEvents
  <1> QED
    BY <1>1, <1>2, <1>3, <1>4, <1>5, <1>6, <1>7, <1>8 DEF States

(* What taking an expected event establishes, for a machine with no action *)
(* left: the part of IInv that does not speak of the connection, and what  *)
(* the rest needs of the new cs and todo.                                  *)
LEMMA SetEventStep ==
    ASSUME NEW s \in States, NEW event \in Events, Expected(s, event),
           SetEvent(s, event), state' = s, faulted \in BOOLEAN,
           next_event' \in {NONE, "BECOME_ACTIVE", "RESIGN_ACTIVE"},
           opened <=> s = "authenticated",
           observing <=> s = "connecting_unreachable",
           UNCHANGED <<opened, observing>>
    PROVE  /\ cs' \in States /\ todo' \in Seq(Actions) /\ current_event' = event
           /\ faulted' \in BOOLEAN
           /\ ControlInv' /\ NotifyInv' /\ ObserveInv' /\ ErrorCauses'
           /\ cs' \in Connected /\ event # "CONNECTION_ESTABLISHED" => s \in Connected
           /\ cs' \in Connected => event # "CONNECTION_DISCONNECTED"
           /\ s = "connecting" /\ event \in {"BECOME_ACTIVE", "RESIGN_ACTIVE"} =>
                 \/ cs' = "connecting" /\ ~Pending("do_connect")'
                 \/ Pending("do_disconnect_and_save")'
           /\ cs' = "connecting_unreachable" =>
                 s = "connecting_unreachable" \/ event \in Reported
           /\ Pending("do_check_reachability")' =>
                 event \in {"CONNECTION_FAILED", "CONNECTION_DISCONNECTED"}
  <1>1. /\ cs' = Transition(s, event).target /\ todo' = Transition(s, event).actions
        /\ current_event' = event /\ faulted' \in BOOLEAN
    BY DEF SetEvent
  <1>2. current_event' # NONE /\ Edge(s, event, cs', todo')
    BY <1>1, Edges DEF Events, NONE
  <1>3. todo' \in ActionLists
    BY <1>2 DEF Edge, ActionLists, Actions
  <1>4. todo' \in Seq(Actions)
    BY <1>3, ListsOfActions
  <1>5. ErrorCauses'
    BY <1>1, <1>2 DEF Edge, ErrorCauses
  <1>6. ControlInv'
    BY <1>2, <1>3, RangeOfLists DEF Edge, ControlInv, Pending, Idle
  <1>7. NotifyInv'
    BY <1>2, RangeOfLists DEF Edge, NotifyInv, Pending
  <1>8. ObserveInv'
    BY <1>2, RangeOfLists DEF Edge, ObserveInv, Pending
  <1>9. /\ cs' \in Connected /\ event # "CONNECTION_ESTABLISHED" => s \in Connected
        /\ cs' \in Connected => event # "CONNECTION_DISCONNECTED"
        /\ cs' = "connecting_unreachable" =>
              s = "connecting_unreachable" \/ event \in Reported
    BY <1>1, <1>2 DEF Edge, Connected
  <1>10. s = "connecting" /\ event \in {"BECOME_ACTIVE", "RESIGN_ACTIVE"} =>
            \/ cs' = "connecting" /\ ~Pending("do_connect")'
            \/ Pending("do_disconnect_and_save")'
    BY <1>2, RangeOfLists DEF Edge, Pending, Reported
  <1>11. Pending("do_check_reachability")' =>
            event \in {"CONNECTION_FAILED", "CONNECTION_DISCONNECTED"}
    BY <1>2, RangeOfLists DEF Edge, Pending
  <1> QED
    BY <1>1, <1>2, <1>3, <1>4, <1>5, <1>6, <1>7, <1>8, <1>9, <1>10, <1>11 DEF Edge

-----------------------------------------------------------------------------
(* What the operations of the websocket preserve, and what they make of    *)
(* its connection.                                                         *)
WebsocketInv ==
    /\ Websocket!TypeOK
    /\ Websocket!StatusTracksLink /\ Websocket!WritesToItsLink
    /\ NoLinkAbandoned

LEMMA OpenStep ==
    ASSUME WebsocketInv, ~Websocket!Linked("connecting"),
           NEW cb, Websocket!Open(cb)
    PROVE  /\ WebsocketInv'
           /\ cb \in {"none", "fail"}
           /\ cb = "fail" => ~(Websocket!Live(ws_context)')
  <1> USE DEF WebsocketInv, Websocket!TypeOK, Websocket!StatusTracksLink,
          Websocket!WritesToItsLink, NoLinkAbandoned, Websocket!Live,
          Websocket!Linked, Websocket!LinkStates, Websocket!Statuses,
          Websocket!MayOpen
  <1>1. CASE cb = "none" /\ (Websocket!OpenSkipped \/ Websocket!OpenWithoutContext)
    BY <1>1 DEF Websocket!OpenSkipped, Websocket!OpenWithoutContext, Websocket!websocketVars
  <1>2. CASE cb = "none" /\ Websocket!OpenConnecting
    <2>1. PICK c \in Contexts : /\ link[c] = "none" /\ ws_context' = c /\ ws' = c
                                /\ link' = [link EXCEPT ![c] = "connecting"]
      BY <1>2 DEF Websocket!OpenConnecting
    <2>2. \A d \in Contexts : link[d] \notin {"connecting", "established"}
      <3>1. ws_status = "CLOSED"
        BY <1>2 DEF Websocket!OpenConnecting
      <3> QED
        BY <3>1, ContextAssumption
    <2>3. Websocket!TypeOK'
      <3>1. /\ ws_context' \in Contexts /\ ws' \in Contexts /\ writable' = FALSE
            /\ UNCHANGED <<host, ws_status, queue, written>>
        BY <1>2, <2>1 DEF Websocket!OpenConnecting
      <3>2. link' \in [Contexts -> Websocket!LinkStates]
        BY <2>1
      <3> QED
        BY <3>1, <3>2
    <2>4. \A d \in Contexts \ {c} : link'[d] = link[d]
      BY <2>1
    <2>5. link'[c] = "connecting" /\ c # NULL
      BY <2>1, ContextAssumption
    <2>6. Websocket!StatusTracksLink'
      BY <1>2, <2>1, <2>2, <2>4, <2>5 DEF Websocket!OpenConnecting
    <2> QED
      BY <1>2, <2>1, <2>2, <2>3, <2>4, <2>5, <2>6 DEF Websocket!OpenConnecting
  <1>3. CASE Websocket!OpenRefused(cb)
    <2>1. PICK c \in Contexts : /\ link[c] = "none" /\ ws_context' = c
                                /\ link' = [link EXCEPT ![c] = "dead"]
      BY <1>3 DEF Websocket!OpenRefused
    <2>2. \A d \in Contexts : link[d] \notin {"connecting", "established"}
      <3>1. ws_status = "CLOSED"
        BY <1>3 DEF Websocket!OpenRefused
      <3> QED
        BY <3>1, ContextAssumption
    <2>3. Websocket!TypeOK'
      <3>1. /\ ws_context' \in Contexts /\ ws_status' \in Websocket!Statuses
            /\ writable' = FALSE
            /\ UNCHANGED <<host, ws, queue, written>>
        BY <1>3, <2>1 DEF Websocket!OpenRefused
      <3>2. link' \in [Contexts -> Websocket!LinkStates]
        BY <2>1
      <3> QED
        BY <3>1, <3>2
    <2>4. \A d \in Contexts \ {c} : link'[d] = link[d]
      BY <2>1
    <2>5. link'[c] = "dead" /\ c # NULL
      BY <2>1, ContextAssumption
    <2>6. Websocket!StatusTracksLink'
      BY <1>3, <2>1, <2>2, <2>4, <2>5 DEF Websocket!OpenRefused
    <2> QED
      BY <1>3, <2>1, <2>2, <2>3, <2>4, <2>5, <2>6 DEF Websocket!OpenRefused
  <1> QED
    BY <1>1, <1>2, <1>3 DEF Websocket!Open

LEMMA CloseStep ==
    ASSUME WebsocketInv, NEW cb, Websocket!Close(cb)
    PROVE  /\ WebsocketInv'
           /\ cb \in {"none", "fail", "close"}
           /\ ws_context' = NULL
  <1> USE DEF WebsocketInv, Websocket!TypeOK, Websocket!StatusTracksLink,
          Websocket!WritesToItsLink, NoLinkAbandoned, Websocket!Live,
          Websocket!LinkStates, Websocket!Statuses
  <1>1. CASE Websocket!CloseSkipped(cb)
    BY <1>1 DEF Websocket!CloseSkipped, Websocket!websocketVars
  <1>2. CASE Websocket!CloseContext(cb)
    <2>1. CASE link[ws_context] = "established"
      BY <1>2, <2>1, ContextAssumption DEF Websocket!CloseContext, Websocket!CallbacksOnDestroy
    <2>2. CASE link[ws_context] = "connecting"
      BY <1>2, <2>2, ContextAssumption DEF Websocket!CloseContext, Websocket!CallbacksOnDestroy
    <2>3. CASE link[ws_context] \notin {"established", "connecting"}
      BY <1>2, <2>3, ContextAssumption DEF Websocket!CloseContext, Websocket!CallbacksOnDestroy
    <2> QED
      BY <2>1, <2>2, <2>3
  <1> QED
    BY <1>1, <1>2 DEF Websocket!Close

LEMMA WriteStep ==
    ASSUME WebsocketInv, NEW message \in Messages, Websocket!Write(message)
    PROVE  WebsocketInv' /\ UNCHANGED <<ws_context, ws, link>>
  <1> USE DEF Websocket!TypeOK, Websocket!Write, Websocket!websocketVars
  <1>1. UNCHANGED <<host, ws_status, ws_context, ws, link, written>>
    OBVIOUS
  <1>2. queue' \in Seq(Messages)
    BY DEF WebsocketInv
  <1>3. writable' \in BOOLEAN
    BY DEF WebsocketInv
  <1>4. Websocket!TypeOK'
    BY <1>1, <1>2, <1>3 DEF WebsocketInv
  <1> QED
    BY <1>1, <1>4 DEF WebsocketInv, Websocket!StatusTracksLink,
       Websocket!WritesToItsLink, NoLinkAbandoned, Websocket!Live

LEMMA ServiceStep ==
    ASSUME WebsocketInv
    PROVE  /\ Websocket!Established =>
                 WebsocketInv' /\ Websocket!Linked("established")'
           /\ Websocket!ConnectionError =>
                 WebsocketInv' /\ ~(Websocket!Live(ws_context)')
           /\ Websocket!Closed \/ Websocket!WriteFails =>
                 WebsocketInv' /\ ~(Websocket!Live(ws_context)')
           /\ Websocket!Writeable =>
                 WebsocketInv' /\ UNCHANGED <<ws_context, ws, link>>
  <1> USE DEF WebsocketInv, Websocket!TypeOK, Websocket!StatusTracksLink,
          Websocket!WritesToItsLink, NoLinkAbandoned, Websocket!Live,
          Websocket!Linked, Websocket!LinkStates, Websocket!Statuses,
          Websocket!Disconnect
  <1>1. Websocket!Established => WebsocketInv' /\ Websocket!Linked("established")'
    BY ContextAssumption DEF Websocket!Established
  <1>2. Websocket!ConnectionError => WebsocketInv' /\ ~(Websocket!Live(ws_context)')
    BY ContextAssumption DEF Websocket!ConnectionError
  <1>3. Websocket!Closed => WebsocketInv' /\ ~(Websocket!Live(ws_context)')
    BY ContextAssumption DEF Websocket!Closed
  <1>4. Websocket!WriteFails => WebsocketInv' /\ ~(Websocket!Live(ws_context)')
    <2> SUFFICES ASSUME Websocket!WriteFails
                 PROVE  WebsocketInv' /\ ~(Websocket!Live(ws_context)')
      OBVIOUS
    <2>1. PICK n \in 1 .. Len(queue) :
             /\ queue' = SubSeq(queue, n + 1, Len(queue))
             /\ written' = written \cup {queue[i] : i \in 1 .. n - 1}
      BY DEF Websocket!WriteFails
    <2>2. queue' \in Seq(Messages) /\ written' \subseteq Messages
      BY <2>1
    <2> QED
      BY <2>2, ContextAssumption DEF Websocket!WriteFails
  <1>5. Websocket!Writeable => WebsocketInv' /\ UNCHANGED <<ws_context, ws, link>>
    <2> SUFFICES ASSUME Websocket!Writeable
                 PROVE  WebsocketInv' /\ UNCHANGED <<ws_context, ws, link>>
      OBVIOUS
    <2>1. Websocket!Range(queue) \subseteq Messages
      BY DEF Websocket!Range
    <2>2. /\ queue' = <<>> /\ written' \subseteq Messages /\ writable' = FALSE
          /\ UNCHANGED <<host, ws_status, ws_context, ws, link>>
      BY <2>1 DEF Websocket!Writeable
    <2>3. queue' \in Seq(Messages)
      BY <2>2
    <2>4. Websocket!TypeOK'
      BY <2>2, <2>3
    <2> QED
      BY <2>2, <2>4
  <1> QED
    BY <1>1, <1>2, <1>3, <1>4, <1>5

-----------------------------------------------------------------------------
LEMMA InitInv == Init => IInv
  <1> SUFFICES ASSUME Init PROVE IInv
    OBVIOUS
  <1> USE DEF Init, Websocket!Create
  <1>1. TypeOK
    <2>1. Websocket!TypeOK
      <3>1. queue \in Seq(Messages)
        OBVIOUS
      <3>2. link \in [Contexts -> Websocket!LinkStates]
        BY DEF Websocket!LinkStates
      <3> QED
        BY <3>1, <3>2 DEF Websocket!TypeOK, Websocket!Statuses
    <2>2. todo \in Seq(Actions)
      OBVIOUS
    <2> QED
      BY <2>1, <2>2 DEF TypeOK, States, NONE
  <1>2. Range(todo) = {}
    BY RangeOfLists
  <1>3. ControlInv /\ NextEventInv /\ NotifyInv /\ ObserveInv /\ ErrorCauses
    BY <1>2 DEF ControlInv, NextEventInv, NotifyInv, ObserveInv, ErrorCauses,
       Pending, ActionLists, Idle, NONE
  <1>4. LinkInv
    BY <1>2 DEF LinkInv, Pending, Connected, Reported, NoLinkAbandoned, NONE,
       Websocket!StatusTracksLink, Websocket!WritesToItsLink, Websocket!Live, Websocket!Linked
  <1> QED
    BY <1>1, <1>3, <1>4 DEF IInv

(* An expected event is taken, by FinishEvent or by a push between events. *)
LEMMA TakenStep ==
    ASSUME IInv,
           NEW s \in States, NEW event \in Events, Expected(s, event),
           SetEvent(s, event), state' = s, next_event' = NONE,
           opened <=> s = "authenticated",
           observing <=> s = "connecting_unreachable",
           ~in_handler, UNCHANGED <<in_handler, opened, observing>>,
           WebsocketInv',
           \/ s \in Connected /\ event # "CONNECTION_DISCONNECTED"
           \/ event = "CONNECTION_ESTABLISHED"
           => Websocket!Linked("established")',
           Websocket!Linked("connecting")' =>
              s = "connecting" /\ event \in {"BECOME_ACTIVE", "RESIGN_ACTIVE"},
           \/ s = "connecting_unreachable"
           \/ event \in Reported \cup {"CONNECTION_FAILED", "CONNECTION_DISCONNECTED"}
           => ~(Websocket!Live(ws_context)')
    PROVE  IInv'
  <1>1. faulted \in BOOLEAN /\ in_handler \in BOOLEAN /\ opened \in BOOLEAN /\ observing \in BOOLEAN
    BY DEF IInv, TypeOK
  <1>2. /\ cs' \in States /\ todo' \in Seq(Actions) /\ current_event' = event
        /\ faulted' \in BOOLEAN
        /\ ControlInv' /\ NotifyInv' /\ ObserveInv' /\ ErrorCauses'
        /\ cs' \in Connected /\ event # "CONNECTION_ESTABLISHED" => s \in Connected
        /\ cs' \in Connected => event # "CONNECTION_DISCONNECTED"
        /\ s = "connecting" /\ event \in {"BECOME_ACTIVE", "RESIGN_ACTIVE"} =>
              \/ cs' = "connecting" /\ ~Pending("do_connect")'
              \/ Pending("do_disconnect_and_save")'
        /\ cs' = "connecting_unreachable" =>
              s = "connecting_unreachable" \/ event \in Reported
        /\ Pending("do_check_reachability")' =>
              event \in {"CONNECTION_FAILED", "CONNECTION_DISCONNECTED"}
    BY <1>1, SetEventStep
  <1>3. TypeOK'
    BY <1>1, <1>2 DEF TypeOK, WebsocketInv
  <1>4. NextEventInv'
    BY DEF NextEventInv
  <1>5. LinkInv'
    BY <1>2 DEF LinkInv, WebsocketInv, Reported, NONE
  <1> QED
    BY <1>2, <1>3, <1>4, <1>5 DEF IInv

(* Nothing of the machine is left to do when it takes an event. *)
LEMMA AtRest ==
    ASSUME IInv, todo = <<>>
    PROVE  /\ opened <=> cs = "authenticated"
           /\ observing <=> cs = "connecting_unreachable"
           /\ \A action : ~Pending(action)
           /\ Websocket!Linked("connecting") => cs = "connecting"
           /\ WebsocketInv
  <1>1. \A action : ~Pending(action)
    BY RangeOfLists DEF Pending
  <1> QED
    BY <1>1 DEF IInv, NotifyInv, ObserveInv, LinkInv, WebsocketInv, TypeOK

LEMMA FinishEventStep == IInv /\ FinishEvent => IInv'
  <1> SUFFICES ASSUME IInv, FinishEvent PROVE IInv'
    OBVIOUS
  <1>1. /\ todo = <<>> /\ ~in_handler /\ state' = cs /\ next_event' = NONE
        /\ UNCHANGED <<websocketVars, in_handler, observing, opened>>
    BY DEF FinishEvent
  <1>2. cs \in States /\ next_event \in Events \cup {NONE}
    BY DEF IInv, TypeOK
  <1>3. WebsocketInv'
    BY <1>1, AtRest DEF websocketVars, WebsocketInv, Websocket!TypeOK,
       Websocket!StatusTracksLink, Websocket!WritesToItsLink, NoLinkAbandoned, Websocket!Live
  <1>4. CASE next_event = NONE
    <2>1. current_event' = NONE /\ UNCHANGED <<cs, todo, faulted>>
      BY <1>4 DEF FinishEvent
    <2>2. \A action : ~Pending(action) /\ ~Pending(action)'
      BY <1>1, <2>1, AtRest DEF Pending
    <2>3. TypeOK'
      BY <1>1, <1>2, <1>3, <2>1 DEF IInv, TypeOK, WebsocketInv, Events
    <2>4. LinkInv'
      BY <1>1, <2>1, <2>2, AtRest, <1>3 DEF IInv, LinkInv, WebsocketInv, websocketVars,
         Websocket!Linked, Websocket!Live, Reported, NONE
    <2> QED
      BY <1>1, <2>1, <2>2, <2>3, <2>4, AtRest DEF IInv, ControlInv, NextEventInv,
         NotifyInv, ObserveInv, ErrorCauses, Idle
  <1>5. CASE next_event # NONE
    <2>1. SetEvent(cs, next_event) /\ next_event \in Events
      BY <1>2, <1>5 DEF FinishEvent
    <2>2. Expected(cs, next_event)
      BY <1>5 DEF IInv, NextEventInv, Expected
    <2>3. next_event # "CONNECTION_ESTABLISHED"
      BY <1>5 DEF IInv, NextEventInv, Reported, NONE
    <2>4. /\ cs \in Connected => Websocket!Linked("established")
          /\ \/ cs = "connecting_unreachable"
             \/ next_event \in Reported \cup {"CONNECTION_FAILED", "CONNECTION_DISCONNECTED"}
             => ~Websocket!Live(ws_context)
      BY DEF IInv, LinkInv
    <2>5. Websocket!Linked("connecting") =>
             cs = "connecting" /\ next_event \in {"BECOME_ACTIVE", "RESIGN_ACTIVE"}
      BY <1>1, <1>5, <2>4, AtRest DEF IInv, NextEventInv, Websocket!Linked, Websocket!Live
    <2>6. /\ Websocket!Linked("established")' = Websocket!Linked("established")
          /\ Websocket!Linked("connecting")' = Websocket!Linked("connecting")
          /\ Websocket!Live(ws_context)' = Websocket!Live(ws_context)
      BY <1>1 DEF websocketVars, Websocket!Linked, Websocket!Live
    <2> QED
      BY <1>1, <1>2, <1>3, <2>1, <2>2, <2>3, <2>4, <2>5, <2>6, AtRest, TakenStep
  <1> QED
    BY <1>4, <1>5

-----------------------------------------------------------------------------
(* The Ragel actions.  Each but the two notifications and the two of       *)
(* reachability leaves opened and observing alone.                         *)
LEMMA RunStep ==
    ASSUME IInv, NEW action, Run(action),
           in_handler' \in BOOLEAN, next_event' \in Events \cup {NONE},
           action = "do_connect" \/ ~Pending("do_connect")'
             \/ next_event' = next_event
    PROVE  /\ Pending(action) /\ ~Idle /\ ~Idle' /\ ~in_handler
           /\ state' = state /\ cs' = cs /\ current_event' = current_event
           /\ faulted' = faulted /\ todo' \in Seq(Actions)
           /\ \A other : Pending(other)' <=> Pending(other) /\ other # action
           /\ ControlInv' /\ ErrorCauses'
  <1>1. todo # <<>> /\ UNCHANGED <<state, current_event, cs, faulted>> /\ ~in_handler
    BY DEF Run
  <1>2. /\ todo' \in ActionLists /\ Pending(action)
        /\ \A other : Pending(other)' <=> Pending(other) /\ other # action
    BY RunPops DEF IInv, ControlInv
  <1>3. ~Idle /\ ~Idle'
    BY <1>1 DEF IInv, ControlInv, Idle
  <1>4. ControlInv'
    BY <1>1, <1>2, <1>3 DEF IInv, ControlInv
  <1>5. ErrorCauses'
    BY <1>1, <1>3 DEF IInv, ErrorCauses
  <1> QED
    BY <1>1, <1>2, <1>3, <1>4, <1>5, ListsOfActions

(* An action that does not touch the connection, the observer or the       *)
(* handler.                                                                *)
LEMMA MachineStep ==
    ASSUME IInv, NEW action, Run(action),
           WebsocketInv', UNCHANGED <<ws_context, ws, link>>,
           UNCHANGED <<in_handler, observing, opened>>,
           next_event' \in Events \cup {NONE}, NextEventInv',
           action \in {"do_check_session_info", "do_check_reachability",
                       "do_close_session", "do_authenticate"},
           next_event' \in Reported => action = "do_check_reachability",
           next_event' \notin {"CONNECTION_FAILED", "CONNECTION_DISCONNECTED"}
              \/ next_event' = next_event
    PROVE  IInv'
  <1>1. /\ in_handler' \in BOOLEAN
        /\ Pending(action) /\ ~in_handler
    BY RunPops DEF IInv, TypeOK, ControlInv, Run
  <1>2. ~Pending("do_connect")'
    BY <1>1, RunPops DEF IInv, ControlInv
  <1>3. /\ state' = state /\ cs' = cs /\ current_event' = current_event
        /\ faulted' = faulted /\ todo' \in Seq(Actions)
        /\ \A other : Pending(other)' <=> Pending(other) /\ other # action
        /\ ControlInv' /\ ErrorCauses'
    BY <1>1, <1>2, RunStep
  <1>4. TypeOK'
    BY <1>3 DEF IInv, TypeOK, WebsocketInv
  <1>5. NotifyInv' /\ ObserveInv'
    BY <1>3 DEF IInv, NotifyInv, ObserveInv
  <1>6. LinkInv'
    BY <1>1, <1>3 DEF IInv, LinkInv, WebsocketInv, Websocket!Linked, Websocket!Live
  <1> QED
    BY <1>3, <1>4, <1>5, <1>6 DEF IInv

LEMMA WebsocketKept ==
    ASSUME IInv, UNCHANGED websocketVars
    PROVE  WebsocketInv' /\ UNCHANGED <<ws_context, ws, link>>
  BY DEF IInv, TypeOK, LinkInv, WebsocketInv, websocketVars, Websocket!TypeOK,
     Websocket!StatusTracksLink, Websocket!WritesToItsLink, NoLinkAbandoned, Websocket!Live

LEMMA DoConnectStep == IInv /\ DoConnect => IInv'
  <1> SUFFICES ASSUME IInv, DoConnect PROVE IInv'
    OBVIOUS
  <1>1. /\ Run("do_connect") /\ UNCHANGED <<in_handler, observing, opened>>
        /\ ~in_handler
    BY DEF DoConnect, Run
  <1>2. PICK cb : Websocket!Open(cb) /\ Called(cb)
    BY DEF DoConnect
  <1>3. /\ Pending("do_connect") /\ cs = "connecting"
        /\ next_event \in {NONE, "BECOME_ACTIVE", "RESIGN_ACTIVE"}
        /\ ~Pending("do_disconnect_and_save") /\ ~Pending("do_check_reachability")
    BY <1>1, RunPops DEF IInv, ControlInv
  <1>4. ~Websocket!Linked("connecting") /\ WebsocketInv
    BY <1>3 DEF IInv, LinkInv, TypeOK, WebsocketInv
  <1>5. /\ WebsocketInv' /\ cb \in {"none", "fail"}
        /\ cb = "fail" => ~(Websocket!Live(ws_context)')
    BY <1>2, <1>4, OpenStep
  <1>6. \/ cb = "none" /\ next_event' = next_event
        \/ cb = "fail" /\ next_event' = "CONNECTION_FAILED"
    BY <1>2, <1>5 DEF Called, EventOf
  <1>7. next_event' \in Events \cup {NONE} /\ in_handler' \in BOOLEAN
    BY <1>1, <1>6 DEF IInv, TypeOK, Events
  <1>8. /\ state' = state /\ cs' = cs /\ current_event' = current_event
        /\ faulted' = faulted /\ todo' \in Seq(Actions)
        /\ \A other : Pending(other)' <=> Pending(other) /\ other # "do_connect"
        /\ ControlInv' /\ ErrorCauses'
    BY <1>1, <1>7, RunStep
  <1>9. TypeOK'
    BY <1>1, <1>5, <1>7, <1>8 DEF IInv, TypeOK, WebsocketInv
  <1>10. NextEventInv'
    BY <1>3, <1>6, <1>8 DEF NextEventInv
  <1>11. LinkInv'
    BY <1>3, <1>5, <1>6, <1>8 DEF LinkInv, WebsocketInv, Connected, Reported, NONE
  <1>12. NotifyInv' /\ ObserveInv'
    BY <1>1, <1>8 DEF IInv, NotifyInv, ObserveInv
  <1> QED
    BY <1>8, <1>9, <1>10, <1>11, <1>12 DEF IInv

LEMMA DoDisconnectStep == IInv /\ DoDisconnectAndSave => IInv'
  <1> SUFFICES ASSUME IInv, DoDisconnectAndSave PROVE IInv'
    OBVIOUS
  <1>1. /\ Run("do_disconnect_and_save") /\ UNCHANGED <<in_handler, observing, opened>>
        /\ ~in_handler
    BY DEF DoDisconnectAndSave, Run
  <1>2. PICK cb : Websocket!Close(cb) /\ Called(cb)
    BY DEF DoDisconnectAndSave
  <1>3. /\ Pending("do_disconnect_and_save") /\ cs = "idle"
        /\ ~Pending("do_connect")
    BY <1>1, RunPops DEF IInv, ControlInv
  <1>4. WebsocketInv
    BY DEF IInv, LinkInv, TypeOK, WebsocketInv
  <1>5. WebsocketInv' /\ cb \in {"none", "fail", "close"} /\ ws_context' = NULL
    BY <1>2, <1>4, CloseStep
  <1>6. \/ next_event' = next_event
        \/ next_event' \in {"CONNECTION_FAILED", "CONNECTION_DISCONNECTED"}
    BY <1>2, <1>5 DEF Called, EventOf
  <1>7. next_event' \in Events \cup {NONE} /\ in_handler' \in BOOLEAN
    BY <1>1, <1>6 DEF IInv, TypeOK, Events
  <1>8. /\ state' = state /\ cs' = cs /\ current_event' = current_event
        /\ faulted' = faulted /\ todo' \in Seq(Actions)
        /\ \A other : Pending(other)' <=> Pending(other) /\ other # "do_disconnect_and_save"
        /\ ControlInv' /\ ErrorCauses'
    <2>1. ~Pending("do_connect")'
      BY <1>1, <1>3, RunPops DEF IInv, ControlInv
    <2> QED
      BY <1>1, <1>7, <2>1, RunStep
  <1>9. TypeOK'
    BY <1>1, <1>5, <1>7, <1>8 DEF IInv, TypeOK, WebsocketInv
  <1>10. NextEventInv'
    BY <1>3, <1>6, <1>8 DEF IInv, NextEventInv
  <1>11. LinkInv'
    BY <1>3, <1>5, <1>8 DEF LinkInv, WebsocketInv, Connected, Websocket!Linked, Websocket!Live
  <1>12. NotifyInv' /\ ObserveInv'
    BY <1>1, <1>8 DEF IInv, NotifyInv, ObserveInv
  <1> QED
    BY <1>8, <1>9, <1>10, <1>11, <1>12 DEF IInv

LEMMA PushingSteps ==
    IInv /\ (DoCheckSessionInfo \/ DoCheckReachability \/ DoAuthenticate \/ DoCloseSession)
        => IInv'
  <1> SUFFICES ASSUME IInv PROVE /\ DoCheckSessionInfo => IInv'
                                 /\ DoCheckReachability => IInv'
                                 /\ DoAuthenticate => IInv'
                                 /\ DoCloseSession => IInv'
    OBVIOUS
  <1>1. ASSUME NEW action, Run(action)
        PROVE  Pending(action) /\ cs' = cs
    BY <1>1, RunPops DEF IInv, ControlInv, Run
  <1>2. next_event \in Events \cup {NONE} /\ WebsocketInv
    BY DEF IInv, TypeOK, LinkInv, WebsocketInv
  <1>3. ASSUME DoCheckSessionInfo PROVE IInv'
    <2>1. /\ Run("do_check_session_info") /\ next_event' = "SESSION_INFO_EXISTS"
          /\ UNCHANGED <<websocketVars, in_handler, observing, opened>>
      BY <1>3 DEF DoCheckSessionInfo
    <2>2. NextEventInv'
      BY <1>1, <2>1 DEF IInv, ControlInv, NextEventInv
    <2> QED
      BY <2>1, <2>2, WebsocketKept, MachineStep DEF Events, Reported
  <1>4. ASSUME DoCheckReachability PROVE IInv'
    <2>1. /\ Run("do_check_reachability") /\ next_event' \in Reported
          /\ UNCHANGED <<websocketVars, in_handler, observing, opened>>
      BY <1>4 DEF DoCheckReachability, Reported
    <2>2. NextEventInv'
      BY <1>1, <2>1 DEF IInv, ControlInv, NextEventInv
    <2> QED
      BY <2>1, <2>2, WebsocketKept, MachineStep DEF Events, Reported
  <1>5. ASSUME DoAuthenticate PROVE IInv'
    <2>1. /\ Run("do_authenticate") /\ next_event' = next_event
          /\ Websocket!Write("SESSION_AUTHENTICATE")
          /\ UNCHANGED <<in_handler, observing, opened>>
      BY <1>5 DEF DoAuthenticate
    <2>2. NextEventInv' /\ next_event' \notin Reported
      BY <1>1, <2>1 DEF IInv, ControlInv, NextEventInv, Reported, NONE
    <2>3. WebsocketInv' /\ UNCHANGED <<ws_context, ws, link>>
      BY <1>2, <2>1, WriteStep DEF Messages
    <2> QED
      BY <1>2, <2>1, <2>2, <2>3, MachineStep
  <1>6. ASSUME DoCloseSession PROVE IInv'
    <2>1. /\ Run("do_close_session") /\ next_event' = "RESIGN_ACTIVE"
          /\ Websocket!Write("SESSION_CLOSE")
          /\ UNCHANGED <<in_handler, observing, opened>>
      BY <1>6 DEF DoCloseSession
    <2>2. NextEventInv'
      BY <2>1 DEF NextEventInv
    <2>3. WebsocketInv' /\ UNCHANGED <<ws_context, ws, link>>
      BY <1>2, <2>1, WriteStep DEF Messages
    <2> QED
      BY <2>1, <2>2, <2>3, MachineStep DEF Events, Reported
  <1> QED
    BY <1>3, <1>4, <1>5, <1>6

(* An action that touches only the handler or the observer. *)
LEMMA QuietStep ==
    ASSUME IInv, NEW action, Run(action), UNCHANGED <<websocketVars, next_event>>,
           action \in {"did_open_session", "did_close_session",
                       "do_start_observing_reachability", "do_stop_observing_reachability"},
           in_handler' \in BOOLEAN, observing' \in BOOLEAN, opened' \in BOOLEAN
    PROVE  /\ Pending(action) /\ cs' = cs
           /\ \A other : Pending(other)' <=> Pending(other) /\ other # action
           /\ NotifyInv' /\ ObserveInv' => IInv'
  <1>1. next_event' \in Events \cup {NONE}
    BY DEF IInv, TypeOK
  <1>2. /\ Pending(action) /\ state' = state /\ cs' = cs /\ current_event' = current_event
        /\ faulted' = faulted /\ todo' \in Seq(Actions)
        /\ \A other : Pending(other)' <=> Pending(other) /\ other # action
        /\ ControlInv' /\ ErrorCauses'
    BY <1>1, RunStep
  <1>3. WebsocketInv' /\ UNCHANGED <<ws_context, ws, link>>
    BY WebsocketKept
  <1>4. TypeOK'
    BY <1>1, <1>2, <1>3 DEF IInv, TypeOK, WebsocketInv
  <1>5. NextEventInv'
    BY <1>2 DEF IInv, NextEventInv
  <1>6. LinkInv'
    BY <1>2, <1>3 DEF IInv, LinkInv, WebsocketInv, Websocket!Linked, Websocket!Live
  <1> QED
    BY <1>2, <1>4, <1>5, <1>6 DEF IInv

LEMMA QuietSteps ==
    IInv /\ (DidOpenSession \/ DidCloseSession \/ DoStartObserving \/ DoStopObserving)
        => IInv'
  <1> SUFFICES ASSUME IInv PROVE /\ DidOpenSession => IInv'
                                 /\ DidCloseSession => IInv'
                                 /\ DoStartObserving => IInv'
                                 /\ DoStopObserving => IInv'
    OBVIOUS
  <1>0. in_handler \in BOOLEAN /\ observing \in BOOLEAN /\ opened \in BOOLEAN
    BY DEF IInv, TypeOK
  <1>1. ASSUME DidOpenSession PROVE IInv'
    <2>1. /\ Run("did_open_session") /\ in_handler' = TRUE /\ opened' = TRUE
          /\ UNCHANGED <<websocketVars, next_event, observing>>
      BY <1>1 DEF DidOpenSession
    <2>2. /\ Pending("did_open_session") /\ cs' = cs
          /\ \A other : Pending(other)' <=> Pending(other) /\ other # "did_open_session"
          /\ NotifyInv' /\ ObserveInv' => IInv'
      BY <1>0, <2>1, QuietStep
    <2>3. NotifyInv' /\ ObserveInv'
      BY <2>1, <2>2 DEF IInv, NotifyInv, ObserveInv
    <2> QED
      BY <2>2, <2>3
  <1>2. ASSUME DidCloseSession PROVE IInv'
    <2>1. /\ Run("did_close_session") /\ in_handler' = TRUE /\ opened' = FALSE
          /\ UNCHANGED <<websocketVars, next_event, observing>>
      BY <1>2 DEF DidCloseSession
    <2>2. /\ Pending("did_close_session") /\ cs' = cs
          /\ \A other : Pending(other)' <=> Pending(other) /\ other # "did_close_session"
          /\ NotifyInv' /\ ObserveInv' => IInv'
      BY <1>0, <2>1, QuietStep
    <2>3. NotifyInv' /\ ObserveInv'
      BY <2>1, <2>2 DEF IInv, NotifyInv, ObserveInv
    <2> QED
      BY <2>2, <2>3
  <1>3. ASSUME DoStartObserving PROVE IInv'
    <2>1. /\ Run("do_start_observing_reachability") /\ observing' = TRUE
          /\ UNCHANGED <<websocketVars, next_event, in_handler, opened>>
      BY <1>3 DEF DoStartObserving
    <2>2. /\ Pending("do_start_observing_reachability") /\ cs' = cs
          /\ \A other : Pending(other)' <=>
                Pending(other) /\ other # "do_start_observing_reachability"
          /\ NotifyInv' /\ ObserveInv' => IInv'
      BY <1>0, <2>1, QuietStep
    <2>3. NotifyInv' /\ ObserveInv'
      BY <2>1, <2>2 DEF IInv, NotifyInv, ObserveInv
    <2> QED
      BY <2>2, <2>3
  <1>4. ASSUME DoStopObserving PROVE IInv'
    <2>1. /\ Run("do_stop_observing_reachability") /\ observing' = FALSE
          /\ UNCHANGED <<websocketVars, next_event, in_handler, opened>>
      BY <1>4 DEF DoStopObserving
    <2>2. /\ Pending("do_stop_observing_reachability") /\ cs' = cs
          /\ \A other : Pending(other)' <=>
                Pending(other) /\ other # "do_stop_observing_reachability"
          /\ NotifyInv' /\ ObserveInv' => IInv'
      BY <1>0, <2>1, QuietStep
    <2>3. NotifyInv' /\ ObserveInv'
      BY <2>1, <2>2 DEF IInv, NotifyInv, ObserveInv
    <2> QED
      BY <2>2, <2>3
  <1> QED
    BY <1>1, <1>2, <1>3, <1>4

(* Nothing of the machine moves: the handler returns, or messages come and *)
(* go between it and the connection.                                       *)
LEMMA OutsideStep ==
    ASSUME IInv, UNCHANGED machineVars, UNCHANGED <<observing, opened>>,
           in_handler' \in BOOLEAN, in_handler' => in_handler,
           WebsocketInv', UNCHANGED <<ws_context, ws, link>>
    PROVE  IInv'
  <1>1. \A action : Pending(action)' <=> Pending(action)
    BY DEF Pending, machineVars
  <1>2. Idle' <=> Idle
    BY DEF Idle, machineVars
  <1>3. TypeOK'
    BY DEF IInv, TypeOK, WebsocketInv, machineVars
  <1>4. ControlInv' /\ NextEventInv' /\ ErrorCauses'
    BY <1>1, <1>2 DEF IInv, ControlInv, NextEventInv, ErrorCauses, machineVars
  <1>5. LinkInv'
    BY <1>1 DEF IInv, LinkInv, WebsocketInv, machineVars, Websocket!Linked, Websocket!Live
  <1>6. NotifyInv' /\ ObserveInv'
    BY <1>1 DEF IInv, NotifyInv, ObserveInv, machineVars
  <1> QED
    BY <1>3, <1>4, <1>5, <1>6 DEF IInv

-----------------------------------------------------------------------------
LEMMA IdleFacts ==
    ASSUME IInv, Idle
    PROVE  /\ todo = <<>> /\ cs = state /\ next_event = NONE /\ ~in_handler
           /\ state \in States /\ current_event = NONE
           /\ state \in Connected => Websocket!Linked("established")
           /\ Websocket!Linked("connecting") => state = "connecting"
           /\ state = "connecting_unreachable" => ~Websocket!Live(ws_context)
           /\ opened <=> state = "authenticated"
           /\ observing <=> state = "connecting_unreachable"
           /\ WebsocketInv
  <1>1. todo = <<>> /\ cs = state /\ next_event = NONE /\ ~in_handler /\ current_event = NONE
    BY DEF IInv, ControlInv, Idle
  <1> QED
    BY <1>1, AtRest DEF IInv, LinkInv, TypeOK

(* An event pushed between two events. *)
LEMMA PushStep ==
    ASSUME IInv, Idle, NEW event \in Events, PushEvent(event), Expected(state, event),
           UNCHANGED <<in_handler, observing, opened>>,
           WebsocketInv',
           \/ state \in Connected /\ event # "CONNECTION_DISCONNECTED"
           \/ event = "CONNECTION_ESTABLISHED"
           => Websocket!Linked("established")',
           Websocket!Linked("connecting")' =>
              state = "connecting" /\ event \in {"BECOME_ACTIVE", "RESIGN_ACTIVE"},
           \/ state = "connecting_unreachable"
           \/ event \in Reported \cup {"CONNECTION_FAILED", "CONNECTION_DISCONNECTED"}
           => ~(Websocket!Live(ws_context)')
    PROVE  IInv'
  <1>1. /\ SetEvent(state, event) /\ state' = state /\ next_event' = NONE
    BY IdleFacts DEF PushEvent
  <1> QED
    BY <1>1, IdleFacts, TakenStep

LEMMA AppStep == IInv /\ App => IInv'
  <1> SUFFICES ASSUME IInv, App PROVE IInv'
    OBVIOUS
  <1>1. ASSUME NEW event \in {"BECOME_ACTIVE", "RESIGN_ACTIVE"}, PushEvent(event),
               Idle \/ in_handler,
               UNCHANGED <<websocketVars, in_handler, observing, opened>>
        PROVE  IInv'
    <2>1. WebsocketInv' /\ UNCHANGED <<ws_context, ws, link>>
      BY <1>1, WebsocketKept
    <2>2. event \in Events
      BY DEF Events
    <2>3. CASE Idle
      <3>1. Expected(state, event)
        BY DEF Expected
      <3>2. event \notin Reported \cup {"CONNECTION_FAILED", "CONNECTION_DISCONNECTED",
                                        "CONNECTION_ESTABLISHED"}
        BY DEF Reported
      <3>3. /\ Websocket!Linked("established")' = Websocket!Linked("established")
            /\ Websocket!Linked("connecting")' = Websocket!Linked("connecting")
            /\ Websocket!Live(ws_context)' = Websocket!Live(ws_context)
        BY <2>1 DEF Websocket!Linked, Websocket!Live
      <3> QED
        BY <1>1, <2>1, <2>2, <2>3, <3>1, <3>2, <3>3, IdleFacts, PushStep
    <2>4. CASE ~Idle
      <3>1. next_event' = event /\ UNCHANGED <<state, current_event, cs, todo, faulted>>
        BY <1>1, <2>4 DEF PushEvent, Idle
      <3>2. \A action : Pending(action)' <=> Pending(action)
        BY <3>1 DEF Pending
      <3>3. TypeOK'
        BY <1>1, <2>1, <2>2, <3>1 DEF IInv, TypeOK, WebsocketInv
      <3>4. ControlInv' /\ NextEventInv' /\ ErrorCauses'
        BY <2>4, <3>1, <3>2 DEF IInv, ControlInv, NextEventInv, ErrorCauses, Idle
      <3>5. LinkInv'
        BY <2>1, <3>1, <3>2 DEF IInv, LinkInv, WebsocketInv, Websocket!Linked,
           Websocket!Live, Reported
      <3>6. NotifyInv' /\ ObserveInv'
        BY <1>1, <3>1, <3>2 DEF IInv, NotifyInv, ObserveInv
      <3> QED
        BY <3>3, <3>4, <3>5, <3>6 DEF IInv
    <2> QED
      BY <2>3, <2>4
  <1>2. CASE AppOpen
    BY <1>1, <1>2 DEF AppOpen, MayCall
  <1>3. CASE AppClose
    BY <1>1, <1>3 DEF AppClose, MayCall
  <1>4. CASE AppSend
    <2>1. /\ Websocket!Write("EXAMPLE_PING") /\ WebsocketInv
          /\ UNCHANGED <<machineVars, in_handler, observing, opened>>
      BY <1>4 DEF AppSend, IInv, TypeOK, LinkInv, WebsocketInv
    <2>2. WebsocketInv' /\ UNCHANGED <<ws_context, ws, link>>
      BY <2>1, WriteStep DEF Messages
    <2>3. in_handler' \in BOOLEAN /\ (in_handler' => in_handler)
      BY <2>1 DEF IInv, TypeOK
    <2> QED
      BY <2>1, <2>2, <2>3, OutsideStep
  <1> QED
    BY <1>2, <1>3, <1>4 DEF App

LEMMA WebsocketStep == IInv /\ Service => IInv'
  <1> SUFFICES ASSUME IInv, Idle, Service PROVE IInv'
    BY DEF Service, WebsocketOpens, WebsocketFails, WebsocketCloses, WebsocketWrites, WebsocketReads
  <1>1. /\ Websocket!Linked("connecting") => state = "connecting"
        /\ Websocket!Linked("established") =>
              state # "connecting_unreachable" /\ ~Websocket!Linked("connecting")
        /\ state \in Connected => Websocket!Linked("established")
        /\ WebsocketInv
    BY IdleFacts DEF Websocket!Linked, Websocket!Live
  <1>2. /\ ~(Websocket!Live(ws_context)') => ~(Websocket!Linked("connecting")')
        /\ Websocket!Linked("established")' => ~(Websocket!Linked("connecting")')
    BY DEF Websocket!Live, Websocket!Linked
  <1>3. CASE WebsocketOpens
    <2>1. /\ PushEvent("CONNECTION_ESTABLISHED") /\ Websocket!Established
          /\ UNCHANGED <<in_handler, observing, opened>>
      BY <1>3 DEF WebsocketOpens, EventOf
    <2>2. state = "connecting" /\ WebsocketInv' /\ Websocket!Linked("established")'
      BY <1>1, <2>1, ServiceStep DEF Websocket!Established
    <2> QED
      BY <1>2, <2>1, <2>2, PushStep DEF Expected, Events, Reported
  <1>4. CASE WebsocketFails
    <2>1. /\ PushEvent("CONNECTION_FAILED") /\ Websocket!ConnectionError
          /\ UNCHANGED <<in_handler, observing, opened>>
      BY <1>4 DEF WebsocketFails, EventOf
    <2>2. state = "connecting" /\ WebsocketInv' /\ ~(Websocket!Live(ws_context)')
      BY <1>1, <2>1, ServiceStep DEF Websocket!ConnectionError
    <2> QED
      BY <1>2, <2>1, <2>2, PushStep DEF Expected, Events, Reported, Connected
  <1>5. CASE WebsocketCloses
    <2>1. /\ PushEvent("CONNECTION_DISCONNECTED")
          /\ Websocket!Closed \/ Websocket!WriteFails
          /\ UNCHANGED <<in_handler, observing, opened>>
      BY <1>5 DEF WebsocketCloses, EventOf
    <2>2. state # "connecting_unreachable" /\ WebsocketInv' /\ ~(Websocket!Live(ws_context)')
      BY <1>1, <2>1, ServiceStep DEF Websocket!Closed, Websocket!WriteFails
    <2> QED
      BY <1>2, <2>1, <2>2, PushStep DEF Expected, Events, Reported
  <1>6. CASE WebsocketWrites
    <2>1. Websocket!Writeable /\ UNCHANGED <<machineVars, in_handler, observing, opened>>
      BY <1>6 DEF WebsocketWrites
    <2>2. WebsocketInv' /\ UNCHANGED <<ws_context, ws, link>>
      BY <1>1, <2>1, ServiceStep
    <2>3. in_handler' \in BOOLEAN /\ (in_handler' => in_handler)
      BY <2>1 DEF IInv, TypeOK
    <2> QED
      BY <2>1, <2>2, <2>3, OutsideStep
  <1>7. CASE WebsocketReads
    <2>1. PICK name \in ServiceMessages : ReceiveMessage(name)
      BY <1>7 DEF WebsocketReads
    <2>2. /\ Websocket!Linked("established") /\ UNCHANGED websocketVars
          /\ UNCHANGED <<in_handler, observing, opened>>
      BY <1>7 DEF WebsocketReads, Websocket!Receive, Websocket!websocketVars, websocketVars
    <2>3. WebsocketInv' /\ UNCHANGED <<ws_context, ws, link>>
      BY <2>2, WebsocketKept
    <2>4. Websocket!Linked("established")'
      BY <2>2, <2>3 DEF Websocket!Linked
    <2>5. ASSUME NEW event \in {"AUTHENTICATED_RECEIVED", "CLOSE_RECEIVED"}, PushEvent(event)
          PROVE  IInv'
      <3>1. state # "connecting_unreachable" /\ Expected(state, event) /\ event \in Events
        BY <1>1, <2>2 DEF Expected, Events
      <3>2. event \notin Reported \cup {"CONNECTION_FAILED", "CONNECTION_DISCONNECTED"}
        BY DEF Reported
      <3> QED
        BY <1>2, <2>2, <2>3, <2>4, <2>5, <3>1, <3>2, PushStep
    <2>6. CASE UNCHANGED machineVars
      <3>1. in_handler' \in BOOLEAN /\ (in_handler' => in_handler)
        BY <2>2 DEF IInv, TypeOK
      <3> QED
        BY <2>2, <2>3, <2>6, <3>1, OutsideStep
    <2> QED
      BY <2>1, <2>5, <2>6 DEF ReceiveMessage
  <1> QED
    BY <1>3, <1>4, <1>5, <1>6, <1>7 DEF Service

LEMMA ReachabilityStep == IInv /\ ReachabilityCallback => IInv'
  <1> SUFFICES ASSUME IInv, ReachabilityCallback PROVE IInv'
    OBVIOUS
  <1>1. PICK event \in Reported : PushEvent(event)
    BY DEF ReachabilityCallback, Reported
  <1>2. /\ Idle /\ observing
        /\ UNCHANGED <<websocketVars, in_handler, observing, opened>>
    BY DEF ReachabilityCallback
  <1>3. state = "connecting_unreachable" /\ ~Websocket!Live(ws_context)
    BY <1>2, IdleFacts
  <1>4. WebsocketInv' /\ UNCHANGED <<ws_context, ws, link>>
    BY <1>2, WebsocketKept
  <1>5. ~(Websocket!Live(ws_context)') /\ ~(Websocket!Linked("connecting")')
    BY <1>3, <1>4 DEF Websocket!Live, Websocket!Linked
  <1>6. /\ Expected(state, event) /\ event \in Events
        /\ state \notin Connected /\ event # "CONNECTION_ESTABLISHED"
    BY <1>3 DEF Expected, Events, Reported, Connected
  <1> QED
    BY <1>1, <1>2, <1>4, <1>5, <1>6, PushStep

LEMMA StutterStep == IInv /\ UNCHANGED vars => IInv'
  <1> SUFFICES ASSUME IInv, UNCHANGED vars PROVE IInv'
    OBVIOUS
  <1>1. in_handler' \in BOOLEAN /\ (in_handler' => in_handler)
    BY DEF IInv, TypeOK, vars
  <1> QED
    BY <1>1, WebsocketKept, OutsideStep DEF vars

LEMMA HandlerReturnsStep == IInv /\ HandlerReturns => IInv'
  <1> SUFFICES ASSUME IInv, HandlerReturns PROVE IInv'
    OBVIOUS
  <1>1. in_handler' \in BOOLEAN /\ (in_handler' => in_handler)
    BY DEF HandlerReturns
  <1> QED
    BY <1>1, WebsocketKept, OutsideStep DEF HandlerReturns

(* IInv is preserved by every step. *)
LEMMA NextInv == IInv /\ [Next]_vars => IInv'
  BY FinishEventStep, DoConnectStep, DoDisconnectStep, PushingSteps, QuietSteps,
     HandlerReturnsStep, AppStep, WebsocketStep, ReachabilityStep, StutterStep
     DEF Next, Step

-----------------------------------------------------------------------------
(* The inductive invariant holds: at every moment the connection, the      *)
(* observer and what the application was told agree with the state to      *)
(* come, and the event that waits is one it expects.                       *)
THEOREM InductiveInvariant == Spec => []IInv
  BY InitInv, NextInv, PTL DEF Spec

(* Every variable keeps its type. *)
THEOREM TypeCorrect == Spec => []TypeOK
  <1>1. IInv => TypeOK
    BY DEF IInv
  <1> QED
    BY <1>1, InductiveInvariant, PTL

(* At rest, the handler was last told that the session opened iff it is    *)
(* AUTHENTICATED.                                                          *)
THEOREM OpenedMeansAuthenticated == Spec => []OpenedIffAuthenticated
  <1>1. IInv => OpenedIffAuthenticated
    BY IdleFacts DEF OpenedIffAuthenticated
  <1> QED
    BY <1>1, InductiveInvariant, PTL

(* The open and close callbacks alternate. *)
THEOREM CallbacksAlternate == Spec => NotificationsAlternate
  <1>1. IInv /\ [Next]_vars => [(DidOpenSession => ~opened) /\ (DidCloseSession => opened)]_vars
    <2> SUFFICES ASSUME IInv PROVE (DidOpenSession => ~opened) /\ (DidCloseSession => opened)
      OBVIOUS
    <2>1. /\ Run("did_open_session") => Pending("did_open_session")
          /\ Run("did_close_session") => Pending("did_close_session")
      BY RunPops DEF IInv, ControlInv
    <2> QED
      BY <2>1 DEF IInv, NotifyInv, DidOpenSession, DidCloseSession
  <1> QED
    BY <1>1, InductiveInvariant, PTL DEF Spec, NotificationsAlternate

(* At rest, reachability is observed iff the session waits for it. *)
THEOREM ObservedMeansUnreachable == Spec => []ObservingIffUnreachable
  <1>1. IInv => ObservingIffUnreachable
    BY IdleFacts DEF ObservingIffUnreachable
  <1> QED
    BY <1>1, InductiveInvariant, PTL

(* CONNECTED, AUTHENTICATING and AUTHENTICATED have an established         *)
(* connection, and so have the actions that write to it.                   *)
THEOREM ConnectedMeansLink == Spec => []ConnectedHasLink
  <1>1. IInv => ConnectedHasLink
    <2> SUFFICES ASSUME IInv,
                        \/ Idle /\ state \in Connected
                        \/ todo # <<>> /\ Head(todo) \in {"do_authenticate", "do_close_session"}
                 PROVE  Websocket!Linked("established") /\ ws = ws_context
      BY DEF ConnectedHasLink, Connected
    <2>1. cs \in Connected
      <3>1. CASE Idle /\ state \in Connected
        BY <3>1, IdleFacts
      <3>2. CASE todo # <<>> /\ Head(todo) \in {"do_authenticate", "do_close_session"}
        <4>1. 1 \in DOMAIN todo /\ Head(todo) = todo[1]
          BY <3>2 DEF IInv, TypeOK
        <4>2. Pending(Head(todo))
          BY <4>1 DEF Pending, Range
        <4> QED
          BY <3>2, <4>2 DEF IInv, ControlInv, Connected
      <3> QED
        BY <3>1, <3>2
    <2> QED
      BY <2>1 DEF IInv, LinkInv, Websocket!WritesToItsLink, Websocket!Linked, Websocket!Live
  <1> QED
    BY <1>1, InductiveInvariant, PTL

(* No live connection is ever left in a context that nobody services. *)
THEOREM NoneAbandoned == Spec => []NoLinkAbandoned
  <1>1. IInv => NoLinkAbandoned
    BY DEF IInv, LinkInv
  <1> QED
    BY <1>1, InductiveInvariant, PTL

(* The error state is entered only for the pairs of UnexpectedEvents. *)
THEOREM ErrorsHaveCauses == Spec => []ErrorCauses
  <1>1. IInv => ErrorCauses
    BY DEF IInv
  <1> QED
    BY <1>1, InductiveInvariant, PTL

-----------------------------------------------------------------------------
(* An idle session has no context.  By way of the error state it may keep  *)
(* one, so that the invariant is about a machine that has not been there;  *)
(* and until do_disconnect_and_save has run, the context is on its way out.*)
IdleInv ==
    /\ cs = "error" => faulted
    /\ cs = "idle" /\ ~faulted /\ ~Pending("do_disconnect_and_save") => ws_context = NULL

(* Every way to IDLE runs do_disconnect_and_save, but for a lost event of  *)
(* an attempt that is over, and for the error state.                       *)
LEMMA WaysToIdle ==
    ASSUME NEW s \in States, NEW event \in Events, SetEvent(s, event), cs' = "idle",
           ~Pending("do_disconnect_and_save")'
    PROVE  s \in {"idle", "error"}
  <1>0. /\ todo' # <<"do_disconnect_and_save">>
        /\ todo' # <<"do_stop_observing_reachability", "do_disconnect_and_save">>
    <2>1. "do_disconnect_and_save" \notin Range(todo')
      BY DEF Pending
    <2> QED
      BY <2>1, RangeOfLists
  <1> USE DEF SetEvent, Transition, To, Lost
  <1>1. s = "connecting" \/ s = "connected" \/ s = "authenticating" \/ s = "connecting_retry"
        => todo' = <<"do_disconnect_and_save">>
    BY DEF FromConnecting, FromConnected, FromAuthenticating, FromConnectingRetry,
       st0, st2, st3, st4, st6, tr0, tr3, tr5, tr6, tr8, tr10, tr11, tr15, tr17, tr18, tr19
  <1>2. s = "connecting_unreachable"
        => todo' = <<"do_stop_observing_reachability", "do_disconnect_and_save">>
    BY DEF FromConnectingUnreachable, st0, st5, tr12, tr14
  <1>3. s # "authenticated"
    BY DEF FromAuthenticated, st0, st7, tr20, tr22, tr23
  <1> QED
    BY <1>0, <1>1, <1>2, <1>3 DEF States

LEMMA IdleSetEvent ==
    ASSUME IInv, IdleInv, ~Pending("do_disconnect_and_save"),
           NEW event \in Events, SetEvent(cs, event), ws_context' = ws_context
    PROVE  IdleInv'
  <1>1. cs \in States /\ faulted' = (faulted \/ cs' = "error")
    BY DEF IInv, TypeOK, SetEvent
  <1>2. ASSUME cs' = "idle", ~faulted', ~Pending("do_disconnect_and_save")'
        PROVE  ws_context' = NULL
    <2>1. cs \in {"idle", "error"}
      BY <1>1, <1>2, WaysToIdle
    <2> QED
      BY <1>1, <1>2, <2>1 DEF IdleInv
  <1> QED
    BY <1>1, <1>2 DEF IdleInv

LEMMA IdlePushEvent ==
    ASSUME IInv, IdleInv, NEW event \in Events, PushEvent(event), ws_context' = ws_context
    PROVE  IdleInv'
  <1>1. CASE Idle
    <2>1. SetEvent(cs, event) /\ ~Pending("do_disconnect_and_save")
      BY <1>1, IdleFacts, RangeOfLists DEF PushEvent, Idle, Pending
    <2> QED
      BY <2>1, IdleSetEvent
  <1>2. CASE ~Idle
    BY <1>2 DEF PushEvent, Idle, IdleInv, Pending
  <1> QED
    BY <1>1, <1>2

LEMMA IdleRun ==
    ASSUME IInv, IdleInv, NEW action, Run(action),
           action = "do_disconnect_and_save" => ws_context' = NULL,
           ws_context' = ws_context \/ cs = "connecting"
             \/ action = "do_disconnect_and_save"
    PROVE  IdleInv'
  <1>1. /\ UNCHANGED <<cs, faulted>>
        /\ \A other : Pending(other)' <=> Pending(other) /\ other # action
    BY RunPops DEF Run, IInv, ControlInv
  <1> QED
    BY <1>1 DEF IdleInv

LEMMA IdleSteps == IInv /\ IdleInv /\ Step => IdleInv'
  <1> SUFFICES ASSUME IInv, IdleInv, Step PROVE IdleInv'
    OBVIOUS
  <1>1. CASE DoConnect
    <2>1. Run("do_connect")
      BY <1>1 DEF DoConnect
    <2>2. cs = "connecting"
      BY <2>1, RunPops DEF IInv, ControlInv
    <2> QED
      BY <2>1, <2>2, IdleRun
  <1>2. CASE DoDisconnectAndSave
    <2>1. PICK cb : Websocket!Close(cb)
      BY <1>2 DEF DoDisconnectAndSave
    <2>2. ws_context' = NULL
      BY <2>1 DEF Websocket!Close, Websocket!CloseSkipped, Websocket!CloseContext,
         Websocket!websocketVars
    <2> QED
      BY <1>2, <2>2, IdleRun DEF DoDisconnectAndSave
  <1>3. CASE \/ DoCheckSessionInfo \/ DoCheckReachability \/ DoStartObserving
             \/ DoStopObserving \/ DidOpenSession \/ DidCloseSession
    <2>1. /\ ws_context' = ws_context
          /\ \E action \in Actions \ {"do_disconnect_and_save"} : Run(action)
      BY <1>3 DEF DoCheckSessionInfo, DoCheckReachability, DoStartObserving, DoStopObserving,
         DidOpenSession, DidCloseSession, websocketVars, Actions
    <2> QED
      BY <2>1, IdleRun
  <1>4. CASE DoAuthenticate \/ DoCloseSession
    <2>1. /\ ws_context' = ws_context
          /\ Run("do_authenticate") \/ Run("do_close_session")
      BY <1>4 DEF DoAuthenticate, DoCloseSession, Websocket!Write, Websocket!websocketVars
    <2> QED
      BY <2>1, IdleRun
  <1>5. CASE HandlerReturns
    BY <1>5 DEF HandlerReturns, websocketVars, machineVars, IdleInv, Pending
  <1>6. CASE FinishEvent
    <2>1. /\ todo = <<>> /\ ws_context' = ws_context
          /\ IF next_event # NONE THEN SetEvent(cs, next_event)
                                  ELSE UNCHANGED <<cs, todo, faulted>>
      BY <1>6 DEF FinishEvent, websocketVars
    <2>2. ~Pending("do_disconnect_and_save")
      BY <2>1, RangeOfLists DEF Pending
    <2>3. CASE next_event # NONE
      BY <2>1, <2>2, <2>3, IdleSetEvent DEF IInv, TypeOK
    <2>4. CASE next_event = NONE
      BY <2>1, <2>4 DEF IdleInv, Pending
    <2> QED
      BY <2>3, <2>4
  <1> QED
    BY <1>1, <1>2, <1>3, <1>4, <1>5, <1>6 DEF Step

LEMMA IdleOutside == IInv /\ IdleInv /\ (App \/ Service \/ ReachabilityCallback) => IdleInv'
  <1> SUFFICES ASSUME IInv, IdleInv, App \/ Service \/ ReachabilityCallback PROVE IdleInv'
    OBVIOUS
  <1>1. ASSUME UNCHANGED <<ws_context, machineVars>>
        PROVE  IdleInv'
    BY <1>1 DEF machineVars, IdleInv, Pending
  <1>2. CASE App
    <2>1. CASE AppOpen \/ AppClose
      BY <2>1, IdlePushEvent DEF AppOpen, AppClose, websocketVars, Events
    <2>2. CASE AppSend
      BY <1>1, <2>2 DEF AppSend, Websocket!Write, Websocket!websocketVars
    <2> QED
      BY <1>2, <2>1, <2>2 DEF App
  <1>3. CASE Service
    <2>1. ws_context' = ws_context
      BY <1>3 DEF Service, WebsocketOpens, WebsocketFails, WebsocketCloses, WebsocketWrites,
         WebsocketReads, Websocket!Established, Websocket!ConnectionError, Websocket!Closed,
         Websocket!WriteFails, Websocket!Writeable, Websocket!Receive, Websocket!Disconnect,
         Websocket!websocketVars
    <2>2. UNCHANGED machineVars \/ \E event \in Events : PushEvent(event)
      BY <1>3 DEF Service, WebsocketOpens, WebsocketFails, WebsocketCloses, WebsocketWrites,
         WebsocketReads, ReceiveMessage, EventOf, Events
    <2> QED
      BY <1>1, <2>1, <2>2, IdlePushEvent
  <1>4. CASE ReachabilityCallback
    BY <1>4, IdlePushEvent DEF ReachabilityCallback, websocketVars, Events
  <1> QED
    BY <1>2, <1>3, <1>4

(* At rest in IDLE, the context has been destroyed. *)
THEOREM IdleMeansDisconnected == Spec => []IdleIsDisconnected
  <1>1. Init => IdleInv
    BY DEF Init, Websocket!Create, IdleInv
  <1>2. IInv /\ IdleInv /\ [Next]_vars => IdleInv'
    <2>1. IdleInv /\ UNCHANGED vars => IdleInv'
      BY DEF vars, websocketVars, machineVars, IdleInv, Pending
    <2> QED
      BY <2>1, IdleSteps, IdleOutside DEF Next
  <1>3. IInv /\ IdleInv => IdleIsDisconnected
    BY IdleFacts, RangeOfLists DEF IdleInv, IdleIsDisconnected, Pending
  <1> QED
    BY <1>1, <1>2, <1>3, InductiveInvariant, PTL DEF Spec

-----------------------------------------------------------------------------
(* Whoever waits for an answer has asked on the connection it waits on.    *)
(* The old state and the state to come are told apart: on the way out of   *)
(* AUTHENTICATED the connection is still there.                            *)
Sent == "SESSION_AUTHENTICATE" \in Range(queue) \cup written
Asked == {"authenticating", "authenticated"}

AuthInv ==
    Websocket!Linked("established") =>
        /\ state \in Asked => Sent
        /\ cs \in Asked /\ ~Pending("do_authenticate") => Sent

(* A step of the websocket that loses no message of a connection that it   *)
(* neither makes nor ends.                                                 *)
Keeping ==
    Websocket!Linked("established")' => Websocket!Linked("established") /\ (Sent => Sent')

LEMMA KeepingAll == UNCHANGED websocketVars => Keeping
  BY DEF websocketVars, Keeping, Sent, Websocket!Linked

LEMMA RangeOfAppend ==
    ASSUME NEW S, NEW q \in Seq(S), NEW m \in S
    PROVE  Range(Append(q, m)) = Range(q) \cup {m}
  <1>1. /\ Len(Append(q, m)) = Len(q) + 1 /\ Append(q, m)[Len(q) + 1] = m
        /\ \A i \in 1 .. Len(q) : Append(q, m)[i] = q[i]
    OBVIOUS
  <1>2. /\ DOMAIN q = 1 .. Len(q) /\ DOMAIN Append(q, m) = 1 .. Len(q) + 1
        /\ Len(q) \in Nat
    OBVIOUS
  <1> QED
    BY <1>1, <1>2 DEF Range

LEMMA WriteKeeping ==
    ASSUME IInv, NEW message \in Messages, Websocket!Write(message)
    PROVE  /\ Keeping
           /\ message = "SESSION_AUTHENTICATE" /\ Websocket!Linked("established")' => Sent'
  <1>1. queue \in Seq(Messages)
    BY DEF IInv, TypeOK, Websocket!TypeOK
  <1>2. CASE ws_context = NULL
    BY <1>2, KeepingAll DEF Websocket!Write, Websocket!websocketVars, websocketVars, Websocket!Linked
  <1>3. CASE ws_context # NULL
    <2>1. queue' = Append(queue, message) /\ UNCHANGED <<ws_context, link, written>>
      BY <1>3 DEF Websocket!Write
    <2>2. Range(queue') = Range(queue) \cup {message}
      BY <1>1, <2>1, RangeOfAppend
    <2> QED
      BY <2>1, <2>2 DEF Keeping, Sent, Websocket!Linked
  <1> QED
    BY <1>2, <1>3

(* AUTHENTICATING is reached by way of do_authenticate only. *)
LEMMA WaysToAsked ==
    ASSUME NEW s \in States, NEW event \in Events, SetEvent(s, event), cs' \in Asked,
           ~Pending("do_authenticate")'
    PROVE  s \in Asked
  <1>1. todo' # <<"do_authenticate">>
    <2>1. "do_authenticate" \notin Range(todo')
      BY DEF Pending
    <2> QED
      BY <2>1, RangeOfLists
  <1> USE DEF SetEvent, Transition, To, Lost, Asked
  <1>2. s # "idle" /\ s # "error"
    BY DEF FromIdle, FromError, st0, st1, tr0
  <1>3. s # "connecting" /\ s # "connecting_retry" /\ s # "connecting_unreachable"
    BY DEF FromConnecting, FromConnectingRetry, FromConnectingUnreachable,
       st0, st2, st4, st5, tr0, tr3, tr5, tr6, tr10, tr11, tr12, tr14
  <1>4. s = "connected" => todo' = <<"do_authenticate">>
    BY DEF FromConnected, st0, st3, tr3, tr6, tr8
  <1> QED
    BY <1>1, <1>2, <1>3, <1>4 DEF States

LEMMA AuthSetEvent ==
    ASSUME IInv, AuthInv, todo = <<>>, Keeping, state' \in {state, cs},
           NEW event \in Events, SetEvent(cs, event)
    PROVE  AuthInv'
  <1>1. ~Pending("do_authenticate") /\ cs \in States
    BY RangeOfLists DEF Pending, IInv, TypeOK
  <1>2. ASSUME Websocket!Linked("established")'
        PROVE  /\ state' \in Asked => Sent'
               /\ cs' \in Asked /\ ~Pending("do_authenticate")' => Sent'
    <2>1. (state \in Asked \/ cs \in Asked) => Sent'
      BY <1>1, <1>2 DEF AuthInv, Keeping
    <2>2. cs' \in Asked /\ ~Pending("do_authenticate")' => cs \in Asked
      BY <1>1, WaysToAsked
    <2> QED
      BY <2>1, <2>2
  <1> QED
    BY <1>2 DEF AuthInv

LEMMA AuthPushEvent ==
    ASSUME IInv, AuthInv, Keeping, NEW event \in Events, PushEvent(event)
    PROVE  AuthInv'
  <1>1. CASE Idle
    <2>1. SetEvent(cs, event) /\ todo = <<>> /\ state' = state
      BY <1>1, IdleFacts DEF PushEvent, Idle
    <2> QED
      BY <2>1, AuthSetEvent
  <1>2. CASE ~Idle
    <2>1. UNCHANGED <<state, cs, todo>>
      BY <1>2 DEF PushEvent, Idle
    <2> QED
      BY <2>1 DEF AuthInv, Keeping, Pending
  <1> QED
    BY <1>1, <1>2

LEMMA AuthRun ==
    ASSUME IInv, AuthInv, Keeping, NEW action, Run(action),
           action = "do_authenticate" /\ Websocket!Linked("established")' => Sent'
    PROVE  AuthInv'
  <1>1. /\ UNCHANGED <<state, cs>>
        /\ \A other : Pending(other)' <=> Pending(other) /\ other # action
    BY RunPops DEF Run, IInv, ControlInv
  <1> QED
    BY <1>1 DEF AuthInv, Keeping

LEMMA AuthSteps == IInv /\ AuthInv /\ Step => AuthInv'
  <1> SUFFICES ASSUME IInv, AuthInv, Step PROVE AuthInv'
    OBVIOUS
  <1>1. CASE DoConnect
    <2>1. Run("do_connect") /\ \E cb : Websocket!Open(cb)
      BY <1>1 DEF DoConnect
    <2>2. link \in [Contexts -> {"none", "connecting", "established", "dead"}]
      BY DEF IInv, TypeOK, Websocket!TypeOK, Websocket!LinkStates
    <2>3. \/ ~(Websocket!Linked("established")')
          \/ UNCHANGED <<ws_context, link, queue, written>>
      BY <2>1, <2>2, ContextAssumption
         DEF Websocket!Open, Websocket!OpenSkipped, Websocket!OpenWithoutContext,
             Websocket!OpenConnecting, Websocket!OpenRefused, Websocket!websocketVars,
             Websocket!Linked
    <2>4. Keeping
      BY <2>3 DEF Keeping, Sent, Websocket!Linked
    <2> QED
      BY <2>1, <2>4, AuthRun
  <1>2. CASE DoDisconnectAndSave
    <2>1. ws_context' = NULL
      <3>1. PICK cb : Websocket!Close(cb)
        BY <1>2 DEF DoDisconnectAndSave
      <3> QED
        BY <3>1 DEF Websocket!Close, Websocket!CloseSkipped, Websocket!CloseContext,
           Websocket!websocketVars
    <2> QED
      BY <2>1 DEF AuthInv, Websocket!Linked
  <1>3. CASE \/ DoCheckSessionInfo \/ DoCheckReachability \/ DoStartObserving
             \/ DoStopObserving \/ DidOpenSession \/ DidCloseSession
    <2>1. /\ UNCHANGED websocketVars
          /\ \E action \in Actions \ {"do_authenticate"} : Run(action)
      BY <1>3 DEF DoCheckSessionInfo, DoCheckReachability, DoStartObserving, DoStopObserving,
         DidOpenSession, DidCloseSession, Actions
    <2> QED
      BY <2>1, KeepingAll, AuthRun
  <1>4. CASE DoAuthenticate
    <2>1. Run("do_authenticate") /\ Websocket!Write("SESSION_AUTHENTICATE")
      BY <1>4 DEF DoAuthenticate
    <2> QED
      BY <2>1, WriteKeeping, AuthRun DEF Messages
  <1>5. CASE DoCloseSession
    <2>1. Run("do_close_session") /\ Websocket!Write("SESSION_CLOSE")
      BY <1>5 DEF DoCloseSession
    <2> QED
      BY <2>1, WriteKeeping, AuthRun DEF Messages
  <1>6. CASE HandlerReturns
    <2>1. UNCHANGED <<websocketVars, state, cs, todo>>
      BY <1>6 DEF HandlerReturns, machineVars
    <2> QED
      BY <2>1, KeepingAll DEF AuthInv, Keeping, Pending
  <1>7. CASE FinishEvent
    <2>1. /\ todo = <<>> /\ UNCHANGED websocketVars /\ state' = cs
          /\ IF next_event # NONE THEN SetEvent(cs, next_event)
                                  ELSE UNCHANGED <<cs, todo, faulted>>
      BY <1>7 DEF FinishEvent
    <2>2. CASE next_event # NONE
      BY <2>1, <2>2, KeepingAll, AuthSetEvent DEF IInv, TypeOK
    <2>3. CASE next_event = NONE
      <3>1. ~Pending("do_authenticate") /\ cs' = cs /\ todo' = todo
        BY <2>1, <2>3, RangeOfLists DEF Pending
      <3> QED
        BY <2>1, <3>1, KeepingAll DEF AuthInv, Keeping
    <2> QED
      BY <2>2, <2>3
  <1> QED
    BY <1>1, <1>2, <1>3, <1>4, <1>5, <1>6, <1>7 DEF Step

(* What libwebsockets reports: the connection is new, is gone, or has      *)
(* written everything.                                                     *)
LEMMA AuthService == IInv /\ AuthInv /\ Service => AuthInv'
  <1> SUFFICES ASSUME IInv, AuthInv, Service PROVE AuthInv'
    OBVIOUS
  <1>1. CASE WebsocketOpens
    <2>1. /\ Idle /\ Websocket!Linked("connecting") /\ PushEvent("CONNECTION_ESTABLISHED")
      BY <1>1 DEF WebsocketOpens, Websocket!Established, EventOf
    <2>2. state = "connecting"
      BY <2>1, IdleFacts
    <2>3. cs' = "connected" /\ state' = "connecting"
      BY <2>1, <2>2 DEF PushEvent, Idle, SetEvent, Transition, FromConnecting, tr5, To
    <2> QED
      BY <2>3 DEF AuthInv, Asked
  <1>2. CASE WebsocketFails \/ WebsocketCloses
    <2>1. ws_context' = ws_context /\ (ws_context # NULL => link' = [link EXCEPT ![ws_context] = "dead"])
      BY <1>2 DEF WebsocketFails, WebsocketCloses, Websocket!ConnectionError, Websocket!Closed,
         Websocket!WriteFails, Websocket!Disconnect
    <2>2. ws_context # NULL => link'[ws_context] = "dead"
      BY <2>1 DEF IInv, TypeOK, Websocket!TypeOK
    <2> QED
      BY <2>1, <2>2 DEF AuthInv, Websocket!Linked
  <1>3. CASE WebsocketWrites
    <2>1. UNCHANGED <<ws_context, link, state, cs, todo>> /\ written' = written \cup Range(queue)
      BY <1>3 DEF WebsocketWrites, Websocket!Writeable, machineVars, Range, Websocket!Range
    <2> QED
      BY <2>1 DEF AuthInv, Sent, Pending, Websocket!Linked
  <1>4. CASE WebsocketReads
    <2>1. /\ UNCHANGED websocketVars
          /\ UNCHANGED <<state, cs, todo>> \/ \E event \in Events : PushEvent(event)
      BY <1>4 DEF WebsocketReads, ReceiveMessage, Websocket!Receive, Websocket!websocketVars,
         websocketVars, machineVars, Events
    <2>2. Keeping
      BY <2>1, KeepingAll
    <2>3. CASE UNCHANGED <<state, cs, todo>>
      BY <2>2, <2>3 DEF AuthInv, Keeping, Pending
    <2> QED
      BY <2>1, <2>2, <2>3, AuthPushEvent
  <1> QED
    BY <1>1, <1>2, <1>3, <1>4 DEF Service

LEMMA AuthOutside == IInv /\ AuthInv /\ (App \/ ReachabilityCallback) => AuthInv'
  <1> SUFFICES ASSUME IInv, AuthInv, App \/ ReachabilityCallback PROVE AuthInv'
    OBVIOUS
  <1>1. CASE AppSend
    <2>1. Websocket!Write("EXAMPLE_PING") /\ UNCHANGED <<state, cs, todo>>
      BY <1>1 DEF AppSend, machineVars
    <2>2. Keeping
      BY <2>1, WriteKeeping DEF Messages
    <2> QED
      BY <2>1, <2>2 DEF AuthInv, Keeping, Pending
  <1>2. CASE AppOpen \/ AppClose \/ ReachabilityCallback
    <2>1. UNCHANGED websocketVars /\ \E event \in Events : PushEvent(event)
      BY <1>2 DEF AppOpen, AppClose, ReachabilityCallback, Events
    <2> QED
      BY <2>1, KeepingAll, AuthPushEvent
  <1> QED
    BY <1>1, <1>2 DEF App

(* A session that waits for its authentication, or has it, has asked for   *)
(* it on the connection it has.                                            *)
THEOREM AuthenticationAsked == Spec => []AuthenticateNotLost
  <1>1. Init => AuthInv
    BY DEF Init, Websocket!Create, AuthInv, Websocket!Linked
  <1>2. IInv /\ AuthInv /\ [Next]_vars => AuthInv'
    <2>1. AuthInv /\ UNCHANGED vars => AuthInv'
      BY KeepingAll DEF vars, machineVars, AuthInv, Keeping, Pending
    <2> QED
      BY <2>1, AuthSteps, AuthService, AuthOutside DEF Next
  <1>3. AuthInv => AuthenticateNotLost
    BY DEF AuthInv, AuthenticateNotLost, Sent, Asked
  <1> QED
    BY <1>1, <1>2, <1>3, InductiveInvariant, PTL DEF Spec

-----------------------------------------------------------------------------
(* A handler that only sends pushes no event, and then the one slot is     *)
(* enough: each transition pushes one event at most, and CONNECTED is left *)
(* by the event that its transition pushes.                                *)
Pushers == {"do_connect", "do_disconnect_and_save", "do_check_session_info",
            "do_check_reachability", "do_close_session"}

SlotInv ==
    /\ next_event # "BECOME_ACTIVE"
    /\ next_event # NONE => \A action \in Pushers : ~Pending(action)
    /\ cs = "connected" => \/ next_event # NONE
                           \/ Pending("do_check_session_info")
                           \/ Pending("do_close_session")

LEMMA OnePusher ==
    ASSUME IInv, NEW action \in Pushers, NEW other \in Pushers,
           Pending(action), Pending(other)
    PROVE  action = other
  <1>1. todo \in ActionLists
    BY DEF IInv, ControlInv
  <1>2. CASE \E a \in Actions : todo = <<a>>
    BY <1>2, RangeOfLists DEF Pending
  <1>3. CASE todo = <<>>
    BY <1>3, RangeOfLists DEF Pending
  <1>4. CASE ~(\E a \in Actions : todo = <<a>>) /\ todo # <<>>
    <2>1. \E a, b : todo = <<a, b>> /\ (a \notin Pushers \/ b \notin Pushers)
      BY <1>1, <1>4 DEF ActionLists, Pushers
    <2> QED
      BY <2>1, RangeOfLists DEF Pending
  <1> QED
    BY <1>2, <1>3, <1>4

(* CONNECTED is reached with an event pushed, or about to be. *)
LEMMA WaysToConnected ==
    ASSUME NEW s \in States \ {"connected"}, NEW event \in Events,
           SetEvent(s, event), cs' = "connected"
    PROVE  Pending("do_check_session_info")' \/ Pending("do_close_session")'
  <1>1. \/ todo' = <<"do_check_session_info">>
        \/ todo' = <<"do_close_session", "did_close_session">>
    <2> USE DEF SetEvent, Transition, To, Lost
    <2>1. s \notin {"idle", "error", "connecting_retry", "connecting_unreachable"}
      BY DEF FromIdle, FromError, FromConnectingRetry, FromConnectingUnreachable,
         st0, st1, st4, st5, tr0, tr3, tr10, tr11, tr12, tr14
    <2>2. s # "authenticating"
      BY DEF FromAuthenticating, st0, st6, tr8, tr15, tr17, tr18, tr19
    <2>3. s = "connecting" => todo' = <<"do_check_session_info">>
      BY DEF FromConnecting, st0, st2, tr3, tr5, tr6
    <2>4. s = "authenticated" => todo' = <<"do_close_session", "did_close_session">>
      BY DEF FromAuthenticated, st0, st7, tr20, tr22, tr23
    <2> QED
      BY <2>1, <2>2, <2>3, <2>4 DEF States
  <1>2. "do_check_session_info" \in Range(todo') \/ "do_close_session" \in Range(todo')
    BY <1>1, RangeOfLists
  <1> QED
    BY <1>2 DEF Pending

LEMMA SlotIdle ==
    ASSUME IInv, SlotInv, NEW event \in Events, PushEvent(event), Idle
    PROVE  SlotInv' /\ next_event' = NONE
  <1>1. state \in States \ {"connected"} /\ cs = state /\ next_event = NONE /\ todo = <<>>
    BY IdleFacts, RangeOfLists DEF SlotInv, Pending
  <1>2. SetEvent(state, event) /\ next_event' = NONE
    BY <1>1 DEF PushEvent, Idle
  <1> QED
    BY <1>1, <1>2, WaysToConnected DEF SlotInv, NONE

LEMMA SlotFinish == IInv /\ SlotInv /\ FinishEvent => SlotInv'
  <1> SUFFICES ASSUME IInv, SlotInv, FinishEvent PROVE SlotInv'
    OBVIOUS
  <1>1. /\ todo = <<>> /\ next_event' = NONE
        /\ IF next_event # NONE THEN SetEvent(cs, next_event)
                                ELSE UNCHANGED <<cs, todo, faulted>>
    BY DEF FinishEvent
  <1>2. /\ cs \in States /\ next_event \in Events \cup {NONE}
        /\ ~Pending("do_check_session_info") /\ ~Pending("do_close_session")
    BY <1>1, RangeOfLists DEF IInv, TypeOK, Pending
  <1>3. CASE next_event = NONE
    BY <1>1, <1>2, <1>3 DEF SlotInv, NONE
  <1>4. CASE next_event # NONE /\ cs = "connected"
    <2>1. next_event \in {"SESSION_INFO_EXISTS", "RESIGN_ACTIVE"}
      BY <1>4 DEF SlotInv, IInv, NextEventInv, Reported
    <2>2. cs' # "connected"
      BY <1>1, <1>4, <2>1 DEF SetEvent, Transition, FromConnected, tr3, tr8, To, Lost
    <2> QED
      BY <1>1, <2>2 DEF SlotInv, NONE
  <1>5. CASE next_event # NONE /\ cs # "connected"
    BY <1>1, <1>2, <1>5, WaysToConnected DEF SlotInv, NONE
  <1> QED
    BY <1>3, <1>4, <1>5

(* A pusher finds the slot empty; the others leave it alone. *)
LEMMA SlotRun ==
    ASSUME IInv, SlotInv, NEW action, Run(action),
           next_event' # "BECOME_ACTIVE",
           action \notin Pushers => next_event' = next_event,
           action \in {"do_check_session_info", "do_close_session"} => next_event' # NONE
    PROVE  SlotInv' /\ (next_event # NONE => next_event' = next_event)
  <1>1. /\ cs' = cs /\ Pending(action)
        /\ \A other : Pending(other)' <=> Pending(other) /\ other # action
    BY RunPops DEF Run, IInv, ControlInv
  <1>2. CASE action \notin Pushers
    BY <1>1, <1>2 DEF SlotInv, Pushers
  <1>3. CASE action \in Pushers
    <2>1. next_event = NONE
      BY <1>1, <1>3 DEF SlotInv
    <2>2. \A other \in Pushers : ~Pending(other)'
      BY <1>1, <1>3, OnePusher
    <2>3. cs = "connected" => action \in {"do_check_session_info", "do_close_session"}
      BY <1>1, <1>3, <2>1, OnePusher DEF SlotInv, Pushers
    <2> QED
      BY <1>1, <2>1, <2>2, <2>3 DEF SlotInv
  <1> QED
    BY <1>2, <1>3

LEMMA SlotSteps ==
    ASSUME IInv, SlotInv, Step
    PROVE  SlotInv' /\ (next_event # NONE => next_event' \in {next_event, NONE})
  <1>1. CASE DoConnect \/ DoDisconnectAndSave
    <2>1. PICK cb, action :
             /\ action \in {"do_connect", "do_disconnect_and_save"} /\ Run(action)
             /\ Called(cb) /\ cb \in Websocket!Callbacks
      BY <1>1 DEF DoConnect, DoDisconnectAndSave
    <2>2. next_event' # "BECOME_ACTIVE"
      BY <2>1 DEF Called, EventOf, Websocket!Callbacks, SlotInv
    <2>3. SlotInv' /\ (next_event # NONE => next_event' = next_event)
      BY <2>1, <2>2, SlotRun DEF Pushers
    <2> QED
      BY <2>3
  <1>2. CASE DoCheckSessionInfo \/ DoCheckReachability \/ DoCloseSession
    <2>1. PICK action \in {"do_check_session_info", "do_check_reachability", "do_close_session"} :
             Run(action)
      BY <1>2 DEF DoCheckSessionInfo, DoCheckReachability, DoCloseSession
    <2>2. next_event' # "BECOME_ACTIVE" /\ next_event' # NONE
      BY <1>2 DEF DoCheckSessionInfo, DoCheckReachability, DoCloseSession, NONE
    <2>3. SlotInv' /\ (next_event # NONE => next_event' = next_event)
      BY <2>1, <2>2, SlotRun DEF Pushers
    <2> QED
      BY <2>3
  <1>3. CASE DoStartObserving \/ DoStopObserving \/ DoAuthenticate \/ DidOpenSession \/ DidCloseSession
    <2>1. PICK action \in Actions \ Pushers : Run(action)
      BY <1>3 DEF DoStartObserving, DoStopObserving, DoAuthenticate, DidOpenSession,
         DidCloseSession, Actions, Pushers
    <2>2. next_event' = next_event
      BY <1>3 DEF DoStartObserving, DoStopObserving, DoAuthenticate, DidOpenSession,
         DidCloseSession
    <2>3. SlotInv' /\ (next_event # NONE => next_event' = next_event)
      BY <2>1, <2>2, SlotRun DEF Pushers, SlotInv
    <2> QED
      BY <2>3
  <1>4. CASE HandlerReturns
    BY <1>4 DEF HandlerReturns, machineVars, SlotInv, Pending
  <1>5. CASE FinishEvent
    BY <1>5, SlotFinish DEF FinishEvent
  <1> QED
    BY <1>1, <1>2, <1>3, <1>4, <1>5 DEF Step

LEMMA SlotOutside ==
    ASSUME HandlerCalls \subseteq {"send"},
           IInv, SlotInv, App \/ Service \/ ReachabilityCallback
    PROVE  SlotInv' /\ (next_event # NONE => next_event' \in {next_event, NONE})
  <1>1. \/ UNCHANGED machineVars
        \/ Idle /\ \E event \in Events : PushEvent(event)
    <2>1. CASE AppOpen \/ AppClose
      BY <2>1 DEF AppOpen, AppClose, MayCall, Events
    <2>2. CASE AppSend
      BY <2>2 DEF AppSend
    <2>3. CASE Service
      BY <2>3 DEF Service, WebsocketOpens, WebsocketFails, WebsocketCloses, WebsocketWrites,
         WebsocketReads, ReceiveMessage, EventOf, Events
    <2>4. CASE ReachabilityCallback
      BY <2>4 DEF ReachabilityCallback, Events
    <2> QED
      BY <2>1, <2>2, <2>3, <2>4 DEF App
  <1>2. CASE UNCHANGED machineVars
    BY <1>2 DEF machineVars, SlotInv, Pending
  <1>3. CASE Idle /\ \E event \in Events : PushEvent(event)
    BY <1>3, SlotIdle
  <1> QED
    BY <1>1, <1>2, <1>3

LEMMA SlotNext ==
    ASSUME HandlerCalls \subseteq {"send"}, IInv, SlotInv, [Next]_vars
    PROVE  SlotInv' /\ (next_event # NONE => next_event' \in {next_event, NONE})
  <1>1. CASE UNCHANGED vars
    BY <1>1 DEF vars, machineVars, SlotInv, Pending
  <1> QED
    BY <1>1, SlotSteps, SlotOutside DEF Next

LEMMA SlotInit == Init => SlotInv
  BY RangeOfLists DEF Init, SlotInv, Pending, NONE

(* If the handler does not open or close the session, no event waiting in  *)
(* next_event is replaced by another.                                      *)
THEOREM OneSlotIsEnough ==
    ASSUME HandlerCalls \subseteq {"send"}
    PROVE  Spec => NoEventOverwritten
  <1>1. IInv /\ SlotInv /\ [Next]_vars => SlotInv'
    BY SlotNext
  <1>2. IInv /\ SlotInv /\ [Next]_vars
        => [next_event # NONE => next_event' \in {next_event, NONE}]_vars
    BY SlotNext
  <1> QED
    BY <1>1, <1>2, SlotInit, InductiveInvariant, PTL DEF Spec, NoEventOverwritten

(* ... and the session never rests in CONNECTED, connected and closed at   *)
(* once.                                                                   *)
THEOREM ConnectedIsPassed ==
    ASSUME HandlerCalls \subseteq {"send"}
    PROVE  Spec => []ConnectedIsTransient
  <1>1. IInv /\ SlotInv /\ [Next]_vars => SlotInv'
    BY SlotNext
  <1>2. IInv /\ SlotInv => ConnectedIsTransient
    BY IdleFacts, RangeOfLists DEF SlotInv, ConnectedIsTransient, Pending
  <1> QED
    BY <1>1, <1>2, SlotInit, InductiveInvariant, PTL DEF Spec
-----------------------------------------------------------------------------
(* What the websocket keeps under any owner, it keeps under the session,   *)
(* which calls it from its own callbacks.                                  *)
Owned == INSTANCE TransportWebsocketProofs

LEMMA SessionOwns == [Next]_vars => [Owned!OwnerNext]_(Owned!websocketVars)
  <1> SUFFICES ASSUME [Next]_vars PROVE [Owned!OwnerNext]_(Owned!websocketVars)
    OBVIOUS
  <1>1. CASE DoConnect
    <2>1. PICK cb \in Websocket!Callbacks : Websocket!Open(cb)
      BY <1>1 DEF DoConnect
    <2>2. cb \in Owned!Callbacks /\ Owned!Open(cb)
      BY <2>1 DEF Websocket!Callbacks, Websocket!Open, Websocket!OpenSkipped,
         Websocket!OpenWithoutContext, Websocket!OpenConnecting, Websocket!OpenRefused,
         Websocket!MayOpen, Websocket!websocketVars,
         Owned!Callbacks, Owned!Open, Owned!OpenSkipped, Owned!OpenWithoutContext,
         Owned!OpenConnecting, Owned!OpenRefused, Owned!MayOpen, Owned!websocketVars
    <2> QED
      BY <2>2 DEF Owned!OwnerNext
  <1>2. CASE DoDisconnectAndSave
    <2>1. PICK cb \in Websocket!Callbacks : Websocket!Close(cb)
      BY <1>2 DEF DoDisconnectAndSave
    <2>2. cb \in Owned!Callbacks /\ Owned!Close(cb)
      BY <2>1 DEF Websocket!Callbacks, Websocket!Close, Websocket!CloseSkipped,
         Websocket!CloseContext, Websocket!CallbacksOnDestroy, Websocket!websocketVars,
         Owned!Callbacks, Owned!Close, Owned!CloseSkipped, Owned!CloseContext,
         Owned!CallbacksOnDestroy, Owned!websocketVars
    <2> QED
      BY <2>2 DEF Owned!OwnerNext
  <1>3. ASSUME NEW message \in Messages, Websocket!Write(message)
        PROVE  [Owned!OwnerNext]_(Owned!websocketVars)
    <2>1. Owned!Write(message)
      BY <1>3 DEF Websocket!Write, Websocket!websocketVars, Owned!Write, Owned!websocketVars
    <2> QED
      BY <2>1 DEF Owned!OwnerNext
  <1>4. ASSUME UNCHANGED websocketVars
        PROVE  [Owned!OwnerNext]_(Owned!websocketVars)
    BY <1>4 DEF websocketVars, Owned!websocketVars
  <1>5. CASE Service
    <2>1. CASE WebsocketOpens \/ WebsocketFails
      <3>1. Owned!Established \/ Owned!ConnectionError
        BY <2>1 DEF WebsocketOpens, WebsocketFails, Websocket!Established,
           Websocket!ConnectionError, Websocket!Linked, Owned!Established,
           Owned!ConnectionError, Owned!Linked
      <3> QED
        BY <3>1 DEF Owned!OwnerNext, Owned!Service
    <2>2. CASE WebsocketCloses
      <3>1. Owned!Closed \/ Owned!WriteFails
        BY <2>2 DEF WebsocketCloses, Websocket!Closed, Websocket!WriteFails,
           Websocket!Disconnect, Websocket!Linked, Owned!Closed, Owned!WriteFails,
           Owned!Disconnect, Owned!Linked
      <3> QED
        BY <3>1 DEF Owned!OwnerNext, Owned!Service
    <2>3. CASE WebsocketWrites \/ WebsocketReads
      <3>1. Owned!Writeable \/ Owned!Receive
        BY <2>3 DEF WebsocketWrites, WebsocketReads, Websocket!Writeable, Websocket!Receive,
           Websocket!Linked, Websocket!websocketVars, Websocket!Range, Owned!Writeable,
           Owned!Receive, Owned!Linked, Owned!websocketVars, Owned!Range
      <3> QED
        BY <3>1 DEF Owned!OwnerNext, Owned!Service
    <2> QED
      BY <1>5, <2>1, <2>2, <2>3 DEF Service
  <1>6. CASE DoAuthenticate \/ DoCloseSession \/ AppSend
    BY <1>3, <1>6 DEF DoAuthenticate, DoCloseSession, AppSend, Messages
  <1>7. CASE \/ DoCheckSessionInfo \/ DoCheckReachability \/ DoStartObserving \/ DoStopObserving
             \/ DidOpenSession \/ DidCloseSession \/ HandlerReturns \/ FinishEvent
             \/ AppOpen \/ AppClose \/ ReachabilityCallback \/ UNCHANGED vars
    BY <1>4, <1>7 DEF DoCheckSessionInfo, DoCheckReachability, DoStartObserving,
       DoStopObserving, DidOpenSession, DidCloseSession, HandlerReturns, FinishEvent,
       AppOpen, AppClose, ReachabilityCallback, vars
  <1> QED
    BY <1>1, <1>2, <1>5, <1>6, <1>7 DEF Next, Step, App

LEMMA OwnedSound == Spec => [](Owned!WebsocketInv)
  <1>1. Init => Owned!WebsocketInv
    <2>1. Init => Owned!Create
      BY DEF Init, Websocket!Create, Owned!Create
    <2> QED
      BY <2>1, Owned!WebsocketInit, ContextAssumption, MaxQueueAssumption
  <1>2. Owned!WebsocketInv /\ [Next]_vars => Owned!WebsocketInv'
    BY SessionOwns, Owned!OwnerKeeps, ContextAssumption, MaxQueueAssumption
  <1> QED
    BY <1>1, <1>2, PTL DEF Spec

(* Whatever the session has enqueued on a connection that is established,  *)
(* its SESSION_AUTHENTICATE included, a WRITEABLE callback is coming for.  *)
THEOREM SessionIsServed == Spec => [](Websocket!QueuedIsServed)
  <1>1. Owned!WebsocketInv => Websocket!QueuedIsServed
    BY DEF Owned!WebsocketInv, Owned!QueuedIsServed, Owned!Linked,
       Websocket!QueuedIsServed, Websocket!Linked
  <1> QED
    BY <1>1, OwnedSound, PTL

(* A message that the session has enqueued is not lost but together with   *)
(* the connection: while it waits for an answer, its question was written  *)
(* or waits to be.                                                         *)
THEOREM SessionLosesWithItsLink == Spec => Websocket!LostWithItsLink
  <1> DEFINE Kept == \/ Range(queue) \subseteq Range(queue') \cup written'
                     \/ ~(Websocket!Live(ws_context))'
  <1>1. Owned!WebsocketInv /\ [Next]_vars => [Kept]_(Websocket!websocketVars)
    <2> SUFFICES ASSUME Owned!WebsocketInv, Owned!OwnerNext PROVE Kept
      BY SessionOwns DEF Owned!websocketVars, Websocket!websocketVars
    <2> QED
      BY Owned!LostStep, ContextAssumption, MaxQueueAssumption
         DEF Range, Owned!Range, Owned!Live, Websocket!Live
  <1>2. Kept <=> \/ Websocket!Range(queue) \subseteq Websocket!Range(queue') \cup written'
                 \/ ~(Websocket!Live(ws_context))'
    BY DEF Range, Websocket!Range
  <1> QED
    BY <1>1, <1>2, OwnedSound, PTL DEF Spec, Websocket!LostWithItsLink

-----------------------------------------------------------------------------
(* Every event pushed while another is processed belongs to a lower level, *)
(* also one pushed by the handler, so that the recursion of set_event ends.*)
(* The levels are those of what an event may lead to in a state.           *)
Level(s, event) ==
    CASE event = "AUTHENTICATED_RECEIVED"                 -> 3
      [] event \in {"CLOSE_RECEIVED", "CONNECTION_RETRY"} -> 2
      [] event = "RESIGN_ACTIVE"                          -> IF s = "authenticated" THEN 2 ELSE 1
      [] event = "BECOME_ACTIVE"                          -> IF s = "idle" THEN 2 ELSE 0
      [] event \in Lost ->
            IF s = "idle" THEN 0 ELSE IF s = "authenticated" THEN 2 ELSE 1
      [] event = "CONNECTION_ESTABLISHED"                 -> 1
      [] event = "REACHABILITY_IS_REACHABLE" -> IF s = "connecting_unreachable" THEN 2 ELSE 0
      [] event \in {"REACHABILITY_IS_UNREACHABLE", "SESSION_INFO_EXISTS", "TIMEOUT"} -> 0

Now == Level(state, current_event)

(* What may still be pushed: what waits, and what the actions left push, or*)
(* the handler in the callbacks left.                                      *)
LevelInv ==
    ~Idle =>
        /\ next_event # NONE => Level(cs, next_event) < Now
        /\ Pending("do_connect") \/ Pending("do_close_session") => Now >= 2
        /\ Pending("do_disconnect_and_save") => Now >= 1
        /\ Pending("do_check_session_info") \/ Pending("do_check_reachability") => Now >= 1
        /\ Pending("did_open_session") => Now >= 3
        /\ Pending("did_close_session") \/ in_handler => Now >= 2 /\ cs # "idle"
        /\ in_handler /\ cs = "authenticated" => Now >= 3

LEMMA LevelTypes ==
    ASSUME NEW s, NEW event \in Events
    PROVE  Level(s, event) \in 0 .. 3
  BY DEF Level, Events, Lost

LEMMA WaysToPush ==
    ASSUME NEW s \in States, NEW event \in Events, SetEvent(s, event)
    PROVE  \/ todo' \in {<<>>, <<"do_authenticate">>, <<"do_start_observing_reachability">>}
           \/ /\ Level(s, event) >= 1
              /\ todo' \in {<<"do_disconnect_and_save">>, <<"do_check_session_info">>,
                            <<"do_check_reachability">>,
                            <<"do_stop_observing_reachability", "do_disconnect_and_save">>}
           \/ /\ Level(s, event) >= 2
              /\ todo' \in {<<"do_connect">>, <<"do_stop_observing_reachability", "do_connect">>}
           \/ /\ Level(s, event) >= 2 /\ cs' \in {"connected", "connecting_retry"}
              /\ todo' \in {<<"do_close_session", "did_close_session">>, <<"did_close_session">>,
                            <<"did_close_session", "do_check_reachability">>}
           \/ Level(s, event) >= 3 /\ todo' = <<"did_open_session">>
  <1> USE DEF SetEvent, Transition, To, Lost, Level, Events
  <1>1. CASE s = "idle"
    BY <1>1 DEF FromIdle, st0, st1, tr0
  <1>2. CASE s = "error"
    BY <1>2 DEF FromError, st1
  <1>3. CASE s = "connecting"
    BY <1>3 DEF FromConnecting, st0, st2, tr3, tr5, tr6
  <1>4. CASE s = "connected"
    BY <1>4 DEF FromConnected, st0, st3, tr3, tr6, tr8
  <1>5. CASE s = "connecting_retry"
    BY <1>5 DEF FromConnectingRetry, st0, st4, tr0, tr3, tr10, tr11
  <1>6. CASE s = "connecting_unreachable"
    BY <1>6 DEF FromConnectingUnreachable, st0, st5, tr12, tr14
  <1>7. CASE s = "authenticating"
    BY <1>7 DEF FromAuthenticating, st0, st6, tr8, tr15, tr17, tr18, tr19
  <1>8. CASE s = "authenticated"
    BY <1>8 DEF FromAuthenticated, st0, st7, tr20, tr22, tr23
  <1> QED
    BY <1>1, <1>2, <1>3, <1>4, <1>5, <1>6, <1>7, <1>8 DEF States

LEMMA LevelTaken ==
    ASSUME NEW s \in States, NEW event \in Events, SetEvent(s, event),
           state' = s, next_event' = NONE, ~in_handler'
    PROVE  LevelInv' /\ Now' = Level(s, event) /\ Len(todo') \in 0 .. 2 /\ ~Idle'
  <1>1. Now' = Level(s, event) /\ current_event' # NONE
    BY DEF Now, SetEvent, Events, NONE
  <1>2. Level(s, event) \in 0 .. 3
    BY LevelTypes
  <1> DEFINE Plain == {<<>>, <<"do_authenticate">>, <<"do_start_observing_reachability">>}
             One == {<<"do_disconnect_and_save">>, <<"do_check_session_info">>,
                     <<"do_check_reachability">>,
                     <<"do_stop_observing_reachability", "do_disconnect_and_save">>}
             Two == {<<"do_connect">>, <<"do_stop_observing_reachability", "do_connect">>}
             Told == {<<"do_close_session", "did_close_session">>, <<"did_close_session">>,
                      <<"did_close_session", "do_check_reachability">>}
  <1> DEFINE n == Level(s, event)
  <1> HIDE DEF n
  <1>3. \/ todo' \in Plain
        \/ n >= 1 /\ todo' \in One
        \/ n >= 2 /\ todo' \in Two
        \/ n >= 2 /\ cs' \in {"connected", "connecting_retry"} /\ todo' \in Told
        \/ n >= 3 /\ todo' = <<"did_open_session">>
    BY WaysToPush DEF n
  <1>4. Len(todo') \in 0 .. 2
    BY <1>3
  <1>5. n \in 0 .. 3 /\ Now' = n
    BY <1>1, <1>2 DEF n
  <1>6. LevelInv'
    <2> SUFFICES /\ Pending("do_connect")' \/ Pending("do_close_session")' => n >= 2
                 /\ Pending("do_disconnect_and_save")' => n >= 1
                 /\ Pending("do_check_session_info")' \/ Pending("do_check_reachability")' => n >= 1
                 /\ Pending("did_open_session")' => n >= 3
                 /\ Pending("did_close_session")' => n >= 2 /\ cs' # "idle"
      BY <1>5 DEF LevelInv
    <2>1. CASE todo' \in Plain
      BY <2>1, RangeOfLists DEF Pending
    <2>2. CASE n >= 1 /\ todo' \in One
      BY <2>2, RangeOfLists DEF Pending
    <2>3. CASE n >= 2 /\ todo' \in Two
      BY <1>5, <2>3, RangeOfLists DEF Pending
    <2>4. CASE n >= 2 /\ cs' \in {"connected", "connecting_retry"} /\ todo' \in Told
      BY <1>5, <2>4, RangeOfLists DEF Pending
    <2>5. CASE n >= 3 /\ todo' = <<"did_open_session">>
      BY <1>5, <2>5, RangeOfLists DEF Pending
    <2> QED
      BY <1>3, <2>1, <2>2, <2>3, <2>4, <2>5
  <1> QED
    BY <1>1, <1>4, <1>6 DEF Idle, n

(* An action of a transition: what it pushes is of a lower level, and so   *)
(* is what the handler it calls may push.                                  *)
LEMMA LevelRun ==
    ASSUME IInv, LevelInv, NEW action, Run(action),
           next_event' # next_event => Level(cs, next_event') < Now,
           \/ in_handler' = in_handler
           \/ action \in {"did_open_session", "did_close_session"} /\ in_handler' = TRUE
    PROVE  LevelInv' /\ UNCHANGED <<Now, Idle>>
  <1>1. /\ UNCHANGED <<state, current_event, cs>> /\ ~in_handler
        /\ Pending(action) /\ ~Idle
        /\ \A other : Pending(other)' <=> Pending(other) /\ other # action
    <2>1. Pending(action) /\ \A other : Pending(other)' <=> Pending(other) /\ other # action
      BY RunPops DEF IInv, ControlInv
    <2>2. ~Idle
      BY IdleFacts DEF Run
    <2> QED
      BY <2>1, <2>2 DEF Run
  <1>2. Now' = Now /\ Idle' = Idle
    BY <1>1 DEF Now, Idle
  <1>3. /\ action = "did_open_session" => Now >= 3
        /\ action = "did_close_session" => Now >= 2 /\ cs # "idle" /\ cs # "authenticated"
        /\ action = "did_open_session" => cs = "authenticated"
    BY <1>1 DEF LevelInv, IInv, NotifyInv
  <1>4. Now \in 0 .. 3
    BY <1>1, LevelTypes DEF Now, IInv, TypeOK, Idle
  <1>5. Level(cs, next_event') < Now \/ next_event' = NONE
    BY <1>1 DEF LevelInv
  <1> QED
    BY <1>1, <1>2, <1>3, <1>4, <1>5 DEF LevelInv

Rank ==
    IF Idle THEN 0 ELSE 1 + 5 * Now + 2 * Len(todo) + IF in_handler THEN 1 ELSE 0

(* The weights: an event of a lower level outweighs what is left of one. *)
LEMMA RankWeights ==
    /\ \A n \in 0 .. 3, l \in 0 .. 2, b \in 0 .. 1 : 1 + 5 * n + 2 * l + b \in 0 .. 21
    /\ \A n, m \in 0 .. 3, l \in 0 .. 2 :
          n < m => 1 + 5 * n + 2 * l + 0 < 1 + 5 * m + 2 * 0 + 0
  OBVIOUS

LEMMA RankTypes == IInv => Rank \in 0 .. 21
  <1> SUFFICES ASSUME IInv, ~Idle PROVE Rank \in 0 .. 21
    BY DEF Rank
  <1>1. Now \in 0 .. 3
    BY LevelTypes DEF Now, IInv, TypeOK, Idle
  <1>2. Len(todo) \in 0 .. 2
    BY DEF IInv, ControlInv, ActionLists
  <1>3. (IF in_handler THEN 1 ELSE 0) \in 0 .. 1
    OBVIOUS
  <1>4. Rank = 1 + 5 * Now + 2 * Len(todo) + IF in_handler THEN 1 ELSE 0
    BY DEF Rank
  <1> QED
    BY ONLY <1>1, <1>2, <1>3, <1>4, RankWeights

LEMMA LevelStep ==
    ASSUME IInv, LevelInv, Step
    PROVE  LevelInv' /\ Rank' < Rank
  <1>0. Rank \in Nat /\ (~Idle => Now \in 0 .. 3) /\ Len(todo) \in 0 .. 2
    BY RankTypes, LevelTypes DEF Now, IInv, TypeOK, Idle, ControlInv, ActionLists
  <1>1. ASSUME NEW action, Run(action), UNCHANGED <<Now, Idle>>, in_handler' \in BOOLEAN
        PROVE  Rank' < Rank
    <2>1. todo # <<>> /\ todo' = Tail(todo) /\ ~in_handler /\ ~Idle
      BY <1>1, IdleFacts DEF Run
    <2>2. Len(todo') = Len(todo) - 1
      BY <2>1 DEF IInv, TypeOK
    <2> QED
      BY <1>0, <1>1, <2>1, <2>2 DEF Rank
  <1>2. ASSUME NEW action, Run(action),
               next_event' # next_event => Level(cs, next_event') < Now,
               \/ in_handler' = in_handler
               \/ action \in {"did_open_session", "did_close_session"} /\ in_handler' = TRUE
        PROVE  LevelInv' /\ Rank' < Rank
    <2>1. in_handler' \in BOOLEAN
      BY <1>2 DEF IInv, TypeOK
    <2> QED
      BY <1>1, <1>2, <2>1, LevelRun
  <1>3. ASSUME NEW action, Run(action)
        PROVE  Pending(action) /\ ~Idle
    BY <1>3, RunPops, IdleFacts DEF IInv, ControlInv, Run
  <1>4. CASE DoConnect
    <2>1. Run("do_connect") /\ in_handler' = in_handler
      BY <1>4 DEF DoConnect
    <2>2. cs = "connecting" /\ Now >= 2
      BY <1>3, <2>1 DEF IInv, ControlInv, LevelInv
    <2>3. next_event' \in {next_event, "CONNECTION_FAILED"}
      BY <1>4 DEF DoConnect, Called, EventOf, Websocket!Open, Websocket!OpenRefused
    <2>4. Level("connecting", "CONNECTION_FAILED") = 1
      BY DEF Level, Lost
    <2> QED
      BY <1>0, <1>2, <1>3, <2>1, <2>2, <2>3, <2>4
  <1>5. CASE DoDisconnectAndSave
    <2>1. Run("do_disconnect_and_save") /\ in_handler' = in_handler
      BY <1>5 DEF DoDisconnectAndSave
    <2>2. cs = "idle" /\ Now >= 1
      BY <1>3, <2>1 DEF IInv, ControlInv, LevelInv
    <2>3. next_event' \in {next_event} \cup Lost
      BY <1>5 DEF DoDisconnectAndSave, Called, EventOf, Websocket!Close, Websocket!CloseSkipped,
         Websocket!CloseContext, Websocket!CallbacksOnDestroy, Lost
    <2>4. \A event \in Lost : Level("idle", event) = 0
      BY DEF Level, Lost
    <2> QED
      BY <1>0, <1>2, <1>3, <2>1, <2>2, <2>3, <2>4
  <1>6. CASE DoCheckSessionInfo
    <2>1. /\ Run("do_check_session_info") /\ in_handler' = in_handler
          /\ next_event' = "SESSION_INFO_EXISTS"
      BY <1>6 DEF DoCheckSessionInfo
    <2>2. Now >= 1
      BY <1>3, <2>1 DEF LevelInv
    <2>3. Level(cs, "SESSION_INFO_EXISTS") = 0
      BY DEF Level, Lost
    <2> QED
      BY <1>0, <1>2, <1>3, <2>1, <2>2, <2>3
  <1>7. CASE DoCheckReachability
    <2>1. /\ Run("do_check_reachability") /\ in_handler' = in_handler
          /\ next_event' \in Reported
      BY <1>7 DEF DoCheckReachability, Reported
    <2>2. cs = "connecting_retry" /\ Now >= 1
      BY <1>3, <2>1 DEF IInv, ControlInv, LevelInv
    <2>3. \A event \in Reported : Level("connecting_retry", event) = 0
      BY DEF Level, Lost, Reported
    <2> QED
      BY <1>0, <1>2, <1>3, <2>1, <2>2, <2>3
  <1>8. CASE DoCloseSession
    <2>1. /\ Run("do_close_session") /\ in_handler' = in_handler
          /\ next_event' = "RESIGN_ACTIVE"
      BY <1>8 DEF DoCloseSession
    <2>2. cs = "connected" /\ Now >= 2
      BY <1>3, <2>1 DEF IInv, ControlInv, LevelInv
    <2>3. Level("connected", "RESIGN_ACTIVE") = 1
      BY DEF Level
    <2> QED
      BY <1>0, <1>2, <1>3, <2>1, <2>2, <2>3
  <1>9. CASE DoStartObserving \/ DoStopObserving \/ DoAuthenticate
    <2>1. PICK action : Run(action) /\ in_handler' = in_handler /\ next_event' = next_event
      BY <1>9 DEF DoStartObserving, DoStopObserving, DoAuthenticate
    <2> QED
      BY <1>2, <2>1
  <1>10. CASE DidOpenSession \/ DidCloseSession
    <2>1. PICK action \in {"did_open_session", "did_close_session"} :
             Run(action) /\ in_handler' = TRUE /\ next_event' = next_event
      BY <1>10 DEF DidOpenSession, DidCloseSession
    <2> QED
      BY <1>2, <2>1
  <1>11. CASE HandlerReturns
    <2>1. in_handler /\ in_handler' = FALSE /\ UNCHANGED machineVars
      BY <1>11 DEF HandlerReturns
    <2>2. ~Idle
      BY <2>1, IdleFacts
    <2>3. UNCHANGED <<Now, Idle, todo, next_event, cs>> /\ \A a : Pending(a)' <=> Pending(a)
      BY <2>1 DEF machineVars, Now, Idle, Pending
    <2>4. LevelInv'
      BY <2>1, <2>3 DEF LevelInv
    <2> QED
      BY <1>0, <2>1, <2>2, <2>3, <2>4 DEF Rank
  <1>12. CASE FinishEvent
    <2>1. ~Idle /\ todo = <<>> /\ ~in_handler /\ ~in_handler' /\ state' = cs /\ next_event' = NONE
      BY <1>12 DEF FinishEvent, Idle
    <2>2. CASE next_event = NONE
      <3>1. Idle'
        BY <1>12, <2>2 DEF FinishEvent, Idle
      <3> QED
        BY <1>0, <2>1, <3>1 DEF LevelInv, Rank
    <2>3. CASE next_event # NONE
      <3>1. SetEvent(cs, next_event) /\ cs \in States /\ next_event \in Events
        BY <1>12, <2>3 DEF FinishEvent, IInv, TypeOK
      <3>2. LevelInv' /\ Now' = Level(cs, next_event) /\ Len(todo') \in 0 .. 2 /\ ~Idle'
        BY <2>1, <3>1, LevelTaken
      <3>3. Now' \in 0 .. 3 /\ Now' < Now
        BY <2>1, <2>3, <3>1, <3>2, LevelTypes DEF LevelInv
      <3>4. /\ Rank = 1 + 5 * Now + 2 * 0 + 0
            /\ Rank' = 1 + 5 * Now' + 2 * Len(todo') + 0
        BY <2>1, <3>2 DEF Rank
      <3> QED
        BY <1>0, <2>1, <3>2, <3>3, <3>4, RankWeights
    <2> QED
      BY <2>2, <2>3
  <1> QED
    BY <1>4, <1>5, <1>6, <1>7, <1>8, <1>9, <1>10, <1>11, <1>12 DEF Step

(* What the application and the callbacks do between two events starts a   *)
(* new descent; what the handler does keeps within the one that is on.     *)
LEMMA LevelOutside ==
    ASSUME IInv, LevelInv, App \/ Service \/ ReachabilityCallback \/ UNCHANGED vars
    PROVE  LevelInv' /\ (~Idle => Rank' = Rank)
  <1>1. \/ UNCHANGED <<machineVars, in_handler>>
        \/ /\ Idle /\ in_handler' = in_handler
           /\ \E event \in Events : PushEvent(event)
        \/ /\ ~Idle /\ in_handler /\ in_handler' = in_handler
           /\ \E event \in {"BECOME_ACTIVE", "RESIGN_ACTIVE"} : PushEvent(event)
    <2>1. CASE AppOpen \/ AppClose
      BY <2>1 DEF AppOpen, AppClose, MayCall, Events
    <2>2. CASE AppSend
      BY <2>2 DEF AppSend
    <2>3. CASE Service
      BY <2>3 DEF Service, WebsocketOpens, WebsocketFails, WebsocketCloses, WebsocketWrites,
         WebsocketReads, ReceiveMessage, EventOf, Events
    <2>4. CASE ReachabilityCallback
      BY <2>4 DEF ReachabilityCallback, Events
    <2> QED
      BY <2>1, <2>2, <2>3, <2>4 DEF App, vars
  <1>2. CASE UNCHANGED <<machineVars, in_handler>>
    BY <1>2 DEF machineVars, LevelInv, Now, Rank, Idle, Pending
  <1>3. ASSUME Idle, in_handler' = in_handler, NEW event \in Events, PushEvent(event)
        PROVE  LevelInv'
    <2>1. /\ SetEvent(state, event) /\ state' = state /\ next_event' = NONE
          /\ state \in States /\ ~in_handler'
      BY <1>3, IdleFacts DEF PushEvent, Idle
    <2> QED
      BY <2>1, LevelTaken
  <1>4. ASSUME ~Idle, in_handler, in_handler' = in_handler,
               NEW event \in {"BECOME_ACTIVE", "RESIGN_ACTIVE"}, PushEvent(event)
        PROVE  LevelInv' /\ Rank' = Rank
    <2>1. next_event' = event /\ UNCHANGED <<state, current_event, cs, todo>>
      BY <1>4 DEF PushEvent, Idle
    <2>2. Now \in 0 .. 3 /\ Now >= 2 /\ cs # "idle" /\ (cs = "authenticated" => Now >= 3)
      BY <1>4, LevelTypes DEF LevelInv, Now, IInv, TypeOK, Idle
    <2>3. Level(cs, event) <= IF cs = "authenticated" THEN 2 ELSE 1
      BY <2>2 DEF Level
    <2>4. Level(cs, event) \in 0 .. 3
      BY LevelTypes DEF Events
    <2>5. UNCHANGED <<Now, Idle, Rank>> /\ \A a : Pending(a)' <=> Pending(a)
      BY <1>4, <2>1 DEF Now, Idle, Rank, Pending
    <2> QED
      BY <1>4, <2>1, <2>2, <2>3, <2>4, <2>5 DEF LevelInv
  <1> QED
    BY <1>1, <1>2, <1>3, <1>4

LEMMA LevelSound == Spec => [](IInv /\ LevelInv)
  <1>1. Init => LevelInv
    BY DEF Init, LevelInv, Idle
  <1>2. IInv /\ LevelInv /\ [Next]_vars => LevelInv'
    BY LevelStep, LevelOutside DEF Next
  <1> QED
    BY <1>1, <1>2, InductiveInvariant, PTL DEF Spec

(* set_event calls itself, for the event that waits, at most three times   *)
(* for one event from outside: each time the level, of at most 3, falls.   *)
THEOREM RecursionIsBounded ==
    Spec => [][FinishEvent /\ next_event # NONE => Now \in 0 .. 3 /\ Now' < Now]_vars
  <1>1. IInv /\ LevelInv
        => (FinishEvent /\ next_event # NONE => Now \in 0 .. 3 /\ Now' < Now)
    <2> SUFFICES ASSUME IInv, LevelInv, FinishEvent, next_event # NONE
                 PROVE  Now \in 0 .. 3 /\ Now' < Now
      OBVIOUS
    <2>1. /\ ~Idle /\ todo = <<>> /\ ~in_handler' /\ state' = cs /\ next_event' = NONE
          /\ SetEvent(cs, next_event) /\ cs \in States /\ next_event \in Events
      BY DEF FinishEvent, Idle, IInv, TypeOK
    <2>2. Now' = Level(cs, next_event)
      BY <2>1, LevelTaken
    <2> QED
      BY <2>1, <2>2, LevelTypes DEF LevelInv, Now, IInv, TypeOK, Idle
  <1>2. IInv /\ LevelInv /\ [Next]_vars
        => [FinishEvent /\ next_event # NONE => Now \in 0 .. 3 /\ Now' < Now]_vars
    BY <1>1
  <1> QED
    BY <1>2, LevelSound, PTL DEF Spec

(* Whatever the handler calls in its callbacks, each step of the machine   *)
(* brings it nearer to rest, by one of at most 21, and no call made from   *)
(* the handler takes it back: the safety half of RunsToCompletion.         *)
THEOREM StepsDescend ==
    Spec => [][ /\ Rank \in 0 .. 21
                /\ Step => Rank' < Rank
                /\ ~Idle /\ ~Step => Rank' = Rank ]_vars
  <1>1. IInv /\ LevelInv /\ [Next]_vars
        => [ /\ Rank \in 0 .. 21
             /\ Step => Rank' < Rank
             /\ ~Idle /\ ~Step => Rank' = Rank ]_vars
    BY RankTypes, LevelStep, LevelOutside DEF Next
  <1> QED
    BY <1>1, LevelSound, PTL DEF Spec
=============================================================================
