---------------------- MODULE TransportWebsocketProofs ----------------------
(* What the websocket keeps under any owner, for every set of contexts, of *)
(* messages, and any bound on the queue.                                   *)
EXTENDS TransportWebsocket, TLAPS

(* Each invariant by itself is not inductive: a message is served because  *)
(* the request to write goes to the connection there is, and an open does  *)
(* not take the place of a connection because ws_status tells of it.       *)
WebsocketInv == TypeOK /\ StatusTracksLink /\ QueuedIsServed /\ WritesToItsLink

USE DEF Statuses, LinkStates, Live, Linked

LEMMA WebsocketInit == Create => WebsocketInv
<1> SUFFICES ASSUME Create
             PROVE  WebsocketInv
  OBVIOUS
<1>1. TypeOK
  <2>1. queue \in Seq(Messages) /\ link \in [Contexts -> LinkStates]
    BY DEF Create
  <2> QED
    BY <2>1 DEF Create, TypeOK
<1>2. StatusTracksLink /\ QueuedIsServed /\ WritesToItsLink
  BY DEF Create, StatusTracksLink, QueuedIsServed, WritesToItsLink
<1> QED
  BY <1>1, <1>2 DEF WebsocketInv

(* An attempt is made only when no connection is established anywhere.     *)
LEMMA OpenKeeps ==
    ASSUME WebsocketInv, NEW cb \in Callbacks, Open(cb)
    PROVE  WebsocketInv'
<1>1. CASE OpenSkipped \/ OpenWithoutContext
  BY <1>1 DEF OpenSkipped, OpenWithoutContext, websocketVars, WebsocketInv, TypeOK,
       StatusTracksLink, QueuedIsServed, WritesToItsLink
<1>2. CASE OpenConnecting
  <2>1. PICK c \in {d \in Contexts : link[d] = "none"} :
            ws_context' = c /\ ws' = c /\ link' = [link EXCEPT ![c] = "connecting"]
    BY <1>2 DEF OpenConnecting
  <2>2. TypeOK'
    BY <1>2, <2>1 DEF OpenConnecting, WebsocketInv, TypeOK
  <2>3. ws_status' = "CLOSED" /\ \A d \in Contexts : link'[d] # "established"
    BY <1>2, <2>1, ContextAssumption
       DEF OpenConnecting, MayOpen, WebsocketInv, TypeOK, StatusTracksLink
  <2> QED
    BY <2>1, <2>2, <2>3 DEF WebsocketInv, TypeOK, StatusTracksLink, QueuedIsServed, WritesToItsLink
<1>3. CASE OpenRefused(cb)
  <2>1. PICK c \in {d \in Contexts : link[d] = "none"} :
            ws_context' = c /\ link' = [link EXCEPT ![c] = "dead"]
    BY <1>3 DEF OpenRefused
  <2>2. TypeOK'
    BY <1>3, <2>1 DEF OpenRefused, WebsocketInv, TypeOK
  <2>3. ws_status' # "ESTABLISHED" /\ \A d \in Contexts : link'[d] # "established"
    BY <1>3, <2>1, ContextAssumption
       DEF OpenRefused, MayOpen, WebsocketInv, TypeOK, StatusTracksLink
  <2> QED
    BY <2>1, <2>2, <2>3 DEF WebsocketInv, TypeOK, StatusTracksLink, QueuedIsServed, WritesToItsLink
<1> QED
  BY <1>1, <1>2, <1>3 DEF Open

LEMMA CloseKeeps ==
    ASSUME WebsocketInv, NEW cb \in Callbacks, Close(cb)
    PROVE  WebsocketInv'
<1>1. CASE CloseSkipped(cb)
  BY <1>1 DEF CloseSkipped, websocketVars, WebsocketInv, TypeOK,
       StatusTracksLink, QueuedIsServed, WritesToItsLink
<1>2. CASE CloseContext(cb)
  <2>1. TypeOK'
    BY <1>2 DEF CloseContext, WebsocketInv, TypeOK
  <2>2. ws_context' = NULL /\ \A d \in Contexts : link'[d] # "established"
    BY <1>2, ContextAssumption DEF CloseContext, WebsocketInv, TypeOK, StatusTracksLink
  <2> QED
    BY <2>1, <2>2, ContextAssumption
       DEF WebsocketInv, StatusTracksLink, QueuedIsServed, WritesToItsLink
<1> QED
  BY <1>1, <1>2 DEF Close

LEMMA WriteKeeps ==
    ASSUME WebsocketInv, NEW message \in Messages, Write(message)
    PROVE  WebsocketInv'
<1>1. TypeOK'
  <2>1. queue' \in Seq(Messages)
    BY DEF Write, websocketVars, WebsocketInv, TypeOK
  <2>2. writable' \in BOOLEAN
    BY DEF Write, websocketVars, WebsocketInv, TypeOK
  <2> QED
    BY <2>1, <2>2 DEF Write, websocketVars, WebsocketInv, TypeOK
<1>2. QueuedIsServed'
  BY DEF Write, websocketVars, WebsocketInv, WritesToItsLink, QueuedIsServed
<1> QED
  BY <1>1, <1>2 DEF Write, websocketVars, WebsocketInv, StatusTracksLink, WritesToItsLink

(* The callbacks change the link of the context being serviced only.       *)
LEMMA ServiceKeeps ==
    ASSUME WebsocketInv, Service
    PROVE  WebsocketInv'
<1>1. CASE Established
  <2>1. TypeOK'
    BY <1>1 DEF Established, WebsocketInv, TypeOK
  <2> QED
    BY <1>1, <2>1, ContextAssumption
       DEF Established, WebsocketInv, TypeOK, StatusTracksLink, QueuedIsServed, WritesToItsLink
<1>2. CASE ConnectionError
  <2>1. TypeOK'
    BY <1>2 DEF ConnectionError, WebsocketInv, TypeOK
  <2> QED
    BY <1>2, <2>1, ContextAssumption
       DEF ConnectionError, WebsocketInv, TypeOK, StatusTracksLink, QueuedIsServed, WritesToItsLink
<1>3. CASE Closed
  <2>1. TypeOK'
    BY <1>3 DEF Closed, Disconnect, WebsocketInv, TypeOK
  <2> QED
    BY <1>3, <2>1, ContextAssumption
       DEF Closed, Disconnect, WebsocketInv, TypeOK, StatusTracksLink, QueuedIsServed, WritesToItsLink
<1>4. CASE Receive
  BY <1>4 DEF Receive, websocketVars, WebsocketInv, TypeOK,
       StatusTracksLink, QueuedIsServed, WritesToItsLink
<1>5. CASE Writeable
  <2>1. written' \subseteq Messages
    BY <1>5 DEF Writeable, WebsocketInv, TypeOK, Range
  <2>2. queue' \in Seq(Messages)
    BY <1>5 DEF Writeable
  <2> QED
    BY <1>5, <2>1, <2>2
       DEF Writeable, WebsocketInv, TypeOK, StatusTracksLink, QueuedIsServed, WritesToItsLink
<1>6. CASE WriteFails
  <2>1. PICK n \in 1 .. Len(queue) :
            /\ queue' = SubSeq(queue, n + 1, Len(queue))
            /\ written' = written \cup {queue[i] : i \in 1 .. n - 1}
    BY <1>6 DEF WriteFails
  <2>2. queue' \in Seq(Messages)
    BY <2>1 DEF WebsocketInv, TypeOK
  <2>3. written' \subseteq Messages
    BY <2>1 DEF WebsocketInv, TypeOK
  <2>4. TypeOK'
    BY <1>6, <2>2, <2>3 DEF WriteFails, Disconnect, WebsocketInv, TypeOK
  <2> QED
    BY <1>6, <2>4, ContextAssumption
       DEF WriteFails, Disconnect, WebsocketInv, TypeOK, StatusTracksLink, QueuedIsServed, WritesToItsLink
<1> QED
  BY <1>1, <1>2, <1>3, <1>4, <1>5, <1>6 DEF Service

(* A step of any owner, with no bound on the queue.                        *)
OwnerNext ==
    \/ \E cb \in Callbacks : Open(cb) \/ Close(cb)
    \/ \E message \in Messages : Write(message)
    \/ Service

LEMMA OwnerKeeps == WebsocketInv /\ [OwnerNext]_websocketVars => WebsocketInv'
<1> SUFFICES ASSUME WebsocketInv, [OwnerNext]_websocketVars
             PROVE  WebsocketInv'
  OBVIOUS
<1>1. CASE \E cb \in Callbacks : Open(cb) \/ Close(cb)
  BY <1>1, OpenKeeps, CloseKeeps
<1>2. CASE \E message \in Messages : Write(message)
  BY <1>2, WriteKeeps
<1>3. CASE Service
  BY <1>3, ServiceKeeps
<1>4. CASE UNCHANGED websocketVars
  BY <1>4 DEF websocketVars, WebsocketInv, TypeOK,
       StatusTracksLink, QueuedIsServed, WritesToItsLink
<1> QED
  BY <1>1, <1>2, <1>3, <1>4 DEF OwnerNext

LEMMA ClientIsOwner == Next => OwnerNext
  BY DEF Next, Client, OwnerNext

(* The four invariants hold together in every reachable state.             *)
THEOREM WebsocketSound == Spec => []WebsocketInv
<1>1. WebsocketInv /\ [Next]_websocketVars => WebsocketInv'
  BY OwnerKeeps, ClientIsOwner
<1> QED
  BY <1>1, WebsocketInit, PTL DEF Spec

(* Every field of the websocket keeps its type: in particular ws_status is *)
(* one of three callbacks' reasons.                                        *)
THEOREM WebsocketTypeCorrect == Spec => []TypeOK
<1>1. WebsocketInv => TypeOK
  BY DEF WebsocketInv
<1> QED
  BY <1>1, WebsocketSound, PTL

(* At most one connection is established, and ws_status tells of it.       *)
THEOREM StatusIsLink == Spec => []StatusTracksLink
<1>1. WebsocketInv => StatusTracksLink
  BY DEF WebsocketInv
<1> QED
  BY <1>1, WebsocketSound, PTL

(* A message that waits on an established connection has a WRITEABLE       *)
(* callback coming.                                                        *)
THEOREM WaitingIsServed == Spec => []QueuedIsServed
<1>1. WebsocketInv => QueuedIsServed
  BY DEF WebsocketInv
<1> QED
  BY <1>1, WebsocketSound, PTL

(* The ws asked for room is the connection being serviced, if any is.      *)
THEOREM AsksItsLink == Spec => []WritesToItsLink
<1>1. WebsocketInv => WritesToItsLink
  BY DEF WebsocketInv
<1> QED
  BY <1>1, WebsocketSound, PTL

-----------------------------------------------------------------------------
(* Only a failed write takes from the queue what it does not write, and it *)
(* ends the connection.                                                    *)
LEMMA LostStep ==
    ASSUME WebsocketInv, OwnerNext
    PROVE  Range(queue) \subseteq Range(queue') \cup written' \/ ~Live(ws_context)'
<1>1. queue \in Seq(Messages)
  BY DEF WebsocketInv, TypeOK
<1>2. ASSUME queue' = queue
      PROVE  Range(queue) \subseteq Range(queue')
  BY <1>2
<1>3. CASE \E cb \in Callbacks : Open(cb) \/ Close(cb)
  <2>1. queue' = queue
    BY <1>3 DEF Open, OpenSkipped, OpenWithoutContext, OpenConnecting, OpenRefused,
         Close, CloseSkipped, CloseContext, websocketVars
  <2> QED
    BY <1>2, <2>1
<1>4. CASE \E message \in Messages : Write(message)
  <2>1. PICK message \in Messages : queue' = queue \/ queue' = Append(queue, message)
    BY <1>4 DEF Write, websocketVars
  <2>2. Range(queue) \subseteq Range(Append(queue, message))
    BY <1>1, <2>1 DEF Range
  <2> QED
    BY <1>2, <2>1, <2>2
<1>5. CASE Established \/ ConnectionError \/ Closed \/ Receive
  <2>1. queue' = queue
    BY <1>5 DEF Established, ConnectionError, Closed, Receive, websocketVars
  <2> QED
    BY <1>2, <2>1
<1>6. CASE Writeable
  BY <1>6 DEF Writeable
<1>7. CASE WriteFails
  <2>1. ws_context' = ws_context /\ ws_context \in Contexts
    BY <1>7 DEF WriteFails, WebsocketInv, TypeOK
  <2>2. link' = [link EXCEPT ![ws_context] = "dead"] /\ link \in [Contexts -> LinkStates]
    BY <1>7 DEF WriteFails, Disconnect, WebsocketInv, TypeOK
  <2> QED
    BY <2>1, <2>2
<1> QED
  BY <1>3, <1>4, <1>5, <1>6, <1>7 DEF OwnerNext, Service

(* A message leaves the queue written, or with its connection.            *)
THEOREM LostOnlyWithItsLink == Spec => LostWithItsLink
<1>1. WebsocketInv /\ [Next]_websocketVars
        => [Range(queue) \subseteq Range(queue') \cup written' \/ ~Live(ws_context)']_websocketVars
  BY LostStep, ClientIsOwner
<1> QED
  BY <1>1, WebsocketSound, PTL DEF Spec, LostWithItsLink
=============================================================================
