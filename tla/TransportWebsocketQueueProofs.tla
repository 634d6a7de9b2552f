------------------- MODULE TransportWebsocketQueueProofs -------------------
(***************************************************************************)
(* The linked list and the loop over it do what TransportWebsocket says,   *)
(* for every set of contexts, messages and nodes.                          *)
(***************************************************************************)
EXTENDS TransportWebsocketQueue, SequenceTheorems, TLAPS

(* What is proved of the queue on its own *)
Proved == INSTANCE TransportQueueProofs WITH Objects <- Messages

LoopInv ==
    /\ List!QueueInv
    /\ pc \in {"create", "out", "loop", "write"}
    /\ alive <=> pc # "create"
    /\ taken \in Seq(Messages \cup {NULL})
    /\ pc \in {"create", "out"} => taken = <<>>
    /\ pc = "write" => taken # <<>>
    /\ pc \in {"loop", "write"} => Websocket!Linked("established") /\ writable

-----------------------------------------------------------------------------
(* The assumptions of TransportQueue hold of the nodes and messages here. *)
LEMMA ListAssumptions == NULL \notin Nodes \cup Messages /\ Proved!IsFiniteSet(Nodes)
  BY NoNullAssumption, FiniteNodesAssumption DEF IsFiniteSet, Proved!IsFiniteSet

(* The queue that the websocket holds is the one proved about. *)
LEMMA SameQueue ==
    /\ List!QueueInv <=> Proved!QueueInv
    /\ List!Contents = Proved!Contents
    /\ List!QueueInv' <=> Proved!QueueInv'
    /\ List!Contents' = Proved!Contents'
  <1>1. List!QueueInv <=> Proved!QueueInv
    BY DEF List!QueueInv, List!TypeOK, List!WellLinked, List!NodesOnce, List!NodeOrNull, List!Lists, List!Range,
       Proved!QueueInv, Proved!TypeOK, Proved!WellLinked, Proved!NodesOnce, Proved!NodeOrNull,
       Proved!Lists, Proved!Range
  <1>2. List!Contents = Proved!Contents
    BY DEF List!Contents, Proved!Contents
  <1>3. List!QueueInv' <=> Proved!QueueInv'
    BY DEF List!QueueInv, List!TypeOK, List!WellLinked, List!NodesOnce, List!NodeOrNull, List!Lists, List!Range,
       Proved!QueueInv, Proved!TypeOK, Proved!WellLinked, Proved!NodesOnce, Proved!NodeOrNull,
       Proved!Lists, Proved!Range
  <1>4. List!Contents' = Proved!Contents'
    BY DEF List!Contents, Proved!Contents
  <1> QED
    BY <1>1, <1>2, <1>3, <1>4

LEMMA ListPushes ==
    ASSUME List!QueueInv, NEW o \in Messages, List!PushReserved(o) \/ List!PushAllocated(o)
    PROVE  List!QueueInv' /\ alive' /\ List!Contents' = Append(List!Contents, o)
  <1>1. CASE List!PushReserved(o)
    <2>1. Proved!PushReserved(o)
      BY <1>1 DEF List!PushReserved, List!Enqueue, List!IsEmpty,
         Proved!PushReserved, Proved!Enqueue, Proved!IsEmpty
    <2> QED
      BY <2>1, SameQueue, Proved!PushReservedStep, ListAssumptions
  <1>2. CASE List!PushAllocated(o)
    <2>1. Proved!PushAllocated(o)
      BY <1>2 DEF List!PushAllocated, List!Enqueue, List!IsEmpty,
         Proved!PushAllocated, Proved!Enqueue, Proved!IsEmpty
    <2> QED
      BY <2>1, SameQueue, Proved!PushAllocatedStep, ListAssumptions
  <1> QED
    BY <1>1, <1>2

LEMMA ListPops ==
    ASSUME List!QueueInv, List!PopNode
    PROVE  /\ List!QueueInv' /\ alive'
           /\ List!Contents # <<>> /\ object[head] = Head(List!Contents)
           /\ List!Contents' = Tail(List!Contents)
  <1>1. Proved!PopNode /\ popped' = object[head]
    BY DEF List!PopNode, List!Unlink, List!Reserve, List!IsEmpty,
       Proved!PopNode, Proved!Unlink, Proved!Reserve, Proved!IsEmpty
  <1> QED
    BY <1>1, SameQueue, Proved!PopNodeStep, ListAssumptions

LEMMA ListCreates ==
    ASSUME List!QueueInv, List!Create
    PROVE  List!QueueInv' /\ List!Contents = <<>> /\ List!Contents' = <<>>
  <1>1. Proved!Create
    BY DEF List!Create, Proved!Create
  <1> QED
    BY <1>1, SameQueue, Proved!CreateStep, ListAssumptions

LEMMA ListStays ==
    ASSUME List!QueueInv, UNCHANGED listVars
    PROVE  List!QueueInv' /\ List!Contents' = List!Contents
  <1>1. Proved!QueueInv /\ UNCHANGED Proved!vars
    BY SameQueue DEF listVars, Proved!vars
  <1> QED
    BY <1>1, SameQueue, Proved!StutterStep, ListAssumptions

LEMMA ContentsType == List!QueueInv => List!Contents \in Seq(Messages \cup {NULL})
  BY DEF List!QueueInv, List!TypeOK, List!Contents

LEMMA EmptyContents ==
    ASSUME List!QueueInv, alive, List!IsEmpty
    PROVE  List!Contents = <<>>
  <1>1. enqueued \in Seq(Nodes) /\ (enqueued # <<>> => enqueued[1] = NULL)
    BY DEF List!QueueInv, List!TypeOK, List!WellLinked, List!Lists, List!IsEmpty
  <1>2. enqueued = <<>>
    BY <1>1, NoNullAssumption
  <1> QED
    BY <1>2 DEF List!Contents

-----------------------------------------------------------------------------
(* What a message popped does to the queue of the websocket: nothing; and  *)
(* what a write that fails does: it takes as much as the callback popped.  *)
LEMMA PoppedIsStillThere ==
    ASSUME NEW M, NEW t \in Seq(M), NEW c \in Seq(M), c # <<>>
    PROVE  Append(t, Head(c)) \o Tail(c) = t \o c /\ Append(t, Head(c)) \in Seq(M)
  <1>1. /\ Head(c) \in M /\ Head(c) = c[1]
        /\ Tail(c) \in Seq(M) /\ Len(Tail(c)) = Len(c) - 1 /\ Len(c) \in Nat \ {0}
        /\ \A i \in 1 .. Len(c) - 1 : Tail(c)[i] = c[i + 1]
    OBVIOUS
  <1> DEFINE left == Append(t, Head(c))
  <1>2. /\ left \in Seq(M) /\ Len(left) = Len(t) + 1 /\ Len(t) \in Nat
        /\ \A i \in 1 .. Len(t) : left[i] = t[i]
        /\ left[Len(t) + 1] = c[1]
    BY <1>1
  <1> HIDE DEF left
  <1>3. /\ left \o Tail(c) \in Seq(M) /\ t \o c \in Seq(M)
        /\ Len(left \o Tail(c)) = Len(t) + Len(c) /\ Len(t \o c) = Len(t) + Len(c)
    BY <1>1, <1>2
  <1>4. ASSUME NEW i \in 1 .. Len(t) + Len(c)
        PROVE  (left \o Tail(c))[i] = (t \o c)[i]
    <2>1. CASE i <= Len(t)
      BY <1>1, <1>2, <2>1
    <2>2. CASE i = Len(t) + 1
      BY <1>1, <1>2, <2>2
    <2>3. CASE i > Len(t) + 1
      <3>1. /\ (left \o Tail(c))[i] = Tail(c)[i - (Len(t) + 1)]
            /\ (t \o c)[i] = c[i - Len(t)]
        BY <1>1, <1>2, <2>3
      <3> QED
        BY <1>1, <1>2, <2>3, <3>1
    <2> QED
      BY <1>2, <2>1, <2>2, <2>3
  <1>5. left \o Tail(c) = t \o c
    BY <1>3, <1>4, SeqEqual
  <1> QED
    BY <1>2, <1>5 DEF left

LEMMA FailedTakesItsShare ==
    ASSUME NEW M, NEW t \in Seq(M), NEW c \in Seq(M), t # <<>>
    PROVE  /\ Len(t) \in 1 .. Len(t \o c)
           /\ c = SubSeq(t \o c, Len(t) + 1, Len(t \o c))
           /\ {t[i] : i \in 1 .. Len(t) - 1} = {(t \o c)[i] : i \in 1 .. Len(t) - 1}
  <1> DEFINE n == Len(t)
             s == t \o c
             rest == SubSeq(s, n + 1, Len(s))
  <1>1. /\ n \in Nat \ {0} /\ Len(c) \in Nat /\ Len(s) = n + Len(c) /\ s \in Seq(M)
        /\ \A i \in 1 .. n : s[i] = t[i]
        /\ \A i \in 1 .. Len(c) : s[n + i] = c[i]
    OBVIOUS
  <1> HIDE DEF n, s
  <1>2. /\ rest \in Seq(M) /\ Len(rest) = Len(c)
        /\ \A i \in 1 .. Len(c) : rest[i] = s[n + i]
    BY <1>1
  <1> HIDE DEF rest
  <1>3. rest = c
    BY <1>1, <1>2, SeqEqual
  <1> QED
    BY <1>1, <1>3 DEF n, s, rest

LEMMA LoopInvInit == Init => LoopInv /\ Websocket!Create
  <1> SUFFICES ASSUME Init PROVE LoopInv /\ Websocket!Create
    OBVIOUS
  <1>1. List!QueueInv
    BY SameQueue, Proved!QueueInvInit, ListAssumptions DEF Init, List!Init, Proved!Init
  <1>2. List!Contents = <<>> /\ ~alive
    BY DEF Init, List!Init, List!Contents
  <1> QED
    BY <1>1, <1>2 DEF Init, LoopInv, Websocket!Create

(* Each step keeps the invariant, and is a step of the websocket or none.  *)
LEMMA LoopStep ==
    ASSUME LoopInv, [Next]_vars
    PROVE  LoopInv' /\ [Websocket!Next]_(Websocket!websocketVars)
  <1> USE DEF LoopInv
  <1>1. List!Contents \in Seq(Messages \cup {NULL})
    BY ContentsType
  <1>2. CASE Create
    <2>1. List!QueueInv' /\ List!Contents' = List!Contents /\ alive'
      BY <1>2, ListCreates DEF Create, List!Create
    <2> QED
      BY <1>2, <2>1 DEF Create, websocketVars, Websocket!websocketVars
  <1>3. CASE Unqueued
    <2>1. List!QueueInv' /\ List!Contents' = List!Contents
      BY <1>3, ListStays DEF Unqueued
    <2>2. UNCHANGED <<pc, taken, alive>> /\ pc = "out"
      BY <1>3 DEF Unqueued, listVars
    <2>3. Websocket!Next
      BY <1>3 DEF Unqueued, Websocket!Next, Websocket!Client, Websocket!Service
    <2> QED
      BY <2>1, <2>2, <2>3
  <1>4. CASE Len(enqueued) < MaxQueue /\ \E message \in Messages : Write(message)
    <2>1. PICK message \in Messages : Write(message)
      BY <1>4
    <2>2. pc = "out" /\ pc' = pc /\ taken = <<>> /\ taken' = <<>> /\ alive
      BY <2>1 DEF Write
    <2>3. taken \o List!Contents = List!Contents
      BY <1>1, <2>2
    <2>4. Len(List!Contents) = Len(enqueued)
      BY <2>2 DEF List!QueueInv, List!TypeOK, List!Contents
    <2>5. CASE ws_context # NULL
      <3>1. List!QueueInv' /\ alive' /\ List!Contents' = Append(List!Contents, message)
        BY <2>1, <2>5, ListPushes DEF Write
      <3>2. taken' \o List!Contents' = Append(List!Contents, message)
        BY <1>1, <2>2, <3>1
      <3>3. Websocket!Write(message)
        BY <2>1, <2>3, <2>5, <3>2 DEF Write, Websocket!Write
      <3>4. Websocket!Next
        BY <1>4, <2>3, <2>4, <3>3 DEF Websocket!Next, Websocket!Client
      <3> QED
        BY <2>2, <3>1, <3>4
    <2>6. CASE ws_context = NULL
      <3>1. UNCHANGED <<listVars, websocketVars>>
        BY <2>1, <2>6 DEF Write, websocketVars
      <3>2. List!QueueInv' /\ List!Contents' = List!Contents /\ alive' = alive
        BY <3>1, ListStays DEF listVars
      <3> QED
        BY <2>2, <3>1, <3>2 DEF websocketVars, Websocket!websocketVars
    <2> QED
      BY <2>5, <2>6
  <1>5. CASE EnterLoop \/ WriteMessage
    <2>1. UNCHANGED <<websocketVars, listVars, taken>>
      BY <1>5 DEF EnterLoop, WriteMessage
    <2>2. List!QueueInv' /\ List!Contents' = List!Contents /\ alive' = alive
      BY <2>1, ListStays DEF listVars
    <2>3. pc' = "loop" /\ pc # "create" /\ Websocket!Linked("established") /\ writable
      BY <1>5 DEF EnterLoop, WriteMessage
    <2>4. (Websocket!Linked("established") /\ writable)'
      BY <2>1, <2>3 DEF websocketVars, Websocket!Linked
    <2> QED
      BY <2>1, <2>2, <2>3, <2>4 DEF websocketVars, Websocket!websocketVars
  <1>6. CASE PopMessage
    <2>1. /\ List!QueueInv' /\ alive' /\ List!Contents # <<>>
          /\ taken' = Append(taken, Head(List!Contents))
          /\ List!Contents' = Tail(List!Contents)
      BY <1>6, ListPops DEF PopMessage
    <2>2. /\ (taken \o List!Contents)' = taken \o List!Contents
          /\ taken' \in Seq(Messages \cup {NULL}) /\ taken' # <<>>
      BY <1>1, <2>1, PoppedIsStillThere
    <2>3. pc' = "write" /\ UNCHANGED websocketVars /\ Websocket!Linked("established") /\ writable
      BY <1>6 DEF PopMessage
    <2>4. (Websocket!Linked("established") /\ writable)'
      BY <2>3 DEF websocketVars, Websocket!Linked
    <2> QED
      BY <2>1, <2>2, <2>3, <2>4 DEF websocketVars, Websocket!websocketVars
  <1>7. CASE WriteFails
    <2>1. /\ List!QueueInv' /\ List!Contents' = List!Contents /\ alive' = alive
          /\ pc = "write" /\ pc' = "out" /\ taken' = <<>> /\ taken # <<>>
      BY <1>7, ListStays DEF WriteFails, listVars
    <2>2. (taken \o List!Contents)' = List!Contents
      BY <1>1, <2>1
    <2>3. /\ Len(taken) \in 1 .. Len(taken \o List!Contents)
          /\ List!Contents
                = SubSeq(taken \o List!Contents, Len(taken) + 1, Len(taken \o List!Contents))
          /\ {taken[i] : i \in 1 .. Len(taken) - 1}
                = {(taken \o List!Contents)[i] : i \in 1 .. Len(taken) - 1}
      <3>1. taken \in Seq(Messages \cup {NULL}) /\ taken # <<>>
        BY <2>1
      <3> QED
        BY ONLY <1>1, <3>1, FailedTakesItsShare
    <2> DEFINE n == Len(taken)
    <2>4. /\ n \in 1 .. Len(taken \o List!Contents)
          /\ (taken \o List!Contents)'
                = SubSeq(taken \o List!Contents, n + 1, Len(taken \o List!Contents))
          /\ written' = written \cup {(taken \o List!Contents)[i] : i \in 1 .. n - 1}
      <3>1. written' = written \cup {taken[i] : i \in 1 .. Len(taken) - 1}
        BY <1>7 DEF WriteFails
      <3> QED
        BY ONLY <2>2, <2>3, <3>1, Zenon
    <2> HIDE DEF n
    <2>5. Websocket!WriteFails
      BY <1>7, <2>1, <2>4 DEF WriteFails, Websocket!WriteFails, Websocket!Disconnect
    <2> QED
      BY <2>1, <2>5 DEF Websocket!Next, Websocket!Service
  <1>8. CASE LeaveLoop
    <2>1. /\ List!QueueInv' /\ List!Contents' = List!Contents /\ alive' = alive
          /\ pc = "loop" /\ pc' = "out" /\ taken' = <<>>
      BY <1>8, ListStays DEF LeaveLoop, listVars
    <2>2. List!Contents = <<>>
      BY <1>8, <2>1, EmptyContents DEF LeaveLoop
    <2>3. taken \o List!Contents = taken /\ (taken \o List!Contents)' = <<>>
      BY <2>1, <2>2
    <2>4. Websocket!Writeable
      BY <1>8, <2>1, <2>3 DEF LeaveLoop, Websocket!Writeable, Range, Websocket!Range
    <2> QED
      BY <2>1, <2>4 DEF Websocket!Next, Websocket!Service
  <1>9. CASE UNCHANGED vars
    <2>1. UNCHANGED <<websocketVars, listVars, pc, taken>>
      BY <1>9 DEF vars
    <2>2. List!QueueInv' /\ List!Contents' = List!Contents /\ alive' = alive
      BY <2>1, ListStays DEF listVars
    <2> QED
      BY <2>1, <2>2 DEF websocketVars, Websocket!websocketVars, Websocket!Linked
  <1> QED
    BY <1>2, <1>3, <1>4, <1>5, <1>6, <1>7, <1>8, <1>9 DEF Next, Writing

(* The websocket, with its linked list and its loop, implements the safety *)
(* part of TransportWebsocket: messages leave in the order in which they   *)
(* were enqueued, and a failing write loses exactly the one popped.        *)
THEOREM LoopIsOneStep ==
    Spec => Websocket!Create /\ [][Websocket!Next]_(Websocket!websocketVars)
  <1>1. LoopInv /\ [Next]_vars => LoopInv'
    BY LoopStep
  <1>2. LoopInv /\ [Next]_vars => [Websocket!Next]_(Websocket!websocketVars)
    BY LoopStep
  <1> QED
    BY <1>1, <1>2, LoopInvInit, PTL DEF Spec

-----------------------------------------------------------------------------
(* The websocket uses its list as TransportQueue says: it never pops an    *)
(* empty queue, and whatever it does, a failed write in the loop included, *)
(* is a step of the list or none.                                          *)
LEMMA StepOfTheList == [Next]_vars => [Proved!Next]_(Proved!vars)
  <1> SUFFICES ASSUME [Next]_vars PROVE [Proved!Next]_(Proved!vars)
    OBVIOUS
  <1>1. ASSUME UNCHANGED listVars
        PROVE  [Proved!Next]_(Proved!vars)
    BY <1>1 DEF listVars, Proved!vars
  <1>2. CASE Create
    <2>1. Proved!Create
      BY <1>2 DEF Create, List!Create, Proved!Create
    <2> QED
      BY <2>1 DEF Proved!Next
  <1>3. ASSUME NEW message \in Messages, Write(message)
        PROVE  [Proved!Next]_(Proved!vars)
    <2>1. CASE List!PushReserved(message)
      <3>1. Proved!PushReserved(message)
        BY <2>1 DEF List!PushReserved, List!Enqueue, List!IsEmpty,
           Proved!PushReserved, Proved!Enqueue, Proved!IsEmpty
      <3> QED
        BY <3>1 DEF Proved!Next, Proved!Push
    <2>2. CASE List!PushAllocated(message)
      <3>1. Proved!PushAllocated(message)
        BY <2>2 DEF List!PushAllocated, List!Enqueue, List!IsEmpty,
           Proved!PushAllocated, Proved!Enqueue, Proved!IsEmpty
      <3> QED
        BY <3>1 DEF Proved!Next, Proved!Push
    <2> QED
      BY <1>1, <1>3, <2>1, <2>2 DEF Write
  <1>4. CASE PopMessage
    <2>1. Proved!PopNode
      BY <1>4 DEF PopMessage, List!PopNode, List!Unlink, List!Reserve, List!IsEmpty,
         Proved!PopNode, Proved!Unlink, Proved!Reserve, Proved!IsEmpty
    <2> QED
      BY <2>1 DEF Proved!Next, Proved!Pop
  <1> QED
    BY <1>1, <1>2, <1>3, <1>4
       DEF Next, Unqueued, Writing, EnterLoop, WriteMessage, WriteFails, LeaveLoop, vars

LEMMA UsesTheList == Spec => Proved!Spec
  <1>1. Init => Proved!Init
    BY DEF Init, List!Init, Proved!Init
  <1> QED
    BY <1>1, StepOfTheList, PTL DEF Spec, Proved!Spec

(* The nodes of the websocket's queue are never forgotten: neither by the  *)
(* loop, nor by the write that fails in it and returns without releasing   *)
(* what it popped.                                                         *)
THEOREM WebsocketLeaksNoNode == Spec => [](List!NothingLeaks)
  <1>1. Proved!NothingLeaks <=> List!NothingLeaks
    BY DEF Proved!NothingLeaks, List!NothingLeaks, Proved!Range, List!Range
  <1> QED
    BY <1>1, UsesTheList, Proved!QueueNothingLeaks, ListAssumptions, PTL

-----------------------------------------------------------------------------
(* What TransportWebsocket keeps with a sequence for a queue, the websocket*)
(* keeps with its list, in the middle of the loop too: the messages popped *)
(* there count as enqueued until the callback returns.                     *)
Owned == INSTANCE TransportWebsocketProofs WITH queue <- taken \o List!Contents

LEMMA OwnedAssumptions == NULL \notin Contexts /\ MaxQueue \in Nat
  BY NoNullAssumption, BoundAssumption

LEMMA SameWebsocket ==
    /\ Websocket!Create => Owned!Create
    /\ [Websocket!Next]_(Websocket!websocketVars) => [Owned!Next]_(Owned!websocketVars)
  <1>1. Websocket!Create => Owned!Create
    BY DEF Websocket!Create, Owned!Create
  <1>2. Websocket!websocketVars = Owned!websocketVars /\ Websocket!websocketVars' = Owned!websocketVars'
    BY DEF Websocket!websocketVars, Owned!websocketVars
  <1>3. ASSUME NEW cb, cb \in Websocket!Callbacks
        PROVE  /\ cb \in Owned!Callbacks
               /\ Websocket!Open(cb) => Owned!Open(cb)
               /\ Websocket!Close(cb) => Owned!Close(cb)
    BY <1>3 DEF Websocket!Callbacks, Websocket!Open, Websocket!OpenSkipped,
       Websocket!OpenWithoutContext, Websocket!OpenConnecting, Websocket!OpenRefused,
       Websocket!MayOpen, Websocket!Close, Websocket!CloseSkipped,
       Websocket!CloseContext, Websocket!CallbacksOnDestroy, Websocket!websocketVars,
       Owned!Callbacks, Owned!Open, Owned!OpenSkipped, Owned!OpenWithoutContext,
       Owned!OpenConnecting, Owned!OpenRefused, Owned!MayOpen, Owned!websocketVars,
       Owned!Close, Owned!CloseSkipped, Owned!CloseContext, Owned!CallbacksOnDestroy
  <1>4. \A message \in Messages : Websocket!Write(message) => Owned!Write(message)
    BY DEF Websocket!Write, Websocket!websocketVars, Owned!Write, Owned!websocketVars
  <1>5. Websocket!Client => Owned!Client
    BY <1>3, <1>4 DEF Websocket!Client, Owned!Client
  <1>6. Websocket!Service => Owned!Service
    BY DEF Websocket!Service, Websocket!Established, Websocket!ConnectionError,
       Websocket!Closed, Websocket!Receive, Websocket!Writeable, Websocket!WriteFails,
       Websocket!Disconnect, Websocket!Linked, Websocket!Range, Websocket!websocketVars,
       Owned!Service, Owned!Established, Owned!ConnectionError,
       Owned!Closed, Owned!Receive, Owned!Writeable, Owned!WriteFails,
       Owned!Disconnect, Owned!Linked, Owned!Range, Owned!websocketVars
  <1> QED
    BY <1>1, <1>2, <1>5, <1>6 DEF Websocket!Next, Owned!Next

LEMMA IsAWebsocket == Spec => Owned!Spec
  BY LoopIsOneStep, SameWebsocket, PTL DEF Owned!Spec

(* With the list for a queue and the loop step by step, ws_status tells of *)
(* the one connection established, a message that waits on it has a        *)
(* WRITEABLE callback coming or running, and ws is that connection.        *)
THEOREM WebsocketOverItsList ==
    Spec => []( /\ Websocket!StatusTracksLink
                /\ Websocket!QueuedIsServed
                /\ Websocket!WritesToItsLink )
  <1>1. Owned!WebsocketInv => /\ Websocket!StatusTracksLink
                             /\ Websocket!QueuedIsServed
                             /\ Websocket!WritesToItsLink
    BY DEF Owned!WebsocketInv, Owned!StatusTracksLink, Owned!QueuedIsServed,
       Owned!WritesToItsLink, Owned!Linked, Owned!Live, Websocket!StatusTracksLink,
       Websocket!QueuedIsServed, Websocket!WritesToItsLink, Websocket!Linked, Websocket!Live
  <1> QED
    BY <1>1, IsAWebsocket, Owned!WebsocketSound, OwnedAssumptions, PTL

(* A message that the loop has popped, or that waits in the list, is       *)
(* written by the time the callback returns or waits on, or else the       *)
(* connection ends in the same step.                                       *)
THEOREM ListLosesWithItsLink == Spec => Websocket!LostWithItsLink
  <1>1. Owned!LostWithItsLink <=> Websocket!LostWithItsLink
    BY DEF Owned!LostWithItsLink, Websocket!LostWithItsLink, Owned!websocketVars,
       Websocket!websocketVars, Owned!Range, Websocket!Range, Owned!Live, Websocket!Live
  <1> QED
    BY <1>1, IsAWebsocket, Owned!LostOnlyWithItsLink, OwnedAssumptions, PTL
=============================================================================
