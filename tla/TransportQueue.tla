--------------------------- MODULE TransportQueue ---------------------------
(***************************************************************************)
(* The queue of lib/universal_transport_queue.c: a linked list with a head *)
(* and a tail, and a second list of the nodes that pop has taken out and   *)
(* push may use again before it allocates.  The code works on the fields   *)
(* of the structs alone; enqueued and free are history variables that say  *)
(* which nodes ought to be in the lists, and no other variable depends on  *)
(* them.                                                                   *)
(***************************************************************************)
EXTENDS Naturals, Sequences, FiniteSets, Functions

CONSTANTS
    Nodes,      \* the addresses calloc may return for a node
    Objects,    \* what is pushed
    NULL

ASSUME NullAssumption == NULL \notin Nodes \cup Objects

ASSUME NodesAssumption == IsFiniteSet(Nodes)

VARIABLES
    alive,      \* the queue is created and not destroyed
    head, tail, reserved,
    next,       \* the field next of every node
    object,     \* the field object of every node
    allocated,  \* the nodes calloc has returned and free has not been given
    popped,     \* what the last pop returned
    enqueued,   \* history: the nodes in the queue
    free        \* history: the reserved nodes

vars == <<alive, head, tail, reserved, next, object, allocated, popped, enqueued, free>>

NodeOrNull == Nodes \cup {NULL}

TypeOK ==
    /\ alive \in BOOLEAN
    /\ head \in NodeOrNull
    /\ tail \in NodeOrNull
    /\ reserved \in NodeOrNull
    /\ next \in [Nodes -> NodeOrNull]
    /\ object \in [Nodes -> Objects \cup {NULL}]
    /\ allocated \subseteq Nodes
    /\ popped \in Objects \cup {NULL}
    /\ enqueued \in Seq(Nodes)
    /\ free \in Seq(Nodes)

Init ==
    /\ alive = FALSE
    /\ head = NULL /\ tail = NULL /\ reserved = NULL
    /\ next = [n \in Nodes |-> NULL]
    /\ object = [n \in Nodes |-> NULL]
    /\ allocated = {}
    /\ popped = NULL
    /\ enqueued = <<>> /\ free = <<>>

-----------------------------------------------------------------------------
(* transport_queue_create.  An operator <A>_<Fault> is <A> with a fault in *)
(* it, and serves only to show that a property notices.                    *)
Create ==
    /\ ~alive
    /\ alive' = TRUE
    /\ head' = NULL /\ tail' = NULL /\ reserved' = NULL
    /\ enqueued' = <<>> /\ free' = <<>>
    /\ UNCHANGED <<next, object, allocated, popped>>

(* The nodes met from a node on, following next until NULL.  More steps    *)
(* than there are nodes would go round in a circle.                        *)
Walk(first) ==
    LET met[k \in 1 .. Cardinality(Nodes) + 1] ==
            IF k = 1 THEN first
            ELSE IF met[k - 1] = NULL THEN NULL ELSE next[met[k - 1]]
    IN  {met[k] : k \in 1 .. Cardinality(Nodes) + 1} \ {NULL}

(* transport_queue_destroy frees the nodes of both lists, and no object *)
Destroy ==
    /\ alive
    /\ alive' = FALSE
    /\ allocated' = allocated \ (Walk(head) \cup Walk(reserved))
    /\ UNCHANGED <<head, tail, reserved, next, object, popped, enqueued, free>>

(* transport_queue_is_empty *)
IsEmpty == head = NULL /\ tail = NULL

(* transport_queue_push, once it has a node *)
Enqueue_StaleNext(node, o) ==
    /\ object' = [object EXCEPT ![node] = o]
    /\ IF IsEmpty
       THEN head' = node /\ UNCHANGED next
       ELSE head' = head /\ next' = [next EXCEPT ![tail] = node]
    /\ tail' = node
    /\ enqueued' = Append(enqueued, node)

Enqueue_KeepsTail(node, o) ==
    /\ object' = [object EXCEPT ![node] = o]
    /\ IF IsEmpty
       THEN head' = node /\ next' = [next EXCEPT ![node] = NULL]
       ELSE head' = head /\ next' = [next EXCEPT ![node] = NULL, ![tail] = node]
    /\ tail' = IF IsEmpty THEN node ELSE tail
    /\ enqueued' = Append(enqueued, node)

Enqueue(node, o) ==
    /\ object' = [object EXCEPT ![node] = o]
    /\ IF IsEmpty
       THEN head' = node /\ next' = [next EXCEPT ![node] = NULL]
       ELSE head' = head /\ next' = [next EXCEPT ![node] = NULL, ![tail] = node]
    /\ tail' = node
    /\ enqueued' = Append(enqueued, node)

PushReserved(o) ==
    /\ alive
    /\ reserved # NULL
    /\ Enqueue(reserved, o)
    /\ reserved' = next[reserved]
    /\ free' = Tail(free)
    /\ UNCHANGED <<alive, allocated, popped>>

PushAllocated(o) ==
    /\ alive
    /\ reserved = NULL
    /\ \E node \in Nodes \ allocated :
          /\ allocated' = allocated \cup {node}
          /\ Enqueue(node, o)
    /\ UNCHANGED <<alive, reserved, popped, free>>

(* calloc returns NULL, and the object is dropped *)
PushDropped(o) ==
    /\ alive
    /\ reserved = NULL
    /\ UNCHANGED vars

Push(o) == PushReserved(o) \/ PushAllocated(o) \/ PushDropped(o)

(* transport_queue_pop *)
PopEmpty ==
    /\ alive
    /\ IsEmpty
    /\ popped' = NULL
    /\ UNCHANGED <<alive, head, tail, reserved, next, object, allocated, enqueued, free>>

(* ... the first node leaves the queue ... *)
Unlink_KeepsHead ==
    IF head = tail
    THEN head' = NULL /\ tail' = NULL
    ELSE UNCHANGED <<head, tail>>

Unlink ==
    IF head = tail
    THEN head' = NULL /\ tail' = NULL
    ELSE head' = next[head] /\ UNCHANGED tail

(* ... and is kept for a push to come *)
Reserve_LosesNodes ==
    /\ next' = [next EXCEPT ![head] = NULL]
    /\ reserved' = head

Reserve ==
    /\ next' = [next EXCEPT ![head] = reserved]
    /\ reserved' = head

PopNode_ReturnsNode ==
    /\ alive
    /\ ~IsEmpty
    /\ popped' = head
    /\ Unlink /\ Reserve
    /\ enqueued' = Tail(enqueued)
    /\ free' = <<head>> \o free
    /\ UNCHANGED <<alive, object, allocated>>

PopNode ==
    /\ alive
    /\ ~IsEmpty
    /\ popped' = object[head]
    /\ Unlink /\ Reserve
    /\ enqueued' = Tail(enqueued)
    /\ free' = <<head>> \o free
    /\ UNCHANGED <<alive, object, allocated>>

Pop == PopEmpty \/ PopNode

Next == Create \/ Destroy \/ (\E o \in Objects : Push(o)) \/ Pop

Spec == Init /\ [][Next]_vars

-----------------------------------------------------------------------------
(* The list from first has the nodes of s, in that order. *)
Lists(first, s) ==
    /\ first = IF s = <<>> THEN NULL ELSE s[1]
    /\ \A i \in 1 .. Len(s) :
          next[s[i]] = IF i < Len(s) THEN s[i + 1] ELSE NULL

(* After any mix of pushes and pops both lists are well formed, the tail   *)
(* is the last node of the queue, and head and tail are NULL together.     *)
WellLinked ==
    alive =>
        /\ Lists(head, enqueued)
        /\ Lists(reserved, free)
        /\ tail = IF enqueued = <<>> THEN NULL ELSE enqueued[Len(enqueued)]

(* A node is in one list, once: pop never hands push a node that is still  *)
(* in the queue, and destroy frees no node twice.                          *)
NodesOnce ==
    alive =>
        /\ \A i, j \in 1 .. Len(enqueued) : enqueued[i] = enqueued[j] => i = j
        /\ \A i, j \in 1 .. Len(free) : free[i] = free[j] => i = j
        /\ Range(enqueued) \cap Range(free) = {}
        /\ Range(enqueued) \cup Range(free) \subseteq allocated

(* No node is forgotten: what is allocated is in one of the lists, and     *)
(* transport_queue_destroy reaches all of it, although each node was moved *)
(* between the lists many times.                                           *)
NothingLeaks == allocated = IF alive THEN Range(enqueued) \cup Range(free) ELSE {}

(* The objects in the queue. *)
Contents == IF alive THEN [i \in 1 .. Len(enqueued) |-> object[enqueued[i]]] ELSE <<>>

(* The queue implements a FIFO, whatever nodes its objects lie in. *)
Fifo == INSTANCE FifoQueue WITH q <- Contents

FifoSpec == Fifo!Spec

(* What the proofs rest on. *)
QueueInv == TypeOK /\ WellLinked /\ NodesOnce
=============================================================================
