----------------------------- MODULE FifoQueue -----------------------------
(***************************************************************************)
(* What the websocket expects of a transport_queue_t: objects come out in  *)
(* the order they went in, each once, and NULL comes out of an empty queue.*)
(* The one thing a push may do besides is nothing at all, a stutter here,  *)
(* when there is no memory.                                                *)
(***************************************************************************)
EXTENDS Sequences

CONSTANTS Objects, NULL

VARIABLES
    q,        \* the objects in the queue, the oldest first
    popped    \* what the last pop returned

Init == q = <<>> /\ popped = NULL

Push(o) == q' = Append(q, o) /\ UNCHANGED popped

Pop ==
    IF q # <<>>
    THEN popped' = Head(q) /\ q' = Tail(q)
    ELSE popped' = NULL /\ UNCHANGED q

(* destroyed with whatever it holds *)
Discard == q' = <<>> /\ UNCHANGED popped

Next == (\E o \in Objects : Push(o)) \/ Pop \/ Discard

Spec == Init /\ [][Next]_<<q, popped>>
=============================================================================
