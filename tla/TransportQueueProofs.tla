------------------------ MODULE TransportQueueProofs ------------------------
(***************************************************************************)
(* Theorems about TransportQueue, for any set of nodes and of objects.     *)
(***************************************************************************)
EXTENDS TransportQueue, SequenceTheorems, FiniteSetTheorems, NaturalLemmas, TLAPS

(* Push puts a node that is in neither list behind the last one, and       *)
(* touches the field next of no other node but that one.                   *)
LEMMA EnqueueStep ==
    ASSUME QueueInv, alive, alive',
           NEW node \in Nodes, node \notin Range(enqueued),
           NEW o \in Objects, Enqueue(node, o)
    PROVE  /\ head' \in NodeOrNull /\ tail' \in NodeOrNull
           /\ next' \in [Nodes -> NodeOrNull]
           /\ object' \in [Nodes -> Objects \cup {NULL}]
           /\ enqueued' \in Seq(Nodes)
           /\ Lists(head, enqueued)'
           /\ tail' = enqueued'[Len(enqueued')]
           /\ enqueued' # <<>>
           /\ \A i, j \in 1 .. Len(enqueued') : enqueued'[i] = enqueued'[j] => i = j
           /\ Range(enqueued') = Range(enqueued) \cup {node}
           /\ \A n \in Nodes \ (Range(enqueued) \cup {node}) : next'[n] = next[n]
           /\ Contents' = Append(Contents, o)
<1> DEFINE k == Len(enqueued)
<1>1. /\ enqueued \in Seq(Nodes) /\ k \in Nat
      /\ \A i \in 1 .. k : enqueued[i] \in Nodes /\ enqueued[i] # node
  <2>1. enqueued \in Seq(Nodes)
    BY DEF QueueInv, TypeOK
  <2>2. \A i \in 1 .. k : enqueued[i] \in Range(enqueued)
    BY <2>1 DEF Range
  <2> QED  BY <2>1, <2>2
<1>2. /\ enqueued' \in Seq(Nodes) /\ Len(enqueued') = k + 1
      /\ enqueued'[k + 1] = node
      /\ \A i \in 1 .. k : enqueued'[i] = enqueued[i]
      /\ enqueued' # <<>>
  BY <1>1 DEF Enqueue
<1>3. /\ next \in [Nodes -> NodeOrNull] /\ object \in [Nodes -> Objects \cup {NULL}]
      /\ head \in NodeOrNull /\ tail \in NodeOrNull
      /\ Lists(head, enqueued)
      /\ tail = IF enqueued = <<>> THEN NULL ELSE enqueued[k]
      /\ \A i, j \in 1 .. k : enqueued[i] = enqueued[j] => i = j
  BY DEF QueueInv, TypeOK, WellLinked, NodesOnce
<1>4. IsEmpty <=> k = 0
  BY <1>1, <1>3, NullAssumption DEF IsEmpty, Lists
<1>5. k # 0 => tail = enqueued[k] /\ tail \in Nodes
  BY <1>1, <1>3
<1>6. /\ next' \in [Nodes -> NodeOrNull]
      /\ next'[node] = NULL
      /\ k # 0 => next'[enqueued[k]] = node
      /\ \A n \in Nodes : n # node /\ (k = 0 \/ n # enqueued[k]) => next'[n] = next[n]
  <2>1. CASE k = 0
    BY <2>1, <1>3, <1>4 DEF Enqueue, NodeOrNull
  <2>2. CASE k # 0
    <3>1. next' = [next EXCEPT ![node] = NULL, ![enqueued[k]] = node]
      BY <2>2, <1>4, <1>5 DEF Enqueue
    <3>2. enqueued[k] \in Nodes /\ enqueued[k] # node
      BY <2>2, <1>1
    <3> QED  BY <2>2, <3>1, <3>2, <1>3 DEF NodeOrNull
  <2> QED  BY <2>1, <2>2
<1>7. /\ tail' = node
      /\ head' = IF k = 0 THEN node ELSE enqueued[1]
  BY <1>1, <1>3, <1>4 DEF Enqueue, Lists
<1>8. Lists(head, enqueued)'
  <2>1. head' = enqueued'[1]
    BY <1>1, <1>2, <1>7
  <2>2. ASSUME NEW i \in 1 .. k + 1
        PROVE  next'[enqueued'[i]] = IF i < k + 1 THEN enqueued'[i + 1] ELSE NULL
    <3>1. CASE i = k + 1
      BY <3>1, <1>1, <1>2, <1>6
    <3>2. CASE i = k
      BY <3>2, <1>1, <1>2, <1>6
    <3>3. CASE i < k
      <4>1. i \in 1 .. k /\ i + 1 \in 1 .. k /\ k \in 1 .. k
        BY <3>3, <1>1
      <4>2. next[enqueued[i]] = enqueued[i + 1]
        BY <4>1, <3>3, <1>3 DEF Lists
      <4>3. enqueued[i] # enqueued[k]
        BY <4>1, <3>3, <1>1, <1>3
      <4> QED  BY <4>1, <4>2, <4>3, <3>3, <1>1, <1>2, <1>6
    <3> QED  BY <3>1, <3>2, <3>3, <1>1
  <2> QED  BY <2>1, <2>2, <1>2 DEF Lists
<1>9. \A i, j \in 1 .. k + 1 : enqueued'[i] = enqueued'[j] => i = j
  BY <1>1, <1>2, <1>3
<1>10. Range(enqueued') = Range(enqueued) \cup {node}
  <2>1. /\ Range(enqueued') = {enqueued'[i] : i \in 1 .. k + 1}
        /\ Range(enqueued) = {enqueued[i] : i \in 1 .. k}
    BY <1>1, <1>2 DEF Range
  <2>2. \A n \in Range(enqueued') : n \in Range(enqueued) \cup {node}
    BY <2>1, <1>1, <1>2
  <2>3. \A n \in Range(enqueued) : n \in Range(enqueued')
    BY <2>1, <1>1, <1>2
  <2>4. node \in Range(enqueued')
    BY <2>1, <1>1, <1>2
  <2> QED  BY <2>2, <2>3, <2>4
<1>11. \A n \in Nodes \ (Range(enqueued) \cup {node}) : next'[n] = next[n]
  <2>1. k # 0 => enqueued[k] \in Range(enqueued)
    BY <1>1 DEF Range
  <2> QED  BY <2>1, <1>6
<1>12. Contents' = Append(Contents, o)
  <2>1. /\ Contents = [i \in 1 .. k |-> object[enqueued[i]]]
        /\ Contents' = [i \in 1 .. k + 1 |-> object'[enqueued'[i]]]
    BY <1>2 DEF Contents
  <2>2. /\ object'[node] = o
        /\ \A n \in Nodes : n # node => object'[n] = object[n]
    BY <1>3 DEF Enqueue
  <2>3. Contents \in Seq(Objects \cup {NULL}) /\ Len(Contents) = k
    <3>1. \A i \in 1 .. k : object[enqueued[i]] \in Objects \cup {NULL}
      BY <1>1, <1>3
    <3> QED  BY <2>1, <3>1, <1>1, IsASeq
  <2>4. \A i \in 1 .. k + 1 : object'[enqueued'[i]] = IF i <= k THEN object[enqueued[i]] ELSE o
    BY <1>1, <1>2, <2>2
  <2> QED  BY <2>1, <2>3, <2>4, <1>1
<1>13. object' \in [Nodes -> Objects \cup {NULL}]
  BY <1>3 DEF Enqueue
<1> QED
  BY <1>1, <1>2, <1>6, <1>7, <1>8, <1>9, <1>10, <1>11, <1>12, <1>13 DEF NodeOrNull


(* A reserved node leaves the reserved list as it enters the queue. *)
LEMMA PushReservedStep ==
    ASSUME QueueInv, NEW o \in Objects, PushReserved(o)
    PROVE  QueueInv' /\ alive' /\ Contents' = Append(Contents, o)
<1> DEFINE m == Len(free)
<1>1. /\ alive /\ alive' /\ Enqueue(reserved, o)
      /\ reserved # NULL /\ reserved \in Nodes
      /\ reserved' = next[reserved] /\ free' = Tail(free)
      /\ allocated' = allocated /\ popped' = popped
  BY DEF PushReserved, QueueInv, TypeOK, NodeOrNull
<1>2. /\ free \in Seq(Nodes) /\ m \in Nat /\ enqueued \in Seq(Nodes)
      /\ Lists(reserved, free)
      /\ \A i, j \in 1 .. m : free[i] = free[j] => i = j
      /\ Range(enqueued) \cap Range(free) = {}
      /\ Range(enqueued) \cup Range(free) \subseteq allocated
      /\ allocated \subseteq Nodes /\ popped \in Objects \cup {NULL}
      /\ next \in [Nodes -> NodeOrNull]
  BY <1>1 DEF QueueInv, TypeOK, WellLinked, NodesOnce
<1>3. m # 0 /\ reserved = free[1]
  BY <1>1, <1>2 DEF Lists
<1>4. /\ free' \in Seq(Nodes) /\ Len(free') = m - 1
      /\ \A i \in 1 .. m - 1 : free'[i] = free[i + 1]
  BY <1>1, <1>2, <1>3
<1>5. /\ Range(free) = {free[i] : i \in 1 .. m}
      /\ Range(free') = {free'[i] : i \in 1 .. m - 1}
  <2>1. Len(free) = m /\ Len(free') = m - 1
    BY <1>4
  <2> QED  BY <2>1, <1>2, <1>4, RangeEquality
<1>6. reserved \in Range(free) /\ reserved \notin Range(enqueued)
  BY <1>2, <1>3, <1>5
<1>7. /\ head' \in NodeOrNull /\ tail' \in NodeOrNull
      /\ next' \in [Nodes -> NodeOrNull]
      /\ object' \in [Nodes -> Objects \cup {NULL}]
      /\ enqueued' \in Seq(Nodes)
      /\ Lists(head, enqueued)'
      /\ tail' = enqueued'[Len(enqueued')]
      /\ enqueued' # <<>>
      /\ \A i, j \in 1 .. Len(enqueued') : enqueued'[i] = enqueued'[j] => i = j
      /\ Range(enqueued') = Range(enqueued) \cup {reserved}
      /\ \A n \in Nodes \ (Range(enqueued) \cup {reserved}) : next'[n] = next[n]
      /\ Contents' = Append(Contents, o)
  BY <1>1, <1>6, EnqueueStep
<1>8. \A i \in 1 .. m - 1 :
         /\ free'[i] \in Nodes /\ free'[i] \in Range(free)
         /\ free'[i] # reserved /\ free'[i] \notin Range(enqueued)
  BY <1>2, <1>3, <1>4, <1>5
<1>9. Lists(reserved, free)'
  <2>1. reserved' = IF m = 1 THEN NULL ELSE free[2]
    <3>1. 1 \in 1 .. m
      BY <1>2, <1>3
    <3>2. next[free[1]] = IF 1 < m THEN free[1 + 1] ELSE NULL
      BY <3>1, <1>2 DEF Lists
    <3>3. (1 < m <=> m # 1) /\ 1 + 1 = 2
      <4>1. m \in Nat /\ m # 0
        BY <1>2, <1>3
      <4> HIDE DEF m
      <4> QED  BY <4>1
    <3> QED  BY <3>2, <3>3, <1>1, <1>3
  <2>2. reserved' = IF free' = <<>> THEN NULL ELSE free'[1]
    BY <2>1, <1>2, <1>3, <1>4
  <2>3. ASSUME NEW i \in 1 .. m - 1
        PROVE  next'[free'[i]] = IF i < m - 1 THEN free'[i + 1] ELSE NULL
    <3>1. next'[free'[i]] = next[free[i + 1]]
      BY <1>4, <1>7, <1>8
    <3>2. i + 1 \in 1 .. m
      BY <1>2
    <3>3. next[free[i + 1]] = IF i + 1 < m THEN free[i + 1 + 1] ELSE NULL
      BY <3>2, <1>2 DEF Lists
    <3> QED  BY <3>1, <3>3, <1>2, <1>4
  <2> QED  BY <2>2, <2>3, <1>4 DEF Lists
<1>10. \A i, j \in 1 .. Len(free') : free'[i] = free'[j] => i = j
  BY <1>2, <1>4
<1>11. Range(enqueued') \cap Range(free') = {}
  BY <1>5, <1>7, <1>8
<1>12. Range(enqueued') \cup Range(free') \subseteq allocated'
  BY <1>1, <1>2, <1>5, <1>6, <1>7, <1>8
<1>13. TypeOK'
  <2>1. reserved' \in NodeOrNull
    BY <1>1, <1>2
  <2> QED  BY <2>1, <1>1, <1>2, <1>4, <1>7 DEF TypeOK
<1>14. WellLinked'
  BY <1>7, <1>9 DEF WellLinked
<1>15. NodesOnce'
  BY <1>7, <1>10, <1>11, <1>12 DEF NodesOnce
<1> QED
  BY <1>1, <1>7, <1>13, <1>14, <1>15 DEF QueueInv

(* A node fresh from calloc is in neither list. *)
LEMMA PushAllocatedStep ==
    ASSUME QueueInv, NEW o \in Objects, PushAllocated(o)
    PROVE  QueueInv' /\ alive' /\ Contents' = Append(Contents, o)
<1>1. PICK node \in Nodes \ allocated :
         allocated' = allocated \cup {node} /\ Enqueue(node, o)
  BY DEF PushAllocated
<1>2. /\ alive /\ alive' /\ reserved = NULL
      /\ reserved' = reserved /\ free' = free /\ popped' = popped
  BY DEF PushAllocated
<1>3. /\ free \in Seq(Nodes) /\ enqueued \in Seq(Nodes)
      /\ Lists(reserved, free)
      /\ Range(enqueued) \cap Range(free) = {}
      /\ Range(enqueued) \cup Range(free) \subseteq allocated
      /\ allocated \subseteq Nodes /\ popped \in Objects \cup {NULL}
  BY <1>2 DEF QueueInv, TypeOK, WellLinked, NodesOnce
<1>4. /\ head' \in NodeOrNull /\ tail' \in NodeOrNull
      /\ next' \in [Nodes -> NodeOrNull]
      /\ object' \in [Nodes -> Objects \cup {NULL}]
      /\ enqueued' \in Seq(Nodes)
      /\ Lists(head, enqueued)'
      /\ tail' = enqueued'[Len(enqueued')]
      /\ enqueued' # <<>>
      /\ \A i, j \in 1 .. Len(enqueued') : enqueued'[i] = enqueued'[j] => i = j
      /\ Range(enqueued') = Range(enqueued) \cup {node}
      /\ Contents' = Append(Contents, o)
  BY <1>1, <1>2, <1>3, EnqueueStep
<1>5. free = <<>>
  <2>1. free # <<>> => free[1] \in Nodes
    BY <1>3
  <2> QED  BY <2>1, <1>2, <1>3, NullAssumption DEF Lists
<1>6. Lists(reserved, free)' /\ Range(free') = {}
  BY <1>2, <1>5 DEF Lists, Range
<1>7. \A i, j \in 1 .. Len(free') : free'[i] = free'[j] => i = j
  BY <1>2, <1>5
<1>8. TypeOK'
  BY <1>1, <1>2, <1>3, <1>4 DEF TypeOK, NodeOrNull
<1>9. WellLinked'
  BY <1>4, <1>6 DEF WellLinked
<1>10. NodesOnce'
  BY <1>1, <1>3, <1>4, <1>6, <1>7 DEF NodesOnce
<1> QED
  BY <1>2, <1>4, <1>8, <1>9, <1>10 DEF QueueInv

(* The first node moves to the front of the reserved list, and its object  *)
(* is the one returned.                                                    *)
LEMMA PopNodeStep ==
    ASSUME QueueInv, PopNode
    PROVE  /\ QueueInv' /\ alive'
           /\ Contents # <<>> /\ popped' = Head(Contents) /\ Contents' = Tail(Contents)
<1> DEFINE k == Len(enqueued)
           m == Len(free)
<1>1. /\ alive /\ alive' /\ ~IsEmpty /\ popped' = object[head]
      /\ enqueued' = Tail(enqueued) /\ free' = <<head>> \o free
      /\ next' = [next EXCEPT ![head] = reserved] /\ reserved' = head
      /\ object' = object /\ allocated' = allocated
  BY DEF PopNode, Reserve
<1>2. /\ enqueued \in Seq(Nodes) /\ free \in Seq(Nodes) /\ k \in Nat /\ m \in Nat
      /\ Lists(head, enqueued) /\ Lists(reserved, free)
      /\ tail = IF enqueued = <<>> THEN NULL ELSE enqueued[k]
      /\ \A i, j \in 1 .. k : enqueued[i] = enqueued[j] => i = j
      /\ \A i, j \in 1 .. m : free[i] = free[j] => i = j
      /\ Range(enqueued) \cap Range(free) = {}
      /\ Range(enqueued) \cup Range(free) \subseteq allocated
      /\ allocated \subseteq Nodes
      /\ next \in [Nodes -> NodeOrNull] /\ object \in [Nodes -> Objects \cup {NULL}]
      /\ reserved \in NodeOrNull
  BY <1>1 DEF QueueInv, TypeOK, WellLinked, NodesOnce
<1>3. k # 0 /\ enqueued # <<>>
  BY <1>1, <1>2 DEF IsEmpty, Lists
<1>4. /\ head = enqueued[1] /\ head \in Nodes
      /\ tail = enqueued[k]
      /\ head = tail <=> k = 1
  <2>1. head = enqueued[1] /\ tail = enqueued[k]
    BY <1>2, <1>3 DEF Lists
  <2>2. 1 \in 1 .. k /\ k \in 1 .. k
    BY <1>2, <1>3
  <2>3. enqueued[1] \in Nodes
    BY <2>2, <1>2
  <2>4. head = tail => k = 1
    BY <2>1, <2>2, <1>2
  <2> QED  BY <2>1, <2>3, <2>4
<1>5. /\ enqueued' \in Seq(Nodes) /\ Len(enqueued') = k - 1
      /\ \A i \in 1 .. k - 1 : enqueued'[i] = enqueued[i + 1]
  BY <1>1, <1>2, <1>3
<1>6. /\ free' \in Seq(Nodes) /\ Len(free') = m + 1
      /\ free'[1] = head
      /\ \A i \in 2 .. m + 1 : free'[i] = free[i - 1]
  <2>1. <<head>> \in Seq(Nodes) /\ Len(<<head>>) = 1 /\ <<head>>[1] = head
    BY <1>4
  <2> QED  BY <2>1, <1>1, <1>2, ConcatProperties
<1>7. /\ next' \in [Nodes -> NodeOrNull]
      /\ next'[head] = reserved
      /\ \A n \in Nodes : n # head => next'[n] = next[n]
  BY <1>1, <1>2, <1>4
<1>8. /\ Range(enqueued) = {enqueued[i] : i \in 1 .. k}
      /\ Range(enqueued') = {enqueued'[i] : i \in 1 .. k - 1}
      /\ Range(free) = {free[i] : i \in 1 .. m}
      /\ Range(free') = {free'[i] : i \in 1 .. m + 1}
  <2>1. /\ Len(enqueued) = k /\ Len(enqueued') = k - 1
        /\ Len(free) = m /\ Len(free') = m + 1
    BY <1>5, <1>6
  <2> QED  BY <2>1, <1>2, <1>5, <1>6, RangeEquality
<1>9. head \in Range(enqueued) /\ head \notin Range(free)
  BY <1>2, <1>3, <1>4, <1>8
<1>10. \A i \in 1 .. k - 1 :
          enqueued'[i] \in Nodes /\ enqueued'[i] \in Range(enqueued) /\ enqueued'[i] # head
  BY <1>2, <1>3, <1>4, <1>5, <1>8
<1>11. \A i \in 1 .. m : free[i] \in Nodes /\ free[i] \in Range(free) /\ free[i] # head
  BY <1>2, <1>8, <1>9
<1>12. /\ head' = IF k = 1 THEN NULL ELSE enqueued[2]
       /\ tail' = IF k = 1 THEN NULL ELSE tail
  <2>1. 1 \in 1 .. k
    BY <1>2, <1>3
  <2>2. next[head] = IF 1 < k THEN enqueued[1 + 1] ELSE NULL
    BY <2>1, <1>2, <1>4 DEF Lists
  <2> QED  BY <2>2, <1>2, <1>3, <1>4 DEF PopNode, Unlink
<1>13. Lists(head, enqueued)'
  <2>1. head' = IF enqueued' = <<>> THEN NULL ELSE enqueued'[1]
    BY <1>2, <1>3, <1>5, <1>12
  <2>2. ASSUME NEW i \in 1 .. k - 1
        PROVE  next'[enqueued'[i]] = IF i < k - 1 THEN enqueued'[i + 1] ELSE NULL
    <3>1. next'[enqueued'[i]] = next[enqueued[i + 1]]
      BY <1>5, <1>7, <1>10
    <3>2. i + 1 \in 1 .. k
      BY <1>2
    <3>3. next[enqueued[i + 1]] = IF i + 1 < k THEN enqueued[i + 1 + 1] ELSE NULL
      BY <3>2, <1>2 DEF Lists
    <3> QED  BY <3>1, <3>3, <1>2, <1>5
  <2> QED  BY <2>1, <2>2, <1>5 DEF Lists
<1>14. tail' = IF enqueued' = <<>> THEN NULL ELSE enqueued'[Len(enqueued')]
  BY <1>2, <1>3, <1>4, <1>5, <1>12
<1>15. Lists(reserved, free)'
  <2>1. reserved' = IF free' = <<>> THEN NULL ELSE free'[1]
    BY <1>1, <1>2, <1>6
  <2>2. ASSUME NEW i \in 1 .. m + 1
        PROVE  next'[free'[i]] = IF i < m + 1 THEN free'[i + 1] ELSE NULL
    <3>1. CASE i = 1
      BY <3>1, <1>2, <1>6, <1>7 DEF Lists
    <3>2. CASE i > 1
      <4>1. i - 1 \in 1 .. m
        BY <3>2, <1>2
      <4>2. next'[free'[i]] = next[free[i - 1]]
        BY <4>1, <3>2, <1>6, <1>7, <1>11
      <4>3. next[free[i - 1]] = IF i - 1 < m THEN free[i - 1 + 1] ELSE NULL
        BY <4>1, <1>2 DEF Lists
      <4>4. i < m + 1 => i + 1 \in 2 .. m + 1 /\ (i + 1) - 1 = (i - 1) + 1
        BY <3>2, <1>2
      <4>5. i < m + 1 => free'[i + 1] = free[i - 1 + 1]
        BY <4>4, <1>6
      <4>6. i - 1 < m <=> i < m + 1
        BY <1>2
      <4> QED  BY <4>2, <4>3, <4>5, <4>6
    <3> QED  BY <3>1, <3>2
  <2> QED  BY <2>1, <2>2, <1>6 DEF Lists
<1>16. \A i, j \in 1 .. Len(enqueued') : enqueued'[i] = enqueued'[j] => i = j
  BY <1>2, <1>5
<1>17. \A i, j \in 1 .. Len(free') : free'[i] = free'[j] => i = j
  BY <1>2, <1>6, <1>11
<1>18. Range(enqueued') \subseteq Range(enqueued) \ {head}
  BY <1>8, <1>10
<1>19. Range(free') \subseteq Range(free) \cup {head}
  <2>1. ASSUME NEW i \in 1 .. m + 1
        PROVE  free'[i] \in Range(free) \cup {head}
    <3>1. i = 1 \/ (i \in 2 .. m + 1 /\ i - 1 \in 1 .. m)
      BY <1>2
    <3> QED  BY <3>1, <1>6, <1>11
  <2> QED  BY <2>1, <1>8
<1>20. TypeOK'
  <2>1. head' \in NodeOrNull /\ tail' \in NodeOrNull
    BY <1>2, <1>3, <1>4, <1>12 DEF NodeOrNull
  <2> QED  BY <2>1, <1>1, <1>2, <1>4, <1>5, <1>6, <1>7 DEF TypeOK, NodeOrNull
<1>21. WellLinked'
  BY <1>13, <1>14, <1>15 DEF WellLinked
<1>22. NodesOnce'
  BY <1>1, <1>2, <1>9, <1>16, <1>17, <1>18, <1>19 DEF NodesOnce
<1>23. Contents # <<>> /\ popped' = Head(Contents) /\ Contents' = Tail(Contents)
  <2>1. /\ Contents = [i \in 1 .. k |-> object[enqueued[i]]]
        /\ Contents' = [i \in 1 .. k - 1 |-> object'[enqueued'[i]]]
    BY <1>1, <1>5 DEF Contents
  <2>2. Contents \in Seq(Objects \cup {NULL}) /\ Len(Contents) = k
    <3>1. \A i \in 1 .. k : object[enqueued[i]] \in Objects \cup {NULL}
      BY <1>2
    <3> QED  BY <2>1, <3>1, <1>2, IsASeq
  <2>3. \A i \in 1 .. k - 1 : object'[enqueued'[i]] = Contents[i + 1]
    BY <1>1, <1>2, <1>5, <2>1
  <2>4. Head(Contents) = object[head]
    BY <1>2, <1>3, <1>4, <2>1, <2>2
  <2> QED  BY <2>1, <2>2, <2>3, <2>4, <1>1, <1>2, <1>3
<1> QED
  BY <1>1, <1>20, <1>21, <1>22, <1>23 DEF QueueInv

(* The queue is well formed for ever: from its creation on, and until it   *)
(* is destroyed.                                                           *)
LEMMA QueueInvInit == Init => QueueInv
<1> SUFFICES ASSUME Init PROVE QueueInv
  OBVIOUS
<1>1. <<>> \in Seq(Nodes)
  BY EmptySeq
<1>2. TypeOK
  BY <1>1 DEF Init, TypeOK, NodeOrNull
<1> QED  BY <1>2 DEF Init, QueueInv, WellLinked, NodesOnce

(* transport_queue_create *)
LEMMA CreateStep == ASSUME QueueInv, Create PROVE QueueInv' /\ Contents' = <<>> /\ Contents = <<>>
<1>1. TypeOK'
  BY DEF QueueInv, TypeOK, NodeOrNull, Create
<1>2. Len(enqueued') = 0 /\ Len(free') = 0 /\ Range(enqueued') = {} /\ Range(free') = {}
  BY DEF Create, Range
<1>3. WellLinked'
  BY <1>2 DEF Create, WellLinked, Lists
<1>4. NodesOnce'
  BY <1>2 DEF NodesOnce
<1>5. Contents' = <<>> /\ Contents = <<>>
  BY <1>2 DEF Create, Contents
<1> QED  BY <1>1, <1>3, <1>4, <1>5 DEF QueueInv

(* transport_queue_destroy *)
LEMMA DestroyStep == ASSUME QueueInv, Destroy PROVE QueueInv' /\ Contents' = <<>> /\ popped' = popped
<1>1. TypeOK' /\ ~alive'
  BY DEF QueueInv, TypeOK, NodeOrNull, Destroy
<1>2. WellLinked' /\ NodesOnce'
  BY <1>1 DEF WellLinked, NodesOnce
<1> QED  BY <1>1, <1>2 DEF QueueInv, Contents, Destroy

(* Nothing changes, or nothing but what was returned. *)
LEMMA SameListsStep ==
    ASSUME QueueInv, popped' \in Objects \cup {NULL},
           UNCHANGED <<alive, head, tail, reserved, next, object, allocated, enqueued, free>>
    PROVE  QueueInv' /\ Contents' = Contents
<1>1. TypeOK'
  BY DEF QueueInv, TypeOK, NodeOrNull
<1>2. WellLinked' /\ NodesOnce'
  BY DEF QueueInv, WellLinked, NodesOnce, Lists
<1>3. Contents' = Contents
  BY DEF Contents
<1> QED  BY <1>1, <1>2, <1>3 DEF QueueInv

(* transport_queue_pop on an empty queue *)
LEMMA PopEmptyStep ==
    ASSUME QueueInv, PopEmpty
    PROVE  QueueInv' /\ Contents = <<>> /\ Contents' = Contents /\ popped' = NULL
<1>1. popped' = NULL /\ QueueInv' /\ Contents' = Contents
  BY SameListsStep DEF PopEmpty
<1>2. enqueued \in Seq(Nodes) /\ (enqueued # <<>> => enqueued[1] = NULL)
  BY DEF QueueInv, TypeOK, WellLinked, Lists, PopEmpty, IsEmpty
<1>3. enqueued = <<>>
  BY <1>2, NullAssumption
<1>4. Contents = <<>>
  BY <1>3 DEF Contents
<1> QED  BY <1>1, <1>4

(* calloc fails in a push, or a stuttering step *)
LEMMA StutterStep == ASSUME QueueInv, UNCHANGED vars PROVE QueueInv' /\ Contents' = Contents /\ popped' = popped
  BY SameListsStep DEF vars, QueueInv, TypeOK

(* Every step of the queue keeps it well formed, and is a step of a FIFO   *)
(* on its contents, or none.                                               *)
LEMMA QueueStep ==
    ASSUME QueueInv, [Next]_vars
    PROVE  QueueInv' /\ (Fifo!Next \/ UNCHANGED <<Contents, popped>>)
<1>1. CASE Create
  <2>1. popped' = popped
    BY <1>1 DEF Create
  <2> QED  BY <2>1, <1>1, CreateStep
<1>2. CASE Destroy
  BY <1>2, DestroyStep DEF Fifo!Next, Fifo!Discard
<1>3. ASSUME NEW o \in Objects, PushReserved(o)
      PROVE  QueueInv' /\ Fifo!Next
  <2>1. popped' = popped
    BY <1>3 DEF PushReserved
  <2> QED  BY <2>1, <1>3, PushReservedStep DEF Fifo!Next, Fifo!Push
<1>4. ASSUME NEW o \in Objects, PushAllocated(o)
      PROVE  QueueInv' /\ Fifo!Next
  <2>1. popped' = popped
    BY <1>4 DEF PushAllocated
  <2> QED  BY <2>1, <1>4, PushAllocatedStep DEF Fifo!Next, Fifo!Push
<1>5. ASSUME NEW o \in Objects, PushDropped(o)
      PROVE  QueueInv' /\ UNCHANGED <<Contents, popped>>
  BY <1>5, StutterStep DEF PushDropped
<1>6. CASE PopEmpty
  BY <1>6, PopEmptyStep DEF Fifo!Next, Fifo!Pop
<1>7. CASE PopNode
  BY <1>7, PopNodeStep DEF Fifo!Next, Fifo!Pop
<1>8. CASE UNCHANGED vars
  BY <1>8, StutterStep
<1> QED
  BY <1>1, <1>2, <1>3, <1>4, <1>5, <1>6, <1>7, <1>8 DEF Next, Push, Pop

-----------------------------------------------------------------------------
(* No list is longer than there are nodes. *)
LEMMA ListFits ==
    ASSUME NEW s \in Seq(Nodes), \A i, j \in 1 .. Len(s) : s[i] = s[j] => i = j
    PROVE  Cardinality(Nodes) \in Nat /\ Len(s) <= Cardinality(Nodes)
<1> DEFINE n == Len(s)
           Indices == 1 .. n
<1>1. n \in Nat /\ IsFiniteSet(Indices) /\ Cardinality(Indices) = n
  <2>1. n \in Nat
    OBVIOUS
  <2> HIDE DEF n
  <2>2. IsFiniteSet(1 .. n) /\ Cardinality(1 .. n) = n
    BY <2>1, FS_Interval
  <2> QED  BY <2>1, <2>2
<1>2. s \in Injection(Indices, Nodes)
  BY DEF Injection, IsInjective
<1>3. Cardinality(Indices) <= Cardinality(Nodes) /\ Cardinality(Nodes) \in Nat
  <2> HIDE DEF Indices
  <2> QED  BY <1>1, <1>2, NodesAssumption, FS_Injection, FS_CardinalityType
<1> QED  BY <1>1, <1>3

(* destroy, following next, meets every node of a list, and no other. *)
LEMMA WalkReaches ==
    ASSUME next \in [Nodes -> NodeOrNull], NEW first, NEW s \in Seq(Nodes),
           Lists(first, s), \A i, j \in 1 .. Len(s) : s[i] = s[j] => i = j
    PROVE  Walk(first) = Range(s)
<1> DEFINE c == Cardinality(Nodes)
           Steps == 1 .. c + 1
           n == Len(s)
           After(f) == [k \in Steps |->
                           IF k = 1 THEN first
                           ELSE IF f[k - 1] = NULL THEN NULL ELSE next[f[k - 1]]]
           met == CHOOSE f : f = After(f)
           list == [k \in Steps |-> IF k <= n THEN s[k] ELSE NULL]
<1>1. /\ c \in Nat /\ n \in Nat /\ n <= c
      /\ \A k \in 1 .. n : s[k] \in Nodes /\ s[k] # NULL
      /\ first = IF n = 0 THEN NULL ELSE s[1]
      /\ \A k \in 1 .. n : next[s[k]] = IF k < n THEN s[k + 1] ELSE NULL
  <2>1. c \in Nat /\ n <= c
    BY ListFits
  <2>2. \A k \in 1 .. n : s[k] \in Nodes /\ s[k] # NULL
    BY NullAssumption
  <2>3. s = <<>> <=> n = 0
    OBVIOUS
  <2> QED  BY <2>1, <2>2, <2>3 DEF Lists
<1>2. Walk(first) = {met[k] : k \in Steps} \ {NULL}
  BY DEF Walk
<1> HIDE DEF c, n
<1>3. list = After(list)
  <2> SUFFICES ASSUME NEW k \in Steps
               PROVE  list[k] = IF k = 1 THEN first
                                ELSE IF list[k - 1] = NULL THEN NULL ELSE next[list[k - 1]]
    OBVIOUS
  <2>1. CASE k = 1
    BY <2>1, <1>1
  <2>2. CASE k # 1
    <3>1. k - 1 \in Steps /\ k - 1 \in Nat \ {0}
      BY <2>2, <1>1
    <3>2. CASE k - 1 <= n
      <4>1. k - 1 \in 1 .. n
        BY <3>1, <3>2, <1>1
      <4>2. list[k - 1] = s[k - 1] /\ s[k - 1] # NULL
        BY <3>1, <3>2, <4>1, <1>1
      <4>3. next[s[k - 1]] = IF k - 1 < n THEN s[k - 1 + 1] ELSE NULL
        BY <4>1, <1>1
      <4>4. k - 1 + 1 = k /\ (k - 1 < n <=> k <= n)
        BY <1>1
      <4> QED  BY <2>2, <4>2, <4>3, <4>4
    <3>3. CASE ~(k - 1 <= n)
      <4>1. ~(k <= n)
        BY <3>1, <3>3, <1>1
      <4> QED  BY <2>2, <3>1, <3>3, <4>1
    <3> QED  BY <3>2, <3>3
  <2> QED  BY <2>1, <2>2
<1>4. met = After(met)
  <2> HIDE DEF list, After
  <2>1. \E f : f = After(f)
    BY <1>3
  <2> QED  BY <2>1, Zenon
<1> HIDE DEF met
<1>5. \A k \in Steps : met[k] = list[k]
  <2> DEFINE u == [k \in 0 .. c |-> met[k + 1]]
             v == [k \in 0 .. c |-> list[k + 1]]
  <2>1. u[0] = v[0]
    <3>1. 1 \in Steps /\ 0 \in 0 .. c /\ 0 + 1 = 1
      BY <1>1
    <3>2. met[1] = first /\ list[1] = first
      BY <3>1, <1>3, <1>4
    <3> QED  BY <3>1, <3>2
  <2>2. ASSUME NEW k \in 1 .. c, u[k - 1] = v[k - 1]
        PROVE  u[k] = v[k]
    <3>1. /\ k - 1 \in 0 .. c /\ k \in 0 .. c /\ k + 1 \in Steps
          /\ (k - 1) + 1 = k /\ (k + 1) - 1 = k /\ k + 1 # 1
      BY <1>1
    <3>2. u[k - 1] = met[k] /\ v[k - 1] = list[k] /\ u[k] = met[k + 1] /\ v[k] = list[k + 1]
      BY <3>1
    <3>3. met[k + 1] = IF met[k] = NULL THEN NULL ELSE next[met[k]]
      BY <3>1, <1>4
    <3>4. list[k + 1] = IF list[k] = NULL THEN NULL ELSE next[list[k]]
      <4> HIDE DEF list
      <4> QED  BY <3>1, <1>3
    <3> QED  BY <3>2, <3>3, <3>4, <2>2
  <2>3. \A k \in 0 .. c : u[k] = v[k]
    <3> HIDE DEF u, v
    <3>1. c \in Nat
      BY <1>1
    <3>2. \A k \in 1 .. c : u[k - 1] = v[k - 1] => u[k] = v[k]
      BY <2>2
    <3> QED  BY ONLY <3>1, <3>2, <2>1, RecursionUnique
  <2> TAKE k \in Steps
  <2>4. k - 1 \in 0 .. c /\ (k - 1) + 1 = k
    BY <1>1
  <2>5. u[k - 1] = v[k - 1]
    <3> HIDE DEF u, v
    <3> QED  BY <2>3, <2>4
  <2> QED  BY <2>4, <2>5
<1>6. Range(s) = {s[k] : k \in 1 .. n}
  BY DEF Range, n
<1>7. {list[k] : k \in Steps} \ {NULL} = {s[k] : k \in 1 .. n}
  <2>1. ASSUME NEW k \in Steps, list[k] # NULL
        PROVE  k \in 1 .. n /\ list[k] = s[k]
    BY <2>1, <1>1
  <2>2. ASSUME NEW k \in 1 .. n
        PROVE  k \in Steps /\ list[k] = s[k] /\ list[k] # NULL
    BY <1>1
  <2> HIDE DEF list
  <2> QED  BY <2>1, <2>2
<1>8. {met[k] : k \in Steps} = {list[k] : k \in Steps}
  <2> HIDE DEF list, Steps
  <2> QED  BY <1>5
<1> QED  BY <1>2, <1>6, <1>7, <1>8

(* The nodes of a list are its first and the others. *)
LEMMA RangeOfTail ==
    ASSUME NEW s \in Seq(Nodes), s # <<>>
    PROVE  Range(s) = {s[1]} \cup Range(Tail(s))
<1> DEFINE n == Len(s)
<1>1. /\ n \in Nat \ {0} /\ DOMAIN s = 1 .. n
      /\ DOMAIN Tail(s) = 1 .. n - 1
      /\ \A k \in 1 .. n - 1 : Tail(s)[k] = s[k + 1]
  OBVIOUS
<1>2. Range(s) = {s[k] : k \in 1 .. n} /\ Range(Tail(s)) = {Tail(s)[k] : k \in 1 .. n - 1}
  BY <1>1 DEF Range
<1> HIDE DEF n
<1>3. ASSUME NEW k \in 1 .. n
      PROVE  s[k] \in {s[1]} \cup {Tail(s)[i] : i \in 1 .. n - 1}
  <2>1. CASE k = 1
    BY <2>1
  <2>2. CASE k # 1
    <3>1. k - 1 \in 1 .. n - 1 /\ (k - 1) + 1 = k
      BY <2>2, <1>1
    <3> QED  BY <3>1, <1>1
  <2> QED  BY <2>1, <2>2
<1>4. 1 \in 1 .. n /\ \A k \in 1 .. n - 1 : k + 1 \in 1 .. n
  BY <1>1
<1> QED  BY <1>1, <1>2, <1>3, <1>4

LEMMA RangeOfCons ==
    ASSUME NEW node \in Nodes, NEW s \in Seq(Nodes)
    PROVE  Range(<<node>> \o s) = {node} \cup Range(s)
<1> DEFINE t == <<node>> \o s
<1>1. t \in Seq(Nodes) /\ t # <<>> /\ t[1] = node /\ Tail(t) = s
  OBVIOUS
<1> HIDE DEF t
<1>2. Range(t) = {node} \cup Range(s)
  BY <1>1, RangeOfTail
<1> QED  BY <1>2 DEF t

(* No step loses sight of a node. *)
LEMMA NothingLeaksStep ==
    ASSUME QueueInv, NothingLeaks, [Next]_vars
    PROVE  NothingLeaks'
<1>1. /\ enqueued \in Seq(Nodes) /\ free \in Seq(Nodes)
      /\ next \in [Nodes -> NodeOrNull]
  BY DEF QueueInv, TypeOK
<1>2. CASE Create
  <2>1. Range(<<>>) = {}
    BY DEF Range
  <2> QED  BY <2>1, <1>2 DEF Create, NothingLeaks
<1>3. CASE Destroy
  <2>1. Walk(head) = Range(enqueued) /\ Walk(reserved) = Range(free)
    BY <1>1, <1>3, WalkReaches DEF QueueInv, WellLinked, NodesOnce, Destroy
  <2> QED  BY <2>1, <1>3 DEF Destroy, NothingLeaks
<1>4. ASSUME NEW o \in Objects, PushReserved(o)
      PROVE  NothingLeaks'
  <2>1. /\ alive /\ alive' /\ Enqueue(reserved, o) /\ free' = Tail(free)
        /\ allocated' = allocated
    BY <1>4 DEF PushReserved
  <2>2. reserved \in Nodes /\ free # <<>> /\ reserved = free[1]
    BY <1>4, <2>1 DEF PushReserved, QueueInv, TypeOK, NodeOrNull, WellLinked, Lists
  <2>3. Range(free) = {reserved} \cup Range(free')
    BY <1>1, <2>1, <2>2, RangeOfTail
  <2>4. reserved \notin Range(enqueued)
    BY <2>1, <2>3 DEF QueueInv, NodesOnce
  <2>5. Range(enqueued') = Range(enqueued) \cup {reserved}
    BY <2>1, <2>2, <2>4, EnqueueStep
  <2> QED  BY <2>1, <2>3, <2>5 DEF NothingLeaks
<1>5. ASSUME NEW o \in Objects, PushAllocated(o)
      PROVE  NothingLeaks'
  <2>1. PICK node \in Nodes \ allocated :
           allocated' = allocated \cup {node} /\ Enqueue(node, o)
    BY <1>5 DEF PushAllocated
  <2>2. alive /\ alive' /\ free' = free
    BY <1>5 DEF PushAllocated
  <2>3. node \notin Range(enqueued)
    BY <2>1, <2>2 DEF QueueInv, NodesOnce
  <2>4. Range(enqueued') = Range(enqueued) \cup {node}
    BY <2>1, <2>2, <2>3, EnqueueStep
  <2> QED  BY <2>1, <2>2, <2>4 DEF NothingLeaks
<1>6. CASE PopNode
  <2>1. /\ alive /\ alive' /\ ~IsEmpty /\ allocated' = allocated
        /\ enqueued' = Tail(enqueued) /\ free' = <<head>> \o free
    BY <1>6 DEF PopNode
  <2>2. enqueued # <<>>
    BY <2>1 DEF QueueInv, WellLinked, Lists, IsEmpty
  <2>3. head = enqueued[1] /\ head \in Nodes
    BY <1>1, <2>1, <2>2 DEF QueueInv, WellLinked, Lists
  <2>4. Range(enqueued) = {head} \cup Range(enqueued')
    BY <1>1, <2>1, <2>2, <2>3, RangeOfTail
  <2>5. Range(free') = {head} \cup Range(free)
    BY <1>1, <2>1, <2>3, RangeOfCons
  <2> QED  BY <2>1, <2>4, <2>5 DEF NothingLeaks
<1>7. CASE UNCHANGED <<alive, allocated, enqueued, free>>
  BY <1>7 DEF NothingLeaks
<1> QED
  BY <1>2, <1>3, <1>4, <1>5, <1>6, <1>7 DEF Next, Push, Pop, PushDropped, PopEmpty, vars

-----------------------------------------------------------------------------
(* Both lists are well formed and share no node, for any number of nodes   *)
(* and any mix of transport_queue_push and transport_queue_pop.            *)
THEOREM QueueWellFormed == Spec => []QueueInv
<1>1. Init => QueueInv
  BY QueueInvInit
<1>2. QueueInv /\ [Next]_vars => QueueInv'
  BY QueueStep
<1> QED  BY <1>1, <1>2, PTL DEF Spec

(* The fields of transport_queue_s and its nodes keep their types. *)
THEOREM QueueTypeCorrect == Spec => []TypeOK
<1>1. QueueInv => TypeOK
  BY DEF QueueInv
<1> QED  BY <1>1, QueueWellFormed, PTL

(* head, tail, next and reserved link what they should. *)
THEOREM QueueLinked == Spec => []WellLinked
<1>1. QueueInv => WellLinked
  BY DEF QueueInv
<1> QED  BY <1>1, QueueWellFormed, PTL

(* No node is in both lists, or in one of them twice. *)
THEOREM QueueNodesOnce == Spec => []NodesOnce
<1>1. QueueInv => NodesOnce
  BY DEF QueueInv
<1> QED  BY <1>1, QueueWellFormed, PTL

(* Whatever is pushed and popped before, and whether or not allocations    *)
(* fail, transport_queue_destroy frees every node that was allocated: the  *)
(* walks along next and reserved end, and meet all of them.                *)
THEOREM QueueNothingLeaks == Spec => []NothingLeaks
<1>1. Init => NothingLeaks
  BY DEF Init, NothingLeaks
<1>2. QueueInv /\ NothingLeaks /\ [Next]_vars => NothingLeaks'
  BY NothingLeaksStep
<1> QED  BY <1>1, <1>2, QueueWellFormed, PTL DEF Spec

(* The linked list implements a FIFO: what pop returns is the oldest       *)
(* object pushed and not yet popped.                                       *)
THEOREM QueueIsFifo == Spec => FifoSpec
<1>1. Init => Fifo!Init
  BY DEF Init, Fifo!Init, Contents
<1>2. QueueInv /\ [Next]_vars => [Fifo!Next]_<<Contents, popped>>
  BY QueueStep
<1> QED  BY <1>1, <1>2, QueueWellFormed, PTL DEF Spec, FifoSpec, Fifo!Spec
=============================================================================
