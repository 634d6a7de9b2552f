--------------------------- MODULE NaturalLemmas ---------------------------
(***************************************************************************)
(* Induction and recursion on the natural numbers, for the proofs about    *)
(* lists and digits: the loops of lib/universal_transport_queue.c that     *)
(* follow next, and the %d of lib/universal_transport_websocket.c.         *)
(***************************************************************************)
EXTENDS Integers, WellFoundedInduction, TLAPS

(* A set of natural numbers has a least one.  Where an induction is        *)
(* needed, the set is that of the counterexamples.                         *)
LEMMA LeastNatural ==
    ASSUME NEW T, T \subseteq Nat, T # {}
    PROVE  \E m \in T : \A k \in T : m <= k
<1> DEFINE Less == OpToRel(<, Nat)
<1>1. PICK m \in T : \A k \in T : ~ (<<k, m>> \in Less)
  BY WFMin, NatLessThanWellFounded, Zenon
<1>2. ASSUME NEW k \in T, k < m PROVE FALSE
  <2>1. <<k, m>> \in Less
    BY <1>2 DEF OpToRel
  <2> QED  BY <1>1, <2>1, Zenon
<1> HIDE DEF Less
<1>3. \A k \in T : k \in Nat /\ ~(k < m)
  BY <1>2
<1>4. m \in Nat
  OBVIOUS
<1>5. \A k \in T : m <= k
  BY <1>3, <1>4
<1> QED  BY <1>5

(* A function on 0 .. n is defined by its first value and by how each      *)
(* value follows from the one before.                                      *)
LEMMA RecursionExists ==
    ASSUME NEW first \in Nat, NEW n \in Nat, NEW step \in [(1 .. n) \X Nat -> Nat]
    PROVE  \E f \in [0 .. n -> Nat] :
              f[0] = first /\ \A k \in 1 .. n : f[k] = step[<<k, f[k - 1]>>]
<1> DEFINE Upto(m) == \E f \in [0 .. m -> Nat] :
                         f[0] = first /\ \A k \in 1 .. m : f[k] = step[<<k, f[k - 1]>>]
           T == {m \in 0 .. n : ~Upto(m)}
<1>1. SUFFICES T = {}
  <2>1. n \in 0 .. n
    OBVIOUS
  <2> QED  BY <2>1
<1>2. SUFFICES ASSUME T # {} PROVE FALSE
  OBVIOUS
<1>3. PICK m \in T : \A k \in T : m <= k
  <2>1. T \subseteq Nat
    OBVIOUS
  <2> HIDE DEF T
  <2> QED  BY <2>1, <1>2, LeastNatural
<1>4. m \in 0 .. n /\ ~Upto(m)
  OBVIOUS
<1>5. m # 0
  <2>1. [k \in 0 .. 0 |-> first] \in [0 .. 0 -> Nat]
    OBVIOUS
  <2>2. Upto(0)
    <3> DEFINE f0 == [k \in 0 .. 0 |-> first]
    <3>1. f0[0] = first /\ \A k \in 1 .. 0 : f0[k] = step[<<k, f0[k - 1]>>]
      OBVIOUS
    <3> QED  BY <2>1, <3>1
  <2> HIDE DEF Upto
  <2> QED  BY <1>4, <2>2
<1>6. m - 1 \in 0 .. n /\ Upto(m - 1)
  <2>1. m - 1 \in 0 .. n /\ ~(m <= m - 1)
    BY <1>4, <1>5
  <2> HIDE DEF Upto
  <2> QED  BY <2>1, <1>3
<1>7. PICK f \in [0 .. m - 1 -> Nat] :
         f[0] = first /\ \A k \in 1 .. m - 1 : f[k] = step[<<k, f[k - 1]>>]
  BY <1>6
<1> DEFINE g == [k \in 0 .. m |-> IF k = m THEN step[<<m, f[m - 1]>>] ELSE f[k]]
<1>8. step[<<m, f[m - 1]>>] \in Nat
  <2>1. m \in 1 .. n /\ f[m - 1] \in Nat
    BY <1>4, <1>5
  <2> QED  BY <2>1
<1>9. g \in [0 .. m -> Nat]
  <2>1. \A k \in 0 .. m : k # m => k \in 0 .. m - 1
    BY <1>4, <1>5
  <2> QED  BY <2>1, <1>8
<1>10. g[0] = first
  BY <1>4, <1>5, <1>7
<1>11. \A k \in 1 .. m : g[k] = step[<<k, g[k - 1]>>]
  <2> TAKE k \in 1 .. m
  <2>1. k - 1 \in 0 .. m /\ k - 1 # m /\ k \in 0 .. m
    BY <1>4
  <2>2. g[k - 1] = f[k - 1]
    BY <2>1
  <2>3. CASE k = m
    BY <2>1, <2>2, <2>3
  <2>4. CASE k # m
    <3>1. k \in 1 .. m - 1
      BY <2>4, <1>4
    <3> QED  BY <3>1, <2>1, <2>2, <2>4, <1>7
  <2> QED  BY <2>3, <2>4
<1>12. Upto(m)
  <2> HIDE DEF g
  <2> QED  BY <1>9, <1>10, <1>11
<1> HIDE DEF Upto
<1> QED  BY <1>4, <1>12

(* ... and by nothing else. *)
LEMMA RecursionUnique ==
    ASSUME NEW n \in Nat, NEW f, NEW g,
           f[0] = g[0],
           \A k \in 1 .. n : f[k - 1] = g[k - 1] => f[k] = g[k]
    PROVE  \A k \in 0 .. n : f[k] = g[k]
<1> DEFINE T == {k \in 0 .. n : f[k] # g[k]}
<1>1. SUFFICES ASSUME T # {} PROVE FALSE
  OBVIOUS
<1>2. PICK m \in T : \A k \in T : m <= k
  <2>1. T \subseteq Nat
    OBVIOUS
  <2> HIDE DEF T
  <2> QED  BY <2>1, <1>1, LeastNatural
<1>3. m \in 1 .. n /\ f[m] # g[m]
  <2>1. m # 0
    OBVIOUS
  <2> QED  BY <2>1
<1>4. m - 1 \in 0 .. n /\ ~(m <= m - 1)
  BY <1>3
<1>5. f[m - 1] = g[m - 1]
  BY <1>2, <1>4
<1> QED  BY <1>3, <1>5
=============================================================================
