------------------------------ MODULE OrderProofs ------------------------------
(* A finite set of numbers has its members in order: what Ascending chooses exists.     *)
(* The provers cannot use an induction theorem, which takes an operator, so the proof   *)
(* takes the least counterexample, whose existence is a fact about sets.                *)
EXTENDS Order, FiniteSetTheorems, WellFoundedInduction, TLAPS

(* A set of natural numbers that is not empty has a least member. *)
LEMMA LeastMember ==
    ASSUME NEW S \in SUBSET Nat, S # {}
    PROVE  \E n \in S : \A m \in S : n <= m
  <1>1. PICK n \in S : \A m \in S : <<m, n>> \notin OpToRel(<, Nat)
    BY NatLessThanWellFounded, WFMin
  <1>2. \A m \in S : ~(m < n)
    BY <1>1 DEF OpToRel
  <1>3. \A m \in S : m \in Nat /\ n \in Nat
    OBVIOUS
  <1>4. \A m \in S : n <= m
    BY <1>2, <1>3
  <1>5. QED
    BY <1>4

Enumerates(s, S) == s \in [1..Cardinality(S) -> S] /\ Range(s) = S /\ IsAscending(s)

(* One more member behind all others goes to the end. *)
LEMMA OneMore ==
    ASSUME NEW S \in SUBSET Nat, IsFiniteSet(S), NEW m \in Nat, \A x \in S : x < m,
           NEW s, Enumerates(s, S)
    PROVE  \E t : Enumerates(t, S \cup {m})
  <1> DEFINE n == Cardinality(S)
             t == [j \in 1..(n + 1) |-> IF j = n + 1 THEN m ELSE s[j]]
  <1>1. n \in Nat /\ Cardinality(S \cup {m}) = n + 1
    BY FS_CardinalityType, FS_AddElement
  <1> HIDE DEF n
  <1>2. s \in [1..n -> S] /\ Range(s) = S /\ IsAscending(s)
    BY DEF Enumerates, n
  <1>3. t \in [1..(n + 1) -> S \cup {m}]
    BY <1>1, <1>2
  <1>4. Range(t) = S \cup {m}
    <2>1. \A j \in 1..n : j \in 1..(n + 1) /\ t[j] = s[j]
      BY <1>1
    <2>2. n + 1 \in 1..(n + 1) /\ t[n + 1] = m
      BY <1>1
    <2>3. \A x \in S : \E j \in 1..n : s[j] = x
      BY <1>2 DEF Range
    <2>4. S \cup {m} \subseteq Range(t)
      BY <2>1, <2>2, <2>3 DEF Range
    <2>5. Range(t) \subseteq S \cup {m}
      BY <1>3 DEF Range
    <2>6. QED
      BY <2>4, <2>5
  <1>5. IsAscending(t)
    <2> SUFFICES ASSUME NEW j \in 1..(n + 1), NEW k \in 1..(n + 1), j < k PROVE t[j] < t[k]
      BY DEF IsAscending
    <2>1. j \in 1..n /\ t[j] = s[j] /\ s[j] \in S
      BY <1>1, <1>2
    <2>2. CASE k = n + 1
      BY <2>1, <2>2
    <2>3. CASE k # n + 1
      <3>1. k \in 1..n /\ t[k] = s[k]
        BY <1>1, <2>3
      <3>2. QED
        BY <1>2, <2>1, <3>1 DEF IsAscending
    <2>4. QED
      BY <2>2, <2>3
  <1>6. Enumerates(t, S \cup {m})
    BY <1>1, <1>3, <1>4, <1>5 DEF Enumerates
  <1>7. QED
    BY <1>6

(* Every set of positions up to some number can be put in order. *)
LEMMA CanBeOrdered ==
    \A n \in Nat : \A S \in SUBSET (1..n) : IsFiniteSet(S) /\ \E s : Enumerates(s, S)
  <1> DEFINE Ok(n) == \A S \in SUBSET (1..n) : \E s : Enumerates(s, S)
             bad == {n \in Nat : ~Ok(n)}
  <1>0. \A n \in Nat : \A S \in SUBSET (1..n) : IsFiniteSet(S)
    <2> TAKE n \in Nat
    <2> TAKE S \in SUBSET (1..n)
    <2>1. IsFiniteSet(1..n)
      BY FS_Interval
    <2>2. QED
      BY <2>1, FS_Subset
  <1>1. ASSUME bad # {} PROVE FALSE
    <2>1. PICK n \in bad : \A m \in bad : n <= m
      BY <1>1, LeastMember
    <2>2. n \in Nat
      OBVIOUS
    <2>3. PICK S \in SUBSET (1..n) : ~ \E s : Enumerates(s, S)
      OBVIOUS
    <2>4. CASE n = 0
      <3>1. S = {}
        BY <2>4
      <3>2. Cardinality({}) = 0
        BY FS_EmptySet
      <3>3. 1..0 = {}
        OBVIOUS
      <3>4. Enumerates([j \in 1..0 |-> 0], {})
        BY <3>2, <3>3 DEF Enumerates, Range, IsAscending
      <3>5. QED
        BY <2>3, <3>1, <3>4
    <2>5. CASE n # 0
      <3>1. n - 1 \in Nat /\ n - 1 \notin bad
        BY <2>1, <2>2, <2>5
      <3>2. Ok(n - 1)
        BY <3>1
      <3>3. S \ {n} \in SUBSET (1..(n - 1))
        BY <2>2, <2>5
      <3>4. PICK s : Enumerates(s, S \ {n})
        BY <3>2, <3>3
      <3>5. n \in S
        BY <2>3, <3>4
      <3>6. \A x \in S \ {n} : x < n
        BY <2>2, <3>3
      <3>7. IsFiniteSet(S \ {n}) /\ S \ {n} \in SUBSET Nat
        <4>1. IsFiniteSet(S \ {n})
          BY <1>0, <3>1, <3>3, Zenon
        <4>2. QED
          BY <3>3, <4>1
      <3>8. \E t : Enumerates(t, (S \ {n}) \cup {n})
        BY <2>2, <3>4, <3>6, <3>7, OneMore
      <3>9. (S \ {n}) \cup {n} = S
        BY <3>5
      <3>10. QED
        BY <2>3, <3>8, <3>9
    <2>6. QED
      BY <2>4, <2>5
  <1>2. QED
    BY <1>0, <1>1

(* Ascending(S) lists the members of S in order, each once: a filter over the positions *)
(* of a log or a queue loses none, adds none and swaps none.                            *)
THEOREM AscendingLists ==
    ASSUME NEW n \in Nat, NEW S \in SUBSET (1..n)
    PROVE  /\ Ascending(S) \in [1..Cardinality(S) -> S]
           /\ Range(Ascending(S)) = S
           /\ IsAscending(Ascending(S))
           /\ Cardinality(S) \in Nat
  <1>1. IsFiniteSet(S) /\ \E s : Enumerates(s, S)
    BY CanBeOrdered
  <1>2. \E s \in [1..Cardinality(S) -> S] : Range(s) = S /\ IsAscending(s)
    BY <1>1 DEF Enumerates
  <1>3. Cardinality(S) \in Nat
    BY <1>1, FS_CardinalityType
  <1>4. QED
    BY <1>2, <1>3 DEF Ascending
================================================================================
