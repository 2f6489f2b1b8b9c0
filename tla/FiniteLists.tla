----------------------------- MODULE FiniteLists ------------------------------
(***************************************************************************)
(* Induction without an operator in the place of the predicate: up to a    *)
(* number, and over the subsets of a finite set, where strict inclusion is *)
(* well-founded, so the subsets that are not in a set Good would have a    *)
(* least one.  With it, that a loop runs, and that a finite set with a     *)
(* total order can be listed in order.                                     *)
(***************************************************************************)
EXTENDS Integers, SequenceTheorems, FiniteSetTheorems, WellFoundedInduction, TLAPS

-----------------------------------------------------------------------------
(* Numbers. *)

\* A nonempty set of numbers has a least one.
LEMMA LeastNumber ==
  ASSUME NEW T \in SUBSET Nat, T # {}
  PROVE  \E n \in T : \A i \in T : n <= i
<1> DEFINE R == OpToRel(<, Nat)
<1>1. IsWellFoundedOn(R, Nat)
  BY NatLessThanWellFounded, Zenon
<1>2. \A i, n \in Nat : i < n => <<i, n>> \in R
  BY Zenon DEF OpToRel
<1> HIDE DEF R
<1>3. PICK n \in T : \A i \in T : <<i, n>> \notin R
  BY <1>1, WFMin
<1>4. \A i \in T : i \in Nat /\ n \in Nat /\ ~(i < n)
  BY <1>2, <1>3
<1>5. \A i \in T : n <= i
  BY <1>4
<1> QED
  BY <1>5

\* Induction up to n, with a set for the predicate.
LEMMA CountUp ==
  ASSUME NEW n \in Nat, NEW T, 0 \in T, \A k \in Nat : k < n /\ k \in T => k + 1 \in T
  PROVE  n \in T /\ \A k \in 0 .. n : k \in T
<1> DEFINE Bad == {k \in 0 .. n : k \notin T}
<1> SUFFICES ASSUME Bad # {} PROVE FALSE
  <2>1. n \in 0 .. n
    OBVIOUS
  <2> QED
    BY <2>1
<1>1. PICK k \in Bad : \A i \in Bad : k <= i
  <2>1. Bad \in SUBSET Nat
    OBVIOUS
  <2> HIDE DEF Bad
  <2> QED
    BY <2>1, LeastNumber
<1>2. k \in Nat /\ k # 0 /\ k - 1 \in Nat /\ k - 1 < k /\ k - 1 < n /\ k <= n
  OBVIOUS
<1>3. k - 1 \in T
  <2>1. k - 1 \in Bad \/ k - 1 \in T
    BY <1>2
  <2>2. k - 1 \notin Bad
    BY <1>1, <1>2
  <2> QED
    BY <2>1, <2>2
<1>4. (k - 1) + 1 \in T
  BY <1>2, <1>3
<1> QED
  BY <1>2, <1>4

\* A loop of some steps runs: there is the function of what it holds after each.
IsTurn(turn, steps, States) == turn \in [(1 .. steps) \X States -> States]
IsRun(out, steps, States, start, turn) ==
  /\ out \in [0 .. steps -> States] /\ out[0] = start
  /\ \A k \in 1 .. steps : out[k] = turn[<<k, out[k - 1]>>]

LEMMA LoopExists ==
  ASSUME NEW steps \in Nat, NEW States, NEW start \in States, NEW turn, IsTurn(turn, steps, States)
  PROVE  \E out : IsRun(out, steps, States, start, turn)
<1> DEFINE Runs(m, out) == out[0] = start /\ \A k \in 1 .. m : out[k] = turn[<<k, out[k - 1]>>]
           T == {m \in 0 .. steps : \E out \in [0 .. m -> States] : Runs(m, out)}
<1>1. 0 \in T
  <2> DEFINE out == [k \in 0 .. 0 |-> start]
  <2>1. out \in [0 .. 0 -> States] /\ Runs(0, out)
    OBVIOUS
  <2> HIDE DEF out, Runs
  <2> QED
    BY <2>1
<1>2. ASSUME NEW m \in Nat, m < steps, m \in T PROVE m + 1 \in T
  <2>1. PICK out \in [0 .. m -> States] : Runs(m, out)
    BY <1>2
  <2> DEFINE next == turn[<<m + 1, out[m]>>]
             more == [k \in 0 .. m + 1 |-> IF k = m + 1 THEN next ELSE out[k]]
  <2>2. m + 1 \in 1 .. steps /\ m \in 0 .. m /\ m + 1 \in 0 .. steps
    BY <1>2
  <2>3. next \in States
    BY <2>2 DEF IsTurn
  <2>4. \A k \in 0 .. m : more[k] = out[k]
    OBVIOUS
  <2>5. more[m + 1] = turn[<<m + 1, more[m]>>]
    BY <2>2, <2>4
  <2> HIDE DEF next
  <2>6. more \in [0 .. m + 1 -> States]
    BY <2>3
  <2> HIDE DEF more
  <2>7. more[0] = start
    BY <2>1, <2>4
  <2>8. ASSUME NEW k \in 1 .. m + 1 PROVE more[k] = turn[<<k, more[k - 1]>>]
    <3>1. CASE k = m + 1
      <4>1. k - 1 = m
        BY <3>1
      <4> QED
        BY <2>5, <3>1, <4>1
    <3>2. CASE k # m + 1
      <4>1. k \in 1 .. m /\ k \in 0 .. m /\ k - 1 \in 0 .. m
        BY <3>2
      <4> QED
        BY <2>1, <2>4, <4>1
    <3> QED
      BY <3>1, <3>2
  <2>9. Runs(m + 1, more)
    BY <2>7, <2>8
  <2> HIDE DEF Runs
  <2> QED
    BY <2>2, <2>6, <2>9
<1> HIDE DEF T
<1>3. steps \in T
  BY <1>1, <1>2, CountUp
<1> QED
  BY <1>3 DEF T, IsRun

-----------------------------------------------------------------------------
(* Finite sets. *)

\* Induction over the subsets of a finite set, with a set for the predicate.
LEMMA SubsetInduction ==
  ASSUME NEW S, IsFiniteSet(S), NEW Good,
         \A T \in SUBSET S : (\A U \in SUBSET T : U # T => U \in Good) => T \in Good
  PROVE  \A T \in SUBSET S : T \in Good
<1> DEFINE Bad == {T \in SUBSET S : T \notin Good}
           Less == StrictSubsetOrdering(S)
<1> SUFFICES ASSUME Bad # {} PROVE FALSE
  OBVIOUS
<1>1. IsWellFoundedOn(Less, SUBSET S)
  <2>1. IsWellFoundedOn(Less, FiniteSubsetsOf(S))
    BY FS_StrictSubsetOrderingWellFounded
  <2>2. FiniteSubsetsOf(S) = SUBSET S
    BY FS_FiniteSubsetsOfFinite
  <2> HIDE DEF Less
  <2> QED
    BY <2>1, <2>2, Zenon
<1>2. PICK T \in Bad : \A U \in Bad : <<U, T>> \notin Less
  <2>1. Bad \subseteq SUBSET S /\ Bad # {}
    OBVIOUS
  <2> HIDE DEF Bad, Less
  <2> QED
    BY <1>1, <2>1, WFMin
<1>3. \A U \in SUBSET T : U # T => <<U, T>> \in Less /\ U \in SUBSET S
  BY DEF StrictSubsetOrdering
<1>4. ASSUME NEW U \in SUBSET T, U # T PROVE U \in Good
  <2>1. U \notin Bad
    BY <1>2, <1>3, <1>4
  <2> QED
    BY <1>3, <1>4, <2>1
<1> QED
  BY <1>2, <1>4

\* A set with a total order has a last element, and can be listed in order.
LEMMA LastExists ==
  ASSUME NEW S, IsFiniteSet(S), NEW R,
         \A x, y \in S : x # y => <<x, y>> \in R \/ <<y, x>> \in R,
         \A x, y, z \in S : <<x, y>> \in R /\ <<y, z>> \in R => <<x, z>> \in R
  PROVE  \A T \in SUBSET S : T # {} => \E x \in T : \A y \in T \ {x} : <<y, x>> \in R
<1> DEFINE Good == {T \in SUBSET S : T # {} => \E x \in T : \A y \in T \ {x} : <<y, x>> \in R}
<1>1. ASSUME NEW T \in SUBSET S, \A U \in SUBSET T : U # T => U \in Good
      PROVE  T \in Good
  <2> SUFFICES ASSUME T # {} PROVE \E x \in T : \A y \in T \ {x} : <<y, x>> \in R
    OBVIOUS
  <2>1. PICK z : z \in T
    OBVIOUS
  <2>2. T \ {z} \in Good
    BY <1>1, <2>1
  <2>3. CASE T \ {z} = {}
    BY <2>1, <2>3
  <2>4. CASE T \ {z} # {}
    <3>1. PICK x \in T \ {z} : \A y \in (T \ {z}) \ {x} : <<y, x>> \in R
      BY <2>2, <2>4
    <3>2. CASE <<z, x>> \in R
      BY <3>1, <3>2
    <3>3. CASE <<x, z>> \in R
      <4>1. \A y \in T \ {z} : <<y, z>> \in R
        BY <2>1, <3>1, <3>3
      <4> QED
        BY <2>1, <4>1
    <3> QED
      BY <2>1, <3>1, <3>2, <3>3
  <2> QED
    BY <2>3, <2>4
<1> HIDE DEF Good
<1>2. \A T \in SUBSET S : T \in Good
  BY <1>1, SubsetInduction
<1> QED
  BY <1>2 DEF Good

\* So a finite set with a total order can be listed in order.
LEMMA ListExists ==
  ASSUME NEW S, IsFiniteSet(S), NEW R,
         \A x, y \in S : x # y => <<x, y>> \in R \/ <<y, x>> \in R,
         \A x, y, z \in S : <<x, y>> \in R /\ <<y, z>> \in R => <<x, z>> \in R
  PROVE  \E s \in [1 .. Cardinality(S) -> S] :
           \A i, j \in 1 .. Cardinality(S) : i < j => <<s[i], s[j]>> \in R
<1> DEFINE Listed(T, s) == \A i, j \in 1 .. Cardinality(T) : i < j => <<s[i], s[j]>> \in R
           Good == {T \in SUBSET S : \E s \in [1 .. Cardinality(T) -> T] : Listed(T, s)}
<1>1. ASSUME NEW T \in SUBSET S, \A U \in SUBSET T : U # T => U \in Good
      PROVE  T \in Good
  <2>1. IsFiniteSet(T) /\ Cardinality(T) \in Nat
    BY FS_Subset, FS_CardinalityType
  <2>2. CASE T = {}
    <3>1. Cardinality(T) = 0
      BY <2>2, FS_EmptySet
    <3>2. [i \in 1 .. 0 |-> i] \in [1 .. Cardinality(T) -> T] /\ Listed(T, [i \in 1 .. 0 |-> i])
      BY <3>1
    <3> HIDE DEF Listed
    <3> QED
      BY <3>2
  <2>3. CASE T # {}
    <3>1. PICK x \in T : \A y \in T \ {x} : <<y, x>> \in R
      BY <2>3, LastExists
    <3> DEFINE U == T \ {x}
               n == Cardinality(T)
    <3>2. U \in Good /\ U \subseteq T
      BY <1>1, <3>1
    <3>3. Cardinality(U) = n - 1 /\ n \in Nat \ {0}
      <4>1. Cardinality(T \ {x}) = n - 1 /\ Cardinality(T \ {x}) \in Nat
        BY <2>1, <3>1, FS_RemoveElement, FS_CardinalityType
      <4> QED
        BY <2>1, <4>1
    <3>4. PICK s \in [1 .. n - 1 -> U] : \A i, j \in 1 .. n - 1 : i < j => <<s[i], s[j]>> \in R
      <4> HIDE DEF U, n
      <4> QED
        BY <3>2, <3>3
    <3> DEFINE t == [i \in 1 .. n |-> IF i = n THEN x ELSE s[i]]
    <3>5. t \in [1 .. n -> T]
      <4> HIDE DEF n
      <4> QED
        BY <3>2, <3>3, <3>4
    <3>6. Listed(T, t)
      <4> SUFFICES ASSUME NEW i \in 1 .. n, NEW j \in 1 .. n, i < j PROVE <<t[i], t[j]>> \in R
        OBVIOUS
      <4> HIDE DEF n, U
      <4>1. i \in 1 .. n - 1 /\ t[i] = s[i] /\ s[i] \in U
        BY <3>3, <3>4
      <4>2. CASE j = n
        <5>1. t[j] = x
          BY <4>2
        <5>2. s[i] \in T \ {x}
          BY <4>1 DEF U
        <5> QED
          BY <3>1, <4>1, <5>1, <5>2
      <4>3. CASE j # n
        BY <3>3, <3>4, <4>1, <4>3
      <4> QED
        BY <4>2, <4>3
    <3> HIDE DEF t, Listed
    <3> QED
      BY <3>5, <3>6
  <2> QED
    BY <2>2, <2>3
<1>2. S \in Good
  <2> HIDE DEF Good
  <2> QED
    BY <1>1, SubsetInduction
<1> QED
  BY <1>2

=============================================================================
