---------------------------- MODULE RingsProofs -----------------------------
(***************************************************************************)
(* Proofs about the rings. Their numbers (CounterSampling): that the CPU   *)
(* rings show exactly the busy share between the last two good reads, that *)
(* the disk ring never shows more than the disks moved, and that a process *)
(* is charged with its own time only, for any number of cores, disks and   *)
(* processes. Which there are (MetricStrip): that every enabled metric is  *)
(* shown once and that a drop puts every row where the drag showed it, for *)
(* any catalog and any heights.                                            *)
(*                                                                         *)
(* The sums run over any finite set, so the first part proves what the     *)
(* folds of the community modules compute, by induction over subsets.      *)
(***************************************************************************)
EXTENDS CounterSampling, MetricStrip, FiniteLists

-----------------------------------------------------------------------------
(***************************************************************************)
(* Sums over finite sets.                                                  *)
(***************************************************************************)

pick(S) == CHOOSE x \in S : TRUE
SumOn(f, S) == FoldFunctionOnSet(+, 0, f, S)
IsSum(g, f, S) == g = [T \in SUBSET S |-> IF T = {} THEN 0 ELSE f[pick(T)] + g[T \ {pick(T)}]]

\* What is picked from a set is in it.
LEMMA Picked == ASSUME NEW T, T # {} PROVE pick(T) \in T
  BY DEF pick

\* The fold is the recursive function on the subsets, as far as there is one.
LEMMA FoldIsSum ==
  ASSUME NEW f, NEW S
  PROVE  SumOn(f, S) = (CHOOSE g : IsSum(g, f, S))[S]
BY Zenon DEF SumOn, FoldFunctionOnSet, MapThenFoldSet, IsSum, pick

\* Two such functions, on a set and a larger one, agree on the smaller.
LEMMA SumsAgree ==
  ASSUME NEW A, IsFiniteSet(A), NEW B, A \in SUBSET B,
         NEW f, NEW g, IsSum(g, f, A), NEW h, IsSum(h, f, B)
  PROVE  g[A] = h[A]
<1> DEFINE Good == {T \in SUBSET A : g[T] = h[T]}
<1>2. \A T \in SUBSET A : /\ g[T] = IF T = {} THEN 0 ELSE f[pick(T)] + g[T \ {pick(T)}]
                          /\ h[T] = IF T = {} THEN 0 ELSE f[pick(T)] + h[T \ {pick(T)}]
  BY DEF IsSum
<1>3. ASSUME NEW T \in SUBSET A, \A U \in SUBSET T : U # T => U \in Good
      PROVE  T \in Good
  <2>1. CASE T = {}
    BY <1>2, <2>1
  <2>2. CASE T # {}
    <3>1. T \ {pick(T)} \in Good
      BY <1>3, <2>2, Picked
    <3> QED
      BY <1>2, <2>2, <3>1
  <2> QED
    BY <2>1, <2>2
<1>4. \A T \in SUBSET A : T \in Good
  <2> HIDE DEF Good
  <2> QED
    BY <1>3, SubsetInduction
<1> QED
  BY <1>4

\* There is such a function on every finite set.
LEMMA SumExists ==
  ASSUME NEW S, IsFiniteSet(S), NEW f
  PROVE  \A T \in SUBSET S : \E g : IsSum(g, f, T)
<1> DEFINE Good == {T \in SUBSET S : \E g : IsSum(g, f, T)}
           the(U) == CHOOSE g : IsSum(g, f, U)
<1>1. ASSUME NEW T \in SUBSET S, \A U \in SUBSET T : U # T => U \in Good
      PROVE  T \in Good
  <2>1. \A U \in SUBSET T : IsFiniteSet(U)
    BY FS_Subset
  <2>2. \A U \in SUBSET T : U # T => IsSum(the(U), f, U)
    BY <1>1
  <2> DEFINE total(U) == IF U = {} THEN 0 ELSE f[pick(U)] + the(U \ {pick(U)})[U \ {pick(U)}]
             g == [U \in SUBSET T |-> total(U)]
  <2> HIDE DEF the
  <2>3. \A U \in SUBSET T : U # T => the(U)[U] = total(U)
    <3> SUFFICES ASSUME NEW U \in SUBSET T, U # T PROVE the(U)[U] = total(U)
      OBVIOUS
    <3>1. the(U)[U] = IF U = {} THEN 0 ELSE f[pick(U)] + the(U)[U \ {pick(U)}]
      BY <2>2 DEF IsSum
    <3>2. CASE U # {}
      <4> DEFINE W == U \ {pick(U)}
      <4>1. W \in SUBSET U /\ W \in SUBSET T /\ W # T
        BY <3>2, Picked
      <4>2. the(W)[W] = the(U)[W]
        <5>1. IsSum(the(W), f, W) /\ IsSum(the(U), f, U) /\ IsFiniteSet(W)
          BY <2>1, <2>2, <4>1
        <5> HIDE DEF W
        <5> QED
          BY <4>1, <5>1, SumsAgree
      <4> QED
        BY <3>1, <3>2, <4>2
    <3> QED
      BY <3>1, <3>2
  <2>4. \A U \in SUBSET T : U # {} => U \ {pick(U)} \in SUBSET T /\ U \ {pick(U)} # T
    BY Picked
  <2>5. \A U \in SUBSET T : g[U] = IF U = {} THEN 0 ELSE f[pick(U)] + g[U \ {pick(U)}]
    <3> TAKE U \in SUBSET T
    <3> DEFINE W == U \ {pick(U)}
    <3>1. CASE U # {}
      <4>1. W \in SUBSET T /\ W # T
        BY <2>4, <3>1
      <4>2. g[W] = total(W) /\ the(W)[W] = total(W)
        <5> HIDE DEF total, W
        <5> QED
          BY <2>3, <4>1
      <4> QED
        BY <3>1, <4>2
    <3>2. CASE U = {}
      BY <3>2
    <3> QED
      BY <3>1, <3>2
  <2>6. IsSum(g, f, T)
    <3> HIDE DEF total
    <3>1. g = [U \in SUBSET T |-> g[U]]
      OBVIOUS
    <3> HIDE DEF g
    <3> QED
      BY <2>5, <3>1 DEF IsSum
  <2> QED
    BY <2>6
<1> HIDE DEF Good
<1>2. \A T \in SUBSET S : T \in Good
  BY <1>1, SubsetInduction
<1> QED
  BY <1>2 DEF Good

\* What the fold computes.
LEMMA SumSteps ==
  ASSUME NEW S, IsFiniteSet(S), NEW f
  PROVE  SumOn(f, S) = IF S = {} THEN 0 ELSE f[pick(S)] + SumOn(f, S \ {pick(S)})
<1> DEFINE the(U) == CHOOSE g : IsSum(g, f, U)
           W == S \ {pick(S)}
<1>1. \A U \in SUBSET S : IsSum(the(U), f, U)
  BY SumExists
<1>2. \A U : SumOn(f, U) = the(U)[U]
  BY FoldIsSum
<1> HIDE DEF the
<1>3. the(S)[S] = IF S = {} THEN 0 ELSE f[pick(S)] + the(S)[W]
  BY <1>1 DEF IsSum
<1>4. the(W)[W] = the(S)[W]
  <2>1. W \in SUBSET S /\ IsFiniteSet(W)
    BY FS_Subset
  <2> HIDE DEF W
  <2> QED
    BY <1>1, <2>1, SumsAgree
<1> QED
  BY <1>2, <1>3, <1>4

\* Sums over finite sets.
LEMMA SumType ==
  ASSUME NEW S, IsFiniteSet(S), NEW f, \A x \in S : f[x] \in Int
  PROVE  \A T \in SUBSET S : SumOn(f, T) \in Int
<1> DEFINE Good == {T \in SUBSET S : SumOn(f, T) \in Int}
<1>1. ASSUME NEW T \in SUBSET S, \A U \in SUBSET T : U # T => U \in Good
      PROVE  T \in Good
  <2>1. SumOn(f, T) = IF T = {} THEN 0 ELSE f[pick(T)] + SumOn(f, T \ {pick(T)})
    BY SumSteps, FS_Subset
  <2>2. CASE T # {}
    <3>1. pick(T) \in T /\ T \ {pick(T)} \in Good
      BY <1>1, <2>2, Picked
    <3> QED
      BY <2>1, <2>2, <3>1
  <2> QED
    BY <2>1, <2>2
<1> HIDE DEF Good
<1>2. \A T \in SUBSET S : T \in Good
  BY <1>1, SubsetInduction
<1> QED
  BY <1>2 DEF Good

\* Terms that are not negative have a sum that is not negative.
LEMMA SumNat ==
  ASSUME NEW S, IsFiniteSet(S), NEW f, \A x \in S : f[x] \in Int /\ f[x] >= 0
  PROVE  SumOn(f, S) \in Nat
<1> DEFINE Good == {T \in SUBSET S : SumOn(f, T) \in Nat}
<1>1. ASSUME NEW T \in SUBSET S, \A U \in SUBSET T : U # T => U \in Good
      PROVE  T \in Good
  <2>1. SumOn(f, T) = IF T = {} THEN 0 ELSE f[pick(T)] + SumOn(f, T \ {pick(T)})
    BY SumSteps, FS_Subset
  <2>2. CASE T # {}
    <3>1. pick(T) \in T /\ T \ {pick(T)} \in Good
      BY <1>1, <2>2, Picked
    <3> QED
      BY <2>1, <2>2, <3>1
  <2> QED
    BY <2>1, <2>2
<1> HIDE DEF Good
<1>2. S \in Good
  BY <1>1, SubsetInduction
<1> QED
  BY <1>2 DEF Good

\* Any term can be taken out of a sum, not only the one the fold picks.
LEMMA SumRemove ==
  ASSUME NEW S, IsFiniteSet(S), NEW f, \A x \in S : f[x] \in Int
  PROVE  \A T \in SUBSET S : \A x \in T : SumOn(f, T) = f[x] + SumOn(f, T \ {x})
<1> DEFINE Good == {T \in SUBSET S : \A x \in T : SumOn(f, T) = f[x] + SumOn(f, T \ {x})}
<1>1. ASSUME NEW T \in SUBSET S, \A U \in SUBSET T : U # T => U \in Good
      PROVE  T \in Good
  <2> SUFFICES ASSUME NEW x \in T PROVE SumOn(f, T) = f[x] + SumOn(f, T \ {x})
    OBVIOUS
  <2> DEFINE y == pick(T)
  <2>1. y \in T
    BY Picked
  <2>2. SumOn(f, T) = f[y] + SumOn(f, T \ {y})
    BY SumSteps, FS_Subset
  <2> HIDE DEF y
  <2>3. CASE x # y
    <3>1. T \ {y} \in Good /\ T \ {x} \in Good /\ x \in T \ {y} /\ y \in T \ {x}
      BY <1>1, <2>1, <2>3
    <3>2. /\ SumOn(f, T \ {y}) = f[x] + SumOn(f, (T \ {y}) \ {x})
          /\ SumOn(f, T \ {x}) = f[y] + SumOn(f, (T \ {x}) \ {y})
      BY <3>1
    <3> DEFINE rest == SumOn(f, (T \ {x}) \ {y})
    <3>3. (T \ {y}) \ {x} = (T \ {x}) \ {y}
      OBVIOUS
    <3>4. f[x] \in Int /\ f[y] \in Int /\ rest \in Int
      BY <2>1, SumType
    <3>5. SumOn(f, T \ {y}) = f[x] + rest /\ SumOn(f, T \ {x}) = f[y] + rest
      BY <3>2, <3>3
    <3> HIDE DEF rest
    <3> QED
      BY <2>2, <3>4, <3>5
  <2> QED
    BY <2>2, <2>3
<1> HIDE DEF Good
<1>2. \A T \in SUBSET S : T \in Good
  BY <1>1, SubsetInduction
<1> QED
  BY <1>2 DEF Good

\* A sum of sums is the sum of the sums, and smaller terms have smaller sums.
LEMMA SumAdd ==
  ASSUME NEW S, IsFiniteSet(S), NEW f, NEW g, NEW h,
         \A x \in S : f[x] \in Int /\ g[x] \in Int /\ h[x] = f[x] + g[x]
  PROVE  SumOn(h, S) = SumOn(f, S) + SumOn(g, S)
<1> DEFINE Good == {T \in SUBSET S : SumOn(h, T) = SumOn(f, T) + SumOn(g, T)}
<1>1. ASSUME NEW T \in SUBSET S, \A U \in SUBSET T : U # T => U \in Good
      PROVE  T \in Good
  <2> DEFINE x == pick(T)
             U == T \ {x}
  <2>1. /\ SumOn(f, T) = IF T = {} THEN 0 ELSE f[x] + SumOn(f, U)
        /\ SumOn(g, T) = IF T = {} THEN 0 ELSE g[x] + SumOn(g, U)
        /\ SumOn(h, T) = IF T = {} THEN 0 ELSE h[x] + SumOn(h, U)
    BY SumSteps, FS_Subset
  <2>2. CASE T # {}
    <3>1. x \in T /\ U \in Good
      BY <1>1, <2>2, Picked
    <3>2. SumOn(f, U) \in Int /\ SumOn(g, U) \in Int
      BY SumType
    <3>3. f[x] \in Int /\ g[x] \in Int /\ h[x] = f[x] + g[x]
      BY <3>1
    <3> HIDE DEF x, U
    <3> QED
      BY <2>1, <2>2, <3>1, <3>2, <3>3
  <2> QED
    BY <2>1, <2>2
<1> HIDE DEF Good
<1>2. \A T \in SUBSET S : T \in Good
  BY <1>1, SubsetInduction
<1> QED
  BY <1>2 DEF Good

\* Smaller terms have a smaller sum.
LEMMA SumMonotone ==
  ASSUME NEW S, IsFiniteSet(S), NEW f, NEW g,
         \A x \in S : f[x] \in Int /\ g[x] \in Int /\ f[x] <= g[x]
  PROVE  SumOn(f, S) <= SumOn(g, S)
<1> DEFINE Good == {T \in SUBSET S : SumOn(f, T) <= SumOn(g, T)}
<1>1. ASSUME NEW T \in SUBSET S, \A U \in SUBSET T : U # T => U \in Good
      PROVE  T \in Good
  <2> DEFINE x == pick(T)
             U == T \ {x}
  <2>1. /\ SumOn(f, T) = IF T = {} THEN 0 ELSE f[x] + SumOn(f, U)
        /\ SumOn(g, T) = IF T = {} THEN 0 ELSE g[x] + SumOn(g, U)
    BY SumSteps, FS_Subset
  <2>2. CASE T # {}
    <3>1. x \in T /\ U \in Good
      BY <1>1, <2>2, Picked
    <3>2. SumOn(f, U) \in Int /\ SumOn(g, U) \in Int
      BY SumType
    <3>3. f[x] \in Int /\ g[x] \in Int /\ f[x] <= g[x]
      BY <3>1
    <3> HIDE DEF x, U
    <3> QED
      BY <2>1, <2>2, <3>1, <3>2, <3>3
  <2> QED
    BY <2>1, <2>2
<1> HIDE DEF Good
<1>2. \A T \in SUBSET S : T \in Good
  BY <1>1, SubsetInduction
<1> QED
  BY <1>2 DEF Good

\* Terms left out that are not negative make the sum no larger ...
LEMMA SumSubset ==
  ASSUME NEW S, IsFiniteSet(S), NEW A \in SUBSET S, NEW f,
         \A x \in S : f[x] \in Int /\ (x \notin A => f[x] >= 0)
  PROVE  SumOn(f, A) <= SumOn(f, S)
<1> DEFINE Good == {T \in SUBSET S : A \subseteq T => SumOn(f, A) <= SumOn(f, T)}
<1>1. ASSUME NEW T \in SUBSET S, \A U \in SUBSET T : U # T => U \in Good
      PROVE  T \in Good
  <2> SUFFICES ASSUME A \subseteq T PROVE SumOn(f, A) <= SumOn(f, T)
    OBVIOUS
  <2>1. SumOn(f, A) \in Int
    BY SumType
  <2>2. CASE T # A
    <3>1. PICK x : x \in T \ A
      BY <2>2
    <3> DEFINE U == T \ {x}
    <3>2. U \in Good /\ A \subseteq U
      BY <1>1, <3>1
    <3>3. SumOn(f, T) = f[x] + SumOn(f, U) /\ SumOn(f, U) \in Int
      BY <3>1, SumRemove, SumType
    <3>4. f[x] \in Int /\ f[x] >= 0
      BY <3>1
    <3> HIDE DEF U
    <3> QED
      BY <2>1, <3>2, <3>3, <3>4
  <2> QED
    BY <2>1, <2>2
<1> HIDE DEF Good
<1>2. S \in Good
  BY <1>1, SubsetInduction
<1> QED
  BY <1>2 DEF Good

\* ... and terms of zero can be left out.
LEMMA SumSparse ==
  ASSUME NEW S, IsFiniteSet(S), NEW A \in SUBSET S, NEW f,
         \A x \in S : f[x] \in Int /\ (x \notin A => f[x] = 0)
  PROVE  SumOn(f, A) = SumOn(f, S)
<1> DEFINE Good == {T \in SUBSET S : A \subseteq T => SumOn(f, A) = SumOn(f, T)}
<1>1. ASSUME NEW T \in SUBSET S, \A U \in SUBSET T : U # T => U \in Good
      PROVE  T \in Good
  <2> SUFFICES ASSUME A \subseteq T PROVE SumOn(f, A) = SumOn(f, T)
    OBVIOUS
  <2>1. SumOn(f, A) \in Int
    BY SumType
  <2>2. CASE T # A
    <3>1. PICK x : x \in T \ A
      BY <2>2
    <3> DEFINE U == T \ {x}
    <3>2. U \in Good /\ A \subseteq U
      BY <1>1, <3>1
    <3>3. SumOn(f, T) = f[x] + SumOn(f, U) /\ SumOn(f, U) \in Int
      BY <3>1, SumRemove, SumType
    <3>4. f[x] \in Int /\ f[x] = 0
      BY <3>1
    <3> HIDE DEF U
    <3> QED
      BY <2>1, <3>2, <3>3, <3>4
  <2> QED
    BY <2>1, <2>2
<1> HIDE DEF Good
<1>2. S \in Good
  BY <1>1, SubsetInduction
<1> QED
  BY <1>2 DEF Good

-----------------------------------------------------------------------------
Fields == [1 .. 3 -> Nat]
Snapshot == [ticks : [Cpus -> Fields], online : SUBSET Cpus]
NoLess(old, new) == \A c \in Cpus : \A f \in 1 .. 3 : old[c][f] <= new[c][f]

\* SumFunction is the fold over all of its argument.
LEMMA SumIsFold == ASSUME NEW v PROVE SumFunction(v) = SumOn(v, DOMAIN v)
BY Zenon DEF SumFunction, SumFunctionOnSet, SumOn

\* A cpu line's fields add up as one writes it.
LEMMA SumThree ==
  ASSUME NEW v, DOMAIN v = 1 .. 3, \A f \in 1 .. 3 : v[f] \in Int
  PROVE  SumFunction(v) = v[1] + v[2] + v[3]
<1>1. 1 .. 3 = {1, 2, 3}
  OBVIOUS
<1>2. IsFiniteSet(1 .. 3)
  <2>1. \A a, b \in Int : IsFiniteSet(a .. b)
    BY FS_Interval
  <2>2. 1 \in Int /\ 3 \in Int
    OBVIOUS
  <2> QED
    BY <2>1, <2>2, Zenon
<1>3. /\ SumOn(v, {1, 2, 3}) = v[1] + SumOn(v, {2, 3})
      /\ SumOn(v, {2, 3}) = v[2] + SumOn(v, {3})
      /\ SumOn(v, {3}) = v[3] + SumOn(v, {})
  <2>1. /\ {1, 2, 3} \ {1} = {2, 3} /\ {2, 3} \ {2} = {3} /\ {3} \ {3} = {}
        /\ {2, 3} \in SUBSET (1 .. 3) /\ {3} \in SUBSET (1 .. 3) /\ {1, 2, 3} \in SUBSET (1 .. 3)
    OBVIOUS
  <2>2. \A T \in SUBSET (1 .. 3) : \A f \in T : SumOn(v, T) = v[f] + SumOn(v, T \ {f})
    <3> DEFINE D == 1 .. 3
    <3>1. IsFiniteSet(D) /\ \A x \in D : v[x] \in Int
      BY <1>2
    <3> HIDE DEF D
    <3>2. \A T \in SUBSET D : \A x \in T : SumOn(v, T) = v[x] + SumOn(v, T \ {x})
      <4>1. ASSUME NEW T \in SUBSET D, NEW x \in T PROVE SumOn(v, T) = v[x] + SumOn(v, T \ {x})
        BY <3>1, SumRemove
      <4> QED
        BY <4>1, Zenon
    <3> QED
      BY <3>2, Zenon DEF D
  <2>3. /\ SumOn(v, {1, 2, 3}) = v[1] + SumOn(v, {1, 2, 3} \ {1})
        /\ SumOn(v, {2, 3}) = v[2] + SumOn(v, {2, 3} \ {2})
        /\ SumOn(v, {3}) = v[3] + SumOn(v, {3} \ {3})
    BY <2>1, <2>2
  <2> QED
    BY <2>1, <2>3
<1>4. SumOn(v, {}) = 0
  BY SumSteps, FS_EmptySet
<1>5. SumFunction(v) = SumOn(v, {1, 2, 3})
  BY <1>1, SumIsFold
<1>6. v[1] \in Int /\ v[2] \in Int /\ v[3] \in Int
  OBVIOUS
<1> QED
  BY <1>3, <1>4, <1>5, <1>6

\* Of counters that only grow, the percentage is the busy share of the growth.
LEMMA PercentIsShare ==
  ASSUME NEW p \in Fields, NEW c \in Fields, \A f \in 1 .. 3 : p[f] <= c[f]
  PROVE  percentFromSample(p, c) = Share(c[1] - p[1], (c[1] - p[1]) + (c[2] - p[2]) + (c[3] - p[3]))
<1> DEFINE busy == c[1] - p[1]
           total == (c[1] - p[1]) + (c[2] - p[2]) + (c[3] - p[3])
           idle == (c[2] + c[3]) - (p[2] + p[3])
<1>1. /\ p[1] \in Nat /\ p[2] \in Nat /\ p[3] \in Nat /\ c[1] \in Nat /\ c[2] \in Nat /\ c[3] \in Nat
      /\ p[1] <= c[1] /\ p[2] <= c[2] /\ p[3] <= c[3]
  BY DEF Fields
<1>2. SumFunction(c) = c[1] + c[2] + c[3] /\ SumFunction(p) = p[1] + p[2] + p[3]
  <2>1. DOMAIN p = 1 .. 3 /\ DOMAIN c = 1 .. 3 /\ \A f \in 1 .. 3 : p[f] \in Int /\ c[f] \in Int
    BY DEF Fields
  <2> QED
    BY <2>1, SumThree
<1>3. p # Null /\ c # Null
  <2>1. 1 \in DOMAIN p /\ 1 \in DOMAIN c /\ 1 \notin DOMAIN Null
    BY DEF Fields, Null
  <2> QED
    BY <2>1
<1>4. SumFunction(c) - SumFunction(p) = total /\ total - idle = busy
  BY <1>1, <1>2
<1>5. busy \in Nat /\ total \in Nat /\ busy <= total
  BY <1>1
<1> HIDE DEF busy, total, idle
<1>6. percentFromSample(p, c) = IF total <= 0 THEN 0 ELSE clampPercent((100 * busy) \div total)
  BY <1>3, <1>4 DEF percentFromSample, idle
<1>7. total > 0 => (100 * busy) \div total \in 0 .. 100
  BY <1>5
<1>8. total > 0 => clampPercent((100 * busy) \div total) = (100 * busy) \div total
  BY <1>5, <1>7 DEF clampPercent
<1>9. percentFromSample(p, c) = Share(busy, total)
  BY <1>5, <1>6, <1>8 DEF Share
<1> QED
  BY <1>9 DEF busy, total

\* The aggregate line moves by what all cores together moved.
LEMMA AggregateShare ==
  ASSUME NEW old \in [Cpus -> Fields], NEW new \in [Cpus -> Fields], NoLess(old, new),
         NEW on1, NEW on2
  PROVE  LET past(c) == [f \in 1 .. 3 |-> new[c][f] - old[c][f]]
         IN  percentFromSample(parseProcStat(old, on1).all, parseProcStat(new, on2).all)
               = Share(SumFunction([c \in Cpus |-> past(c)[1]]), SumFunction([c \in Cpus |-> SumFunction(past(c))]))
<1> DEFINE past(c) == [f \in 1 .. 3 |-> new[c][f] - old[c][f]]
           column(t, f) == [c \in Cpus |-> t[c][f]]
           grown(f) == [c \in Cpus |-> past(c)[f]]
           p == parseProcStat(old, on1).all
           q == parseProcStat(new, on2).all
<1>0. IsFiniteSet(Cpus)
  BY CpusAssumption
<1>1. \A c \in Cpus : \A f \in 1 .. 3 : /\ new[c][f] \in Nat /\ old[c][f] \in Nat
                                        /\ past(c)[f] = new[c][f] - old[c][f] /\ past(c)[f] \in Nat
  BY DEF Fields, NoLess
<1>2. \A f \in 1 .. 3 : /\ p[f] = SumOn(column(old, f), Cpus) /\ q[f] = SumOn(column(new, f), Cpus)
                        /\ p[f] \in Nat /\ q[f] \in Nat
                        /\ SumOn(grown(f), Cpus) \in Nat
                        /\ q[f] = p[f] + SumOn(grown(f), Cpus)
  <2> TAKE f \in 1 .. 3
  <2> DEFINE a == column(old, f)
             b == column(new, f)
             d == grown(f)
  <2>1. p[f] = SumOn(a, Cpus) /\ q[f] = SumOn(b, Cpus)
    <3>1. p[f] = SumFunction(a) /\ q[f] = SumFunction(b)
      BY DEF parseProcStat
    <3>2. DOMAIN a = Cpus /\ DOMAIN b = Cpus
      OBVIOUS
    <3> HIDE DEF a, b, p, q
    <3> QED
      BY <3>1, <3>2, SumIsFold
  <2>2. \A c \in Cpus : /\ a[c] \in Int /\ b[c] \in Int /\ d[c] \in Int
                        /\ a[c] >= 0 /\ d[c] >= 0 /\ b[c] = a[c] + d[c]
    BY <1>1
  <2> HIDE DEF a, b, d
  <2>3. SumOn(b, Cpus) = SumOn(a, Cpus) + SumOn(d, Cpus)
    BY <1>0, <2>2, SumAdd
  <2>4. SumOn(a, Cpus) \in Nat /\ SumOn(d, Cpus) \in Nat
    BY <1>0, <2>2, SumNat
  <2> QED
    BY <2>1, <2>3, <2>4 DEF a, b, d
<1>3. p \in Fields /\ q \in Fields
  <2>1. p = [f \in 1 .. 3 |-> p[f]] /\ q = [f \in 1 .. 3 |-> q[f]]
    BY DEF parseProcStat
  <2> HIDE DEF p, q
  <2> QED
    BY <1>2, <2>1 DEF Fields
<1> DEFINE g1 == SumOn(grown(1), Cpus)
           g2 == SumOn(grown(2), Cpus)
           g3 == SumOn(grown(3), Cpus)
<1>4. percentFromSample(p, q) = Share(g1, g1 + g2 + g3)
  <2>1. /\ g1 \in Nat /\ g2 \in Nat /\ g3 \in Nat
        /\ p[1] \in Nat /\ p[2] \in Nat /\ p[3] \in Nat
        /\ q[1] = p[1] + g1 /\ q[2] = p[2] + g2 /\ q[3] = p[3] + g3
    BY <1>2
  <2>2. \A f \in 1 .. 3 : p[f] <= q[f]
    <3> HIDE DEF p, q, g1, g2, g3
    <3> QED
      BY <2>1
  <2> HIDE DEF p, q, g1, g2, g3
  <2>3. q[1] - p[1] = g1 /\ q[2] - p[2] = g2 /\ q[3] - p[3] = g3
    BY <2>1
  <2> QED
    BY <1>3, <2>2, <2>3, PercentIsShare
<1>5. SumFunction([c \in Cpus |-> SumFunction(past(c))]) = g1 + g2 + g3
  <2> DEFINE all == [c \in Cpus |-> SumFunction(past(c))]
             u == grown(1)
             v == grown(2)
             w == grown(3)
             uv == [c \in Cpus |-> u[c] + v[c]]
  <2>1. \A c \in Cpus : SumFunction(past(c)) = past(c)[1] + past(c)[2] + past(c)[3]
    <3> TAKE c \in Cpus
    <3> DEFINE x == past(c)
    <3>1. DOMAIN x = 1 .. 3 /\ \A f \in 1 .. 3 : x[f] \in Int
      BY <1>1
    <3> HIDE DEF x
    <3>2. SumFunction(x) = x[1] + x[2] + x[3]
      BY <3>1, SumThree
    <3> QED
      BY <3>2 DEF x
  <2>2. \A c \in Cpus : /\ u[c] \in Int /\ v[c] \in Int /\ w[c] \in Int
                        /\ uv[c] = u[c] + v[c] /\ uv[c] \in Int /\ all[c] = uv[c] + w[c]
    BY <1>1, <2>1
  <2>3. SumFunction(all) = SumOn(all, Cpus)
    <3>1. DOMAIN all = Cpus
      OBVIOUS
    <3> HIDE DEF all
    <3> QED
      BY <3>1, SumIsFold
  <2> HIDE DEF all, u, v, w, uv
  <2>4. SumOn(uv, Cpus) = SumOn(u, Cpus) + SumOn(v, Cpus)
    BY <1>0, <2>2, SumAdd
  <2>5. SumOn(all, Cpus) = SumOn(uv, Cpus) + SumOn(w, Cpus)
    BY <1>0, <2>2, SumAdd
  <2> QED
    BY <2>3, <2>4, <2>5 DEF all, u, v, w
<1>6. SumFunction([c \in Cpus |-> past(c)[1]]) = g1
  <2> DEFINE g == grown(1)
  <2>1. DOMAIN g = Cpus
    OBVIOUS
  <2> HIDE DEF g
  <2>2. SumFunction(g) = SumOn(g, Cpus)
    BY <2>1, SumIsFold
  <2> QED
    BY <2>2 DEF g
<1> QED
  BY <1>4, <1>5, <1>6

-----------------------------------------------------------------------------
(***************************************************************************)
(* Lists in order.                                                         *)
(***************************************************************************)

\* The numbers of a finite set can be sorted, and InOrder does.
LEMMA NumbersInOrder ==
  ASSUME NEW S \in SUBSET Nat, IsFiniteSet(S)
  PROVE  /\ InOrder(S, <) \in [1 .. Cardinality(S) -> S]
         /\ InOrder(S, <) \in Seq(S) /\ Len(InOrder(S, <)) = Cardinality(S)
<1> DEFINE R == {e \in Nat \X Nat : e[1] < e[2]}
           n == Cardinality(S)
           Sorted(s) == \A i, j \in 1 .. n : i < j => s[i] < s[j]
           list == InOrder(S, <)
<1>1. /\ \A x, y \in S : x # y => <<x, y>> \in R \/ <<y, x>> \in R
      /\ \A x, y, z \in S : <<x, y>> \in R /\ <<y, z>> \in R => <<x, z>> \in R
  OBVIOUS
<1>2. n \in Nat
  BY FS_CardinalityType
<1>3. \E s \in [1 .. n -> S] : \A i, j \in 1 .. n : i < j => <<s[i], s[j]>> \in R
  <2> HIDE DEF R
  <2> QED
    BY <1>1, ListExists
<1>4. \E s \in [1 .. n -> S] : Sorted(s)
  BY <1>3
<1>5. list = CHOOSE s \in [1 .. n -> S] : Sorted(s)
  BY Zenon DEF InOrder
<1> HIDE DEF Sorted
<1>6. list \in [1 .. n -> S]
  <2> HIDE DEF n, list
  <2> QED
    BY <1>4, <1>5
<1>7. list \in Seq(S) /\ Len(list) = n
  <2> HIDE DEF n, list
  <2> QED
    BY <1>2, <1>6
<1> QED
  BY <1>6, <1>7, Zenon

\* The core lines list the online cores.
LEMMA CoreLines ==
  ASSUME NEW on \in SUBSET Cpus
  PROVE  /\ coreLines(on) \in [1 .. Cardinality(on) -> on]
         /\ coreLines(on) \in Seq(on) /\ Len(coreLines(on)) = Cardinality(on)
<1>1. on \in SUBSET Nat /\ IsFiniteSet(on)
  BY CpusAssumption, FS_Subset
<1> QED
  BY <1>1, NumbersInOrder, Zenon DEF coreLines

\* Records of different pids can be ranked, and rankByCpu does.
LEMMA RankInOrder ==
  ASSUME NEW S, IsFiniteSet(S), \A r \in S : r.cpu \in Int /\ r.pid \in Int,
         \A r, q \in S : r.pid = q.pid => r = q
  PROVE  LET ranked == rankByCpu(S)
         IN  /\ \A i \in DOMAIN ranked : ranked[i] \in S
             /\ \A i, j \in DOMAIN ranked :
                  i < j => \/ ranked[i].cpu > ranked[j].cpu
                           \/ ranked[i].cpu = ranked[j].cpu /\ ranked[i].pid < ranked[j].pid
<1> DEFINE Before(a, b) == a.cpu > b.cpu \/ (a.cpu = b.cpu /\ a.pid < b.pid)
           R == {e \in S \X S : Before(e[1], e[2])}
           n == Cardinality(S)
           Sorted(s) == \A i, j \in 1 .. n : i < j => Before(s[i], s[j])
           list == InOrder(S, Before)
           ranked == rankByCpu(S)
<1>1. /\ \A x, y \in S : x # y => <<x, y>> \in R \/ <<y, x>> \in R
      /\ \A x, y, z \in S : <<x, y>> \in R /\ <<y, z>> \in R => <<x, z>> \in R
  OBVIOUS
<1>2. n \in Nat
  BY FS_CardinalityType
<1>3. \E s \in [1 .. n -> S] : \A i, j \in 1 .. n : i < j => <<s[i], s[j]>> \in R
  <2> HIDE DEF R
  <2> QED
    BY <1>1, ListExists
<1>4. \E s \in [1 .. n -> S] : Sorted(s)
  BY <1>3
<1>5. list = CHOOSE s \in [1 .. n -> S] : Sorted(s)
  BY Zenon DEF InOrder
<1> HIDE DEF Sorted
<1>6. list \in [1 .. n -> S] /\ Sorted(list)
  <2> HIDE DEF n, list
  <2> QED
    BY <1>4, <1>5
<1>7. list \in Seq(S) /\ Len(list) = n
  <2> HIDE DEF n, list
  <2> QED
    BY <1>2, <1>6
<1> DEFINE k == IF Len(list) < Limit THEN Len(list) ELSE Limit
<1>8. ranked = SubSeq(list, 1, k)
  BY DEF rankByCpu
<1>9. k \in 0 .. n
  <2> HIDE DEF list, n
  <2> QED
    BY <1>2, <1>7, BoundsAssumption
<1> HIDE DEF list, k, ranked, n
<1>10. DOMAIN ranked = 1 .. k /\ \A i \in 1 .. k : ranked[i] = list[i]
  BY <1>2, <1>7, <1>8, <1>9
<1>11. \A i \in 1 .. k : i \in 1 .. n
  BY <1>2, <1>9
<1> QED
  BY <1>6, <1>10, <1>11 DEF Sorted, ranked

-----------------------------------------------------------------------------
(***************************************************************************)
(* The CPU part.                                                           *)
(***************************************************************************)

CpuTypes ==
  /\ ticks \in [Cpus -> Fields]
  /\ online \subseteq Cpus /\ 0 \in online

\* What the rings show after good reads of a and then b.
Parsed(a) == parseProcStat(a.ticks, a.online)
Shown(a, b) ==
  LET n == CHOOSE m \in {Len(Parsed(a).cores), Len(Parsed(b).cores)} :
             m <= Len(Parsed(a).cores) /\ m <= Len(Parsed(b).cores)
  IN /\ aggregate = percentFromSample(Parsed(a).all, Parsed(b).all)
     /\ coreUsage = [i \in 1..n |-> percentFromSample(Parsed(a).cores[i], Parsed(b).cores[i])]

\* The previous sample is that of the last good read, and the rings show the
\* step from the read before it.
FirstKept(a) == reads = <<a>> /\ a.online = {} /\ prev = NoStat /\ NoLess(a.ticks, ticks)
LastKept(a, b) ==
  /\ reads = <<a, b>> /\ b.online # {} /\ prev = Parsed(b)
  /\ NoLess(a.ticks, b.ticks) /\ NoLess(b.ticks, ticks)
  /\ a.online # {} => Shown(a, b)
ReadsKept == \/ \E a \in Snapshot : FirstKept(a)
             \/ \E a, b \in Snapshot : LastKept(a, b)

CpuInv == CpuTypes /\ ReadsKept

\* A good read has an aggregate line.
LEMMA ParsedIsThere == ASSUME NEW a PROVE Parsed(a).all # Null
<1>1. DOMAIN Parsed(a).all = 1 .. 3
  BY DEF Parsed, parseProcStat
<1>2. DOMAIN Null = {} /\ 1 \in 1 .. 3
  BY DEF Null
<1> QED
  BY <1>1, <1>2

\* At first nothing has been read.
LEMMA CpuInit == Init => CpuInv
<1> SUFFICES ASSUME Init PROVE CpuInv
  OBVIOUS
<1> DEFINE a == [ticks |-> ticks, online |-> {}]
<1>1. CpuTypes
  BY CpusAssumption DEF Init, CpuTypes, Fields
<1>2. a \in Snapshot /\ FirstKept(a)
  BY <1>1 DEF Init, Snapshot, CpuTypes, FirstKept, NoLess, Fields
<1> HIDE DEF a
<1> QED
  BY <1>1, <1>2 DEF CpuInv, ReadsKept

\* Only a good read replaces the previous sample, and it shows the step to it.
LEMMA CpuStep == CpuInv /\ [Next]_vars => CpuInv'
<1> SUFFICES ASSUME CpuInv, [Next]_vars PROVE CpuInv'
  OBVIOUS
<1> USE DEF CpuInv
<1>1. ASSUME NEW c \in Cpus, NEW f \in 1 .. 3, Run(c, f) PROVE CpuInv'
  <2>1. /\ ticks' = [ticks EXCEPT ![c][f] = @ + 1]
        /\ UNCHANGED <<online, prev, aggregate, coreUsage, reads>>
    BY <1>1 DEF Run
  <2>2. CpuTypes'
    BY <2>1 DEF CpuTypes, Fields
  <2>3. \A d \in Cpus : \A g \in 1 .. 3 : ticks[d][g] <= ticks'[d][g] /\ ticks[d][g] \in Nat /\ ticks'[d][g] \in Nat
    BY <2>1 DEF CpuTypes, Fields
  <2>4. \A b \in Snapshot : NoLess(b.ticks, ticks) => NoLess(b.ticks, ticks')
    <3> TAKE b \in Snapshot
    <3>1. \A d \in Cpus : \A g \in 1 .. 3 : b.ticks[d][g] \in Nat
      BY DEF Snapshot, Fields
    <3> QED
      BY <2>3, <3>1 DEF NoLess
  <2>5. ReadsKept'
    BY <2>1, <2>4 DEF ReadsKept, FirstKept, LastKept, Shown
  <2> QED
    BY <2>2, <2>5
<1>2. ASSUME NEW c \in Cpus, Hotplug(c) PROVE CpuInv'
  BY <1>2 DEF Hotplug, CpuTypes, ReadsKept, FirstKept, LastKept, Shown
<1>3. ASSUME NEW ok \in BOOLEAN, SampleCpu(ok) PROVE CpuInv'
  <2>0. PICK b \in Snapshot : b = [ticks |-> ticks, online |-> online]
    BY DEF Snapshot, CpuTypes
  <2>1. UNCHANGED <<ticks, online>> /\ CpuTypes'
    BY <1>3 DEF SampleCpu, CpuTypes
  <2>2. CASE ~ok
    <3>1. UNCHANGED <<prev, reads, aggregate, coreUsage>>
      BY <1>3, <2>2 DEF SampleCpu, kept, NoStat
    <3> QED
      BY <2>1, <3>1 DEF ReadsKept, FirstKept, LastKept, Shown
  <2>3. CASE ok
    <3>1. b.online # {}
      BY <2>0 DEF CpuTypes
    <3>2. Parsed(b) = parseProcStat(ticks, online) /\ Parsed(b).all # Null
      BY <2>0, ParsedIsThere DEF Parsed
    <3>3. reads' = <<reads[Len(reads)], b>> /\ prev' = Parsed(b)
      BY <1>3, <2>0, <2>3, <3>2 DEF SampleCpu, kept
    <3>4. NoLess(b.ticks, ticks') /\ b.ticks = ticks
      BY <2>0, <2>1 DEF NoLess, CpuTypes, Fields
    <3>5. CASE \E a \in Snapshot : FirstKept(a)
      <4>1. PICK a \in Snapshot : FirstKept(a)
        BY <3>5
      <4>2. reads' = <<a, b>> /\ a.online = {} /\ NoLess(a.ticks, ticks)
        BY <3>3, <4>1 DEF FirstKept
      <4>3. LastKept(a, b)'
        BY <3>1, <3>3, <3>4, <4>2 DEF LastKept
      <4> QED
        BY <2>1, <3>1, <4>3 DEF ReadsKept
    <3>6. CASE \E a, d \in Snapshot : LastKept(a, d)
      <4>1. PICK a \in Snapshot, d \in Snapshot : LastKept(a, d)
        BY <3>6
      <4>2. reads' = <<d, b>> /\ prev = Parsed(d) /\ NoLess(d.ticks, ticks)
        BY <3>3, <4>1 DEF LastKept
      <4>3. Shown(d, b)'
        BY <1>3, <2>3, <3>2, <4>2, ParsedIsThere DEF SampleCpu, Shown
      <4>4. LastKept(d, b)'
        BY <3>1, <3>3, <3>4, <4>2, <4>3 DEF LastKept
      <4> QED
        BY <2>1, <3>1, <4>4 DEF ReadsKept
    <3> QED
      BY <3>5, <3>6 DEF ReadsKept
  <2> QED
    BY <2>2, <2>3
<1>4. CASE UNCHANGED cpuVars
  BY <1>4 DEF cpuVars, CpuTypes, ReadsKept, FirstKept, LastKept, Shown
<1>5. [Next]_vars => \/ \E c \in Cpus : (\E f \in 1 .. 3 : Run(c, f)) \/ Hotplug(c)
                     \/ \E ok \in BOOLEAN : SampleCpu(ok)
                     \/ UNCHANGED cpuVars
  BY DEF Next, vars, SampleIo, SampleTotal, Transfer, Plug, SetActive, Close, Spend, Fork, SamplePids,
         OnlyDisk, OnlyProc
<1> QED
  BY <1>1, <1>2, <1>3, <1>4, <1>5

\* Then the rings show the shares between the last two good reads.
LEMMA CpuExact == CpuInv => CpuUsageExact
<1> SUFFICES ASSUME CpuInv, Len(reads) = 2, reads[1].online # {}
             PROVE  CpuUsageExact
  BY DEF CpuUsageExact
<1> DEFINE past(c) == [f \in 1 .. 3 |-> reads[2].ticks[c][f] - reads[1].ticks[c][f]]
           idx == coreLines(reads[2].online)
<1>1. PICK a \in Snapshot, b \in Snapshot : LastKept(a, b)
  BY DEF CpuInv, ReadsKept, FirstKept
<1>2. reads[1] = a /\ reads[2] = b /\ NoLess(a.ticks, b.ticks) /\ Shown(a, b)
  BY <1>1 DEF LastKept
<1>3. /\ a.ticks \in [Cpus -> Fields] /\ b.ticks \in [Cpus -> Fields]
      /\ a.online \subseteq Cpus /\ b.online \subseteq Cpus
  BY DEF Snapshot
<1>4. aggregate = Share(SumFunction([c \in Cpus |-> past(c)[1]]), SumFunction([c \in Cpus |-> SumFunction(past(c))]))
  <2>1. aggregate = percentFromSample(parseProcStat(a.ticks, a.online).all, parseProcStat(b.ticks, b.online).all)
    BY <1>2 DEF Shown, Parsed
  <2> QED
    BY <1>2, <1>3, <2>1, AggregateShare
<1>5. reads[1].online = reads[2].online =>
        coreUsage = [k \in 1 .. Len(idx) |-> Share(past(idx[k])[1], SumFunction(past(idx[k])))]
  <2> SUFFICES ASSUME a.online = b.online
               PROVE  coreUsage = [k \in 1 .. Len(idx) |-> Share(past(idx[k])[1], SumFunction(past(idx[k])))]
    BY <1>2
  <2> DEFINE n == Cardinality(b.online)
             line(t) == [k \in 1 .. Len(idx) |-> t[idx[k]]]
  <2>1. idx \in [1 .. n -> b.online] /\ Len(idx) = n /\ n \in Nat
    BY <1>2, <1>3, CoreLines, FS_CardinalityType, FS_Subset, CpusAssumption
  <2>2. Parsed(a).cores = line(a.ticks) /\ Parsed(b).cores = line(b.ticks)
    BY <1>2 DEF Parsed, parseProcStat
  <2> HIDE DEF idx, n
  <2>3. Len(line(a.ticks)) = n /\ Len(line(b.ticks)) = n
    BY <2>1
  <2>4. (CHOOSE m \in {n, n} : m <= n /\ m <= n) = n
    BY <2>1
  <2>5. coreUsage = [i \in 1 .. n |-> percentFromSample(line(a.ticks)[i], line(b.ticks)[i])]
    <3> DEFINE pa == Parsed(a).cores
               pb == Parsed(b).cores
               m == CHOOSE l \in {Len(pa), Len(pb)} : l <= Len(pa) /\ l <= Len(pb)
    <3>1. coreUsage = [i \in 1 .. m |-> percentFromSample(pa[i], pb[i])]
      BY <1>2, Zenon DEF Shown
    <3>2. Len(pa) = n /\ Len(pb) = n
      BY <2>2, <2>3
    <3> HIDE DEF pa, pb
    <3>3. m = n
      BY <2>4, <3>2
    <3> HIDE DEF m, line
    <3>4. pa = line(a.ticks) /\ pb = line(b.ticks)
      BY <2>2 DEF pa, pb
    <3> QED
      BY <3>1, <3>3, <3>4
  <2>6. ASSUME NEW k \in 1 .. n
        PROVE  percentFromSample(line(a.ticks)[k], line(b.ticks)[k]) = Share(past(idx[k])[1], SumFunction(past(idx[k])))
    <3> DEFINE c == idx[k]
               x == past(c)
    <3>1. c \in Cpus
      BY <1>3, <2>1
    <3>2. line(a.ticks)[k] = a.ticks[c] /\ line(b.ticks)[k] = b.ticks[c]
      BY <2>1
    <3>3. a.ticks[c] \in Fields /\ b.ticks[c] \in Fields /\ \A f \in 1 .. 3 : a.ticks[c][f] <= b.ticks[c][f]
      BY <1>2, <1>3, <3>1 DEF NoLess
    <3>4. \A f \in 1 .. 3 : x[f] = b.ticks[c][f] - a.ticks[c][f] /\ x[f] \in Int
      BY <1>2, <3>3 DEF Fields
    <3>5. SumFunction(x) = x[1] + x[2] + x[3]
      <4>1. DOMAIN x = 1 .. 3
        OBVIOUS
      <4> HIDE DEF x
      <4> QED
        BY <3>4, <4>1, SumThree
    <3>6. percentFromSample(a.ticks[c], b.ticks[c]) = Share(x[1], x[1] + x[2] + x[3])
      <4> HIDE DEF x, c
      <4> QED
        BY <3>3, <3>4, PercentIsShare
    <3>7. percentFromSample(a.ticks[c], b.ticks[c]) = Share(x[1], SumFunction(x))
      <4> HIDE DEF x, c
      <4> QED
        BY <3>5, <3>6
    <3> QED
      BY <3>2, <3>7, Zenon
  <2> HIDE DEF line, past
  <2> QED
    BY <2>1, <2>5, <2>6
<1> QED
  BY <1>4, <1>5, Zenon DEF CpuUsageExact


-----------------------------------------------------------------------------
(***************************************************************************)
(* The disk part.                                                          *)
(***************************************************************************)

\* The whole disks that a reading lists, and what they have moved.
Disks(f) == {n \in DOMAIN f : n \notin Virtual /\ BaseOf[n] = n}
Moved(f) == SumOn(f, Disks(f))

\* A reading of counters: a part is listed with its disk.
Reading(f) ==
  /\ DOMAIN f \subseteq Devices /\ f \in [DOMAIN f -> Nat]
  /\ \A n \in DOMAIN f : BaseOf[n] \in DOMAIN f

DiskTypes ==
  /\ Reading(sectors)
  /\ base = Null \/ \E n \in Nat : base = <<n>>
  /\ rate \in Nat /\ peak \in Nat /\ moved \in Nat /\ due \in Nat /\ most \in Nat

\* The counters are no further from the baseline than the disks have moved.
BaselineNear == base # Null => Moved(sectors) <= base[1] + moved

\* The peak is at least the rate, and at most what some window has moved.
PeakReal == /\ rate <= due
            /\ 100 * rate <= peak
            /\ peak <= 100 * (IF most > PEAK_FLOOR THEN most ELSE PEAK_FLOOR)

DiskInv == DiskTypes /\ BaselineNear /\ PeakReal

\* Sums of the same terms are the same.
LEMMA SumAlike ==
  ASSUME NEW S, IsFiniteSet(S), NEW f, NEW g, \A x \in S : f[x] \in Int /\ g[x] = f[x]
  PROVE  SumOn(g, S) = SumOn(f, S)
<1>1. SumOn(f, S) <= SumOn(g, S) /\ SumOn(g, S) <= SumOn(f, S)
  BY SumMonotone
<1>2. SumOn(f, S) \in Int /\ SumOn(g, S) \in Int
  BY SumType
<1> QED
  BY <1>1, <1>2

\* A reading lists finitely many whole disks, with natural counters.
LEMMA ReadingIsFinite ==
  ASSUME NEW f, Reading(f)
  PROVE  /\ IsFiniteSet(Disks(f)) /\ Disks(f) \subseteq Whole
         /\ \A n \in Disks(f) : f[n] \in Nat
         /\ Moved(f) \in Nat
<1>1. IsFiniteSet(Disks(f))
  BY DisksAssumption, FS_Subset DEF Disks, Reading, Devices
<1>2. Disks(f) \subseteq Whole
  BY DisksAssumption DEF Disks, Reading, Devices
<1>3. \A n \in Disks(f) : f[n] \in Nat
  BY DEF Disks, Reading
<1>4. Moved(f) \in Nat
  BY <1>1, <1>3, SumNat DEF Moved
<1> QED
  BY <1>1, <1>2, <1>3, <1>4

\* Partitions and virtual devices are left out.
LEMMA AggregateIsMoved ==
  ASSUME NEW f, Reading(f)
  PROVE  aggregateWholeDisks(f) = Moved(f)
<1> DEFINE S == {n \in DOMAIN f : n \notin Virtual /\ ~_isPartitionOf(n, DOMAIN f)}
           g == [d \in S |-> f[d]]
<1>1. S = Disks(f)
  BY DEF Disks, Reading, _isPartitionOf
<1>2. \A n \in Disks(f) : f[n] \in Int /\ g[n] = f[n]
  BY <1>1, ReadingIsFinite
<1>3. aggregateWholeDisks(f) = SumFunction(g) /\ DOMAIN g = Disks(f)
  BY <1>1, Zenon DEF aggregateWholeDisks
<1> HIDE DEF g
<1>4. SumOn(g, Disks(f)) = SumOn(f, Disks(f))
  BY <1>2, ReadingIsFinite, SumAlike
<1> QED
  BY <1>3, <1>4, SumIsFold DEF Moved

\* A transfer moves one sector of a disk, a part's together with its disk's.
LEMMA Transferred ==
  ASSUME NEW f, Reading(f), NEW d \in DOMAIN f, BaseOf[d] \in DOMAIN f, NEW g,
         g = [e \in DOMAIN f |-> f[e] + (IF e \in {d, BaseOf[d]} THEN 1 ELSE 0)]
  PROVE  Reading(g) /\ Moved(g) <= Moved(f) + (IF BaseOf[d] \in Whole THEN 1 ELSE 0)
<1> DEFINE b == BaseOf[d]
           D == Disks(f)
<1>1. Reading(g) /\ Disks(g) = D
  BY DEF Reading, Disks
<1>2. IsFiniteSet(D) /\ \A n \in D : f[n] \in Int /\ g[n] = f[n] + (IF n = b THEN 1 ELSE 0)
  <2>1. IsFiniteSet(D) /\ \A n \in D : f[n] \in Int
    BY ReadingIsFinite
  <2>2. \A n \in D : n \in DOMAIN f /\ (n \in {d, b} <=> n = b)
    BY DEF Disks
  <2> HIDE DEF D, b
  <2>3. \A n \in D : g[n] = f[n] + (IF n \in {d, b} THEN 1 ELSE 0)
    BY <2>2 DEF b
  <2> QED
    BY <2>1, <2>2, <2>3
<1>3. D \subseteq Whole /\ Moved(f) \in Nat
  BY ReadingIsFinite
<1>4. CASE b \in D
  <2> DEFINE rest == D \ {b}
  <2>1. IsFiniteSet(rest) /\ \A n \in rest : f[n] \in Int /\ g[n] = f[n]
    BY <1>2, FS_Subset
  <2>2. SumOn(g, rest) = SumOn(f, rest)
    BY <2>1, SumAlike
  <2>3. \A n \in D : f[n] \in Int /\ g[n] \in Int
    BY <1>2
  <2> HIDE DEF D, b, rest
  <2>4. SumOn(f, D) = f[b] + SumOn(f, D \ {b}) /\ SumOn(g, D) = g[b] + SumOn(g, D \ {b})
    BY <1>2, <1>4, <2>3, SumRemove
  <2>5. SumOn(f, D \ {b}) \in Int
    BY <1>2, SumType
  <2>6. SumOn(g, D) = SumOn(f, D) + 1 /\ b \in Whole
    BY <1>2, <1>3, <1>4, <2>2, <2>4, <2>5 DEF rest
  <2> QED
    BY <1>1, <1>3, <2>6 DEF Moved, D, b
<1>5. CASE b \notin D
  <2>1. SumOn(g, D) = SumOn(f, D)
    BY <1>2, <1>5, SumAlike
  <2> QED
    BY <1>1, <1>3, <2>1 DEF Moved
<1> QED
  BY <1>4, <1>5

\* A disk that goes takes its counters along ...
LEMMA Unplugged ==
  ASSUME NEW f, Reading(f), NEW w, NEW parts, parts = {d \in Devices : BaseOf[d] = w}, NEW g,
         g = [d \in DOMAIN f \ parts |-> f[d]]
  PROVE  Reading(g) /\ Moved(g) <= Moved(f)
<1>0. \A n \in Devices : BaseOf[n] \in Devices /\ BaseOf[BaseOf[n]] = BaseOf[n]
  BY DisksAssumption DEF Devices
<1>1. Reading(g) /\ Disks(g) = Disks(f) \ parts
  BY <1>0 DEF Reading, Disks
<1> DEFINE D == Disks(f)
           E == Disks(g)
<1>2. IsFiniteSet(D) /\ IsFiniteSet(E) /\ E \in SUBSET D
  BY <1>1, ReadingIsFinite
<1>3. /\ \A n \in D : f[n] \in Int /\ (n \notin E => f[n] >= 0)
      /\ \A n \in E : f[n] \in Int /\ g[n] = f[n]
  <2>1. \A n \in D : f[n] \in Nat
    BY ReadingIsFinite
  <2>2. \A n \in E : n \in D /\ n \in DOMAIN f \ parts
    BY <1>1 DEF Disks
  <2> QED
    BY <2>1, <2>2
<1> HIDE DEF D, E
<1>4. SumOn(f, E) <= SumOn(f, D) /\ SumOn(g, E) = SumOn(f, E)
  BY <1>2, <1>3, SumSubset, SumAlike
<1> QED
  BY <1>1, <1>4 DEF Moved, D, E

\* ... and one that comes has counters of zero.
LEMMA Plugged ==
  ASSUME NEW f, Reading(f), NEW w \in Whole, w \notin DOMAIN f,
         NEW parts, parts = {d \in Devices : BaseOf[d] = w}, NEW g,
         g = [d \in DOMAIN f \cup parts |-> IF d \in parts THEN 0 ELSE f[d]]
  PROVE  Reading(g) /\ Moved(g) = Moved(f)
<1>0. w \in parts /\ parts \subseteq Devices /\ \A n \in parts : BaseOf[n] = w
  BY DisksAssumption DEF Devices
<1>1. Reading(g)
  BY <1>0 DEF Reading
<1> DEFINE D == Disks(f)
           E == Disks(g)
<1>2. D \in SUBSET E /\ \A n \in E : IF n \in D THEN g[n] = f[n] /\ f[n] \in Nat ELSE g[n] = 0
  BY <1>0 DEF Reading, Disks
<1>3. IsFiniteSet(D) /\ IsFiniteSet(E)
  BY <1>1, ReadingIsFinite
<1>4. /\ \A n \in E : g[n] \in Int /\ (n \notin D => g[n] = 0)
      /\ \A n \in D : f[n] \in Int /\ g[n] = f[n]
  BY <1>2
<1> HIDE DEF D, E
<1>5. SumOn(g, D) = SumOn(g, E) /\ SumOn(g, D) = SumOn(f, D)
  BY <1>2, <1>3, <1>4, SumSparse, SumAlike
<1> QED
  BY <1>1, <1>5 DEF Moved, D, E

\* The peak becomes the rate or the floor, or decays.
LEMMA PeakUpdated ==
  ASSUME NEW p \in Nat, NEW r \in Nat
  PROVE  LET q == updatePeak(p, r)
         IN  q \in Nat /\ q >= 100 * r /\ (q = 100 * r \/ q <= p \/ q = 100 * PEAK_FLOOR)
<1> DEFINE d == (p * PEAK_DECAY) \div 100
           M == {100 * r, d, 100 * PEAK_FLOOR}
           Enough(m) == m >= 100 * r /\ m >= d /\ m >= 100 * PEAK_FLOOR
<1>1. d \in Nat /\ d <= p
  <2> DEFINE x == p * PEAK_DECAY
  <2>1. x \in Nat /\ x <= 100 * p
    BY PeakAssumption
  <2> HIDE DEF x
  <2>2. x \div 100 \in Nat /\ x \div 100 <= p
    BY <2>1
  <2> QED
    BY <2>2 DEF x
<1>2. PEAK_FLOOR \in Nat
  BY PeakAssumption
<1>3. updatePeak(p, r) = CHOOSE m \in M : Enough(m)
  BY DEF updatePeak
<1> HIDE DEF d
<1>4. \E m \in M : Enough(m)
  BY <1>1, <1>2
<1>5. updatePeak(p, r) \in M /\ Enough(updatePeak(p, r))
  BY <1>3, <1>4
<1> QED
  BY <1>1, <1>2, <1>5

\* At first there is no baseline.
LEMMA DiskInit == Init => DiskInv
<1> SUFFICES ASSUME Init PROVE DiskInv
  OBVIOUS
<1>1. Reading(sectors)
  BY DisksAssumption DEF Init, Reading, Devices
<1> QED
  BY <1>1, PeakAssumption DEF Init, DiskInv, DiskTypes, BaselineNear, PeakReal


\* Only a transfer moves the counters away from the baseline, and it counts.
LEMMA DiskStep == DiskInv /\ [Next]_vars => DiskInv'
<1> SUFFICES ASSUME DiskInv, [Next]_vars PROVE DiskInv'
  OBVIOUS
<1> USE DEF DiskInv
<1>1. ASSUME NEW d \in Devices, Transfer(d) PROVE DiskInv'
  <2> DEFINE more == IF BaseOf[d] \in Whole THEN 1 ELSE 0
  <2>1. /\ d \in DOMAIN sectors /\ BaseOf[d] \in DOMAIN sectors
        /\ sectors' = [e \in DOMAIN sectors |-> sectors[e] + (IF e \in {d, BaseOf[d]} THEN 1 ELSE 0)]
        /\ moved' = moved + more
        /\ UNCHANGED <<active, base, rate, peak, due, most>>
    BY <1>1 DEF Transfer
  <2>2. Reading(sectors') /\ Moved(sectors') <= Moved(sectors) + more
    BY <2>1, Transferred DEF DiskTypes
  <2>3. Moved(sectors) \in Nat /\ Moved(sectors') \in Nat /\ more \in Nat
    BY <2>2, ReadingIsFinite DEF DiskTypes
  <2> HIDE DEF more
  <2>4. DiskTypes'
    BY <2>1, <2>2, <2>3 DEF DiskTypes
  <2>5. BaselineNear'
    BY <2>1, <2>2, <2>3 DEF DiskTypes, BaselineNear
  <2> QED
    BY <2>1, <2>4, <2>5 DEF PeakReal
<1>2. ASSUME NEW w \in Whole, Plug(w) PROVE DiskInv'
  <2> DEFINE parts == {d \in Devices : BaseOf[d] = w}
  <2>1. UNCHANGED <<active, base, rate, peak, moved, due, most>>
    BY <1>2 DEF Plug
  <2>2. Reading(sectors') /\ Moved(sectors') <= Moved(sectors)
    <3>0. Reading(sectors) /\ Moved(sectors) \in Nat
      BY ReadingIsFinite DEF DiskTypes
    <3>1. CASE w \in DOMAIN sectors
      <4>1. sectors' = [d \in DOMAIN sectors \ parts |-> sectors[d]]
        BY <1>2, <3>1 DEF Plug
      <4> QED
        BY <3>0, <4>1, Unplugged
    <3>2. CASE w \notin DOMAIN sectors
      <4>1. sectors' = [d \in DOMAIN sectors \cup parts |-> IF d \in parts THEN 0 ELSE sectors[d]]
        BY <1>2, <3>2 DEF Plug
      <4>2. parts = {d \in Devices : BaseOf[d] = w}
        OBVIOUS
      <4> HIDE DEF parts
      <4>3. Reading(sectors') /\ Moved(sectors') = Moved(sectors)
        BY <3>0, <3>2, <4>1, <4>2, Plugged
      <4> QED
        BY <3>0, <4>3
    <3> QED
      BY <3>1, <3>2
  <2>3. Moved(sectors) \in Nat /\ Moved(sectors') \in Nat
    BY <2>2, ReadingIsFinite DEF DiskTypes
  <2> QED
    BY <2>1, <2>2, <2>3 DEF DiskTypes, BaselineNear, PeakReal
<1>3. CASE SetActive
  BY <1>3 DEF SetActive, DiskTypes, BaselineNear, PeakReal
<1>4. ASSUME NEW ok \in BOOLEAN, SampleIo(ok) PROVE DiskInv'
  <2> DEFINE map == [d \in IF ok THEN DOMAIN sectors ELSE {} |-> sectors[d]]
             now == Moved(sectors)
             r == ratesFromSamples(base[1], now)
  <2>1. map = sectors
    <3>1. DOMAIN map # {}
      BY <1>4 DEF SampleIo, skipped
    <3>2. DOMAIN map = IF ok THEN DOMAIN sectors ELSE {}
      OBVIOUS
    <3>3. ok
      BY <3>1, <3>2
    <3> QED
      BY <3>3 DEF DiskTypes, Reading
  <2>2. aggregateWholeDisks(map) = now /\ now \in Nat
    <3>1. aggregateWholeDisks(sectors) = now /\ now \in Nat
      BY AggregateIsMoved, ReadingIsFinite DEF DiskTypes
    <3> QED
      BY <2>1, <3>1
  <2>3. /\ base' = <<now>> /\ moved' = 0 /\ UNCHANGED <<sectors, active>>
        /\ IF base # Null
           THEN /\ rate' = r /\ peak' = updatePeak(peak, r)
                /\ due' = moved /\ most' = IF moved > most THEN moved ELSE most
           ELSE UNCHANGED <<rate, peak, due, most>>
    <3> HIDE DEF now
    <3> QED
      BY <1>4, <2>2 DEF SampleIo
  <2>4. BaselineNear'
    <3>1. Moved(sectors') = now
      BY <2>3
    <3> HIDE DEF now
    <3> QED
      BY <2>2, <2>3, <3>1 DEF BaselineNear
  <2>5. CASE base = Null
    BY <2>2, <2>3, <2>4, <2>5 DEF DiskTypes, PeakReal
  <2>6. CASE base # Null
    <3>1. base[1] \in Nat /\ now <= base[1] + moved /\ moved \in Nat /\ peak \in Nat /\ most \in Nat
      BY <2>6 DEF DiskTypes, BaselineNear
    <3> HIDE DEF now
    <3>2. r \in Nat /\ r <= moved
      BY <2>2, <3>1 DEF ratesFromSamples
    <3> HIDE DEF r
    <3>3. /\ peak' \in Nat /\ peak' >= 100 * r
          /\ peak' = 100 * r \/ peak' <= peak \/ peak' = 100 * PEAK_FLOOR
      BY <2>3, <2>6, <3>1, <3>2, PeakUpdated
    <3>4. rate' = r /\ due' = moved /\ most' = IF moved > most THEN moved ELSE most
      BY <2>3, <2>6
    <3>5. PeakReal'
      <4>1. PEAK_FLOOR \in Nat /\ peak <= 100 * (IF most > PEAK_FLOOR THEN most ELSE PEAK_FLOOR)
        BY PeakAssumption DEF PeakReal
      <4> QED
        BY <3>1, <3>2, <3>3, <3>4, <4>1 DEF PeakReal
    <3>6. DiskTypes'
      BY <2>2, <2>3, <3>1, <3>2, <3>3, <3>4 DEF DiskTypes
    <3> QED
      BY <2>4, <3>5, <3>6
  <2> QED
    BY <2>5, <2>6
<1>5. CASE UNCHANGED diskVars
  BY <1>5 DEF diskVars, DiskTypes, BaselineNear, PeakReal
<1>6. [Next]_vars => \/ \E d \in Devices : Transfer(d)
                     \/ \E w \in Whole : Plug(w)
                     \/ \E ok \in BOOLEAN : SampleIo(ok)
                     \/ SetActive
                     \/ UNCHANGED diskVars
  BY DEF Next, vars, Run, Hotplug, SampleCpu, SampleTotal, Close, Spend, Fork, SamplePids,
         OnlyCpu, OnlyProc
<1> QED
  BY <1>1, <1>2, <1>3, <1>4, <1>5, <1>6

\* So the ring shows no more than was moved, and is full only at the peak.
LEMMA DiskReal == DiskInv => NoSpuriousBurst
<1> SUFFICES ASSUME DiskInv PROVE NoSpuriousBurst
  OBVIOUS
<1> DEFINE x == 100 * rate
<1>1. rate \in Nat /\ peak \in Nat /\ x \in Nat /\ x <= peak /\ 10000 * rate = 100 * x
  BY SMT DEF DiskInv, DiskTypes, PeakReal
<1>2. rateToPercent(rate, peak) = IF peak = 0 THEN 0 ELSE clampPercent((100 * x) \div peak)
  <2> HIDE DEF x
  <2> QED
    BY <1>1 DEF rateToPercent
<1> HIDE DEF x
<1>3. ASSUME peak # 0, clampPercent((100 * x) \div peak) = 100 PROVE x = peak
  <2>1. (100 * x) \div peak \in Nat
    BY <1>1, <1>3
  <2>2. (100 * x) \div peak >= 100
    <3> DEFINE q == (100 * x) \div peak
    <3> HIDE DEF q
    <3> QED
      BY <1>3, <2>1 DEF clampPercent, q
  <2>3. 100 * peak <= 100 * x
    BY <1>1, <1>3, <2>2
  <2> QED
    BY <1>1, <2>3
<1>4. rateToPercent(rate, peak) = 100 => 100 * rate = peak
  BY <1>2, <1>3 DEF x
<1> QED
  BY <1>4 DEF NoSpuriousBurst, DiskInv, PeakReal

-----------------------------------------------------------------------------
(***************************************************************************)
(* The process part.                                                       *)
(***************************************************************************)

PidMap(f) == DOMAIN f \subseteq Pids /\ f \in [DOMAIN f -> Nat]

ProcTypes ==
  /\ PidMap(jiffies) /\ PidMap(prevPids)
  /\ uptime \in Nat /\ totalDelta \in Int
  /\ prevAll = Null \/ \E n \in Nat : prevAll = <<n>>
  /\ spent \in [now : [Pids -> Nat], then : [Pids -> Nat], total : Int]

\* A counter is no further from the previous reading than its pid has spent.
SpentNear ==
  \A q \in DOMAIN jiffies \cap DOMAIN prevPids : jiffies[q] - prevPids[q] <= spent.now[q]

ProcInv == ProcTypes /\ SpentNear /\ OwnShareOnly

\* A share of the time is not more than the time.
LEMMA ShareClamped ==
  ASSUME NEW d \in Int, NEW total \in Nat \ {0}, NEW s \in Nat, d <= s
  PROVE  /\ clampPercent((100 * d) \div total) \in Int
         /\ clampPercent((100 * d) \div total) * total <= 100 * s
<1> DEFINE x == 100 * d
           q == x \div total
           y == q * total
<1>1. x \in Int /\ q \in Int /\ y \in Int /\ y <= x
  OBVIOUS
<1>2. q > 100 => 100 * total <= y
  BY <1>1
<1>3. clampPercent(q) = (IF q < 0 THEN 0 ELSE IF q > 100 THEN 100 ELSE q)
  BY DEF clampPercent
<1>4. clampPercent(q) * total = (IF q < 0 THEN 0 ELSE IF q > 100 THEN 100 * total ELSE y) /\ clampPercent(q) \in Int
  <2>1. 0 * total = 0
    OBVIOUS
  <2> QED
    BY <1>1, <1>3, <2>1
<1> HIDE DEF y, q
<1>5. clampPercent(q) * total <= x \/ clampPercent(q) * total = 0
  BY <1>1, <1>2, <1>4
<1> QED
  BY <1>4, <1>5 DEF q, x

\* The list of two readings are charged with what the pids have spent.
LEMMA RowsOwn ==
  ASSUME NEW p, PidMap(p), NEW c, PidMap(c), NEW delta \in Int, NEW s \in [Pids -> Nat],
         \A q \in DOMAIN c \cap DOMAIN p : c[q] - p[q] <= s[q]
  PROVE  LET list == rankByCpu(computePercents(p, c, delta))
         IN  /\ \A i \in DOMAIN list : list[i].cpu * delta <= 100 * s[list[i].pid]
             /\ \A i, j \in DOMAIN list :
                  i < j => \/ list[i].cpu > list[j].cpu
                           \/ list[i].cpu = list[j].cpu /\ list[i].pid < list[j].pid
<1> DEFINE S == computePercents(p, c, delta)
           Q == DOMAIN c \cap DOMAIN p
           row(q) == [pid |-> q, cpu |-> clampPercent((100 * (c[q] - p[q])) \div delta)]
<1>1. S = {} \/ (S = {row(q) : q \in Q} /\ delta \in Nat \ {0})
  BY DEF computePercents
<1>2. IsFiniteSet(S)
  <2>1. IsFiniteSet(Q)
    BY BoundsAssumption, FS_Subset DEF PidMap
  <2>2. IsFiniteSet({row(q) : q \in Q})
    <3> HIDE DEF Q
    <3> DEFINE T == {row(q) : q \in Q}
               m == [q \in Q |-> row(q)]
    <3>1. m \in Surjection(Q, T)
      <4> HIDE DEF row
      <4> QED
        BY DEF Surjection
    <3> HIDE DEF m, T
    <3>2. IsFiniteSet(T)
      BY <2>1, <3>1, FS_Surjection
    <3> QED
      BY <3>2 DEF T
  <2> QED
    BY <1>1, <2>2, FS_EmptySet
<1>3. ASSUME NEW r \in S
      PROVE  r \in {row(q) : q \in Q} /\ r.pid \in Pids /\ r.cpu \in Int /\ r.cpu * delta <= 100 * s[r.pid]
  <2>1. delta \in Nat \ {0} /\ S = {row(q) : q \in Q}
    BY <1>1
  <2>2. PICK q \in Q : r = row(q)
    BY <2>1
  <2>3. q \in Pids /\ c[q] - p[q] \in Int /\ s[q] \in Nat /\ c[q] - p[q] <= s[q]
    BY DEF PidMap
  <2> DEFINE share == clampPercent((100 * (c[q] - p[q])) \div delta)
  <2>4. share \in Int /\ share * delta <= 100 * s[q]
    BY <2>1, <2>3, ShareClamped
  <2>5. r.pid = q /\ r.cpu = share
    BY <2>2
  <2> HIDE DEF share, S, Q
  <2> QED
    BY <2>1, <2>3, <2>4, <2>5
<1>4. \A r, t \in S : r.pid = t.pid => r = t
  BY <1>1
<1>5. \A r \in S : r.cpu \in Int /\ r.pid \in Int
  <2>1. Pids \subseteq Int
    BY BoundsAssumption
  <2> HIDE DEF S, row
  <2>2. \A r \in S : r.cpu \in Int /\ r.pid \in Pids
    BY <1>3
  <2> QED
    BY <2>1, <2>2
<1> DEFINE list == rankByCpu(S)
<1> HIDE DEF S
<1>6. /\ \A i \in DOMAIN list : list[i] \in S
      /\ \A i, j \in DOMAIN list :
           i < j => \/ list[i].cpu > list[j].cpu
                    \/ list[i].cpu = list[j].cpu /\ list[i].pid < list[j].pid
  BY <1>2, <1>4, <1>5, RankInOrder
<1> HIDE DEF list
<1>7. \A i \in DOMAIN list : list[i].cpu * delta <= 100 * s[list[i].pid]
  BY <1>3, <1>6
<1> QED
  BY <1>6, <1>7 DEF list, S

\* At first no process has been read.
LEMMA ProcInit == Init => ProcInv
<1> SUFFICES ASSUME Init PROVE ProcInv
  OBVIOUS
<1>1. ProcTypes
  BY DEF Init, ProcTypes, PidMap, Null
<1>2. SpentNear /\ OwnShareOnly
  BY DEF Init, SpentNear, OwnShareOnly
<1> QED
  BY <1>1, <1>2 DEF ProcInv

\* No step gives a pid more jiffies than it spends; a reused pid has fewer.
LEMMA ProcStep == ProcInv /\ [Next]_vars => ProcInv'
<1> SUFFICES ASSUME ProcInv, [Next]_vars PROVE ProcInv'
  OBVIOUS
<1> USE DEF ProcInv
<1>0. /\ jiffies \in [DOMAIN jiffies -> Nat] /\ DOMAIN jiffies \subseteq Pids
      /\ prevPids \in [DOMAIN prevPids -> Nat] /\ DOMAIN prevPids \subseteq Pids
      /\ spent \in [now : [Pids -> Nat], then : [Pids -> Nat], total : Int]
      /\ uptime \in Nat /\ totalDelta \in Int
  BY DEF ProcTypes, PidMap
<1>1. ASSUME NEW p \in Pids \cup {0}, Spend(p) PROVE ProcInv'
  <2>1. UNCHANGED <<prevAll, totalDelta, prevPids, top, pids>> /\ uptime' = uptime + 1
    BY <1>1 DEF Spend
  <2>2. CASE p = 0
    <3>1. UNCHANGED <<jiffies, spent>>
      BY <1>1, <2>2 DEF Spend
    <3> QED
      BY <1>0, <2>1, <3>1 DEF ProcTypes, SpentNear, OwnShareOnly, PidMap
  <2>3. CASE p # 0
    <3>1. p \in DOMAIN jiffies /\ jiffies' = [jiffies EXCEPT ![p] = @ + 1] /\ spent' = [spent EXCEPT !.now[p] = @ + 1]
      BY <1>1, <2>3 DEF Spend
    <3>2. ProcTypes'
      BY <1>0, <2>1, <3>1 DEF ProcTypes, PidMap
    <3>3. spent'.then = spent.then /\ spent'.total = spent.total
      BY <1>0, <3>1
    <3>4. \A q \in DOMAIN jiffies' \cap DOMAIN prevPids : jiffies'[q] - prevPids[q] <= spent'.now[q]
      <4> TAKE q \in DOMAIN jiffies' \cap DOMAIN prevPids
      <4>1. q \in DOMAIN jiffies \cap DOMAIN prevPids /\ q \in Pids
        BY <1>0, <3>1
      <4>2. jiffies[q] - prevPids[q] <= spent.now[q] /\ jiffies[q] \in Nat /\ prevPids[q] \in Nat /\ spent.now[q] \in Nat
        BY <1>0, <4>1 DEF SpentNear
      <4>3. /\ jiffies'[q] = jiffies[q] + (IF q = p THEN 1 ELSE 0)
            /\ spent'.now[q] = spent.now[q] + (IF q = p THEN 1 ELSE 0)
        BY <1>0, <3>1, <4>1
      <4> QED
        BY <4>2, <4>3
    <3> QED
      BY <2>1, <3>2, <3>3, <3>4 DEF SpentNear, OwnShareOnly
  <2> QED
    BY <2>2, <2>3
<1>2. ASSUME NEW p \in Pids, Fork(p) PROVE ProcInv'
  <2>1. UNCHANGED <<uptime, prevAll, totalDelta, prevPids, top, pids, spent>>
    BY <1>2 DEF Fork
  <2>2. /\ DOMAIN jiffies' \subseteq Pids
        /\ \A q \in DOMAIN jiffies' : (q \in DOMAIN jiffies /\ jiffies'[q] = jiffies[q]) \/ jiffies'[q] = 0
        /\ jiffies' \in [DOMAIN jiffies' -> Nat]
    BY <1>0, <1>2 DEF Fork
  <2>3. ProcTypes'
    BY <1>0, <2>1, <2>2 DEF ProcTypes, PidMap
  <2>4. SpentNear'
    <3> SUFFICES ASSUME NEW q \in DOMAIN jiffies' \cap DOMAIN prevPids
                 PROVE  jiffies'[q] - prevPids[q] <= spent.now[q]
      BY <2>1 DEF SpentNear
    <3>1. prevPids[q] \in Nat /\ spent.now[q] \in Nat
      BY <1>0
    <3> QED
      BY <2>2, <3>1 DEF SpentNear
  <2> QED
    BY <2>1, <2>3, <2>4 DEF OwnShareOnly
<1>3. ASSUME NEW ok \in BOOLEAN, SampleTotal(ok) PROVE ProcInv'
  <2>1. UNCHANGED <<jiffies, uptime, prevPids, top, spent>>
    BY <1>3 DEF SampleTotal
  <2>2. totalDelta' \in Int /\ (prevAll' = Null \/ \E n \in Nat : prevAll' = <<n>>)
    BY <1>0, <1>3 DEF SampleTotal, ProcTypes
  <2> QED
    BY <1>0, <2>1, <2>2 DEF ProcTypes, SpentNear, OwnShareOnly, PidMap
<1>4. ASSUME NEW readable \in SUBSET Pids, SamplePids(readable) PROVE ProcInv'
  <2> DEFINE cur == [q \in readable |-> jiffies[q]]
             none == [q \in Pids |-> 0]
  <2>1. /\ readable \subseteq DOMAIN jiffies
        /\ top' = rankByCpu(computePercents(prevPids, cur, totalDelta))
        /\ prevPids' = cur
        /\ spent' = [now |-> none, then |-> spent.now, total |-> totalDelta]
        /\ UNCHANGED <<jiffies, uptime, prevAll, totalDelta>>
    BY <1>4 DEF SamplePids
  <2>2. PidMap(cur) /\ PidMap(prevPids) /\ spent.now \in [Pids -> Nat] /\ none \in [Pids -> Nat]
    BY <1>0, <2>1 DEF PidMap
  <2>3. \A q \in DOMAIN cur \cap DOMAIN prevPids : cur[q] - prevPids[q] <= spent.now[q]
    BY <2>1 DEF SpentNear
  <2>4. \A q \in DOMAIN jiffies \cap DOMAIN cur : jiffies[q] - cur[q] <= none[q]
    BY <1>0
  <2> HIDE DEF cur, none
  <2>5. OwnShareOnly'
    <3> DEFINE list == rankByCpu(computePercents(prevPids, cur, totalDelta))
               s == spent.now
    <3>1. /\ \A i \in DOMAIN list : list[i].cpu * totalDelta <= 100 * s[list[i].pid]
          /\ \A i, j \in DOMAIN list :
               i < j => \/ list[i].cpu > list[j].cpu
                        \/ list[i].cpu = list[j].cpu /\ list[i].pid < list[j].pid
      BY <1>0, <2>2, <2>3, RowsOwn
    <3>2. top' = list /\ spent'.total = totalDelta /\ spent'.then = s
      BY <2>1
    <3> HIDE DEF list, s
    <3> QED
      BY <3>1, <3>2 DEF OwnShareOnly
  <2>6. ProcTypes'
    BY <1>0, <2>1, <2>2 DEF ProcTypes, PidMap
  <2>7. SpentNear'
    BY <2>1, <2>4 DEF SpentNear
  <2> QED
    BY <2>5, <2>6, <2>7
<1>5. CASE Close
  <2>1. /\ prevPids' = Null /\ prevAll' = Null /\ top' = <<>>
        /\ UNCHANGED <<jiffies, uptime, totalDelta, pids, spent>>
    BY <1>5 DEF Close
  <2> QED
    BY <1>0, <2>1 DEF ProcTypes, SpentNear, OwnShareOnly, PidMap, Null
<1>6. CASE UNCHANGED procVars
  BY <1>6 DEF procVars, ProcTypes, SpentNear, OwnShareOnly, PidMap
<1>7. [Next]_vars => \/ \E p \in Pids \cup {0} : Spend(p)
                     \/ \E p \in Pids : Fork(p)
                     \/ \E ok \in BOOLEAN : SampleTotal(ok)
                     \/ \E s \in SUBSET Pids : SamplePids(s)
                     \/ Close
                     \/ UNCHANGED procVars
  BY DEF Next, vars, Run, Hotplug, SampleCpu, SampleIo, Transfer, Plug, SetActive, OnlyCpu, OnlyDisk
<1> QED
  BY <1>1, <1>2, <1>3, <1>4, <1>5, <1>6, <1>7

-----------------------------------------------------------------------------
(***************************************************************************)
(* The theorems.                                                           *)
(***************************************************************************)

\* Whatever reads fail and cores go on- and offline, the CPU rings show the
\* busy shares between the last two good reads of /proc/stat.
THEOREM CpuUsageExactHolds == Spec => []CpuUsageExact
<1>1. Spec => []CpuInv
  BY CpuInit, CpuStep, PTL DEF Spec
<1> QED
  BY <1>1, CpuExact, PTL

\* Whatever disks are plugged, reads fail and pauses happen, the disk ring shows
\* at most what the disks moved since the previous good read, on a scale that
\* some window reached.
THEOREM NoSpuriousBurstHolds == Spec => []NoSpuriousBurst
<1>1. Spec => []DiskInv
  BY DiskInit, DiskStep, PTL DEF Spec
<1> QED
  BY <1>1, DiskReal, PTL

\* Whatever pids are reused and reads fail, a row of the process tooltip is
\* charged with time of its own pid, and the rows are ordered.
THEOREM OwnShareOnlyHolds == Spec => []OwnShareOnly
<1>1. Spec => []ProcInv
  BY ProcInit, ProcStep, PTL DEF Spec
<1>2. ProcInv => OwnShareOnly
  BY DEF ProcInv
<1> QED
  BY <1>1, <1>2, PTL

-----------------------------------------------------------------------------
(***************************************************************************)
(* MetricStrip: lists without repetition.                                  *)
(***************************************************************************)

\* The metrics the catalog or the code names.
Names == Ids \cup {"cpu", "ram", "gpu", "cpuTemp", "gpuTemp"}

\* A list of names, each at most once.
IdList(s) == s \in Seq(Names) /\ IsInjective(s)

LEMMA NamedList ==
  ASSUME NEW s \in Seq(STRING), ToSet(s) \subseteq Ids
  PROVE  s \in Seq(Names)
<1>1. Len(s) \in Nat /\ s \in [1 .. Len(s) -> STRING] /\ DOMAIN s = 1 .. Len(s)
  BY LenProperties
<1>2. \A i \in 1 .. Len(s) : s[i] \in Names
  BY <1>1 DEF Names, ToSet
<1> HIDE DEF Names
<1>3. s \in [1 .. Len(s) -> Names]
  BY <1>1, <1>2
<1> QED
  BY <1>1, <1>3, SeqDef

LEMMA NoNames == IdList(<<>>) /\ ToSet(<<>>) = {}
  BY DEF IdList, IsInjective, ToSet

LEMMA OnList == \A s, x : x \in ToSet(s) <=> \E i \in DOMAIN s : s[i] = x
  BY DEF ToSet

LEMMA IdsOf ==
  ASSUME NEW s
  PROVE  IdList(s) <=> /\ s \in Seq(Names) /\ Len(s) \in Nat /\ DOMAIN s = 1 .. Len(s)
                       /\ \A i, j \in 1 .. Len(s) : s[i] = s[j] => i = j
<1>1. s \in Seq(Names) => Len(s) \in Nat /\ DOMAIN s = 1 .. Len(s)
  BY LenProperties
<1> QED
  BY <1>1 DEF IdList, IsInjective

\* A name that is not on it goes to the end of a list.
LEMMA NameAppended ==
  ASSUME NEW s, IdList(s), NEW x \in Names, x \notin ToSet(s)
  PROVE  IdList(Append(s, x)) /\ ToSet(Append(s, x)) = ToSet(s) \cup {x}
<1> DEFINE n == Len(s)
           t == Append(s, x)
<1>1. n \in Nat /\ DOMAIN s = 1 .. n /\ s \in Seq(Names) /\ \A i, j \in 1 .. n : s[i] = s[j] => i = j
  BY IdsOf
<1>2. t \in Seq(Names) /\ Len(t) = n + 1 /\ (\A i \in 1 .. n : t[i] = s[i]) /\ t[n + 1] = x
  <2>1. /\ Append(s, x) \in Seq(Names)
        /\ Append(s, x) # <<>>
        /\ Len(Append(s, x)) = Len(s) + 1
        /\ \A i \in 1 .. Len(s) : Append(s, x)[i] = s[i]
        /\ Append(s, x)[Len(s) + 1] = x
    <3>1. s \in Seq(Names)
      BY <1>1
    <3> HIDE <1>1
    <3> QED
      BY <3>1, AppendProperties
  <2> QED
    BY <2>1
<1>3. DOMAIN t = 1 .. n + 1
  BY <1>2, LenProperties
<1>4. \A i \in 1 .. n : s[i] # x
  BY <1>1, OnList
<1> HIDE DEF t, n
<1>5. \A i : i \in 1 .. n + 1 <=> i \in 1 .. n \/ i = n + 1
  BY <1>1
<1>6. \A i, j \in 1 .. n + 1 : t[i] = t[j] => i = j
  BY <1>1, <1>2, <1>4, <1>5
<1>7. \A y : y \in ToSet(t) <=> y \in ToSet(s) \/ y = x
  <2> TAKE y
  <2>1. y \in ToSet(t) <=> \E i \in 1 .. n + 1 : t[i] = y
    BY <1>3, OnList
  <2>2. y \in ToSet(s) <=> \E i \in 1 .. n : s[i] = y
    BY <1>1, OnList
  <2> QED
    BY <1>2, <1>5, <2>1, <2>2
<1>8. ToSet(t) = ToSet(s) \cup {x}
  BY <1>7
<1>9. IdList(t)
  BY <1>1, <1>2, <1>3, <1>6, IdsOf
<1> QED
  BY <1>8, <1>9 DEF t

\* The loop that fills a list, as far as n.
IsLoop(out, s, S, n) ==
  out = [k \in 0 .. n |-> IF k = 0 THEN <<>> ELSE IF s[k] \in S THEN Append(out[k - 1], s[k]) ELSE out[k - 1]]

LEMMA LoopRuns == ASSUME NEW s, NEW S, NEW n \in Nat PROVE \E out : IsLoop(out, s, S, n)
<1> DEFINE V == {s[k] : k \in 1 .. n}
           X == Seq(V)
           next(k, x) == IF s[k] \in S THEN Append(x, s[k]) ELSE x
           g == [e \in (1 .. n) \X X |-> next(e[1], e[2])]
<1>1. \A k \in 1 .. n, x \in X : next(k, x) \in X
  <2>1. \A k \in 1 .. n : s[k] \in V
    OBVIOUS
  <2> HIDE DEF V
  <2> QED
    BY <2>1
<1>2. <<>> \in X
  OBVIOUS
<1> HIDE DEF next, X
<1>3. IsTurn(g, n, X)
  BY <1>1 DEF IsTurn
<1>4. \A k \in 1 .. n, x \in X : g[<<k, x>>] = next(k, x)
  OBVIOUS
<1> HIDE DEF g
<1>5. PICK out : IsRun(out, n, X, <<>>, g)
  BY <1>2, <1>3, LoopExists, Zenon
<1>6. out \in [0 .. n -> X] /\ out[0] = <<>> /\ \A k \in 1 .. n : out[k] = g[<<k, out[k - 1]>>]
  BY <1>5 DEF IsRun
<1>7. \A k \in 0 .. n : out[k] = IF k = 0 THEN <<>> ELSE next(k, out[k - 1])
  <2> TAKE k \in 0 .. n
  <2>1. k = 0 \/ (k \in 1 .. n /\ k # 0 /\ k - 1 \in 0 .. n)
    OBVIOUS
  <2> QED
    BY <1>4, <1>6, <2>1
<1>8. IsLoop(out, s, S, n)
  BY <1>6, <1>7 DEF IsLoop, next
<1> QED
  BY <1>8

\* What is kept of a list is on it and in S, in a list of its own.
LEMMA Kept ==
  ASSUME NEW s, IdList(s), NEW S
  PROVE  IdList(Keep(s, S)) /\ ToSet(Keep(s, S)) = ToSet(s) \cap S
<1> DEFINE n == Len(s)
           out == CHOOSE o : IsLoop(o, s, S, n)
<1>1. n \in Nat /\ DOMAIN s = 1 .. n /\ (\A i \in 1 .. n : s[i] \in Names)
      /\ \A i, j \in 1 .. n : s[i] = s[j] => i = j
  BY DEF IdList, IsInjective
<1>2. IsLoop(out, s, S, n)
  BY <1>1, LoopRuns
<1>3. Keep(s, S) = out[n]
  BY Zenon DEF Keep, IsLoop
<1> HIDE DEF out
<1>4. \A k \in 0 .. n : out[k] = IF k = 0 THEN <<>> ELSE IF s[k] \in S THEN Append(out[k - 1], s[k]) ELSE out[k - 1]
  BY <1>2 DEF IsLoop
<1> HIDE DEF n
<1> DEFINE seen(k) == {s[i] : i \in 1 .. k}
           T == {k \in 0 .. n : IdList(out[k]) /\ ToSet(out[k]) = seen(k) \cap S}
<1>5. 0 \in T
  <2>1. out[0] = <<>> /\ seen(0) = {}
    BY <1>1, <1>4
  <2> HIDE DEF seen
  <2> QED
    BY <1>1, <2>1, NoNames
<1>6. ASSUME NEW k \in Nat, k < n, k \in T PROVE k + 1 \in T
  <2>1. k + 1 \in 1 .. n /\ k + 1 \in 0 .. n /\ (k + 1) - 1 = k /\ k + 1 # 0
    BY <1>1, <1>6
  <2>2. out[k + 1] = IF s[k + 1] \in S THEN Append(out[k], s[k + 1]) ELSE out[k]
    BY <1>4, <2>1
  <2>3. seen(k + 1) = seen(k) \cup {s[k + 1]}
    <3>1. 1 .. k + 1 = 1 .. k \cup {k + 1}
      BY <1>6
    <3> QED
      BY <3>1
  <2>4. s[k + 1] \notin seen(k)
    <3>1. \A i \in 1 .. k : i \in 1 .. n /\ i # k + 1
      BY <1>1, <1>6
    <3> QED
      BY <1>1, <2>1, <3>1
  <2>5. IdList(out[k]) /\ ToSet(out[k]) = seen(k) \cap S
    BY <1>6
  <2> HIDE DEF seen
  <2>6. CASE s[k + 1] \in S
    <3>1. IdList(Append(out[k], s[k + 1])) /\ ToSet(Append(out[k], s[k + 1])) = ToSet(out[k]) \cup {s[k + 1]}
      BY <1>1, <2>1, <2>4, <2>5, NameAppended
    <3> QED
      BY <2>1, <2>2, <2>3, <2>5, <2>6, <3>1
  <2>7. CASE s[k + 1] \notin S
    BY <2>1, <2>2, <2>3, <2>5, <2>7
  <2> QED
    BY <2>6, <2>7
<1> HIDE DEF T
<1>7. n \in T
  BY <1>1, <1>5, <1>6, CountUp
<1>8. seen(n) = ToSet(s)
  BY <1>1 DEF ToSet, n
<1> QED
  BY <1>3, <1>7, <1>8 DEF T

LEMMA NothingKept == ASSUME NEW s, IdList(s), ToSet(s) = {} PROVE s = <<>>
<1>1. s \in Seq(Names) /\ Len(s) \in Nat /\ DOMAIN s = 1 .. Len(s)
  BY DEF IdList
<1>2. 1 \notin DOMAIN s
  BY DEF ToSet
<1>3. Len(s) = 0
  BY <1>1, <1>2
<1> QED
  BY <1>1, <1>3, EmptySeq

\* Two lists that share no name make one.
LEMMA ListsJoined ==
  ASSUME NEW s, IdList(s), NEW t, IdList(t), ToSet(s) \cap ToSet(t) = {}
  PROVE  IdList(s \o t) /\ ToSet(s \o t) = ToSet(s) \cup ToSet(t)
<1> DEFINE n == Len(s)
           m == Len(t)
           u == s \o t
<1>1. /\ n \in Nat /\ m \in Nat /\ DOMAIN s = 1 .. n /\ DOMAIN t = 1 .. m
      /\ s \in Seq(Names) /\ t \in Seq(Names)
      /\ \A i, j \in 1 .. n : s[i] = s[j] => i = j
      /\ \A i, j \in 1 .. m : t[i] = t[j] => i = j
  BY DEF IdList, IsInjective
<1>2. /\ u \in Seq(Names) /\ DOMAIN u = 1 .. n + m
      /\ \A i \in 1 .. n + m : u[i] = IF i <= n THEN s[i] ELSE t[i - n]
  BY <1>1, ConcatProperties
<1>3. \A i \in 1 .. n, j \in 1 .. m : s[i] # t[j]
  BY <1>1, OnList
<1> HIDE DEF u, n, m
<1>4. \A i \in 1 .. n + m : (i \in 1 .. n /\ u[i] = s[i]) \/ (i - n \in 1 .. m /\ u[i] = t[i - n])
  BY <1>1, <1>2
<1>5. \A i, j \in 1 .. n + m : u[i] = u[j] => i = j
  <2> TAKE i, j \in 1 .. n + m
  <2>1. i - n = j - n => i = j
    BY <1>1
  <2> QED
    BY <1>1, <1>3, <1>4, <2>1
<1>6. \A i \in 1 .. n : i \in 1 .. n + m /\ u[i] = s[i]
  BY <1>1, <1>2
<1>7. \A j \in 1 .. m : j + n \in 1 .. n + m /\ u[j + n] = t[j]
  <2> TAKE j \in 1 .. m
  <2>1. j + n \in 1 .. n + m /\ ~(j + n <= n) /\ (j + n) - n = j
    BY <1>1
  <2> QED
    BY <1>2, <2>1
<1>8. \A y : y \in ToSet(u) <=> y \in ToSet(s) \/ y \in ToSet(t)
  BY <1>1, <1>2, <1>4, <1>6, <1>7, OnList
<1>9. ToSet(u) = ToSet(s) \cup ToSet(t)
  BY <1>8
<1> QED
  BY <1>2, <1>5, <1>9 DEF IdList, IsInjective, u


LEMMA NothingKeptIs == ASSUME NEW s, IdList(s), NEW S, ToSet(s) \cap S = {} PROVE Keep(s, S) = <<>>
BY Kept, NothingKept

LEMMA CatalogList == IdList(METRIC_IDS) /\ ToSet(METRIC_IDS) = Ids
BY CatalogAssumption, NamedList DEF IdList, Ids

\* Completing an order gives every metric once, and a complete one stays as it is.
LEMMA OrderCompleted ==
  ASSUME NEW ids, IdList(ids), ToSet(ids) \subseteq Ids
  PROVE  /\ IdList(mergeWithCatalog(ids)) /\ ToSet(mergeWithCatalog(ids)) = Ids
         /\ ToSet(ids) = Ids => mergeWithCatalog(ids) = ids
<1> DEFINE rest == Keep(METRIC_IDS, Ids \ ToSet(ids))
<1>1. IdList(rest) /\ ToSet(rest) = Ids \ ToSet(ids)
  <2>1. Ids \cap (Ids \ ToSet(ids)) = Ids \ ToSet(ids)
    OBVIOUS
  <2> QED
    BY <2>1, CatalogList, Kept
<1>2. mergeWithCatalog(ids) = ids \o rest
  BY DEF mergeWithCatalog
<1> HIDE DEF rest
<1>3. IdList(ids \o rest) /\ ToSet(ids \o rest) = ToSet(ids) \cup ToSet(rest)
  BY <1>1, ListsJoined
<1>4. ASSUME ToSet(ids) = Ids PROVE ids \o rest = ids
  <2>1. rest = <<>>
    BY <1>1, <1>4, NothingKept
  <2>2. ids \in Seq(Names)
    BY DEF IdList
  <2> QED
    BY <2>1, <2>2, ConcatEmptySeq
<1> QED
  BY <1>1, <1>2, <1>3, <1>4

\* Switching a metric on or off in a list leaves a list.
LEMMA Toggled ==
  ASSUME NEW ids, IdList(ids), NEW id \in Names, NEW on
  PROVE  IdList(toggleEnabled(ids, id, on))
<1> DEFINE others == Keep(ids, ToSet(ids) \ {id})
<1>1. IdList(others) /\ id \notin ToSet(others)
  <2>1. IdList(others) /\ ToSet(others) = ToSet(ids) \cap (ToSet(ids) \ {id})
    BY Kept
  <2> HIDE DEF others
  <2> QED
    BY <2>1
<1> HIDE DEF others
<1>2. IdList(Append(others, id))
  BY <1>1, NameAppended
<1> QED
  BY <1>1, <1>2 DEF toggleEnabled, others

-----------------------------------------------------------------------------
(* Each name on a list counts once. *)
LEMMA CountsOnce ==
  ASSUME NEW s, IdList(s), NEW x
  PROVE  Count(s, x) = IF x \in ToSet(s) THEN 1 ELSE 0
<1> DEFINE at == {i \in DOMAIN s : s[i] = x}
<1>1. \A i, j \in DOMAIN s : s[i] = s[j] => i = j
  BY DEF IdList, IsInjective
<1>2. CASE x \in ToSet(s)
  <2>1. PICK i \in DOMAIN s : s[i] = x
    BY <1>2, OnList
  <2>2. at = {i}
    BY <1>1, <2>1
  <2> HIDE DEF at
  <2> QED
    BY <1>2, <2>2, FS_Singleton DEF Count, at
<1>3. CASE x \notin ToSet(s)
  <2>1. at = {}
    BY <1>3, OnList
  <2> HIDE DEF at
  <2> QED
    BY <1>3, <2>1, FS_EmptySet DEF Count, at
<1> QED
  BY <1>2, <1>3

-----------------------------------------------------------------------------
(* A move. *)

\* The row that is at k after a move, and the place the row i goes to.
cameFrom(k, from, to) ==
  IF k = to THEN from
  ELSE IF k < to THEN IF k < from THEN k ELSE k + 1
  ELSE IF k - 1 < from THEN k - 1 ELSE k
wentTo(i, from, to) ==
  IF i = from THEN to
  ELSE IF from < i /\ i <= to THEN i - 1
  ELSE IF to <= i /\ i < from THEN i + 1 ELSE i

LEMMA PlacesMatch ==
  ASSUME NEW n \in Nat, NEW from \in 1 .. n, NEW to \in 1 .. n
  PROVE  /\ \A k \in 1 .. n : cameFrom(k, from, to) \in 1 .. n /\ wentTo(cameFrom(k, from, to), from, to) = k
         /\ \A i \in 1 .. n : wentTo(i, from, to) \in 1 .. n /\ cameFrom(wentTo(i, from, to), from, to) = i
BY DEF cameFrom, wentTo

\* What splicing a row out and in again gives.
LEMMA RowMoved ==
  ASSUME NEW arr \in Seq(Names), NEW n \in Nat, n = Len(arr), NEW from \in 1 .. n, NEW to \in 1 .. n
  PROVE  /\ applyMove(arr, from, to) \in Seq(Names)
         /\ Len(applyMove(arr, from, to)) = n
         /\ \A k \in 1 .. n : applyMove(arr, from, to)[k] = arr[cameFrom(k, from, to)]
<1> DEFINE p == SubSeq(arr, 1, from - 1)
           q == SubSeq(arr, from + 1, n)
           r == p \o q
           e == <<arr[from]>>
           u == SubSeq(r, 1, to - 1)
           v == SubSeq(r, to, n - 1)
           w == u \o e
           m == w \o v
<1>1. \A i \in 1 .. n : arr[i] \in Names
  BY LenProperties
<1>2. p \in Seq(Names) /\ Len(p) = from - 1 /\ \A i \in 1 .. from - 1 : p[i] = arr[i]
  <2>1. \A i \in 1 .. from - 1 : arr[i] \in Names
    BY <1>1
  <2>2. /\ SubSeq(arr, 1, from - 1) \in Seq(Names)
        /\ Len(SubSeq(arr, 1, from - 1)) = IF 1 <= from - 1 THEN (from - 1) - 1 + 1 ELSE 0
        /\ \A i \in 1 .. (from - 1) - 1 + 1 : SubSeq(arr, 1, from - 1)[i] = arr[1 + i - 1]
    BY <2>1, SubSeqProperties
  <2> QED
    BY <2>2
<1>3. q \in Seq(Names) /\ Len(q) = n - from /\ \A i \in 1 .. n - from : q[i] = arr[i + from]
  <2>1. \A i \in from + 1 .. n : arr[i] \in Names
    BY <1>1
  <2>2. /\ SubSeq(arr, from + 1, n) \in Seq(Names)
        /\ Len(SubSeq(arr, from + 1, n)) = IF from + 1 <= n THEN n - (from + 1) + 1 ELSE 0
        /\ \A i \in 1 .. n - (from + 1) + 1 : SubSeq(arr, from + 1, n)[i] = arr[from + 1 + i - 1]
    BY <2>1, SubSeqProperties
  <2> QED
    BY <2>2
<1> HIDE DEF p, q
<1>4. /\ r \in Seq(Names) /\ Len(r) = n - 1
      /\ \A k \in 1 .. n - 1 : r[k] = IF k < from THEN arr[k] ELSE arr[k + 1]
  <2>1. /\ r \in Seq(Names) /\ Len(r) = Len(p) + Len(q)
        /\ \A k \in 1 .. Len(p) + Len(q) : r[k] = IF k <= Len(p) THEN p[k] ELSE q[k - Len(p)]
    BY <1>2, <1>3, ConcatProperties
  <2>2. Len(p) + Len(q) = n - 1 /\ \A k \in Int : k <= Len(p) <=> k < from
    BY <1>2, <1>3
  <2> HIDE DEF r
  <2>3. ASSUME NEW k \in 1 .. n - 1 PROVE r[k] = IF k < from THEN arr[k] ELSE arr[k + 1]
    <3>1. CASE k < from
      <4>1. k \in 1 .. from - 1 /\ k <= Len(p)
        BY <2>2, <3>1
      <4> QED
        BY <1>2, <2>1, <2>2, <3>1, <4>1
    <3>2. CASE ~(k < from)
      <4>1. k - (from - 1) \in 1 .. n - from /\ k - (from - 1) + from = k + 1 /\ ~(k <= Len(p))
        BY <2>2, <3>2
      <4>2. r[k] = q[k - (from - 1)]
        BY <1>2, <2>1, <2>2, <4>1
      <4>3. q[k - (from - 1)] = arr[k - (from - 1) + from]
        BY <1>3, <4>1
      <4> QED
        BY <3>2, <4>1, <4>2, <4>3
    <3> QED
      BY <3>1, <3>2
  <2> QED
    BY <2>1, <2>2, <2>3
<1>5. RemoveAt(arr, from) = r
  BY Zenon DEF RemoveAt, r, p, q
<1> HIDE DEF r
<1>6. \A k \in 1 .. n - 1 : r[k] \in Names
  BY <1>1, <1>4
<1>7. u \in Seq(Names) /\ Len(u) = to - 1 /\ \A i \in 1 .. to - 1 : u[i] = r[i]
  <2>1. \A i \in 1 .. to - 1 : r[i] \in Names
    BY <1>6
  <2>2. /\ SubSeq(r, 1, to - 1) \in Seq(Names)
        /\ Len(SubSeq(r, 1, to - 1)) = IF 1 <= to - 1 THEN (to - 1) - 1 + 1 ELSE 0
        /\ \A i \in 1 .. (to - 1) - 1 + 1 : SubSeq(r, 1, to - 1)[i] = r[1 + i - 1]
    BY <2>1, SubSeqProperties
  <2> QED
    BY <2>2
<1>8. v \in Seq(Names) /\ Len(v) = n - to /\ \A i \in 1 .. n - to : v[i] = r[to + i - 1]
  <2>1. \A i \in to .. n - 1 : r[i] \in Names
    BY <1>6
  <2>2. /\ SubSeq(r, to, n - 1) \in Seq(Names)
        /\ Len(SubSeq(r, to, n - 1)) = IF to <= n - 1 THEN (n - 1) - to + 1 ELSE 0
        /\ \A i \in 1 .. (n - 1) - to + 1 : SubSeq(r, to, n - 1)[i] = r[to + i - 1]
    BY <2>1, SubSeqProperties
  <2> QED
    BY <2>2
<1>9. e \in Seq(Names) /\ Len(e) = 1 /\ e[1] = arr[from]
  BY <1>1
<1> HIDE DEF u, v, e
<1>10. /\ w \in Seq(Names) /\ Len(w) = to
       /\ \A k \in 1 .. to : w[k] = IF k < to THEN r[k] ELSE arr[from]
  <2>1. /\ w \in Seq(Names) /\ Len(w) = Len(u) + Len(e)
        /\ \A k \in 1 .. Len(u) + Len(e) : w[k] = IF k <= Len(u) THEN u[k] ELSE e[k - Len(u)]
    BY <1>7, <1>9, ConcatProperties
  <2> HIDE DEF w
  <2>2. Len(u) + Len(e) = to /\ \A k \in 1 .. to : (k <= Len(u) <=> k < to) /\ (k < to => k \in 1 .. to - 1)
                                                   /\ (~(k < to) => k - Len(u) = 1)
    BY <1>7, <1>9
  <2> QED
    BY <1>7, <1>9, <2>1, <2>2
<1> HIDE DEF w
<1>11. /\ m \in Seq(Names) /\ Len(m) = n
       /\ \A k \in 1 .. n : m[k] = IF k < to THEN r[k] ELSE IF k = to THEN arr[from] ELSE r[k - 1]
  <2>1. /\ m \in Seq(Names) /\ Len(m) = Len(w) + Len(v)
        /\ \A k \in 1 .. Len(w) + Len(v) : m[k] = IF k <= Len(w) THEN w[k] ELSE v[k - Len(w)]
    BY <1>8, <1>10, ConcatProperties
  <2> HIDE DEF m
  <2>2. Len(w) = to /\ Len(w) + Len(v) = n
    BY <1>8, <1>10
  <2>3. ASSUME NEW k \in 1 .. n PROVE m[k] = IF k < to THEN r[k] ELSE IF k = to THEN arr[from] ELSE r[k - 1]
    <3>1. CASE k <= to
      <4>1. k \in 1 .. to /\ (~(k < to) => k = to) /\ (k < to => k # to)
        BY <3>1
      <4>2. m[k] = w[k]
        BY <2>1, <2>2, <3>1
      <4> QED
        BY <1>10, <4>1, <4>2
    <3>2. CASE ~(k <= to)
      <4>1. k - to \in 1 .. n - to /\ to + (k - to) - 1 = k - 1 /\ ~(k < to) /\ k # to
        BY <3>2
      <4>2. m[k] = v[k - to]
        BY <2>1, <2>2, <3>2
      <4>3. v[k - to] = r[to + (k - to) - 1]
        BY <1>8, <4>1
      <4> QED
        BY <4>1, <4>2, <4>3
    <3> QED
      BY <3>1, <3>2
  <2> QED
    BY <2>1, <2>2, <2>3
<1>12. applyMove(arr, from, to) = m
  <2>1. applyMove(arr, from, to) = InsertAt(r, to, arr[from])
    BY <1>5, Zenon DEF applyMove
  <2>2. InsertAt(r, to, arr[from]) = SubSeq(r, 1, to - 1) \o <<arr[from]>> \o SubSeq(r, to, n - 1)
    BY <1>4, Zenon DEF InsertAt
  <2> QED
    BY <2>1, <2>2, Zenon DEF m, w, u, v, e
<1> HIDE DEF m
<1>13. ASSUME NEW k \in 1 .. n PROVE m[k] = arr[cameFrom(k, from, to)]
  <2>1. CASE k < to
    <3>1. k \in 1 .. n - 1 /\ k # to
      BY <2>1
    <3>2. m[k] = r[k] /\ r[k] = IF k < from THEN arr[k] ELSE arr[k + 1]
      BY <1>4, <1>11, <2>1, <3>1
    <3> QED
      BY <2>1, <3>1, <3>2 DEF cameFrom
  <2>2. CASE k = to
    <3>1. ~(k < to)
      BY <2>2
    <3> QED
      BY <1>11, <2>2, <3>1 DEF cameFrom
  <2>3. CASE k > to
    <3>1. k - 1 \in 1 .. n - 1 /\ k # to /\ ~(k < to) /\ (k - 1) + 1 = k
      BY <2>3
    <3>2. m[k] = r[k - 1] /\ r[k - 1] = IF k - 1 < from THEN arr[k - 1] ELSE arr[k]
      BY <1>4, <1>11, <3>1
    <3> QED
      BY <3>1, <3>2 DEF cameFrom
  <2> QED
    BY <2>1, <2>2, <2>3
<1> QED
  BY <1>11, <1>12, <1>13

-----------------------------------------------------------------------------
(* Tops. *)
Tall(seq) == [j \in 1 .. Len(seq) |-> Height[seq[j]] + Spacing]

\* The next row starts where this one ends.
LEMMA TopSteps ==
  ASSUME NEW seq, Len(seq) \in Nat, \A j \in 1 .. Len(seq) : Height[seq[j]] + Spacing \in Int
  PROVE  /\ Top(seq, 1) = 0
         /\ \A k \in 1 .. Len(seq) : Top(seq, k + 1) = Top(seq, k) + (Height[seq[k]] + Spacing)
         /\ \A k \in 1 .. Len(seq) + 1 : Top(seq, k) \in Int
<1> DEFINE n == Len(seq)
<1>0. PICK h : h = Tall(seq)
  OBVIOUS
<1>1. \A k : Top(seq, k) = SumOn(h, 1 .. (k - 1))
  BY <1>0, Zenon DEF Top, SumOn, Tall
<1>2. IsFiniteSet(1 .. n)
  <2>1. 1 \in Int /\ Len(seq) \in Int
    OBVIOUS
  <2> QED
    BY <2>1, FS_Interval
<1>3. \A j \in 1 .. n : h[j] = Height[seq[j]] + Spacing /\ h[j] \in Int
  BY <1>0 DEF Tall
<1> HIDE DEF n
<1>4. n \in Nat /\ n = Len(seq)
  BY DEF n
<1>5. \A T \in SUBSET (1 .. n) : SumOn(h, T) \in Int
  BY <1>2, <1>3, SumType
<1>6. \A T \in SUBSET (1 .. n) : \A x \in T : SumOn(h, T) = h[x] + SumOn(h, T \ {x})
  <2> DEFINE D == 1 .. n
  <2>1. IsFiniteSet(D) /\ \A j \in D : h[j] \in Int
    BY <1>2, <1>3
  <2> HIDE DEF D
  <2>2. \A T \in SUBSET D : \A x \in T : SumOn(h, T) = h[x] + SumOn(h, T \ {x})
    <3>1. ASSUME NEW T \in SUBSET D, NEW x \in T PROVE SumOn(h, T) = h[x] + SumOn(h, T \ {x})
      BY <2>1, SumRemove
    <3> QED
      BY <3>1, Zenon
  <2> QED
    BY <2>2 DEF D
<1>7. Top(seq, 1) = 0
  <2>1. 1 .. (1 - 1) = {}
    OBVIOUS
  <2>2. SumOn(h, {}) = 0
    BY SumSteps, FS_EmptySet
  <2> QED
    BY <1>1, <2>1, <2>2
<1>8. ASSUME NEW k \in 1 .. n PROVE Top(seq, k + 1) = Top(seq, k) + h[k]
  <2>1. 1 .. k \in SUBSET (1 .. n) /\ k \in 1 .. k /\ 1 .. k \ {k} = 1 .. (k - 1) /\ 1 .. ((k + 1) - 1) = 1 .. k
        /\ 1 .. (k - 1) \in SUBSET (1 .. n)
    BY <1>4
  <2>2. SumOn(h, 1 .. k) = h[k] + SumOn(h, 1 .. k \ {k})
    BY <1>6, <2>1
  <2>3. h[k] \in Int /\ SumOn(h, 1 .. (k - 1)) \in Int
    BY <1>3, <1>5, <2>1
  <2>4. Top(seq, k + 1) = SumOn(h, 1 .. k) /\ Top(seq, k) = SumOn(h, 1 .. (k - 1))
    BY <1>1, <2>1
  <2> QED
    <3>1. SumOn(h, 1 .. k) = h[k] + SumOn(h, 1 .. (k - 1))
      BY <2>1, <2>2
    <3> QED
      BY <2>3, <2>4, <3>1
<1>9. \A k \in 1 .. n + 1 : Top(seq, k) \in Int
  <2> TAKE k \in 1 .. n + 1
  <2>1. 1 .. (k - 1) \in SUBSET (1 .. n)
    BY <1>4
  <2> QED
    BY <1>1, <1>5, <2>1
<1> QED
  BY <1>3, <1>4, <1>7, <1>8, <1>9

\* Where the tops are after a move, given how they add up before and after:
\* the rows between the source and the target give way by the moved row.
AddUp(F, f, n) ==
  /\ \A k \in 1 .. n : f[k] \in Int
  /\ F[1] = 0 /\ (\A k \in 1 .. n + 1 : F[k] \in Int)
  /\ \A k \in 1 .. n : F[k + 1] = F[k] + f[k]
AddUpMoved(G, f, n, from, to) ==
  /\ G[1] = 0 /\ (\A k \in 1 .. n + 1 : G[k] \in Int)
  /\ \A k \in 1 .. n : G[k + 1] = G[k] + f[cameFrom(k, from, to)]

LEMMA TopsAfterMove ==
  ASSUME NEW n \in Nat, NEW from \in 1 .. n, NEW to \in 1 .. n,
         NEW f, NEW F, AddUp(F, f, n), NEW G, AddUpMoved(G, f, n, from, to)
  PROVE  \A k \in 1 .. n : G[k] = IF k <= from /\ k <= to THEN F[k]
                                  ELSE IF k <= to THEN F[k + 1] - f[from]
                                  ELSE IF k <= from THEN F[k - 1] + f[from]
                                  ELSE F[k]
<1> DEFINE E(k) == IF k <= from /\ k <= to THEN F[k]
                   ELSE IF k <= to THEN F[k + 1] - f[from]
                   ELSE IF k <= from THEN F[k - 1] + f[from]
                   ELSE F[k]
           T == {k \in Nat : k < n => G[k + 1] = E(k + 1)}
<1> USE DEF AddUp, AddUpMoved
<1>1. 0 \in T
  BY DEF cameFrom
<1>2. ASSUME NEW i \in Nat, i < n, i \in T PROVE i + 1 \in T
  <2> SUFFICES ASSUME i + 1 < n PROVE G[i + 2] = E(i + 2)
    OBVIOUS
  <2> DEFINE k == i + 1
  <2>1. k \in 1 .. n /\ k + 1 \in 1 .. n /\ k + 1 = i + 2 /\ G[k] = E(k) /\ G[k + 1] = G[k] + f[cameFrom(k, from, to)]
    BY <1>2
  <2> HIDE DEF k
  <2>2. f[from] \in Int /\ f[k] \in Int /\ F[k] \in Int /\ F[k + 1] \in Int /\ F[k + 1] = F[k] + f[k]
    BY <2>1
  <2>3. k + 1 <= n => f[k + 1] \in Int /\ F[k + 2] \in Int /\ F[(k + 1) + 1] = F[k + 1] + f[k + 1] /\ (k + 1) + 1 = k + 2
    BY <2>1
  <2>4. k > 1 => k - 1 \in 1 .. n /\ f[k - 1] \in Int /\ F[k - 1] \in Int /\ F[(k - 1) + 1] = F[k - 1] + f[k - 1] /\ (k - 1) + 1 = k
    BY <2>1
  <2>5. G[k + 1] = E(k + 1)
    <3>1. CASE k < from /\ k < to
      BY <2>1, <2>2, <3>1 DEF cameFrom
    <3>2. CASE from <= k /\ k < to
      BY <2>1, <2>2, <2>3, <3>2 DEF cameFrom
    <3>3. CASE k = to /\ from <= k
      BY <2>1, <2>2, <3>3 DEF cameFrom
    <3>4. CASE k = to /\ k < from
      BY <2>1, <2>2, <3>4 DEF cameFrom
    <3>5. CASE to < k /\ k <= from
      BY <2>1, <2>2, <2>4, <3>5 DEF cameFrom
    <3>6. CASE to < k /\ from < k
      BY <2>1, <2>2, <3>6 DEF cameFrom
    <3> QED
      BY <2>1, <3>1, <3>2, <3>3, <3>4, <3>5, <3>6
  <2> QED
    BY <2>1, <2>5
<1> HIDE DEF T
<1>3. \A k \in 0 .. n : k \in T
  BY <1>1, <1>2, CountUp
<1>4. \A k \in 1 .. n : k - 1 \in 0 .. n /\ (k - 1) + 1 = k /\ k - 1 < n
  OBVIOUS
<1> QED
  <2> SUFFICES ASSUME NEW k \in 1 .. n PROVE G[k] = E(k)
    OBVIOUS
  <2>1. k - 1 \in T
    BY <1>3, <1>4
  <2> QED
    BY <1>4, <2>1 DEF T

\* A move as the page shows it afterwards.
Rearranged(old, from, to, now) ==
  /\ IdList(old) /\ ToSet(old) = Ids
  /\ from \in 1 .. Len(old) /\ to \in 1 .. Len(old) /\ from # to
  /\ now = applyMove(old, from, to)

\* A move keeps the metrics, each at its place.
LEMMA MoveKeeps ==
  ASSUME NEW old, NEW from, NEW to, NEW now, Rearranged(old, from, to, now)
  PROVE  /\ IdList(now) /\ ToSet(now) = Ids /\ Len(now) = Len(old)
         /\ \A k \in 1 .. Len(old) : now[k] = old[cameFrom(k, from, to)]
<1> DEFINE n == Len(old)
<1>1. /\ n \in Nat /\ old \in Seq(Names) /\ DOMAIN old = 1 .. n /\ from \in 1 .. n /\ to \in 1 .. n
      /\ \A i, j \in 1 .. n : old[i] = old[j] => i = j
  BY IdsOf DEF Rearranged
<1> HIDE DEF n
<1>2. /\ now \in Seq(Names) /\ Len(now) = n
      /\ \A k \in 1 .. n : now[k] = old[cameFrom(k, from, to)]
  <2>1. n = Len(old) /\ now = applyMove(old, from, to)
    BY DEF Rearranged, n
  <2> QED
    <3>1. /\ applyMove(old, from, to) \in Seq(Names)
          /\ Len(applyMove(old, from, to)) = n
          /\ \A k \in 1 .. n : applyMove(old, from, to)[k] = old[cameFrom(k, from, to)]
      <4>1. old \in Seq(Names) /\ n \in Nat /\ n = Len(old) /\ from \in 1 .. n /\ to \in 1 .. n
        BY <1>1, <2>1
      <4> HIDE <1>1, <2>1
      <4> QED
        BY <4>1, RowMoved
    <3> QED
      BY <2>1, <3>1
<1>3. /\ \A k \in 1 .. n : cameFrom(k, from, to) \in 1 .. n /\ wentTo(cameFrom(k, from, to), from, to) = k
      /\ \A i \in 1 .. n : wentTo(i, from, to) \in 1 .. n /\ cameFrom(wentTo(i, from, to), from, to) = i
  BY <1>1, PlacesMatch
<1>4. DOMAIN now = 1 .. n
  BY <1>2, LenProperties
<1>5. \A k, l \in 1 .. n : now[k] = now[l] => k = l
  <2> SUFFICES ASSUME NEW k \in 1 .. n, NEW l \in 1 .. n, now[k] = now[l] PROVE k = l
    OBVIOUS
  <2>1. cameFrom(k, from, to) = cameFrom(l, from, to)
    BY <1>1, <1>2, <1>3
  <2> QED
    BY <1>3, <2>1
<1>6. \A x : x \in ToSet(now) <=> x \in ToSet(old)
  <2> TAKE x
  <2>1. x \in ToSet(now) <=> \E k \in 1 .. n : now[k] = x
    BY <1>4, OnList
  <2>2. x \in ToSet(old) <=> \E i \in 1 .. n : old[i] = x
    BY <1>1, OnList
  <2>3. ASSUME NEW i \in 1 .. n PROVE now[wentTo(i, from, to)] = old[i]
    BY <1>2, <1>3
  <2> QED
    BY <1>2, <1>3, <2>1, <2>2, <2>3
<1>7. ToSet(now) = Ids
  BY <1>6 DEF Rearranged
<1>8. IdList(now)
  BY <1>1, <1>2, <1>4, <1>5, IdsOf
<1> QED
  BY <1>2, <1>7, <1>8 DEF n

-----------------------------------------------------------------------------
(***************************************************************************)
(* MetricStrip: the invariant.                                             *)
(***************************************************************************)
SettingsInv ==
  /\ IdList(metricOrder) /\ ToSet(metricOrder) \subseteq Ids
  /\ IdList(enabled)
  /\ merge \in [Bases -> BOOLEAN] /\ loading \in BOOLEAN
RowsInv == IdList(rows) /\ ToSet(rows) = Ids
DragInv == dragSource # 0 => dragSource \in 1 .. Len(rows) /\ dragTarget \in 1 .. Len(rows)
DropInv == dropped = Idle \/ Rearranged(dropped.rows, dropped.from, dropped.to, rows)
StripInv == SettingsInv /\ RowsInv /\ DragInv /\ DropInv

LEMMA TwoNames == IdList(<<"cpu", "ram">>)
<1>1. ASSUME NEW x \in Names, NEW y \in Names, x # y PROVE IdList(<<x, y>>)
  <2> DEFINE t == <<x, y>>
  <2>1. t \in Seq(Names) /\ DOMAIN t = 1 .. 2 /\ t[1] = x /\ t[2] = y
    OBVIOUS
  <2> HIDE DEF t
  <2>2. \A i \in 1 .. 2 : i = 1 \/ i = 2
    OBVIOUS
  <2>3. IdList(t)
    BY <1>1, <2>1, <2>2 DEF IdList, IsInjective
  <2> QED
    BY <2>3 DEF t
<1>2. "cpu" \in Names /\ "ram" \in Names /\ "cpu" # "ram"
  BY DEF Names
<1> QED
  BY <1>1, <1>2

LEMMA StripInitial == StripInit => StripInv
<1> SUFFICES ASSUME StripInit PROVE StripInv
  OBVIOUS
<1>1. IdList(metricOrder) /\ ToSet(metricOrder) \subseteq Ids
  BY SavedAssumption, NamedList DEF StripInit, IdList, Ids
<1>2. IdList(enabled)
  BY TwoNames DEF StripInit
<1>3. SettingsInv
  BY <1>1, <1>2 DEF SettingsInv, StripInit
<1>4. RowsInv
  BY <1>1, OrderCompleted DEF RowsInv, StripInit
<1>5. DragInv /\ DropInv
  BY DEF DragInv, DropInv, StripInit
<1> QED
  BY <1>3, <1>4, <1>5 DEF StripInv

LEMMA NamesOfAll == (\A id \in Ids : id \in Names) /\ \A b \in Bases : b \in Names /\ TempOf(b) \in Names
BY DEF Bases, TempOf, Names

LEMMA StripStep == StripInv /\ [StripNext]_stripVars => StripInv'
<1> SUFFICES ASSUME StripInv, [StripNext]_stripVars PROVE StripInv'
  OBVIOUS
<1> USE DEF StripInv
<1>1. ASSUME NEW fl, Report(fl) PROVE StripInv'
  BY <1>1 DEF Report, SettingsInv, RowsInv, DragInv, DropInv, Idle
<1>2. ASSUME NEW id \in Ids, Check(id) PROVE StripInv'
  <2>1. IdList(enabled') /\ merge' \in [Bases -> BOOLEAN]
    <3>1. IdList(toggleEnabled(enabled, id, ~isEnabled(id)))
      BY Toggled, NamesOfAll DEF SettingsInv
    <3> QED
      BY <1>2, <3>1 DEF Check, SetEnabled, SettingsInv
  <2> QED
    BY <1>2, <2>1 DEF Check, SettingsInv, RowsInv, DragInv, DropInv, Idle
<1>3. ASSUME NEW b \in Bases, CheckMerge(b) PROVE StripInv'
  <2>1. IdList(enabled') /\ merge' \in [Bases -> BOOLEAN]
    <3>1. IdList(toggleEnabled(enabled, b, TRUE))
      BY Toggled, NamesOfAll DEF SettingsInv
    <3> QED
      BY <1>3, <3>1 DEF CheckMerge, SettingsInv
  <2> QED
    BY <1>3, <2>1 DEF CheckMerge, SettingsInv, RowsInv, DragInv, DropInv, Idle
<1>4. ASSUME NEW i \in 1 .. Len(rows), Press(i) \/ Entered(i) PROVE StripInv'
  BY <1>4 DEF Press, Entered, Drag, SettingsInv, RowsInv, DragInv, DropInv, Idle
<1>5. CASE Exited \/ Cancel
  BY <1>5 DEF Exited, Cancel, Drag, SettingsInv, RowsInv, DragInv, DropInv, Idle
<1>6. CASE Release
  <2>1. CASE dragSource = dragTarget
    BY <1>6, <2>1 DEF Release, SettingsInv, RowsInv, DragInv, DropInv, Idle
  <2>2. CASE dragSource # dragTarget
    <3>1. Rearranged(rows, dragSource, dragTarget, metricOrder')
      BY <1>6, <2>2 DEF Release, Rearranged, RowsInv, DragInv
    <3>2. IdList(metricOrder') /\ ToSet(metricOrder') = Ids
      BY <3>1, MoveKeeps
    <3>3. rows' = metricOrder'
      BY <1>6, <2>2, <3>2, OrderCompleted DEF Release
    <3>4. dropped' = [rows |-> rows, from |-> dragSource, to |-> dragTarget] /\ dragSource' = 0
          /\ UNCHANGED <<enabled, merge, loading>>
      BY <1>6, <2>2 DEF Release
    <3>5. DropInv'
      BY <3>1, <3>3, <3>4 DEF DropInv
    <3> QED
      BY <3>2, <3>3, <3>4, <3>5 DEF SettingsInv, RowsInv, DragInv
  <2> QED
    BY <2>1, <2>2
<1>7. CASE UNCHANGED stripVars
  BY <1>7 DEF stripVars, SettingsInv, RowsInv, DragInv, DropInv, Idle
<1> QED
  BY <1>1, <1>2, <1>3, <1>4, <1>5, <1>6, <1>7 DEF StripNext

THEOREM StripInvHolds == StripSpec => []StripInv
BY StripInitial, StripStep, PTL DEF StripSpec

-----------------------------------------------------------------------------
LEMMA BasesAreNoTemps == \A b, c \in Bases : TempOf(b) # c
BY DEF Bases, TempOf

THEOREM ShownOnceHolds == StripSpec => []ShownOnce
<1>1. StripInv => ShownOnce
  <2> SUFFICES ASSUME StripInv, NEW id \in Ids
               PROVE  LET halves == {b \in Bases : TempOf(b) = id /\ SplitOn(b) /\ Count(enabledList, b) = 1}
                          times == Count(enabledList, id) + (IF halves = {} THEN 0 ELSE 1)
                      IN times = IF isEnabled(id) /\ (loading \/ id \in flags) THEN 1 ELSE 0
    BY DEF ShownOnce
  <2> DEFINE raw == rawEnabledList
             here == availableEnabledList
             Hidden == {TempOf(b) : b \in {c \in Bases : merge[c] /\ {c, TempOf(c)} \subseteq ToSet(here)}}
  <2>1. IdList(raw) /\ ToSet(raw) = Ids \cap ToSet(enabled)
    <3>1. IdList(mergeWithCatalog(metricOrder)) /\ ToSet(mergeWithCatalog(metricOrder)) = Ids
      BY OrderCompleted DEF StripInv, SettingsInv
    <3> QED
      BY <3>1, Kept DEF rawEnabledList, filterByOrder
  <2>2. IdList(here) /\ \A x \in Ids : x \in ToSet(here) <=> isEnabled(x) /\ (loading \/ x \in flags)
    <3> HIDE DEF raw
    <3>1. loading \in BOOLEAN /\ here = IF loading THEN raw ELSE Keep(raw, ToSet(availableMetricsFrom(flags)))
      BY DEF availableEnabledList, raw, filterByAvailable, StripInv, SettingsInv
    <3>2. ToSet(availableMetricsFrom(flags)) = Ids \cap flags
      BY CatalogList, Kept DEF availableMetricsFrom
    <3>3. /\ IdList(Keep(raw, ToSet(availableMetricsFrom(flags))))
          /\ ToSet(Keep(raw, ToSet(availableMetricsFrom(flags)))) = ToSet(raw) \cap (Ids \cap flags)
      BY <2>1, <3>2, Kept
    <3> HIDE DEF here
    <3> QED
      BY <2>1, <3>1, <3>3 DEF isEnabled
  <2>3. IdList(enabledList) /\ ToSet(enabledList) = ToSet(here) \ Hidden
    <3>1. enabledList = Keep(here, ToSet(here) \ Hidden)
      BY DEF enabledList, applyMergedTempMode
    <3> HIDE DEF here, Hidden
    <3>2. IdList(enabledList) /\ ToSet(enabledList) = ToSet(here) \cap (ToSet(here) \ Hidden)
      BY <2>2, <3>1, Kept
    <3> QED
      BY <3>2
  <2>4. \A x : Count(enabledList, x) = IF x \in ToSet(enabledList) THEN 1 ELSE 0
    BY <2>3, CountsOnce
  <2>5. \A b \in Bases : SplitOn(b) <=> merge[b] /\ b \in ToSet(here) /\ TempOf(b) \in ToSet(here)
    BY DEF SplitOn, isSplitForBase
  <2> DEFINE halves == {b \in Bases : TempOf(b) = id /\ SplitOn(b) /\ Count(enabledList, b) = 1}
  <2>6. id \in Hidden <=> halves # {}
    <3>1. \A b \in Bases : b \notin Hidden
      BY BasesAreNoTemps
    <3>2. id \in Hidden <=> \E b \in Bases : TempOf(b) = id /\ SplitOn(b)
      BY <2>5
    <3>3. \A b \in Bases : SplitOn(b) => Count(enabledList, b) = 1
      <4> HIDE DEF Hidden, here
      <4> QED
        BY <2>3, <2>4, <2>5, <3>1
    <3> HIDE DEF Hidden
    <3> QED
      BY <3>2, <3>3
  <2>7. id \in Hidden => id \in ToSet(here)
    OBVIOUS
  <2> HIDE DEF Hidden, here, halves
  <2>8. Count(enabledList, id) + (IF halves = {} THEN 0 ELSE 1) = IF id \in ToSet(here) THEN 1 ELSE 0
    BY <2>3, <2>4, <2>6, <2>7
  <2> QED
    BY <2>2, <2>8 DEF halves
<1> QED
  BY <1>1, StripInvHolds, PTL

\* A row is at one place.
LEMMA OnePlace ==
  ASSUME NEW now, IdList(now), NEW k \in 1 .. Len(now)
  PROVE  (CHOOSE l \in 1 .. Len(now) : now[l] = now[k]) = k
BY IdsOf

THEOREM DropLandsAsShownHolds == StripSpec => []DropLandsAsShown
<1>1. StripInv => DropLandsAsShown
  <2> SUFFICES ASSUME StripInv, dropped # Idle PROVE DropLandsAsShown
    BY DEF DropLandsAsShown
  <2>0. PICK old, from, to : old = dropped.rows /\ from = dropped.from /\ to = dropped.to
    OBVIOUS
  <2> DEFINE n == Len(old)
             extent == Height[old[from]] + Spacing
             now(i) == CHOOSE k \in 1 .. Len(rows) : rows[k] = old[i]
  <2>1. Rearranged(old, from, to, rows)
    BY <2>0 DEF StripInv, DropInv
  <2>2. /\ n \in Nat /\ old \in Seq(Names) /\ from \in 1 .. n /\ to \in 1 .. n /\ from # to
        /\ \A j \in 1 .. n : old[j] \in Ids
    BY <2>1, IdsOf, OnList DEF Rearranged
  <2>3. IdList(rows) /\ Len(rows) = n /\ \A k \in 1 .. n : rows[k] = old[cameFrom(k, from, to)]
    BY <2>1, MoveKeeps
  <2> HIDE DEF n
  <2>4. /\ \A k \in 1 .. n : cameFrom(k, from, to) \in 1 .. n
        /\ \A i \in 1 .. n : wentTo(i, from, to) \in 1 .. n /\ cameFrom(wentTo(i, from, to), from, to) = i
    BY <2>2, PlacesMatch
  <2>5. \A i \in 1 .. n : now(i) = wentTo(i, from, to)
    <3> TAKE i \in 1 .. n
    <3>1. wentTo(i, from, to) \in 1 .. Len(rows) /\ rows[wentTo(i, from, to)] = old[i]
      BY <2>3, <2>4
    <3> QED
      BY <2>3, <3>1, OnePlace
  <2> HIDE DEF now
  <2> DEFINE f == [j \in 1 .. n |-> Height[old[j]] + Spacing]
             F == [k \in 1 .. n + 1 |-> Top(old, k)]
             G == [k \in 1 .. n + 1 |-> Top(rows, k)]
  <2>6. \A x \in Ids : Height[x] + Spacing \in Int
    BY HeightAssumption DEF Ids
  <2>7. \A j \in 1 .. n : f[j] \in Int /\ f[j] = Height[old[j]] + Spacing
    BY <2>2, <2>6
  <2>8. /\ Top(old, 1) = 0
        /\ \A k \in 1 .. n : Top(old, k + 1) = Top(old, k) + (Height[old[k]] + Spacing)
        /\ \A k \in 1 .. n + 1 : Top(old, k) \in Int
    BY <2>2, <2>6, TopSteps DEF n
  <2>9. /\ Top(rows, 1) = 0
        /\ \A k \in 1 .. n : Top(rows, k + 1) = Top(rows, k) + (Height[rows[k]] + Spacing)
        /\ \A k \in 1 .. n + 1 : Top(rows, k) \in Int
    <3>1. \A j \in 1 .. Len(rows) : Height[rows[j]] + Spacing \in Int
      BY <2>2, <2>3, <2>4, <2>6
    <3> QED
      BY <2>2, <2>3, <3>1, TopSteps
  <2>10. 1 \in 1 .. n + 1 /\ \A k \in 1 .. n : k \in 1 .. n + 1 /\ k + 1 \in 1 .. n + 1
    BY <2>2
  <2>11. /\ F[1] = 0 /\ \A k \in 1 .. n + 1 : F[k] \in Int
         /\ \A k \in 1 .. n : F[k + 1] = F[k] + f[k]
    BY <2>7, <2>8, <2>10
  <2>12. /\ G[1] = 0 /\ \A k \in 1 .. n + 1 : G[k] \in Int
         /\ \A k \in 1 .. n : G[k + 1] = G[k] + f[cameFrom(k, from, to)]
    BY <2>3, <2>4, <2>7, <2>9, <2>10
  <2>13. \A k \in 1 .. n + 1 : F[k] = Top(old, k) /\ G[k] = Top(rows, k)
    OBVIOUS
  <2>14. f[from] = extent /\ extent \in Int
    BY <2>2, <2>7
  <2> HIDE DEF f, F, G, extent
  <2>15. \A k \in 1 .. n : G[k] = IF k <= from /\ k <= to THEN F[k]
                                  ELSE IF k <= to THEN F[k + 1] - f[from]
                                  ELSE IF k <= from THEN F[k - 1] + f[from]
                                  ELSE F[k]
    <3>1. /\ n \in Nat /\ from \in 1 .. n /\ to \in 1 .. n
          /\ \A k \in 1 .. n : f[k] \in Int
          /\ F[1] = 0 /\ (\A k \in 1 .. n + 1 : F[k] \in Int) /\ (\A k \in 1 .. n : F[k + 1] = F[k] + f[k])
          /\ G[1] = 0 /\ (\A k \in 1 .. n + 1 : G[k] \in Int)
          /\ \A k \in 1 .. n : G[k + 1] = G[k] + f[cameFrom(k, from, to)]
      BY <2>2, <2>7, <2>11, <2>12
    <3>2. PICK h, A, B : h = f /\ A = F /\ B = G
      OBVIOUS
    <3>3. PICK m \in Nat : m = n
      BY <3>1
    <3>4. \A k \in 1 .. m : B[k] = IF k <= from /\ k <= to THEN A[k]
                                    ELSE IF k <= to THEN A[k + 1] - h[from]
                                    ELSE IF k <= from THEN A[k - 1] + h[from]
                                    ELSE A[k]
      <4>1. from \in 1 .. m /\ to \in 1 .. m /\ AddUp(A, h, m) /\ AddUpMoved(B, h, m, from, to)
        BY <3>1, <3>2, <3>3 DEF AddUp, AddUpMoved
      <4> QED
        BY <4>1, TopsAfterMove
    <3> QED
      BY <3>2, <3>3, <3>4
  <2>16. now(from) = to
    BY <2>2, <2>5 DEF wentTo
  <2>17. ASSUME NEW i \in 1 .. n \ {from}
         PROVE  Top(rows, now(i)) = Top(old, i) + computeYShift(i, from, to, extent)
    <3>1. /\ i \in 1 .. n /\ i \in 1 .. n + 1 /\ i # from /\ now(i) = wentTo(i, from, to) /\ now(i) \in 1 .. n
          /\ Top(old, i) = F[i] /\ F[i] \in Int /\ Top(rows, now(i)) = G[now(i)]
      BY <2>2, <2>4, <2>5, <2>10, <2>11, <2>13
    <3>2. i \in Int /\ from \in Int /\ to \in Int /\ f[from] = extent /\ extent \in Int
      BY <2>2, <2>14, <3>1
    <3>3. CASE from < i /\ i <= to
      <4>1. now(i) = i - 1 /\ i - 1 \in 1 .. n /\ (i - 1) + 1 = i /\ ~(i - 1 <= from /\ i - 1 <= to /\ i - 1 # from) /\ i - 1 <= to
            /\ from # 0 /\ to # 0 /\ from # to /\ from < to
        BY <2>2, <3>1, <3>2, <3>3 DEF wentTo
      <4>2. CASE i - 1 = from
        <5>1. G[i - 1] = F[from] /\ F[from + 1] = F[from] + f[from] /\ F[from] \in Int /\ from + 1 = i
          BY <2>2, <2>10, <2>11, <2>15, <3>2, <4>1, <4>2
        <5> QED
          BY <3>1, <3>2, <3>3, <4>1, <5>1 DEF computeYShift
      <4>3. CASE i - 1 # from
        <5>1. G[i - 1] = F[i] - extent
          BY <2>15, <3>2, <4>1, <4>3
        <5> QED
          BY <3>1, <3>2, <3>3, <4>1, <5>1 DEF computeYShift
      <4> QED
        BY <4>2, <4>3
    <3>4. CASE to <= i /\ i < from
      <4>1. /\ now(i) = i + 1 /\ i + 1 \in 1 .. n /\ (i + 1) - 1 = i /\ ~(i + 1 <= to) /\ i + 1 <= from
            /\ from # 0 /\ to # 0 /\ from # to /\ from > to /\ ~(from < to)
        BY <2>2, <3>1, <3>2, <3>4 DEF wentTo
      <4>2. G[i + 1] = F[i] + extent
        BY <2>15, <3>2, <4>1
      <4> QED
        BY <3>1, <3>2, <3>4, <4>1, <4>2 DEF computeYShift
    <3>5. CASE ~(from < i /\ i <= to) /\ ~(to <= i /\ i < from)
      <4>0. now(i) = i
        BY <3>1, <3>5 DEF wentTo
      <4>1. (i <= from /\ i <= to) \/ (~(i <= to) /\ ~(i <= from))
        <5>1. i # from
          BY <3>1
        <5> QED
          BY <3>2, <3>5, <5>1
      <4>2. G[i] = F[i]
        BY <2>15, <3>1, <4>1
      <4>3. computeYShift(i, from, to, extent) = 0
        BY <2>2, <3>1, <3>2, <3>5 DEF computeYShift
      <4> QED
        BY <3>1, <4>0, <4>2, <4>3
    <3> QED
      BY <3>3, <3>4, <3>5
  <2> QED
    BY <2>0, <2>3, <2>16, <2>17 DEF DropLandsAsShown, n, now, extent
<1> QED
  BY <1>1, StripInvHolds, PTL
=============================================================================
