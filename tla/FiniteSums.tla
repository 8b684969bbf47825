------------------------------ MODULE FiniteSums ------------------------------
(* Sums over finite sets, as Functions defines them: SumFunctionOnSet(f, S).   *)
EXTENDS Integers, Functions, FiniteSetTheorems, WellFoundedInduction, NaturalsInduction, TLAPS

\* A non-empty set of natural numbers has a least one.
LEMMA LeastNumber ==
  ASSUME NEW S \in SUBSET Nat, S # {}
  PROVE  \E m \in S : \A n \in S : m <= n
<1>1. IsWellFoundedOn(OpToRel(<, Nat), Nat)
  BY NatLessThanWellFounded
<1>2. PICK m \in S : \A n \in S : <<n, m>> \notin OpToRel(<, Nat)
  BY <1>1, WFMin
<1>3. \A n \in S : ~(n < m)
  BY <1>2 DEF OpToRel
<1> QED  BY <1>3

\* A non-empty set of finite sets has a smallest one.
LEMMA SmallestSet ==
  ASSUME NEW S, IsFiniteSet(S), NEW Sets \in SUBSET SUBSET S, Sets # {}
  PROVE  \E T \in Sets : \A U \in SUBSET T : U # T => U \notin Sets
<1>1. IsWellFoundedOn(StrictSubsetOrdering(S), FiniteSubsetsOf(S))
  BY FS_StrictSubsetOrderingWellFounded
<1>2. Sets \subseteq FiniteSubsetsOf(S)
  BY FS_Subset DEF FiniteSubsetsOf
<1>3. PICK T \in Sets : \A U \in Sets : <<U, T>> \notin StrictSubsetOrdering(S)
  BY <1>1, <1>2, WFMin
<1>4. ASSUME NEW U \in SUBSET T, U # T, U \in Sets PROVE FALSE
  BY <1>3, <1>4 DEF StrictSubsetOrdering
<1> QED BY <1>4
-----------------------------------------------------------------------------
First(s) == CHOOSE x \in s : TRUE

\* `sum` adds up f over the subsets of S, one chosen element after the other.
Addition(sum, f, s) == IF s = {} THEN 0 ELSE f[First(s)] + sum[s \ {First(s)}]

AddsUp(sum, f, S) == sum = [s \in SUBSET S |-> Addition(sum, f, s)]

SumOf(f, S) == CHOOSE sum : AddsUp(sum, f, S)

LEMMA SumIsSumOf ==
  ASSUME NEW f, NEW S
  PROVE  SumFunctionOnSet(f, S) = SumOf(f, S)[S]
BY DEF SumFunctionOnSet, FoldFunctionOnSet, MapThenFoldSet, SumOf, AddsUp, Addition, First

LEMMA FirstIsMember ==
  ASSUME NEW s, s # {} PROVE First(s) \in s /\ s \ {First(s)} \in SUBSET s /\ s \ {First(s)} # s
BY DEF First

LEMMA AddsUpAt ==
  ASSUME NEW f, NEW S, NEW sum, AddsUp(sum, f, S), NEW V \in SUBSET S
  PROVE  sum[V] = Addition(sum, f, V)
BY DEF AddsUp

\* Two functions that add up f agree wherever both are defined.
LEMMA SumsAgree ==
  ASSUME NEW f, NEW S, NEW T, IsFiniteSet(S), NEW g, NEW h, AddsUp(g, f, S), AddsUp(h, f, T)
  PROVE  \A V \in SUBSET (S \cap T) : g[V] = h[V]
<1> DEFINE Bad == {V \in SUBSET (S \cap T) : g[V] # h[V]}
<1> SUFFICES ASSUME Bad # {} PROVE FALSE
  OBVIOUS
<1>1. Bad \in SUBSET SUBSET S
  OBVIOUS
<1> HIDE DEF Bad
<1>2. PICK V \in Bad : \A U \in SUBSET V : U # V => U \notin Bad
  BY <1>1, SmallestSet
<1> USE DEF Bad
<1>3. V \in SUBSET S /\ V \in SUBSET T /\ V \in SUBSET (S \cap T) /\ g[V] # h[V]
  OBVIOUS
<1>4. g[V] = Addition(g, f, V) /\ h[V] = Addition(h, f, V)
  BY <1>3, AddsUpAt
<1>5. CASE V = {}
  BY <1>3, <1>4, <1>5 DEF Addition
<1>6. CASE V # {}
  <2>1. V \ {First(V)} \in SUBSET V /\ V \ {First(V)} # V
    BY <1>6, FirstIsMember
  <2>2. V \ {First(V)} \notin Bad /\ V \ {First(V)} \in SUBSET (S \cap T)
    BY <1>2, <1>3, <2>1
  <2>3. g[V \ {First(V)}] = h[V \ {First(V)}]
    BY <2>2
  <2> QED BY <1>3, <1>4, <1>6, <2>3 DEF Addition
<1> QED BY <1>5, <1>6

\* A finite set can be added up.
LEMMA SumOfAddsUp ==
  ASSUME NEW f, NEW S, IsFiniteSet(S)
  PROVE  AddsUp(SumOf(f, S), f, S)
<1> DEFINE Bad == {T \in SUBSET S : ~AddsUp(SumOf(f, T), f, T)}
<1> SUFFICES ASSUME Bad # {} PROVE FALSE
  OBVIOUS
<1>1. Bad \in SUBSET SUBSET S
  OBVIOUS
<1> HIDE DEF Bad
<1>2. PICK T \in Bad : \A U \in SUBSET T : U # T => U \notin Bad
  BY <1>1, SmallestSet
<1> USE DEF Bad
<1>3. T \in SUBSET S /\ ~AddsUp(SumOf(f, T), f, T)
  OBVIOUS
<1>4. ASSUME NEW U \in SUBSET T, U # T
      PROVE  AddsUp(SumOf(f, U), f, U) /\ IsFiniteSet(U)
  <2>1. U \in SUBSET S /\ U \notin Bad
    BY <1>2, <1>3, <1>4
  <2> QED BY <2>1, FS_Subset
<1> HIDE DEF Bad
<1> DEFINE before(s) == SumOf(f, s \ {First(s)})[s \ {First(s)}]
           g == [s \in SUBSET T |-> IF s = {} THEN 0 ELSE f[First(s)] + before(s)]
<1>5. ASSUME NEW U \in SUBSET T, U # T
      PROVE  g[U] = SumOf(f, U)[U]
  <2>1. SumOf(f, U)[U] = Addition(SumOf(f, U), f, U)
    BY <1>4, <1>5, AddsUpAt
  <2>2. CASE U # {}
    <3>1. U \ {First(U)} \in SUBSET U /\ U \ {First(U)} # U
      BY <2>2, FirstIsMember
    <3>2. U \ {First(U)} \in SUBSET T /\ U \ {First(U)} # T
      BY <1>5, <3>1
    <3>3. AddsUp(SumOf(f, U \ {First(U)}), f, U \ {First(U)})
      BY <1>4, <3>2
    <3>4. AddsUp(SumOf(f, U), f, U) /\ IsFiniteSet(U)
      BY <1>4, <1>5
    <3>5. SumOf(f, U)[U \ {First(U)}] = before(U)
      BY <3>1, <3>3, <3>4, SumsAgree
    <3> QED BY <2>1, <2>2, <3>5 DEF Addition
  <2>3. CASE U = {}
    BY <2>1, <2>3 DEF Addition
  <2> QED BY <2>2, <2>3
<1>6. ASSUME NEW s \in SUBSET T, s # {}
      PROVE  before(s) = g[s \ {First(s)}]
  <2>1. s \ {First(s)} \in SUBSET T /\ s \ {First(s)} # T
    BY <1>6, FirstIsMember
  <2> QED BY <1>5, <2>1
<1> HIDE DEF before
<1>7. g = [s \in SUBSET T |-> Addition(g, f, s)]
  BY <1>6 DEF Addition
<1>8. AddsUp(g, f, T)
  BY <1>7 DEF AddsUp
<1>9. AddsUp(SumOf(f, T), f, T)
  BY <1>8 DEF SumOf
<1> QED BY <1>3, <1>9

\* The equation a sum satisfies.
LEMMA SumChosen ==
  ASSUME NEW f, NEW S, IsFiniteSet(S)
  PROVE  SumFunctionOnSet(f, S) =
           IF S = {} THEN 0 ELSE f[First(S)] + SumFunctionOnSet(f, S \ {First(S)})
<1>1. SumOf(f, S)[S] = Addition(SumOf(f, S), f, S)
  BY SumOfAddsUp, AddsUpAt
<1>2. CASE S # {}
  <2>1. S \ {First(S)} \in SUBSET S
    OBVIOUS
  <2>2. IsFiniteSet(S \ {First(S)})
    BY <2>1, FS_Subset
  <2>3. SumOf(f, S)[S \ {First(S)}] = SumOf(f, S \ {First(S)})[S \ {First(S)}]
    BY <2>1, <2>2, SumOfAddsUp, SumsAgree
  <2> QED BY <1>1, <1>2, <2>3, SumIsSumOf DEF Addition
<1> QED BY <1>1, <1>2, SumIsSumOf DEF Addition

-----------------------------------------------------------------------------
(* What follows needs no more than that equation.                            *)

LEMMA SumOfNothing ==
  ASSUME NEW f PROVE SumFunctionOnSet(f, {}) = 0
BY SumChosen, FS_EmptySet

\* The sum over S less its first element, which induction is about.
LEMMA LessFirst ==
  ASSUME NEW S, IsFiniteSet(S), NEW T \in SUBSET S, T # {}
  PROVE  /\ First(T) \in T /\ IsFiniteSet(T) /\ IsFiniteSet(T \ {First(T)})
         /\ T \ {First(T)} \in SUBSET T /\ T \ {First(T)} # T /\ T \ {First(T)} \in SUBSET S
BY FirstIsMember, FS_Subset

\* A sum of natural numbers is one.
LEMMA SumIsNat ==
  ASSUME NEW S, IsFiniteSet(S), NEW f, \A x \in S : f[x] \in Nat
  PROVE  SumFunctionOnSet(f, S) \in Nat
<1> DEFINE Bad == {T \in SUBSET S : SumFunctionOnSet(f, T) \notin Nat}
<1> SUFFICES ASSUME Bad # {} PROVE FALSE
  OBVIOUS
<1>1. Bad \in SUBSET SUBSET S
  OBVIOUS
<1> HIDE DEF Bad
<1>2. PICK T \in Bad : \A U \in SUBSET T : U # T => U \notin Bad
  BY <1>1, SmallestSet
<1>3. T \in SUBSET S /\ SumFunctionOnSet(f, T) \notin Nat
  BY DEF Bad
<1>4. T # {}
  BY <1>3, SumOfNothing
<1>5. /\ First(T) \in T /\ IsFiniteSet(T) /\ T \ {First(T)} \in SUBSET T /\ T \ {First(T)} # T
      /\ T \ {First(T)} \in SUBSET S
  BY <1>3, <1>4, LessFirst
<1>6. SumFunctionOnSet(f, T \ {First(T)}) \in Nat
  BY <1>2, <1>5 DEF Bad
<1>7. f[First(T)] \in Nat
  BY <1>3, <1>5
<1>8. SumFunctionOnSet(f, T) = f[First(T)] + SumFunctionOnSet(f, T \ {First(T)})
  BY <1>4, <1>5, SumChosen
<1> QED BY <1>3, <1>6, <1>7, <1>8

\* A sum depends on the terms it adds, and on nothing else of the function.
LEMMA SameTermsSameSum ==
  ASSUME NEW S, IsFiniteSet(S), NEW f, NEW g, \A x \in S : f[x] = g[x]
  PROVE  SumFunctionOnSet(f, S) = SumFunctionOnSet(g, S)
<1> DEFINE Bad == {T \in SUBSET S : SumFunctionOnSet(f, T) # SumFunctionOnSet(g, T)}
<1> SUFFICES ASSUME Bad # {} PROVE FALSE
  OBVIOUS
<1>1. Bad \in SUBSET SUBSET S
  OBVIOUS
<1> HIDE DEF Bad
<1>2. PICK T \in Bad : \A U \in SUBSET T : U # T => U \notin Bad
  BY <1>1, SmallestSet
<1>3. T \in SUBSET S /\ SumFunctionOnSet(f, T) # SumFunctionOnSet(g, T)
  BY DEF Bad
<1>4. T # {}
  BY <1>3, SumOfNothing
<1>5. /\ First(T) \in T /\ IsFiniteSet(T) /\ T \ {First(T)} \in SUBSET T /\ T \ {First(T)} # T
      /\ T \ {First(T)} \in SUBSET S
  BY <1>3, <1>4, LessFirst
<1>6. SumFunctionOnSet(f, T \ {First(T)}) = SumFunctionOnSet(g, T \ {First(T)})
  BY <1>2, <1>5 DEF Bad
<1>7. f[First(T)] = g[First(T)]
  BY <1>3, <1>5
<1>8. /\ SumFunctionOnSet(f, T) = f[First(T)] + SumFunctionOnSet(f, T \ {First(T)})
      /\ SumFunctionOnSet(g, T) = g[First(T)] + SumFunctionOnSet(g, T \ {First(T)})
  BY <1>4, <1>5, SumChosen
<1> QED BY <1>3, <1>6, <1>7, <1>8

\* Any term may come first.
LEMMA AnyTermFirst ==
  ASSUME NEW S, IsFiniteSet(S), NEW f, \A x \in S : f[x] \in Nat, NEW y \in S
  PROVE  SumFunctionOnSet(f, S) = f[y] + SumFunctionOnSet(f, S \ {y})
<1> DEFINE Split(T, x) == SumFunctionOnSet(f, T) = f[x] + SumFunctionOnSet(f, T \ {x})
           Bad == {T \in SUBSET S : \E x \in T : ~Split(T, x)}
<1> SUFFICES ASSUME Bad # {} PROVE FALSE
  OBVIOUS
<1>1. Bad \in SUBSET SUBSET S
  OBVIOUS
<1> HIDE DEF Bad
<1>2. PICK T \in Bad : \A U \in SUBSET T : U # T => U \notin Bad
  BY <1>1, SmallestSet
<1> HIDE DEF Split
<1>3. T \in SUBSET S /\ \E x \in T : ~Split(T, x)
  BY DEF Bad
<1>4. PICK x \in T : ~Split(T, x)
  BY <1>3
<1>5. PICK c \in T : c = First(T) /\ T \ {c} \in SUBSET T /\ T \ {c} # T /\ T \ {c} \in SUBSET S
  BY <1>3, <1>4, LessFirst
<1>6. Split(T, c)
  <2>1. IsFiniteSet(T) /\ T # {}
    BY <1>3, <1>4, FS_Subset
  <2> QED BY <1>5, <2>1, SumChosen DEF Split
<1>7. c # x
  BY <1>4, <1>6
<1>8. Split(T \ {c}, x)
  BY <1>2, <1>4, <1>5, <1>7 DEF Bad
<1>9. Split(T \ {x}, c)
  <2>1. T \ {x} \in SUBSET T /\ T \ {x} # T /\ T \ {x} \in SUBSET S /\ c \in T \ {x}
    BY <1>3, <1>4, <1>5, <1>7
  <2> QED BY <1>2, <2>1 DEF Bad
<1>10. (T \ {c}) \ {x} = (T \ {x}) \ {c}
  OBVIOUS
<1>11. f[c] \in Nat /\ f[x] \in Nat /\ SumFunctionOnSet(f, (T \ {x}) \ {c}) \in Nat
  <2>1. (T \ {x}) \ {c} \in SUBSET S
    BY <1>3
  <2> QED BY <1>3, <1>4, <1>5, <2>1, FS_Subset, SumIsNat
<1>12. /\ SumFunctionOnSet(f, T) = f[c] + SumFunctionOnSet(f, T \ {c})
       /\ SumFunctionOnSet(f, T \ {c}) = f[x] + SumFunctionOnSet(f, (T \ {x}) \ {c})
       /\ SumFunctionOnSet(f, T \ {x}) = f[c] + SumFunctionOnSet(f, (T \ {x}) \ {c})
       /\ SumFunctionOnSet(f, T) # f[x] + SumFunctionOnSet(f, T \ {x})
  BY <1>4, <1>6, <1>8, <1>9, <1>10 DEF Split
<1> QED BY <1>11, <1>12

\* A sum of nothing but zeros.
LEMMA ZerosAddUpToZero ==
  ASSUME NEW S, IsFiniteSet(S), NEW f, \A x \in S : f[x] = 0
  PROVE  SumFunctionOnSet(f, S) = 0
<1> DEFINE Bad == {T \in SUBSET S : SumFunctionOnSet(f, T) # 0}
<1> SUFFICES ASSUME Bad # {} PROVE FALSE
  OBVIOUS
<1>1. Bad \in SUBSET SUBSET S
  OBVIOUS
<1> HIDE DEF Bad
<1>2. PICK T \in Bad : \A U \in SUBSET T : U # T => U \notin Bad
  BY <1>1, SmallestSet
<1>3. T \in SUBSET S /\ SumFunctionOnSet(f, T) # 0
  BY DEF Bad
<1>4. T # {}
  BY <1>3, SumOfNothing
<1>5. /\ First(T) \in T /\ IsFiniteSet(T) /\ T \ {First(T)} \in SUBSET T /\ T \ {First(T)} # T
      /\ T \ {First(T)} \in SUBSET S
  BY <1>3, <1>4, LessFirst
<1>6. SumFunctionOnSet(f, T \ {First(T)}) = 0 /\ f[First(T)] = 0
  BY <1>2, <1>3, <1>5 DEF Bad
<1>7. SumFunctionOnSet(f, T) = f[First(T)] + SumFunctionOnSet(f, T \ {First(T)})
  BY <1>4, <1>5, SumChosen
<1> QED BY <1>3, <1>6, <1>7

\* One more term.
LEMMA TermAdded ==
  ASSUME NEW S, IsFiniteSet(S), NEW y, y \notin S, NEW f, \A x \in S \cup {y} : f[x] \in Nat
  PROVE  SumFunctionOnSet(f, S \cup {y}) = f[y] + SumFunctionOnSet(f, S)
<1>1. IsFiniteSet(S \cup {y})
  BY FS_AddElement
<1>2. (S \cup {y}) \ {y} = S /\ y \in S \cup {y}
  OBVIOUS
<1> QED BY <1>1, <1>2, AnyTermFirst

\* One term has changed.
LEMMA TermChanged ==
  ASSUME NEW S, IsFiniteSet(S), NEW f, NEW g, NEW y \in S,
         \A x \in S : f[x] \in Nat /\ g[x] \in Nat,
         \A x \in S \ {y} : f[x] = g[x]
  PROVE  SumFunctionOnSet(g, S) = SumFunctionOnSet(f, S) + g[y] - f[y]
<1>1. S \ {y} \in SUBSET S /\ IsFiniteSet(S \ {y})
  BY FS_RemoveElement
<1>2. SumFunctionOnSet(f, S \ {y}) = SumFunctionOnSet(g, S \ {y})
  BY <1>1, SameTermsSameSum
<1>3. SumFunctionOnSet(f, S \ {y}) \in Nat
  BY <1>1, SumIsNat
<1>4. /\ SumFunctionOnSet(f, S) = f[y] + SumFunctionOnSet(f, S \ {y})
      /\ SumFunctionOnSet(g, S) = g[y] + SumFunctionOnSet(g, S \ {y})
  BY AnyTermFirst
<1> QED BY <1>2, <1>3, <1>4

\* No term is larger than the sum.
LEMMA TermWithinSum ==
  ASSUME NEW S, IsFiniteSet(S), NEW f, \A x \in S : f[x] \in Nat, NEW y \in S
  PROVE  f[y] <= SumFunctionOnSet(f, S)
<1>1. SumFunctionOnSet(f, S \ {y}) \in Nat
  BY FS_RemoveElement, SumIsNat
<1>2. SumFunctionOnSet(f, S) = f[y] + SumFunctionOnSet(f, S \ {y})
  BY AnyTermFirst
<1> QED BY <1>1, <1>2

\* A term apart from the others, if it is one.
LEMMA TermApart ==
  ASSUME NEW S, IsFiniteSet(S), NEW f, \A x \in S : f[x] \in Nat, NEW y
  PROVE  SumFunctionOnSet(f, S) =
           IF y \in S THEN f[y] + SumFunctionOnSet(f, S \ {y}) ELSE SumFunctionOnSet(f, S \ {y})
<1>1. y \notin S => S \ {y} = S
  OBVIOUS
<1> QED BY <1>1, AnyTermFirst

\* Where every term of one sum is at most that of the other, so is the sum.
LEMMA SmallerTermsSmallerSum ==
  ASSUME NEW S, IsFiniteSet(S), NEW T, IsFiniteSet(T), NEW f, NEW g,
         \A x \in S : f[x] \in Nat,
         \A x \in T : g[x] \in Nat,
         \A x \in S : f[x] > 0 => x \in T /\ f[x] <= g[x]
  PROVE  SumFunctionOnSet(f, S) <= SumFunctionOnSet(g, T)
<1> DEFINE Below(U) == SumFunctionOnSet(f, U \cap S) <= SumFunctionOnSet(g, U \cap T)
           All == S \cup T
           Bad == {U \in SUBSET All : ~Below(U)}
<1>0. IsFiniteSet(All)
  BY FS_Union
<1>1. \A U \in SUBSET All : IsFiniteSet(U \cap S) /\ IsFiniteSet(U \cap T)
  BY FS_Subset
<1> SUFFICES ASSUME ~Below(All) PROVE FALSE
  <2>1. All \cap S = S /\ All \cap T = T
    OBVIOUS
  <2> QED BY <2>1
<1>2. Bad \in SUBSET SUBSET All /\ Bad # {}
  OBVIOUS
<1>3. PICK V \in Bad : \A U \in SUBSET V : U # V => U \notin Bad
  <2> HIDE DEF Bad, All
  <2> QED BY <1>0, <1>2, SmallestSet
<1>4. V \in SUBSET All /\ ~Below(V)
  OBVIOUS
<1>5. V # {}
  <2> SUFFICES ASSUME V = {} PROVE Below(V)
    BY <1>4
  <2>1. V \cap S = {} /\ V \cap T = {}
    OBVIOUS
  <2> QED BY <2>1, SumOfNothing
<1>6. PICK y \in V : TRUE
  BY <1>5
<1> DEFINE U == V \ {y}
<1>7. U \in SUBSET V /\ U # V /\ U \in SUBSET All
  BY <1>4
<1>8. Below(U)
  BY <1>3, <1>7
<1>9. /\ (V \cap S) \ {y} = U \cap S
      /\ (V \cap T) \ {y} = U \cap T
  OBVIOUS
<1> DEFINE n == SumFunctionOnSet(f, U \cap S)
           m == SumFunctionOnSet(g, U \cap T)
<1>10. n \in Nat /\ m \in Nat
  BY <1>1, <1>7, SumIsNat
<1>11. SumFunctionOnSet(f, V \cap S) = IF y \in V \cap S THEN f[y] + n ELSE n
  <2>1. \A x \in V \cap S : f[x] \in Nat
    OBVIOUS
  <2>2. IsFiniteSet(V \cap S)
    BY <1>1, <1>4
  <2> HIDE DEF U
  <2> QED BY <1>9, <2>1, <2>2, TermApart
<1>12. SumFunctionOnSet(g, V \cap T) = IF y \in V \cap T THEN g[y] + m ELSE m
  <2>1. \A x \in V \cap T : g[x] \in Nat
    OBVIOUS
  <2>2. IsFiniteSet(V \cap T)
    BY <1>1, <1>4
  <2> HIDE DEF U
  <2> QED BY <1>9, <2>1, <2>2, TermApart
<1>13. n <= m
  BY <1>8
<1>14. ~((IF y \in V \cap S THEN f[y] + n ELSE n) <= (IF y \in V \cap T THEN g[y] + m ELSE m))
  BY <1>4, <1>11, <1>12
<1> HIDE DEF U, n, m, Bad, All, Below
<1> QED BY <1>10, <1>13, <1>14

================================================================================
