---------------------------- MODULE SumTheorems ----------------------------
(***************************************************************************)
(* What the sum of a function over a finite set is: SumFunctionOnSet of    *)
(* the community modules picks the elements of the set one by one, and     *)
(* the sum does not depend on which.  The statements about every finite    *)
(* set are proved by a least counterexample.  At the end, what follows for *)
(* a number that is cut into whole portions.                               *)
(***************************************************************************)
EXTENDS Integers, FiniteSets, Functions, FiniteSetTheorems, WellFoundedInduction, TLAPS

Pick(s) == CHOOSE x \in s : TRUE

\* g sums f over every subset of S.
Sums(f, S, g) ==
  g = [s \in SUBSET S |-> IF s = {} THEN 0 ELSE f[Pick(s)] + g[s \ {Pick(s)}]]

\* Among finite sets, one has no other of them strictly within it.
LEMMA LeastSet ==
  ASSUME NEW S, IsFiniteSet(S), NEW B, B \subseteq SUBSET S, B # {}
  PROVE  \E T \in B : IsFiniteSet(T) /\ \A U \in B : ~(U \subseteq T /\ U # T)
<1>1. B \subseteq FiniteSubsetsOf(S)
  BY FS_Subset DEF FiniteSubsetsOf
<1>2. PICK T \in B : \A U \in B : ~(<<U, T>> \in StrictSubsetOrdering(S))
  BY <1>1, FS_StrictSubsetOrderingWellFounded, WFMin
<1>3. \A U \in B : U \subseteq T /\ U # T => <<U, T>> \in StrictSubsetOrdering(S)
  BY DEF StrictSubsetOrdering
<1>4. IsFiniteSet(T)
  BY FS_Subset
<1>5. \A U \in B : ~(U \subseteq T /\ U # T)
  BY <1>2, <1>3
<1> QED BY <1>4, <1>5

LEMMA LeastNat ==
  ASSUME NEW B, B \subseteq Nat, B # {}
  PROVE  \E n \in B : \A m \in B : n <= m
<1>1. PICK n \in B : \A m \in B : ~(<<m, n>> \in OpToRel(<, Nat))
  BY NatLessThanWellFounded, WFMin
<1>2. \A m \in B : m < n => <<m, n>> \in OpToRel(<, Nat)
  BY DEF OpToRel
<1>3. \A m \in B : ~(m < n)
  BY <1>1, <1>2
<1>4. \A m \in B : n <= m
  BY <1>3
<1> QED BY <1>4

\* The recursive definition of the sum has a solution: one can be built for the
\* subsets of every size.
LEMMA SumsExist ==
  ASSUME NEW f, NEW S, IsFiniteSet(S)
  PROVE  \E g : Sums(f, S, g)
<1> DEFINE P == SUBSET S
           Small(n) == {s \in P : Cardinality(s) <= n}
           Step(g, s) == IF s = {} THEN 0 ELSE f[Pick(s)] + g[s \ {Pick(s)}]
           Good(n) == \E g : g = [s \in Small(n) |-> Step(g, s)]
           Bad == {n \in Nat : ~Good(n)}
<1>0. \A s \in P : /\ IsFiniteSet(s) /\ Cardinality(s) \in Nat
                   /\ s # {} => /\ Pick(s) \in s /\ s \ {Pick(s)} \in P
                                /\ Cardinality(s \ {Pick(s)}) = Cardinality(s) - 1
                                /\ Cardinality(s) # 0
  BY FS_Subset, FS_CardinalityType, FS_RemoveElement, FS_EmptySet DEF Pick
<1>5. S \in P /\ \A s \in P : Cardinality(s) <= Cardinality(S)
  BY FS_Subset
<1>6. \A g : g = [s \in P |-> Step(g, s)] => Sums(f, S, g)
  BY DEF Sums
<1> HIDE DEF P
<1>8. \A s \in P : Cardinality(s) \in Nat /\ (s # {} => Cardinality(s) # 0)
  BY <1>0
<1>1. Good(0)
  <2> DEFINE h == [s \in Small(0) |-> 0]
  <2>1. \A s \in Small(0) : s = {}
    BY <1>8
  <2>2. h = [s \in Small(0) |-> Step(h, s)]
    BY <2>1
  <2> QED BY <2>2
<1>2. ASSUME NEW n \in Nat, Good(n)
      PROVE  Good(n + 1)
  <2>1. PICK g : g = [s \in Small(n) |-> Step(g, s)]
    BY <1>2
  <2> DEFINE h == [s \in Small(n + 1) |-> IF s \in Small(n) THEN g[s] ELSE Step(g, s)]
  <2>2. \A s \in Small(n + 1) : s # {} => s \ {Pick(s)} \in Small(n)
    BY <1>0
  <2>3. \A s \in Small(n) : s \in Small(n + 1)
    BY <1>8
  <2>4. \A s \in Small(n) : h[s] = g[s]
    BY <2>3
  <2>5. \A s \in Small(n + 1) : Step(h, s) = Step(g, s)
    <3> HIDE DEF h
    <3> QED BY <2>2, <2>4
  <2>6. \A s \in Small(n) : g[s] = Step(g, s)
    BY <2>1
  <2>7. \A s \in Small(n + 1) : h[s] = Step(g, s)
    BY <2>6
  <2>8. h = [s \in Small(n + 1) |-> Step(h, s)]
    BY <2>5, <2>7
  <2> QED BY <2>8
<1>3. \A n \in Nat : Good(n)
  <2> HIDE DEF Good
  <2> SUFFICES ASSUME Bad # {}
               PROVE  FALSE
    OBVIOUS
  <2>1. PICK n \in Bad : \A m \in Bad : n <= m
    BY LeastNat
  <2>2. n # 0 /\ n \in Nat
    BY <1>1
  <2>3. n - 1 \in Nat /\ n - 1 \notin Bad
    BY <2>1, <2>2
  <2>4. Good((n - 1) + 1)
    BY <2>3, <1>2
  <2> QED BY <2>1, <2>2, <2>4
<1>4. PICK g : g = [s \in Small(Cardinality(S)) |-> Step(g, s)]
  <2>1. Good(Cardinality(S))
    BY <1>3, <1>5, <1>8
  <2> QED BY <2>1
<1>7. Small(Cardinality(S)) = P
  BY <1>5
<1> QED BY <1>4, <1>6, <1>7

\* Two solutions agree on the sets they both know.
LEMMA SumsAgree ==
  ASSUME NEW f, NEW S, NEW T, IsFiniteSet(S), T \subseteq S,
         NEW g, NEW h, Sums(f, S, g), Sums(f, T, h)
  PROVE  g[T] = h[T]
<1> DEFINE Bad == {s \in SUBSET T : g[s] # h[s]}
<1> SUFFICES ASSUME Bad # {}
             PROVE  FALSE
  OBVIOUS
<1>1. IsFiniteSet(T)
  BY FS_Subset
<1>2. PICK s \in Bad : \A u \in Bad : ~(u \subseteq s /\ u # s)
  <2>1. Bad \subseteq SUBSET T
    OBVIOUS
  <2> HIDE DEF Bad
  <2> QED BY <1>1, <2>1, LeastSet
<1>3. /\ g[s] = IF s = {} THEN 0 ELSE f[Pick(s)] + g[s \ {Pick(s)}]
      /\ h[s] = IF s = {} THEN 0 ELSE f[Pick(s)] + h[s \ {Pick(s)}]
  BY DEF Sums
<1>4. s # {} /\ Pick(s) \in s
  BY <1>3 DEF Pick
<1>5. s \ {Pick(s)} \notin Bad
  BY <1>2, <1>4
<1>6. g[s \ {Pick(s)}] = h[s \ {Pick(s)}]
  BY <1>5
<1> QED BY <1>3, <1>4, <1>6

LEMMA SumIsSums ==
  ASSUME NEW f, NEW S, IsFiniteSet(S)
  PROVE  \E g : Sums(f, S, g) /\ SumFunctionOnSet(f, S) = g[S]
<1> DEFINE G == CHOOSE g : Sums(f, S, g)
<1>1. Sums(f, S, G)
  BY SumsExist
<1>2. SumFunctionOnSet(f, S) = G[S]
  BY DEF SumFunctionOnSet, FoldFunctionOnSet, MapThenFoldSet, Sums, Pick
<1> QED BY <1>1, <1>2

-----------------------------------------------------------------------------
LEMMA SumEmpty == ASSUME NEW f PROVE SumFunctionOnSet(f, {}) = 0
<1>1. PICK g : Sums(f, {}, g) /\ SumFunctionOnSet(f, {}) = g[{}]
  BY SumIsSums, FS_EmptySet
<1> QED BY <1>1 DEF Sums

\* The sum is the picked element's value and the sum over the others.
LEMMA SumPick ==
  ASSUME NEW f, NEW S, IsFiniteSet(S), S # {}
  PROVE  /\ Pick(S) \in S
         /\ SumFunctionOnSet(f, S) = f[Pick(S)] + SumFunctionOnSet(f, S \ {Pick(S)})
<1> DEFINE T == S \ {Pick(S)}
<1>1. Pick(S) \in S
  BY DEF Pick
<1>2. IsFiniteSet(T)
  BY FS_Subset
<1>3. PICK g : Sums(f, S, g) /\ SumFunctionOnSet(f, S) = g[S]
  BY SumIsSums
<1>4. PICK h : Sums(f, T, h) /\ SumFunctionOnSet(f, T) = h[T]
  BY <1>2, SumIsSums
<1>5. g[T] = h[T]
  <2>1. T \subseteq S
    OBVIOUS
  <2> HIDE DEF T
  <2> QED BY <1>3, <1>4, <2>1, SumsAgree
<1>6. g[S] = f[Pick(S)] + g[T]
  BY <1>3 DEF Sums
<1> QED BY <1>1, <1>3, <1>4, <1>5, <1>6

\* A sum of natural numbers is one.
LEMMA SumNat ==
  ASSUME NEW S, IsFiniteSet(S), NEW f, \A x \in S : f[x] \in Nat
  PROVE  SumFunctionOnSet(f, S) \in Nat
<1> DEFINE Bad == {s \in SUBSET S : SumFunctionOnSet(f, s) \notin Nat}
<1> SUFFICES ASSUME Bad # {}
             PROVE  FALSE
  OBVIOUS
<1>1. PICK s \in Bad : IsFiniteSet(s) /\ \A u \in Bad : ~(u \subseteq s /\ u # s)
  <2>1. Bad \subseteq SUBSET S
    OBVIOUS
  <2> HIDE DEF Bad
  <2> QED BY <2>1, LeastSet
<1>2. s # {}
  BY SumEmpty
<1>3. /\ Pick(s) \in s
      /\ SumFunctionOnSet(f, s) = f[Pick(s)] + SumFunctionOnSet(f, s \ {Pick(s)})
  BY <1>1, <1>2, SumPick
<1>4. s \ {Pick(s)} \notin Bad
  BY <1>1, <1>3
<1> QED BY <1>3, <1>4

\* Whichever element is taken out, its value is what the sum loses.
LEMMA SumRemove ==
  ASSUME NEW S, IsFiniteSet(S), NEW f, \A x \in S : f[x] \in Nat, NEW x \in S
  PROVE  SumFunctionOnSet(f, S) = f[x] + SumFunctionOnSet(f, S \ {x})
<1> DEFINE Sum(s) == SumFunctionOnSet(f, s)
           Bad == {s \in SUBSET S : \E y \in s : Sum(s) # f[y] + Sum(s \ {y})}
<1>0. \A s \in SUBSET S : /\ IsFiniteSet(s) /\ Sum(s) \in Nat
                          /\ s # {} => Pick(s) \in s /\ Sum(s) = f[Pick(s)] + Sum(s \ {Pick(s)})
  BY FS_Subset, SumNat, SumPick
<1> HIDE DEF Sum
<1>1. Bad = {}
  <2> SUFFICES ASSUME Bad # {}
               PROVE  FALSE
    OBVIOUS
  <2>1. PICK s \in Bad : \A u \in Bad : ~(u \subseteq s /\ u # s)
    <3>1. Bad \subseteq SUBSET S
      OBVIOUS
    <3> HIDE DEF Bad
    <3> QED BY <3>1, LeastSet
  <2>2. PICK y \in s : Sum(s) # f[y] + Sum(s \ {y})
    OBVIOUS
  <2> DEFINE p == Pick(s)
  <2>3. p \in s /\ Sum(s) = f[p] + Sum(s \ {p})
    BY <1>0
  <2>4. y # p
    BY <2>2, <2>3
  <2> HIDE DEF p
  <2>5. s \ {p} \notin Bad /\ s \ {y} \notin Bad
    BY <2>1, <2>3
  <2>6. /\ Sum(s \ {p}) = f[y] + Sum((s \ {p}) \ {y})
        /\ Sum(s \ {y}) = f[p] + Sum((s \ {y}) \ {p})
    BY <2>3, <2>4, <2>5
  <2>7. (s \ {p}) \ {y} = (s \ {y}) \ {p}
    OBVIOUS
  <2>8. f[y] \in Nat /\ f[p] \in Nat /\ Sum((s \ {y}) \ {p}) \in Nat
    BY <1>0, <2>3
  <2>9. Sum(s \ {p}) = f[y] + Sum((s \ {y}) \ {p})
    BY <2>6, <2>7
  <2>10. Sum(s) = f[p] + (f[y] + Sum((s \ {y}) \ {p}))
    BY <2>3, <2>9
  <2>11. Sum(s) = f[y] + (f[p] + Sum((s \ {y}) \ {p}))
    BY <2>8, <2>10
  <2> QED BY <2>2, <2>6, <2>11
<1> QED BY <1>1 DEF Sum

LEMMA SumAdd ==
  ASSUME NEW S, IsFiniteSet(S), NEW x, x \notin S, NEW f, \A y \in S \cup {x} : f[y] \in Nat
  PROVE  SumFunctionOnSet(f, S \cup {x}) = f[x] + SumFunctionOnSet(f, S)
<1>1. IsFiniteSet(S \cup {x}) /\ (S \cup {x}) \ {x} = S /\ x \in S \cup {x}
  BY FS_AddElement
<1> QED BY <1>1, SumRemove

\* Functions that agree on a set have the same sum over it.
LEMMA SumSame ==
  ASSUME NEW S, IsFiniteSet(S), NEW f, NEW g, \A x \in S : f[x] = g[x]
  PROVE  SumFunctionOnSet(f, S) = SumFunctionOnSet(g, S)
<1> DEFINE Bad == {s \in SUBSET S : SumFunctionOnSet(f, s) # SumFunctionOnSet(g, s)}
<1> SUFFICES ASSUME Bad # {}
             PROVE  FALSE
  OBVIOUS
<1>1. PICK s \in Bad : IsFiniteSet(s) /\ \A u \in Bad : ~(u \subseteq s /\ u # s)
  <2>1. Bad \subseteq SUBSET S
    OBVIOUS
  <2> HIDE DEF Bad
  <2> QED BY <2>1, LeastSet
<1>2. s # {}
  BY SumEmpty
<1>3. /\ Pick(s) \in s
      /\ SumFunctionOnSet(f, s) = f[Pick(s)] + SumFunctionOnSet(f, s \ {Pick(s)})
      /\ SumFunctionOnSet(g, s) = g[Pick(s)] + SumFunctionOnSet(g, s \ {Pick(s)})
  BY <1>1, <1>2, SumPick
<1>4. s \ {Pick(s)} \notin Bad
  BY <1>1, <1>3
<1> QED BY <1>3, <1>4

\* Fewer elements have a smaller sum.
LEMMA SumSubset ==
  ASSUME NEW S, IsFiniteSet(S), NEW f, \A x \in S : f[x] \in Nat, NEW T, T \subseteq S
  PROVE  SumFunctionOnSet(f, T) <= SumFunctionOnSet(f, S)
<1> DEFINE Sum(s) == SumFunctionOnSet(f, s)
           Bad == {s \in SUBSET S : T \subseteq s /\ ~(Sum(T) <= Sum(s))}
<1>0. \A s \in SUBSET S : /\ IsFiniteSet(s) /\ Sum(s) \in Nat
                          /\ \A x \in s : Sum(s) = f[x] + Sum(s \ {x})
  BY FS_Subset, SumNat, SumRemove
<1> HIDE DEF Sum
<1> SUFFICES ASSUME Bad # {}
             PROVE  FALSE
  BY DEF Sum
<1>1. PICK s \in Bad : \A u \in Bad : ~(u \subseteq s /\ u # s)
  <2>1. Bad \subseteq SUBSET S
    OBVIOUS
  <2> HIDE DEF Bad
  <2> QED BY <2>1, LeastSet
<1>2. PICK x \in s : x \notin T
  <2>1. T \subseteq s /\ T # s
    BY <1>0
  <2> QED BY <2>1
<1>3. s \ {x} \notin Bad
  BY <1>1
<1>4. Sum(T) <= Sum(s \ {x}) /\ Sum(s) = f[x] + Sum(s \ {x})
  BY <1>0, <1>2, <1>3
<1>5. Sum(s \ {x}) \in Nat /\ f[x] \in Nat /\ Sum(T) \in Nat
  BY <1>0
<1> QED BY <1>4, <1>5

\* Greater values have a greater sum.
LEMMA SumMonotone ==
  ASSUME NEW S, IsFiniteSet(S), NEW f, NEW g,
         \A x \in S : f[x] \in Nat /\ g[x] \in Nat /\ f[x] <= g[x]
  PROVE  SumFunctionOnSet(f, S) <= SumFunctionOnSet(g, S)
<1> DEFINE Bad == {s \in SUBSET S : ~(SumFunctionOnSet(f, s) <= SumFunctionOnSet(g, s))}
<1> SUFFICES ASSUME Bad # {}
             PROVE  FALSE
  OBVIOUS
<1>1. PICK s \in Bad : IsFiniteSet(s) /\ \A u \in Bad : ~(u \subseteq s /\ u # s)
  <2>1. Bad \subseteq SUBSET S
    OBVIOUS
  <2> HIDE DEF Bad
  <2> QED BY <2>1, LeastSet
<1>2. s # {}
  BY SumEmpty
<1>3. /\ Pick(s) \in s
      /\ SumFunctionOnSet(f, s) = f[Pick(s)] + SumFunctionOnSet(f, s \ {Pick(s)})
      /\ SumFunctionOnSet(g, s) = g[Pick(s)] + SumFunctionOnSet(g, s \ {Pick(s)})
  BY <1>1, <1>2, SumPick
<1>4. s \ {Pick(s)} \notin Bad
  BY <1>1, <1>3
<1>5. /\ SumFunctionOnSet(f, s \ {Pick(s)}) \in Nat
      /\ SumFunctionOnSet(g, s \ {Pick(s)}) \in Nat
  BY <1>1, FS_Subset, SumNat
<1> QED BY <1>3, <1>4, <1>5

\* One value that grows by at most d.
LEMMA SumGrows ==
  ASSUME NEW S, IsFiniteSet(S), NEW f, NEW g, \A x \in S : f[x] \in Nat /\ g[x] \in Nat,
         NEW e \in S, NEW d \in Nat, \A x \in S \ {e} : g[x] = f[x], g[e] <= f[e] + d
  PROVE  SumFunctionOnSet(g, S) <= SumFunctionOnSet(f, S) + d
<1> DEFINE T == S \ {e}
<1>1. /\ SumFunctionOnSet(f, S) = f[e] + SumFunctionOnSet(f, T)
      /\ SumFunctionOnSet(g, S) = g[e] + SumFunctionOnSet(g, T)
  BY SumRemove
<1>2. IsFiniteSet(T) /\ T \subseteq S
  BY FS_Subset
<1> HIDE DEF T
<1>3. SumFunctionOnSet(f, T) = SumFunctionOnSet(g, T) /\ SumFunctionOnSet(f, T) \in Nat
  BY <1>2, SumSame, SumNat DEF T
<1>4. f[e] \in Nat /\ g[e] \in Nat
  OBVIOUS
<1> QED BY <1>1, <1>3, <1>4

\* One value that changes.
LEMMA SumChange ==
  ASSUME NEW S, IsFiniteSet(S), NEW f, NEW g, \A x \in S : f[x] \in Nat /\ g[x] \in Nat,
         NEW e \in S, \A x \in S \ {e} : g[x] = f[x]
  PROVE  /\ SumFunctionOnSet(f, S) \in Nat /\ SumFunctionOnSet(g, S) \in Nat
         /\ SumFunctionOnSet(g, S) + f[e] = SumFunctionOnSet(f, S) + g[e]
<1> DEFINE T == S \ {e}
<1>1. /\ SumFunctionOnSet(f, S) = f[e] + SumFunctionOnSet(f, T)
      /\ SumFunctionOnSet(g, S) = g[e] + SumFunctionOnSet(g, T)
  BY SumRemove
<1>2. IsFiniteSet(T) /\ T \subseteq S
  BY FS_Subset
<1> HIDE DEF T
<1>3. SumFunctionOnSet(f, T) = SumFunctionOnSet(g, T) /\ SumFunctionOnSet(f, T) \in Nat
  BY <1>2, SumSame, SumNat DEF T
<1>4. f[e] \in Nat /\ g[e] \in Nat
  OBVIOUS
<1> QED BY <1>1, <1>3, <1>4

LEMMA SumZero ==
  ASSUME NEW S, IsFiniteSet(S)
  PROVE  SumFunctionOnSet([x \in S |-> 0], S) = 0
<1> DEFINE f == [x \in S |-> 0]
           Bad == {s \in SUBSET S : SumFunctionOnSet(f, s) # 0}
<1> SUFFICES ASSUME Bad # {}
             PROVE  FALSE
  OBVIOUS
<1>1. PICK s \in Bad : IsFiniteSet(s) /\ \A u \in Bad : ~(u \subseteq s /\ u # s)
  <2>1. Bad \subseteq SUBSET S
    OBVIOUS
  <2> HIDE DEF Bad
  <2> QED BY <2>1, LeastSet
<1>2. s # {}
  BY SumEmpty
<1>3. /\ Pick(s) \in s
      /\ SumFunctionOnSet(f, s) = f[Pick(s)] + SumFunctionOnSet(f, s \ {Pick(s)})
  BY <1>1, <1>2, SumPick
<1>4. s \ {Pick(s)} \notin Bad
  BY <1>1, <1>3
<1>5. f[Pick(s)] = 0
  BY <1>3
<1> QED BY <1>3, <1>4, <1>5

\* A sum of sums is the sum of the values.
LEMMA SumPlus ==
  ASSUME NEW S, IsFiniteSet(S), NEW f, NEW g, NEW h,
         \A x \in S : f[x] \in Nat /\ g[x] \in Nat /\ h[x] = f[x] + g[x]
  PROVE  SumFunctionOnSet(h, S) = SumFunctionOnSet(f, S) + SumFunctionOnSet(g, S)
<1> DEFINE Bad == {s \in SUBSET S : SumFunctionOnSet(h, s) # SumFunctionOnSet(f, s) + SumFunctionOnSet(g, s)}
<1> SUFFICES ASSUME Bad # {}
             PROVE  FALSE
  OBVIOUS
<1>1. PICK s \in Bad : IsFiniteSet(s) /\ \A u \in Bad : ~(u \subseteq s /\ u # s)
  <2>1. Bad \subseteq SUBSET S
    OBVIOUS
  <2> HIDE DEF Bad
  <2> QED BY <2>1, LeastSet
<1>2. s # {}
  <2>1. SumFunctionOnSet(f, {}) = 0 /\ SumFunctionOnSet(g, {}) = 0 /\ SumFunctionOnSet(h, {}) = 0
    BY SumEmpty
  <2>2. SumFunctionOnSet(h, {}) = SumFunctionOnSet(f, {}) + SumFunctionOnSet(g, {})
    BY <2>1
  <2> QED BY <2>2
<1>3. /\ Pick(s) \in s
      /\ SumFunctionOnSet(f, s) = f[Pick(s)] + SumFunctionOnSet(f, s \ {Pick(s)})
      /\ SumFunctionOnSet(g, s) = g[Pick(s)] + SumFunctionOnSet(g, s \ {Pick(s)})
      /\ SumFunctionOnSet(h, s) = h[Pick(s)] + SumFunctionOnSet(h, s \ {Pick(s)})
  BY <1>1, <1>2, SumPick
<1>4. s \ {Pick(s)} \notin Bad
  BY <1>1, <1>3
<1>5. /\ SumFunctionOnSet(f, s \ {Pick(s)}) \in Nat
      /\ SumFunctionOnSet(g, s \ {Pick(s)}) \in Nat
  BY <1>1, FS_Subset, SumNat
<1> QED BY <1>3, <1>4, <1>5

\* Values that are zero but for one have its sum.
LEMMA SumOne ==
  ASSUME NEW S, IsFiniteSet(S), NEW f, NEW e \in S, f[e] \in Nat, \A x \in S \ {e} : f[x] = 0
  PROVE  SumFunctionOnSet(f, S) = f[e]
<1> DEFINE zero == [x \in S |-> 0]
<1>1. /\ \A x \in S : f[x] \in Nat /\ zero[x] \in Nat
      /\ \A x \in S \ {e} : f[x] = zero[x]
      /\ zero[e] = 0 /\ SumFunctionOnSet(zero, S) = 0
  BY SumZero
<1> HIDE DEF zero
<1>2. /\ SumFunctionOnSet(zero, S) \in Nat /\ SumFunctionOnSet(f, S) \in Nat
      /\ SumFunctionOnSet(f, S) + zero[e] = SumFunctionOnSet(zero, S) + f[e]
  BY <1>1, SumChange
<1> QED BY <1>1, <1>2

\* Values grouped by a class of their own: the sums of the groups in T sum to
\* what the values with a class in T sum to.
LEMMA SumOfGroups ==
  ASSUME NEW S, IsFiniteSet(S), NEW T, IsFiniteSet(T), NEW f, NEW c,
         \A x \in S : f[x] \in Nat,
         NEW g, \A x \in S : g[x] = IF c[x] \in T THEN f[x] ELSE 0
  PROVE  SumFunctionOnSet(g, S) =
           SumFunctionOnSet([t \in T |-> SumFunctionOnSet([x \in S |-> IF c[x] = t THEN f[x] ELSE 0], S)], T)
<1> DEFINE Of(t) == [x \in S |-> IF c[x] = t THEN f[x] ELSE 0]
           Groups(s) == [t \in T |-> SumFunctionOnSet(Of(t), s)]
           Bad == {s \in SUBSET S : SumFunctionOnSet(g, s) # SumFunctionOnSet(Groups(s), T)}
<1>0. \A t \in T : \A x \in S : Of(t)[x] \in Nat
  OBVIOUS
<1>0a. \A t \in T, s \in SUBSET S : SumFunctionOnSet(Of(t), s) \in Nat
  <2> TAKE t \in T, s \in SUBSET S
  <2>1. IsFiniteSet(s) /\ \A x \in s : Of(t)[x] \in Nat
    BY <1>0, FS_Subset
  <2> HIDE DEF Of
  <2> QED BY <2>1, SumNat
<1>1. Bad = {}
  <2> SUFFICES ASSUME Bad # {}
               PROVE  FALSE
    OBVIOUS
  <2>1. PICK s \in Bad : IsFiniteSet(s) /\ \A u \in Bad : ~(u \subseteq s /\ u # s)
    <3>1. Bad \subseteq SUBSET S
      OBVIOUS
    <3> HIDE DEF Bad
    <3> QED BY <3>1, LeastSet
  <2>2. s # {}
    <3> SUFFICES ASSUME s = {} PROVE FALSE
      OBVIOUS
    <3>1. \A t \in T : Groups(s)[t] = 0
      BY SumEmpty
    <3>2. SumFunctionOnSet(Groups(s), T) = SumFunctionOnSet([t \in T |-> 0], T)
      <4>1. \A t \in T : Groups(s)[t] = [u \in T |-> 0][t]
        BY <3>1
      <4> HIDE DEF Groups
      <4> QED BY <4>1, SumSame
    <3> HIDE DEF Groups
    <3> QED BY <3>2, SumEmpty, SumZero
  <2>3. PICK e \in s : TRUE
    BY <2>2
  <2> DEFINE r == s \ {e}
  <2>4. r \in SUBSET S /\ r \notin Bad /\ s \in SUBSET S /\ e \in S
    BY <2>1
  <2>5. SumFunctionOnSet(g, r) = SumFunctionOnSet(Groups(r), T)
    BY <2>4
  <2>6. SumFunctionOnSet(g, s) = g[e] + SumFunctionOnSet(g, r)
    <3>1. \A x \in s : g[x] \in Nat
      OBVIOUS
    <3> QED BY <2>1, <3>1, SumRemove
  <2>7. \A t \in T : Groups(s)[t] = Of(t)[e] + Groups(r)[t]
    <3> SUFFICES ASSUME NEW t \in T
                 PROVE  SumFunctionOnSet(Of(t), s) = Of(t)[e] + SumFunctionOnSet(Of(t), r)
      OBVIOUS
    <3>1. \A x \in s : Of(t)[x] \in Nat
      BY <1>0
    <3> HIDE DEF Of
    <3> QED BY <2>1, <3>1, SumRemove
  <2>8. \A t \in T : Groups(s)[t] \in Nat /\ Groups(r)[t] \in Nat
    <3>1. \A t \in T : Groups(s)[t] = SumFunctionOnSet(Of(t), s) /\ Groups(r)[t] = SumFunctionOnSet(Of(t), r)
      OBVIOUS
    <3> HIDE DEF Of, r, Groups
    <3> QED BY <1>0a, <2>4, <3>1
  <2>9. SumFunctionOnSet(Groups(s), T) = g[e] + SumFunctionOnSet(Groups(r), T)
    <3>0. g[e] \in Nat /\ (c[e] \in T => g[e] = f[e]) /\ (c[e] \notin T => g[e] = 0)
          /\ \A t \in T : Of(t)[e] = IF c[e] = t THEN f[e] ELSE 0
      BY <2>4
    <3> HIDE DEF Of, Groups, r
    <3>1. CASE c[e] \in T
      <4>1. \A t \in T \ {c[e]} : Groups(s)[t] = Groups(r)[t]
        BY <2>7, <2>8, <3>0
      <4>2. Groups(s)[c[e]] = g[e] + Groups(r)[c[e]]
        BY <2>7, <3>0, <3>1
      <4>3. /\ SumFunctionOnSet(Groups(s), T) \in Nat /\ SumFunctionOnSet(Groups(r), T) \in Nat
            /\ SumFunctionOnSet(Groups(s), T) + Groups(r)[c[e]] = SumFunctionOnSet(Groups(r), T) + Groups(s)[c[e]]
        BY <2>8, <3>1, <4>1, SumChange
      <4> QED BY <2>8, <3>0, <3>1, <4>2, <4>3
    <3>2. CASE c[e] \notin T
      <4>1. \A t \in T : Groups(s)[t] = Groups(r)[t]
        BY <2>7, <2>8, <3>0, <3>2
      <4>2. SumFunctionOnSet(Groups(s), T) = SumFunctionOnSet(Groups(r), T)
        BY <4>1, SumSame
      <4>3. SumFunctionOnSet(Groups(r), T) \in Nat
        BY <2>8, SumNat
      <4> QED BY <3>0, <3>2, <4>2, <4>3
    <3> QED BY <3>1, <3>2
  <2>10. SumFunctionOnSet(g, s) # SumFunctionOnSet(Groups(s), T)
    OBVIOUS
  <2> QED BY <2>5, <2>6, <2>9, <2>10
<1>2. SumFunctionOnSet(g, S) = SumFunctionOnSet(Groups(S), T)
  BY <1>1
<1> QED BY <1>2

\* A sum over another set, which differs in one element at most, of values that
\* differ in it at most.
LEMMA SumExchange ==
  ASSUME NEW S, IsFiniteSet(S), NEW T, IsFiniteSet(T), NEW e, S \ {e} = T \ {e},
         NEW f, NEW g, \A x \in S : f[x] \in Nat, \A x \in T : g[x] \in Nat,
         \A x \in S \ {e} : g[x] = f[x]
  PROVE  /\ SumFunctionOnSet(f, S) \in Nat /\ SumFunctionOnSet(g, T) \in Nat
         /\ SumFunctionOnSet(g, T) + (IF e \in S THEN f[e] ELSE 0) =
              SumFunctionOnSet(f, S) + (IF e \in T THEN g[e] ELSE 0)
<1> DEFINE R == S \ {e}
<1>1. IsFiniteSet(R) /\ R \subseteq S /\ R \subseteq T /\ R = T \ {e}
  BY FS_Subset
<1>2. PICK n \in Nat : n = SumFunctionOnSet(f, R) /\ n = SumFunctionOnSet(g, R)
  <2>1. \A x \in R : f[x] \in Nat /\ g[x] = f[x]
    BY <1>1
  <2> HIDE DEF R
  <2> QED BY <1>1, <2>1, SumNat, SumSame
<1> HIDE DEF R
<1>3. SumFunctionOnSet(f, S) = (IF e \in S THEN f[e] ELSE 0) + n
  <2>1. CASE e \in S
    <3>1. SumFunctionOnSet(f, S) = f[e] + SumFunctionOnSet(f, R)
      BY <2>1, SumRemove DEF R
    <3> QED BY <1>2, <2>1, <3>1
  <2>2. CASE e \notin S
    <3>1. R = S
      BY <2>2 DEF R
    <3>2. SumFunctionOnSet(f, S) = n
      BY <1>2, <3>1
    <3> QED BY <2>2, <3>2
  <2> QED BY <2>1, <2>2
<1>4. SumFunctionOnSet(g, T) = (IF e \in T THEN g[e] ELSE 0) + n
  <2>1. CASE e \in T
    <3>1. SumFunctionOnSet(g, T) = g[e] + SumFunctionOnSet(g, R)
      BY <1>1, <2>1, SumRemove
    <3> QED BY <1>2, <2>1, <3>1
  <2>2. CASE e \notin T
    <3>1. R = T
      BY <1>1, <2>2
    <3>2. SumFunctionOnSet(g, T) = n
      BY <1>2, <3>1
    <3> QED BY <2>2, <3>2
  <2> QED BY <2>1, <2>2
<1>5. (e \in S => f[e] \in Nat) /\ (e \in T => g[e] \in Nat)
  OBVIOUS
<1> QED BY <1>3, <1>4, <1>5

LEMMA TimesSum == \A k, a, b \in Nat : k * (a + b) = k * a + k * b /\ k * a \in Nat
  OBVIOUS

\* A multiple of every value sums to the multiple of the sum.
LEMMA SumTimes ==
  ASSUME NEW S, IsFiniteSet(S), NEW f, NEW g, NEW k \in Nat,
         \A x \in S : f[x] \in Nat /\ g[x] = k * f[x]
  PROVE  SumFunctionOnSet(g, S) = k * SumFunctionOnSet(f, S)
<1> DEFINE Bad == {s \in SUBSET S : SumFunctionOnSet(g, s) # k * SumFunctionOnSet(f, s)}
<1> SUFFICES ASSUME Bad # {}
             PROVE  FALSE
  OBVIOUS
<1>1. PICK s \in Bad : IsFiniteSet(s) /\ \A u \in Bad : ~(u \subseteq s /\ u # s)
  <2>1. Bad \subseteq SUBSET S
    OBVIOUS
  <2> HIDE DEF Bad
  <2> QED BY <2>1, LeastSet
<1>2. s # {}
  <2>1. SumFunctionOnSet(f, {}) = 0 /\ SumFunctionOnSet(g, {}) = 0 /\ k * 0 = 0
    BY SumEmpty
  <2> QED BY <2>1
<1>3. /\ Pick(s) \in s
      /\ SumFunctionOnSet(f, s) = f[Pick(s)] + SumFunctionOnSet(f, s \ {Pick(s)})
      /\ SumFunctionOnSet(g, s) = g[Pick(s)] + SumFunctionOnSet(g, s \ {Pick(s)})
  BY <1>1, <1>2, SumPick
<1>4. s \ {Pick(s)} \notin Bad
  BY <1>1, <1>3
<1>5. SumFunctionOnSet(g, s \ {Pick(s)}) = k * SumFunctionOnSet(f, s \ {Pick(s)})
  BY <1>4
<1>6. SumFunctionOnSet(f, s \ {Pick(s)}) \in Nat /\ f[Pick(s)] \in Nat
  BY <1>1, <1>3, FS_Subset, SumNat
<1>7. SumFunctionOnSet(g, s) = k * SumFunctionOnSet(f, s)
  BY <1>3, <1>5, <1>6, TimesSum
<1> QED BY <1>7

\* Counting: ones for the elements of a subset sum to their number.
LEMMA SumCounts ==
  ASSUME NEW S, IsFiniteSet(S), NEW T, T \subseteq S,
         NEW f, \A x \in S : f[x] = IF x \in T THEN 1 ELSE 0
  PROVE  SumFunctionOnSet(f, S) = Cardinality(T)
<1> DEFINE Bad == {s \in SUBSET S : SumFunctionOnSet(f, s) # Cardinality(s \cap T)}
<1> SUFFICES ASSUME Bad # {}
             PROVE  FALSE
  <2>1. S \cap T = T
    OBVIOUS
  <2> QED BY <2>1
<1>1. PICK s \in Bad : IsFiniteSet(s) /\ \A u \in Bad : ~(u \subseteq s /\ u # s)
  <2>1. Bad \subseteq SUBSET S
    OBVIOUS
  <2> HIDE DEF Bad
  <2> QED BY <2>1, LeastSet
<1>2. s # {}
  <2>1. SumFunctionOnSet(f, {}) = 0 /\ Cardinality({}) = 0 /\ {} \cap T = {}
    BY SumEmpty, FS_EmptySet
  <2> QED BY <2>1
<1>3. /\ Pick(s) \in s
      /\ SumFunctionOnSet(f, s) = f[Pick(s)] + SumFunctionOnSet(f, s \ {Pick(s)})
  BY <1>1, <1>2, SumPick
<1> DEFINE e == Pick(s)
           r == s \ {e}
<1>4. SumFunctionOnSet(f, r) = Cardinality(r \cap T)
  BY <1>1, <1>3
<1>5. IsFiniteSet(r \cap T) /\ Cardinality(r \cap T) \in Nat
  BY <1>1, FS_Subset, FS_CardinalityType
<1>6. CASE e \in T
  <2>1. s \cap T = (r \cap T) \cup {e} /\ e \notin r \cap T
    BY <1>3, <1>6
  <2>2. Cardinality(s \cap T) = Cardinality(r \cap T) + 1
    BY <1>5, <2>1, FS_AddElement
  <2> QED BY <1>1, <1>3, <1>4, <1>5, <1>6, <2>2
<1>7. CASE e \notin T
  <2>1. s \cap T = r \cap T
    BY <1>7
  <2> QED BY <1>1, <1>3, <1>4, <1>5, <1>7, <2>1
<1> QED BY <1>6, <1>7

\* Zeros add nothing.
LEMMA SumSupport ==
  ASSUME NEW S, IsFiniteSet(S), NEW f, \A x \in S : f[x] \in Nat,
         NEW T, T \subseteq S, \A x \in S \ T : f[x] = 0
  PROVE  SumFunctionOnSet(f, S) = SumFunctionOnSet(f, T)
<1> DEFINE Bad == {s \in SUBSET S : SumFunctionOnSet(f, s) # SumFunctionOnSet(f, s \cap T)}
<1> SUFFICES ASSUME Bad # {}
             PROVE  FALSE
  <2>1. S \cap T = T
    OBVIOUS
  <2> QED BY <2>1
<1>1. PICK s \in Bad : IsFiniteSet(s) /\ \A u \in Bad : ~(u \subseteq s /\ u # s)
  <2>1. Bad \subseteq SUBSET S
    OBVIOUS
  <2> HIDE DEF Bad
  <2> QED BY <2>1, LeastSet
<1>2. s # {}
  <2>1. {} \cap T = {}
    OBVIOUS
  <2> QED BY <2>1
<1>3. /\ Pick(s) \in s
      /\ SumFunctionOnSet(f, s) = f[Pick(s)] + SumFunctionOnSet(f, s \ {Pick(s)})
  BY <1>1, <1>2, SumPick
<1> DEFINE e == Pick(s)
           r == s \ {e}
<1>4. SumFunctionOnSet(f, r) = SumFunctionOnSet(f, r \cap T)
  BY <1>1, <1>3
<1>5. IsFiniteSet(r \cap T) /\ SumFunctionOnSet(f, r \cap T) \in Nat
  BY <1>1, FS_Subset, SumNat
<1>6. CASE e \in T
  <2>1. s \cap T = (r \cap T) \cup {e} /\ e \notin r \cap T
    BY <1>3, <1>6
  <2>2. \A y \in (r \cap T) \cup {e} : f[y] \in Nat
    BY <1>1, <1>3
  <2>3. SumFunctionOnSet(f, (r \cap T) \cup {e}) = f[e] + SumFunctionOnSet(f, r \cap T)
    BY <1>5, <2>1, <2>2, SumAdd
  <2> QED BY <1>1, <1>3, <1>4, <2>1, <2>3
<1>7. CASE e \notin T
  <2>1. s \cap T = r \cap T
    BY <1>7
  <2>2. f[e] = 0
    BY <1>1, <1>3, <1>7
  <2> QED BY <1>1, <1>3, <1>4, <1>5, <2>1, <2>2
<1> QED BY <1>6, <1>7

\* Those before each element of a finite set in a total order.
TotallyOrdered(P, before) ==
  /\ before \in [P -> SUBSET P]
  /\ \A x \in P : x \notin before[x]
  /\ \A x, y \in P : x = y \/ x \in before[y] \/ y \in before[x]
  /\ \A x, y \in P : x \in before[y] => before[x] \subseteq before[y]

\* There are m elements with fewer than m before them.
LEMMA Ranks ==
  ASSUME NEW P, IsFiniteSet(P), NEW before, TotallyOrdered(P, before),
         NEW m \in Nat, m <= Cardinality(P)
  PROVE  Cardinality({x \in P : Cardinality(before[x]) < m}) = m
<1> DEFINE n == Cardinality(P)
           rank == [x \in P |-> Cardinality(before[x])]
           low == {x \in P : Cardinality(before[x]) < m}
<1>1. n \in Nat /\ IsFiniteSet(0..n - 1) /\ Cardinality(0..n - 1) = n
      /\ IsFiniteSet(0..m - 1) /\ Cardinality(0..m - 1) = m
  <2>1. n \in Nat /\ n - 1 \in Int /\ m - 1 \in Int
    BY FS_CardinalityType
  <2>2. \A k \in Int : IsFiniteSet(0..k) /\ Cardinality(0..k) = IF 0 > k THEN 0 ELSE k - 0 + 1
    BY FS_Interval
  <2> HIDE DEF n
  <2>3. IsFiniteSet(0..n - 1) /\ IsFiniteSet(0..m - 1)
    BY <2>1, <2>2
  <2>4. Cardinality(0..n - 1) = n
    <3>1. Cardinality(0..n - 1) = IF 0 > n - 1 THEN 0 ELSE (n - 1) - 0 + 1
      BY <2>1, <2>2
    <3> QED BY <2>1, <3>1
  <2>5. Cardinality(0..m - 1) = m
    <3>1. Cardinality(0..m - 1) = IF 0 > m - 1 THEN 0 ELSE (m - 1) - 0 + 1
      BY <2>1, <2>2
    <3> QED BY <2>1, <3>1
  <2> QED BY <2>1, <2>3, <2>4, <2>5
<1>2. ASSUME NEW x \in P
      PROVE  rank[x] \in 0..n - 1
  <2>1. before[x] \subseteq P /\ x \notin before[x] /\ IsFiniteSet(before[x])
    BY FS_Subset DEF TotallyOrdered
  <2>2. Cardinality(before[x]) \in Nat /\ Cardinality(before[x]) <= n /\ Cardinality(before[x]) # n
    BY <1>1, <2>1, FS_Subset, FS_CardinalityType
  <2> QED BY <1>1, <2>2
<1>3. ASSUME NEW x \in P, NEW y \in P, x \in before[y]
      PROVE  rank[x] # rank[y]
  <2>1. before[x] \subseteq before[y] /\ x \notin before[x] /\ IsFiniteSet(before[y])
    BY <1>3, FS_Subset DEF TotallyOrdered
  <2> QED BY <1>3, <2>1, FS_Subset
<1>4. \A x, y \in P : rank[x] = rank[y] => x = y
  BY <1>3 DEF TotallyOrdered
<1>5. rank \in Injection(P, 0..n - 1)
  BY <1>2, <1>4 DEF Injection, IsInjective
<1>6. rank \in Surjection(P, 0..n - 1)
  BY <1>1, <1>5, FS_Injection
<1> DEFINE lowRank == [x \in low |-> rank[x]]
<1>7. lowRank \in Bijection(low, 0..m - 1)
  <2>1. lowRank \in [low -> 0..m - 1]
    BY <1>1, <1>2
  <2>2. ASSUME NEW i \in 0..m - 1
        PROVE  \E x \in low : lowRank[x] = i
    <3>1. i \in 0..n - 1 /\ i < m
      BY <1>1
    <3>2. PICK x \in P : rank[x] = i
      BY <1>6, <3>1 DEF Surjection
    <3>3. x \in low /\ lowRank[x] = i
      BY <3>1, <3>2
    <3> QED BY <3>3
  <2>3. \A x, y \in low : lowRank[x] = lowRank[y] => x = y
    BY <1>4
  <2> QED BY <2>1, <2>2, <2>3 DEF Bijection, Injection, Surjection, IsInjective
<1>8. IsFiniteSet(low)
  BY FS_Subset
<1> QED BY <1>1, <1>7, <1>8, FS_Bijection DEF ExistsBijection

LEMMA Quotient ==
  ASSUME NEW a \in Nat, NEW d \in Nat, d > 0
  PROVE  /\ a \div d \in Nat /\ a % d \in 0..d - 1 /\ a = d * (a \div d) + (a % d)
OBVIOUS

\* Factors are compared as their products with one number.
LEMMA Factors ==
  ASSUME NEW W \in Nat, W > 0, NEW r \in Int, NEW k \in Int
  PROVE  /\ 0 <= W * r => 0 <= r
         /\ W * r <= W * k => r <= k
         /\ W * r < W * k => r < k
<1>1. ASSUME r < 0 PROVE W * r < 0
  BY <1>1
<1>2. ASSUME k < r PROVE W * k < W * r
  BY <1>2
<1>3. ASSUME k <= r PROVE W * k <= W * r
  BY <1>3
<1>4. W * r \in Int /\ W * k \in Int
  OBVIOUS
<1> QED BY <1>1, <1>2, <1>3, <1>4

\* The portions of n in proportion to weights w of sum W: whole ones, and one more
\* for as many as are missing, in an order.
Portions(P, w, n, W, before, share) ==
  LET base == [x \in P |-> (n * w[x]) \div W]
      rest == n - SumFunctionOnSet(base, P)
  IN \A x \in P : share[x] = base[x] + (IF Cardinality(before[x]) < rest THEN 1 ELSE 0)

LEMMA PortionsSum ==
  ASSUME NEW P, IsFiniteSet(P), NEW w, \A x \in P : w[x] \in Nat,
         NEW n \in Nat, NEW W, W = SumFunctionOnSet(w, P), W # 0,
         NEW before, TotallyOrdered(P, before), NEW share, Portions(P, w, n, W, before, share)
  PROVE  /\ SumFunctionOnSet(share, P) = n
         /\ \A x \in P :
              /\ share[x] \in Nat
              /\ share[x] * W - n * w[x] <= W /\ n * w[x] - share[x] * W <= W
              /\ n <= W /\ w[x] > 0 => share[x] <= w[x]
<1> DEFINE base == [x \in P |-> (n * w[x]) \div W]
           left == [x \in P |-> (n * w[x]) % W]
           whole == [x \in P |-> n * w[x]]
           taken == [x \in P |-> W * base[x]]
           B == SumFunctionOnSet(base, P)
           L == SumFunctionOnSet(left, P)
           rest == n - B
           T == {x \in P : Cardinality(before[x]) < rest}
           extra == [x \in P |-> IF x \in T THEN 1 ELSE 0]
<1>1. W \in Nat /\ W > 0
  BY SumNat
<1>2. \A x \in P : n * w[x] \in Nat
  BY TimesSum
<1>3. \A x \in P : /\ base[x] \in Nat /\ left[x] \in 0..W - 1 /\ left[x] \in Nat
                   /\ whole[x] = n * w[x] /\ taken[x] = W * base[x]
                   /\ whole[x] = taken[x] + left[x]
  <2> TAKE x \in P
  <2>1. n * w[x] \in Nat
    BY <1>2
  <2> DEFINE a == n * w[x]
  <2>2. base[x] = a \div W /\ left[x] = a % W /\ whole[x] = a /\ taken[x] = W * base[x]
    OBVIOUS
  <2>3. a \in Nat
    BY <2>1
  <2> HIDE DEF a, base, left, whole, taken
  <2>4. a \div W \in Nat /\ a % W \in 0..W - 1 /\ a = W * (a \div W) + (a % W)
    BY <1>1, <2>3, Quotient
  <2>5. a = n * w[x]
    BY DEF a
  <2> QED BY <1>1, <2>2, <2>4, <2>5
<1>4. \A x \in P : share[x] = base[x] + extra[x] /\ extra[x] \in {0, 1}
  BY DEF Portions
<1>5. \A x \in P : extra[x] = IF x \in T THEN 1 ELSE 0
  OBVIOUS
<1>6. /\ \A x \in P : x \in T <=> Cardinality(before[x]) < rest
      /\ T \subseteq P /\ T = {x \in P : Cardinality(before[x]) < rest}
  OBVIOUS
<1> HIDE DEF base, left, whole, taken, T, extra
<1>7. \A x \in P : taken[x] \in Nat /\ whole[x] \in Nat
  BY <1>1, <1>2, <1>3, TimesSum
<1>8. SumFunctionOnSet(whole, P) = n * W
  BY <1>3, SumTimes
<1>9. SumFunctionOnSet(taken, P) = W * B
  BY <1>1, <1>3, SumTimes
<1>10. SumFunctionOnSet(whole, P) = SumFunctionOnSet(taken, P) + L
  BY <1>3, <1>7, SumPlus
<1>11. B \in Nat /\ L \in Nat
  BY <1>3, SumNat
<1>12. n * W = W * B + L
  BY <1>8, <1>9, <1>10
<1>13. L <= W * Cardinality(P)
  <2> DEFINE one == [x \in P |-> 1]
             all == [x \in P |-> W * one[x]]
  <2>1. \A x \in P : one[x] = (IF x \in P THEN 1 ELSE 0) /\ one[x] \in Nat /\ all[x] = W * one[x]
                    /\ all[x] = W
    BY <1>1
  <2> HIDE DEF one, all
  <2>2. SumFunctionOnSet(one, P) = Cardinality(P)
    BY <2>1, SumCounts
  <2>3. SumFunctionOnSet(all, P) = W * Cardinality(P)
    BY <1>1, <2>1, <2>2, SumTimes
  <2>4. \A x \in P : left[x] \in Nat /\ all[x] \in Nat /\ left[x] <= all[x]
    BY <1>1, <1>3, <2>1
  <2>5. L <= SumFunctionOnSet(all, P)
    BY <2>4, SumMonotone
  <2> QED BY <2>3, <2>5
<1>14. Cardinality(P) \in Nat
  BY FS_CardinalityType
<1>15. W * rest = L /\ rest \in Int
  <2>1. W * (n - B) = n * W - W * B
    BY <1>1, <1>11
  <2>2. n * W \in Int /\ W * B \in Int
    BY <1>1, <1>11
  <2> QED BY <1>11, <1>12, <2>1, <2>2
<1>16. rest \in Nat /\ rest <= Cardinality(P)
  <2>1. 0 <= W * rest /\ W * rest <= W * Cardinality(P)
    BY <1>11, <1>13, <1>15
  <2> HIDE DEF rest
  <2>2. 0 <= rest /\ rest <= Cardinality(P)
    BY <1>1, <1>14, <1>15, <2>1, Factors
  <2> QED BY <1>15, <2>2
<1>17. Cardinality(T) = rest
  BY <1>6, <1>16, Ranks
<1>18. SumFunctionOnSet(extra, P) = rest
  BY <1>5, <1>6, <1>17, SumCounts
<1>19. SumFunctionOnSet(share, P) = B + SumFunctionOnSet(extra, P)
  <2>1. \A x \in P : base[x] \in Nat /\ extra[x] \in Nat /\ share[x] = base[x] + extra[x]
    BY <1>3, <1>4
  <2> QED BY <2>1, SumPlus
<1>20. ASSUME NEW x \in P
       PROVE  /\ share[x] \in Nat
              /\ share[x] * W - n * w[x] <= W /\ n * w[x] - share[x] * W <= W
  <2>1. /\ n * w[x] = W * base[x] + left[x] /\ n * w[x] \in Nat /\ W * base[x] \in Nat
        /\ base[x] \in Nat /\ left[x] \in 0..W - 1 /\ extra[x] \in {0, 1}
        /\ share[x] = base[x] + extra[x]
    BY <1>2, <1>3, <1>4, <1>7
  <2>2. (base[x] + 0) * W = W * base[x] /\ (base[x] + 1) * W = W * base[x] + W
    BY <1>1, <2>1
  <2> QED BY <1>1, <2>1, <2>2
<1>21. ASSUME NEW x \in P, n <= W, w[x] > 0
       PROVE  share[x] <= w[x]
  <2>1. CASE n < W
    <3>1. n * w[x] < W * w[x]
      BY <1>1, <1>21, <2>1
    <3>2. W * base[x] < W * w[x]
      <4>1. W * base[x] \in Nat /\ n * w[x] \in Nat /\ W * w[x] \in Nat /\ left[x] \in Nat
            /\ n * w[x] = W * base[x] + left[x]
        BY <1>1, <1>2, <1>3, <1>7, TimesSum
      <4> QED BY <3>1, <4>1
    <3>3. base[x] < w[x]
      BY <1>1, <1>3, <3>2, Factors
    <3> QED BY <1>3, <1>4, <3>3
  <2>2. CASE n = W
    <3>1. ASSUME NEW y \in P
          PROVE  left[y] = 0 /\ base[y] = w[y]
      <4>1. W * w[y] = W * base[y] + left[y] /\ left[y] \in 0..W - 1 /\ base[y] \in Nat
        BY <1>3, <2>2
      <4>2. W * (w[y] - base[y]) = left[y]
        BY <1>1, <4>1
      <4>3. 0 <= W * (w[y] - base[y]) /\ W * (w[y] - base[y]) < W * 1
        BY <1>1, <4>1, <4>2
      <4>4. w[y] - base[y] \in Int
        BY <4>1
      <4>5. 0 <= w[y] - base[y] /\ w[y] - base[y] < 1
        BY <1>1, <4>3, <4>4, Factors
      <4>6. w[y] = base[y]
        BY <4>1, <4>5
      <4> QED BY <1>1, <4>1, <4>2, <4>6
    <3>2. L = 0
      <4> DEFINE zero == [y \in P |-> 0]
      <4>1. \A y \in P : left[y] = zero[y]
        BY <3>1
      <4>2. SumFunctionOnSet(zero, P) = 0
        BY SumZero
      <4> HIDE DEF zero
      <4> QED BY <4>1, <4>2, SumSame
    <3>3. rest = 0
      BY <1>1, <1>15, <1>16, <3>2
    <3>4. x \notin T
      <4>1. IsFiniteSet(before[x]) /\ Cardinality(before[x]) \in Nat
        BY FS_Subset, FS_CardinalityType DEF TotallyOrdered
      <4> QED BY <1>6, <3>3, <4>1
    <3> QED BY <1>4, <1>5, <3>1, <3>4
  <2> QED BY <1>1, <1>21, <2>1, <2>2
<1> QED BY <1>11, <1>16, <1>18, <1>19, <1>20, <1>21
=============================================================================
