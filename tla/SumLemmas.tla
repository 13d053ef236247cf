----------------------------- MODULE SumLemmas -----------------------------
(***************************************************************************)
(* Sums over finite sets (SumFunctionOnSet of the community modules), for  *)
(* the totals of money and of stock that the proofs reckon with.           *)
(*                                                                         *)
(* The sum is defined by recursion over the subsets of its domain.  What   *)
(* holds of every finite set is proved here by looking at a smallest       *)
(* subset it could fail for, since strict inclusion among the subsets of a *)
(* finite set is well founded.                                             *)
(***************************************************************************)
EXTENDS Functions, Integers, FiniteSetTheorems, TLAPS

\* Among subsets of a finite set one is smallest.
LEMMA SmallestSubset ==
  ASSUME NEW S, IsFiniteSet(S), NEW T, T \subseteq SUBSET S, T # {}
  PROVE  \E s \in T : \A t \in T : t \subseteq s => t = s
<1>1. IsWellFoundedOn(StrictSubsetOrdering(S), SUBSET S)
  BY FS_StrictSubsetOrderingWellFounded, FS_FiniteSubsetsOfFinite
<1>2. \E s \in T : \A t \in T : ~(<<t, s>> \in StrictSubsetOrdering(S))
  BY <1>1, WFMin
<1> QED
  BY <1>2 DEF StrictSubsetOrdering

\* The element a sum takes first, and the sums of all subsets of S as one function.
Picked(s) == CHOOSE x \in s : TRUE

Adds(f, S, g) ==
  g = [s \in SUBSET S |-> IF s = {} THEN 0 ELSE f[Picked(s)] + g[s \ {Picked(s)}]]

\* That function is determined on every smaller domain ...
LEMMA AddsIsUnique ==
  ASSUME NEW f, NEW S, IsFiniteSet(S), NEW s \in SUBSET S, 
         NEW g, Adds(f, S, g), NEW h, Adds(f, s, h)
  PROVE  \A t \in SUBSET s : g[t] = h[t]
<1> DEFINE T == {t \in SUBSET s : g[t] # h[t]}
<1> SUFFICES ASSUME T # {} PROVE FALSE
  OBVIOUS
<1>0. IsFiniteSet(s)
  BY FS_Subset
<1>1. PICK t \in T : \A u \in T : u \subseteq t => u = t
  <2> HIDE DEF T
  <2>1. T \subseteq SUBSET s BY DEF T
  <2> QED BY <1>0, <2>1, SmallestSubset
<1>2. g[t] = IF t = {} THEN 0 ELSE f[Picked(t)] + g[t \ {Picked(t)}]
  BY Zenon DEF Adds
<1>3. h[t] = IF t = {} THEN 0 ELSE f[Picked(t)] + h[t \ {Picked(t)}]
  BY Zenon DEF Adds
<1>4. t # {} => Picked(t) \in t
  BY DEF Picked
<1>5. t # {} => g[t \ {Picked(t)}] = h[t \ {Picked(t)}]
  BY <1>1, <1>4
<1> QED
  BY <1>2, <1>3, <1>5

\* ... it is the one the sum is read from ...
LEMMA SumIsAdding ==
  ASSUME NEW f, NEW S
  PROVE  SumFunctionOnSet(f, S) = (CHOOSE g : Adds(f, S, g))[S]
  BY Zenon DEF SumFunctionOnSet, FoldFunctionOnSet, MapThenFoldSet, Adds, Picked

\* ... and it exists, which a recursive definition leaves to be shown.
LEMMA AddsExists ==
  ASSUME NEW f, NEW S, IsFiniteSet(S)
  PROVE  \A s \in SUBSET S : \E g : Adds(f, s, g)
<1> DEFINE T == {t \in SUBSET S : ~\E g : Adds(f, t, g)}
<1> SUFFICES ASSUME T # {} PROVE FALSE
  OBVIOUS
<1>1. PICK t \in T : \A u \in T : u \subseteq t => u = t
  <2> HIDE DEF T
  <2>1. T \subseteq SUBSET S BY DEF T
  <2> QED BY <2>1, SmallestSubset
<1> DEFINE G(u) == CHOOSE g : Adds(f, u, g)
<1>2. \A u \in SUBSET t : u # t => Adds(f, u, G(u))
  BY <1>1
<1> DEFINE Less(u) == IF u = {} THEN 0 ELSE f[Picked(u)] + G(u \ {Picked(u)})[u \ {Picked(u)}]
           h == [u \in SUBSET t |-> Less(u)]
<1>3. ASSUME NEW u \in SUBSET t
      PROVE  h[u] = IF u = {} THEN 0 ELSE f[Picked(u)] + h[u \ {Picked(u)}]
  <2> HIDE DEF G
  <2>1. h[u] = Less(u)
    OBVIOUS
  <2>2. CASE u = {}
    BY <2>1, <2>2
  <2>3. CASE u # {}
    <3> DEFINE v == u \ {Picked(u)}
    <3>1. Picked(u) \in u /\ v \in SUBSET t /\ v # t
      BY <2>3 DEF Picked
    <3>2. Adds(f, v, G(v))
      BY <3>1, <1>2
    <3>3. G(v)[v] = Less(v)
      <4>1. G(v)[v] = IF v = {} THEN 0 ELSE f[Picked(v)] + G(v)[v \ {Picked(v)}]
        <5> HIDE DEF v
        <5> QED BY <3>2, Zenon DEF Adds
      <4>2. CASE v = {}
        BY <4>1, <4>2
      <4>3. CASE v # {}
        <5> DEFINE w == v \ {Picked(v)}
        <5>1. Picked(v) \in v /\ w \in SUBSET t /\ w # t /\ w \in SUBSET v
          BY <3>1, <4>3 DEF Picked
        <5>2. Adds(f, w, G(w))
          BY <5>1, <1>2
        <5>3. IsFiniteSet(v)
          BY <3>1, FS_Subset
        <5>4. \A x \in SUBSET w : G(v)[x] = G(w)[x]
          <6> HIDE DEF v, w
          <6>1. \A g, k : Adds(f, v, g) /\ Adds(f, w, k) => \A x \in SUBSET w : g[x] = k[x]
            BY <5>1, <5>3, AddsIsUnique
          <6> QED BY <5>2, <3>2, <6>1
        <5> QED BY <4>1, <4>3, <5>4
      <4> QED BY <4>2, <4>3
    <3>4. h[v] = Less(v)
      BY <3>1
    <3> QED BY <2>1, <2>3, <3>3, <3>4
  <2> QED BY <2>2, <2>3
<1>4. Adds(f, t, h)
  <2>1. \A u \in SUBSET t : Less(u) = IF u = {} THEN 0 ELSE f[Picked(u)] + h[u \ {Picked(u)}]
    <3> TAKE u \in SUBSET t
    <3>1. h[u] = Less(u)
      <4> HIDE DEF Less
      <4> QED OBVIOUS
    <3> HIDE DEF h, Less
    <3> QED BY <3>1, <1>3
  <2>2. h = [u \in SUBSET t |-> IF u = {} THEN 0 ELSE f[Picked(u)] + h[u \ {Picked(u)}]]
    <3> DEFINE k(u) == IF u = {} THEN 0 ELSE f[Picked(u)] + h[u \ {Picked(u)}]
    <3>1. \A u \in SUBSET t : Less(u) = k(u)
      BY <2>1
    <3>2. h = [u \in SUBSET t |-> Less(u)]
      OBVIOUS
    <3> HIDE DEF h, Less, k
    <3>3. h = [u \in SUBSET t |-> k(u)]
      BY <3>1, <3>2
    <3> QED BY <3>3 DEF k
  <2> QED BY <2>2 DEF Adds
<1> QED BY <1>1, <1>4

\* The recursion of the sum, on the sum itself.
LEMMA SumOfPicked ==
  ASSUME NEW f, NEW S, IsFiniteSet(S)
  PROVE  SumFunctionOnSet(f, S)
            = IF S = {} THEN 0 ELSE f[Picked(S)] + SumFunctionOnSet(f, S \ {Picked(S)})
<1> DEFINE F(s) == CHOOSE g : Adds(f, s, g)
<1>1. Adds(f, S, F(S))
  BY AddsExists
<1>2. F(S)[S] = IF S = {} THEN 0 ELSE f[Picked(S)] + F(S)[S \ {Picked(S)}]
  <2> HIDE DEF F
  <2> QED BY <1>1, Zenon DEF Adds
<1>3. ASSUME NEW t \in SUBSET S PROVE F(S)[t] = F(t)[t]
  <2>1. Adds(f, t, F(t))
    BY AddsExists, FS_Subset
  <2>2. \A g, h : Adds(f, S, g) /\ Adds(f, t, h) => \A x \in SUBSET t : g[x] = h[x]
    BY AddsIsUnique
  <2> HIDE DEF F
  <2> QED BY <1>1, <2>1, <2>2
<1>4. \A t : SumFunctionOnSet(f, t) = F(t)[t]
  BY SumIsAdding
<1> HIDE DEF F
<1>5. S \ {Picked(S)} \in SUBSET S
  OBVIOUS
<1> QED BY <1>2, <1>3, <1>4, <1>5

\* The empty sum.
LEMMA SumOfNone == \A f : SumFunctionOnSet(f, {}) = 0
  BY SumOfPicked, FS_EmptySet

\* A sum of integers is an integer.
LEMMA SumIsInt ==
  ASSUME NEW f, NEW S, IsFiniteSet(S), \A x \in S : f[x] \in Int
  PROVE  SumFunctionOnSet(f, S) \in Int
<1> DEFINE T == {t \in SUBSET S : SumFunctionOnSet(f, t) \notin Int}
<1> SUFFICES ASSUME T # {} PROVE FALSE
  OBVIOUS
<1>1. PICK t \in T : \A u \in T : u \subseteq t => u = t
  <2> HIDE DEF T
  <2>1. T \subseteq SUBSET S BY DEF T
  <2> QED BY <2>1, SmallestSubset
<1>2. IsFiniteSet(t)
  BY FS_Subset
<1>3. t # {} => Picked(t) \in t /\ SumFunctionOnSet(f, t \ {Picked(t)}) \in Int
  BY <1>1 DEF Picked
<1> QED BY <1>2, <1>3, SumOfPicked

\* A sum of zeros is zero.
LEMMA SumOfZeros ==
  ASSUME NEW f, NEW S, IsFiniteSet(S), \A x \in S : f[x] = 0
  PROVE  SumFunctionOnSet(f, S) = 0
<1> DEFINE T == {t \in SUBSET S : SumFunctionOnSet(f, t) # 0}
<1> SUFFICES ASSUME T # {} PROVE FALSE
  OBVIOUS
<1>1. PICK t \in T : \A u \in T : u \subseteq t => u = t
  <2> HIDE DEF T
  <2>1. T \subseteq SUBSET S BY DEF T
  <2> QED BY <2>1, SmallestSubset
<1>2. IsFiniteSet(t)
  BY FS_Subset
<1>3. t # {} => Picked(t) \in t /\ SumFunctionOnSet(f, t \ {Picked(t)}) = 0
  BY <1>1 DEF Picked
<1> QED BY <1>1, <1>2, <1>3, SumOfPicked

\* Any element may be taken first.
LEMMA SumWithout ==
  ASSUME NEW f, NEW S, IsFiniteSet(S), \A x \in S : f[x] \in Int, NEW a \in S
  PROVE  SumFunctionOnSet(f, S) = f[a] + SumFunctionOnSet(f, S \ {a})
<1> DEFINE T == {t \in SUBSET S : \E x \in t : SumFunctionOnSet(f, t)
                                                 # f[x] + SumFunctionOnSet(f, t \ {x})}
<1> SUFFICES ASSUME T # {} PROVE FALSE
  OBVIOUS
<1>1. PICK t \in T : \A u \in T : u \subseteq t => u = t
  <2> HIDE DEF T
  <2>1. T \subseteq SUBSET S BY DEF T
  <2> QED BY <2>1, SmallestSubset
<1>2. PICK x \in t : SumFunctionOnSet(f, t) # f[x] + SumFunctionOnSet(f, t \ {x})
  OBVIOUS
<1> DEFINE p == Picked(t)
<1>3. p \in t
  BY <1>2 DEF Picked
<1>4. IsFiniteSet(t) /\ IsFiniteSet(t \ {p}) /\ IsFiniteSet(t \ {x}) /\ IsFiniteSet((t \ {p}) \ {x})
  BY FS_Subset
<1> HIDE DEF p
<1>5. SumFunctionOnSet(f, t) = f[p] + SumFunctionOnSet(f, t \ {p})
  BY <1>2, <1>4, SumOfPicked DEF p
<1>6. p # x
  BY <1>2, <1>5
<1>7. \A u \in SUBSET t : \A y \in u :
          u # t => SumFunctionOnSet(f, u) = f[y] + SumFunctionOnSet(f, u \ {y})
  BY <1>1
<1> HIDE DEF T
<1>8. SumFunctionOnSet(f, t \ {p}) = f[x] + SumFunctionOnSet(f, (t \ {p}) \ {x})
  <2>1. t \ {p} \in SUBSET t /\ x \in t \ {p} /\ t \ {p} # t
    BY <1>3, <1>6
  <2> QED BY <2>1, <1>7
<1>9. SumFunctionOnSet(f, t \ {x}) = f[p] + SumFunctionOnSet(f, (t \ {x}) \ {p})
  <2>1. t \ {x} \in SUBSET t /\ p \in t \ {x} /\ t \ {x} # t
    BY <1>3, <1>6
  <2> QED BY <2>1, <1>7
<1>10. (t \ {x}) \ {p} = (t \ {p}) \ {x}
  OBVIOUS
<1>11. SumFunctionOnSet(f, (t \ {p}) \ {x}) \in Int /\ f[p] \in Int /\ f[x] \in Int
  <2>1. t \in SUBSET S
    BY DEF T
  <2>2. \A y \in t : f[y] \in Int
    BY <2>1
  <2>3. \A y \in (t \ {p}) \ {x} : f[y] \in Int
    BY <2>2
  <2>4. SumFunctionOnSet(f, (t \ {p}) \ {x}) \in Int
    BY <1>4, <2>3, SumIsInt
  <2>5. f[x] \in Int /\ f[p] \in Int
    BY <1>2, <1>3, <2>2
  <2> QED BY <2>4, <2>5
<1>12. SumFunctionOnSet(f, t \ {x}) = f[p] + SumFunctionOnSet(f, (t \ {p}) \ {x})
  BY <1>9, <1>10
<1>13. \A A, B, C, D, i, j : /\ C \in Int /\ i \in Int /\ j \in Int
                              /\ A = i + B /\ B = j + C /\ D = i + C
                              => A = j + D
  OBVIOUS
<1>14. SumFunctionOnSet(f, t) = f[x] + SumFunctionOnSet(f, t \ {x})
  BY <1>5, <1>8, <1>11, <1>12, <1>13
<1> QED BY <1>2, <1>14

\* The sum depends on the values on its domain alone.
LEMMA SumsAgree ==
  ASSUME NEW f, NEW g, NEW S, IsFiniteSet(S), \A x \in S : f[x] = g[x]
  PROVE  SumFunctionOnSet(f, S) = SumFunctionOnSet(g, S)
<1> DEFINE T == {t \in SUBSET S : SumFunctionOnSet(f, t) # SumFunctionOnSet(g, t)}
<1> SUFFICES ASSUME T # {} PROVE FALSE
  OBVIOUS
<1>1. PICK t \in T : \A u \in T : u \subseteq t => u = t
  <2> HIDE DEF T
  <2>1. T \subseteq SUBSET S BY DEF T
  <2> QED BY <2>1, SmallestSubset
<1>2. IsFiniteSet(t)
  BY FS_Subset
<1>3. t # {} => Picked(t) \in t /\ SumFunctionOnSet(f, t \ {Picked(t)}) = SumFunctionOnSet(g, t \ {Picked(t)})
  BY <1>1 DEF Picked
<1> QED BY <1>1, <1>2, <1>3, SumOfPicked

\* When one entry changes, the sum changes by the difference.
LEMMA SumChanges ==
  ASSUME NEW f, NEW g, NEW S, IsFiniteSet(S), \A x \in S : f[x] \in Int /\ g[x] \in Int,
         NEW a \in S, \A x \in S \ {a} : f[x] = g[x]
  PROVE  SumFunctionOnSet(g, S) = SumFunctionOnSet(f, S) + g[a] - f[a]
<1>1. IsFiniteSet(S \ {a})
  BY FS_Subset
<1>2. SumFunctionOnSet(f, S \ {a}) = SumFunctionOnSet(g, S \ {a})
  BY <1>1, SumsAgree
<1>3. SumFunctionOnSet(f, S \ {a}) \in Int
  BY <1>1, SumIsInt
<1>4. /\ SumFunctionOnSet(f, S) = f[a] + SumFunctionOnSet(f, S \ {a})
      /\ SumFunctionOnSet(g, S) = g[a] + SumFunctionOnSet(g, S \ {a})
  BY SumWithout
<1>5. f[a] \in Int /\ g[a] \in Int
  OBVIOUS
<1> QED BY <1>2, <1>3, <1>4, <1>5

\* A sum over more, of natural numbers, is not less.
LEMMA SumOfSubset ==
  ASSUME NEW f, NEW S, IsFiniteSet(S), \A x \in S : f[x] \in Nat, NEW R \in SUBSET S
  PROVE  SumFunctionOnSet(f, R) <= SumFunctionOnSet(f, S)
<1> DEFINE T == {t \in SUBSET S : /\ R \subseteq t
                                  /\ ~(SumFunctionOnSet(f, R) <= SumFunctionOnSet(f, t))}
<1> SUFFICES ASSUME T # {} PROVE FALSE
  OBVIOUS
<1>1. PICK t \in T : \A u \in T : u \subseteq t => u = t
  <2> HIDE DEF T
  <2>1. T \subseteq SUBSET S BY DEF T
  <2> QED BY <2>1, SmallestSubset
<1>2. IsFiniteSet(t) /\ IsFiniteSet(R) /\ \A x \in t : f[x] \in Int
  BY FS_Subset
<1>3. SumFunctionOnSet(f, R) \in Int
  BY <1>2, SumIsInt
<1>4. PICK x \in t : x \notin R
  BY <1>3
<1>5. IsFiniteSet(t \ {x}) /\ f[x] \in Nat
  BY <1>2, <1>4, FS_Subset
<1>6. SumFunctionOnSet(f, t \ {x}) \in Int
  BY <1>2, <1>5, SumIsInt
<1>7. SumFunctionOnSet(f, t) = f[x] + SumFunctionOnSet(f, t \ {x})
  BY <1>2, SumWithout
<1>8. SumFunctionOnSet(f, R) <= SumFunctionOnSet(f, t \ {x})
  BY <1>1, <1>4
<1> QED BY <1>3, <1>5, <1>6, <1>7, <1>8

-----------------------------------------------------------------------------
(* Sums taken apart and put together.                                      *)

\* The sum over one element.
LEMMA SumOfOne ==
  ASSUME NEW f, NEW a, f[a] \in Int
  PROVE  SumFunctionOnSet(f, {a}) = f[a]
<1>1. IsFiniteSet({a}) /\ {a} \ {a} = {}
  BY FS_Singleton
<1>2. SumFunctionOnSet(f, {a}) = f[a] + SumFunctionOnSet(f, {a} \ {a})
  BY <1>1, SumWithout
<1>3. SumFunctionOnSet(f, {a}) = f[a] + 0
  BY <1>1, <1>2, SumOfNone
<1> QED BY <1>3

LEMMA Regroup ==
  \A A, B, C, D, i, j : /\ C \in Int /\ i \in Int /\ j \in Int
                        /\ A = i + B /\ B = j + C /\ D = i + C
                        => A = j + D
  OBVIOUS

\* The sum over two sets with nothing in common.
LEMMA SumOfUnion ==
  ASSUME NEW f, NEW S, IsFiniteSet(S), NEW R, IsFiniteSet(R), S \intersect R = {},
         \A x \in S \union R : f[x] \in Int
  PROVE  SumFunctionOnSet(f, S \union R) = SumFunctionOnSet(f, S) + SumFunctionOnSet(f, R)
<1> DEFINE T == {t \in SUBSET R : SumFunctionOnSet(f, S \union t)
                                    # SumFunctionOnSet(f, S) + SumFunctionOnSet(f, t)}
<1> SUFFICES ASSUME T # {} PROVE FALSE
  OBVIOUS
<1>1. PICK t \in T : \A u \in T : u \subseteq t => u = t
  <2> HIDE DEF T
  <2>1. T \subseteq SUBSET R BY DEF T
  <2> QED BY <2>1, SmallestSubset
<1>2. IsFiniteSet(t) /\ IsFiniteSet(S \union t) /\ \A x \in S \union t : f[x] \in Int
  BY FS_Subset, FS_Union
<1>3. SumFunctionOnSet(f, S) \in Int
  BY SumIsInt
<1>4. CASE t = {}
  <2>1. S \union t = S
    BY <1>4
  <2> QED BY <1>3, <1>4, <2>1, SumOfNone
<1>5. ASSUME NEW a \in t PROVE FALSE
  <2>1. t \ {a} \in SUBSET R /\ t \ {a} # t
    OBVIOUS
  <2>2. SumFunctionOnSet(f, S \union (t \ {a}))
            = SumFunctionOnSet(f, S) + SumFunctionOnSet(f, t \ {a})
    BY <1>1, <2>1
  <2>3. (S \union t) \ {a} = S \union (t \ {a})
    BY <1>1
  <2>4. SumFunctionOnSet(f, S \union t) = f[a] + SumFunctionOnSet(f, (S \union t) \ {a})
    BY <1>2, SumWithout
  <2>5. SumFunctionOnSet(f, t) = f[a] + SumFunctionOnSet(f, t \ {a})
    BY <1>2, SumWithout
  <2>6. IsFiniteSet(t \ {a}) /\ f[a] \in Int /\ \A x \in t \ {a} : f[x] \in Int
    BY <1>2, FS_Subset
  <2>7. SumFunctionOnSet(f, t \ {a}) \in Int
    BY <2>6, SumIsInt
  <2>8. SumFunctionOnSet(f, S \union t)
            = SumFunctionOnSet(f, S) + SumFunctionOnSet(f, t)
    <3> HIDE DEF T
    <3>1. SumFunctionOnSet(f, S \union t) = f[a] + SumFunctionOnSet(f, S \union (t \ {a}))
      BY <2>3, <2>4
    <3>2. f[a] \in Int
      BY <2>6
    <3> QED BY <1>3, <2>2, <2>5, <2>7, <3>1, <3>2, Regroup
  <2> QED BY <2>8
<1> QED BY <1>4, <1>5

\* What is zero outside a part has the sum of the part.
LEMMA SumOfPart ==
  ASSUME NEW f, NEW S, IsFiniteSet(S), \A x \in S : f[x] \in Int,
         NEW R \in SUBSET S, \A x \in S \ R : f[x] = 0
  PROVE  SumFunctionOnSet(f, S) = SumFunctionOnSet(f, R)
<1> DEFINE Q == S \ R
<1>1. IsFiniteSet(R) /\ IsFiniteSet(Q) /\ R \intersect Q = {} /\ R \union Q = S
  BY FS_Subset
<1>2. \A x \in Q : f[x] = 0
  OBVIOUS
<1> HIDE DEF Q
<1>3. SumFunctionOnSet(f, Q) = 0
  BY <1>1, <1>2, SumOfZeros
<1>4. SumFunctionOnSet(f, R) \in Int
  BY <1>1, SumIsInt
<1>5. SumFunctionOnSet(f, R \union Q) = SumFunctionOnSet(f, R) + SumFunctionOnSet(f, Q)
  BY <1>1, SumOfUnion
<1>6. SumFunctionOnSet(f, S) = SumFunctionOnSet(f, R) + 0
  BY <1>1, <1>3, <1>5
<1> QED BY <1>4, <1>6

\* The sum of what is added entry by entry.
LEMMA SumOfSums ==
  ASSUME NEW S, IsFiniteSet(S), NEW f, NEW g, NEW h,
         \A x \in S : f[x] \in Int /\ g[x] \in Int /\ h[x] = f[x] + g[x]
  PROVE  SumFunctionOnSet(h, S) = SumFunctionOnSet(f, S) + SumFunctionOnSet(g, S)
<1> DEFINE T == {t \in SUBSET S : SumFunctionOnSet(h, t)
                                    # SumFunctionOnSet(f, t) + SumFunctionOnSet(g, t)}
<1> SUFFICES ASSUME T # {} PROVE FALSE
  OBVIOUS
<1>1. PICK t \in T : \A u \in T : u \subseteq t => u = t
  <2> HIDE DEF T
  <2>1. T \subseteq SUBSET S BY DEF T
  <2> QED BY <2>1, SmallestSubset
<1>2. IsFiniteSet(t) /\ \A x \in t : f[x] \in Int /\ g[x] \in Int /\ h[x] = f[x] + g[x]
  BY FS_Subset
<1>3. CASE t = {}
  BY <1>3, SumOfNone
<1>4. ASSUME NEW a \in t PROVE FALSE
  <2>1. t \ {a} \in SUBSET S /\ t \ {a} # t /\ IsFiniteSet(t \ {a})
    BY <1>2, FS_Subset
  <2>2. SumFunctionOnSet(h, t \ {a}) = SumFunctionOnSet(f, t \ {a}) + SumFunctionOnSet(g, t \ {a})
    BY <1>1, <2>1
  <2>3. SumFunctionOnSet(f, t) = f[a] + SumFunctionOnSet(f, t \ {a})
    BY <1>2, SumWithout
  <2>4. SumFunctionOnSet(g, t) = g[a] + SumFunctionOnSet(g, t \ {a})
    BY <1>2, SumWithout
  <2>5. \A x \in t : h[x] \in Int
    BY <1>2
  <2>6. SumFunctionOnSet(h, t) = h[a] + SumFunctionOnSet(h, t \ {a})
    BY <1>2, <2>5, SumWithout
  <2>7. SumFunctionOnSet(f, t \ {a}) \in Int /\ SumFunctionOnSet(g, t \ {a}) \in Int
    BY <1>2, <2>1, SumIsInt
  <2>8. f[a] \in Int /\ g[a] \in Int /\ h[a] = f[a] + g[a]
    BY <1>2
  <2>9. SumFunctionOnSet(h, t) = SumFunctionOnSet(f, t) + SumFunctionOnSet(g, t)
    BY <2>2, <2>3, <2>4, <2>6, <2>7, <2>8
  <2> QED BY <2>9
<1> QED BY <1>3, <1>4

\* A sum and that of its negatives.
LEMMA SumOfMinus ==
  ASSUME NEW S, IsFiniteSet(S), NEW f, NEW h, \A x \in S : f[x] \in Int /\ h[x] = -f[x]
  PROVE  SumFunctionOnSet(h, S) = -SumFunctionOnSet(f, S)
<1> DEFINE z == [x \in S |-> 0]
<1>1. \A x \in S : h[x] \in Int /\ z[x] = f[x] + h[x]
  OBVIOUS
<1>2. SumFunctionOnSet(z, S) = 0
  BY SumOfZeros
<1>3. SumFunctionOnSet(f, S) \in Int /\ SumFunctionOnSet(h, S) \in Int
  BY <1>1, SumIsInt
<1> HIDE DEF z
<1>4. SumFunctionOnSet(z, S) = SumFunctionOnSet(f, S) + SumFunctionOnSet(h, S)
  BY <1>1, SumOfSums
<1> QED BY <1>2, <1>3, <1>4

\* A sum taken class by class.
LEMMA SumByClass ==
  ASSUME NEW f, NEW S, IsFiniteSet(S), \A x \in S : f[x] \in Int,
         NEW K, IsFiniteSet(K), NEW part, \A k \in K : part[k] \subseteq S,
         \A x \in S : \E k \in K : x \in part[k],
         \A j, k \in K : j # k => part[j] \intersect part[k] = {},
         NEW g, \A k \in K : g[k] = SumFunctionOnSet(f, part[k])
  PROVE  SumFunctionOnSet(f, S) = SumFunctionOnSet(g, K)
<1> DEFINE P(t) == {x \in S : \E k \in t : x \in part[k]}
           T == {t \in SUBSET K : SumFunctionOnSet(f, P(t)) # SumFunctionOnSet(g, t)}
<1>0. P(K) = S
  OBVIOUS
<1> SUFFICES ASSUME T # {} PROVE FALSE
  BY <1>0
<1>1. PICK t \in T : \A u \in T : u \subseteq t => u = t
  <2> HIDE DEF T
  <2>1. T \subseteq SUBSET K BY DEF T
  <2> QED BY <2>1, SmallestSubset
<1>2. \A u \in SUBSET S : IsFiniteSet(u) /\ SumFunctionOnSet(f, u) \in Int
  BY FS_Subset, SumIsInt
<1>3. \A k \in K : g[k] \in Int
  <2> HIDE DEF T
  <2> QED BY <1>2
<1>4. IsFiniteSet(t) /\ \A k \in t : g[k] \in Int
  BY <1>3, FS_Subset
<1>5. CASE t = {}
  <2>1. P(t) = {}
    BY <1>5
  <2> QED BY <1>5, <2>1, SumOfNone
<1>6. ASSUME NEW k \in t PROVE FALSE
  <2> DEFINE one == part[k]
  <2>1. t \ {k} \in SUBSET K /\ t \ {k} # t
    OBVIOUS
  <2>2. SumFunctionOnSet(f, P(t \ {k})) = SumFunctionOnSet(g, t \ {k})
    BY <1>1, <2>1
  <2>3. P(t) = P(t \ {k}) \union one /\ P(t \ {k}) \intersect one = {}
    OBVIOUS
  <2>4. P(t \ {k}) \in SUBSET S /\ one \in SUBSET S
    OBVIOUS
  <2> HIDE DEF P, one
  <2>5. SumFunctionOnSet(f, P(t)) = SumFunctionOnSet(f, P(t \ {k})) + SumFunctionOnSet(f, one)
    <3>1. IsFiniteSet(P(t \ {k})) /\ IsFiniteSet(one)
      BY <1>2, <2>4
    <3>2. \A x \in P(t \ {k}) \union one : f[x] \in Int
      BY <2>4
    <3>3. SumFunctionOnSet(f, P(t \ {k}) \union one)
              = SumFunctionOnSet(f, P(t \ {k})) + SumFunctionOnSet(f, one)
      <4>1. ASSUME NEW A, NEW B, IsFiniteSet(A), IsFiniteSet(B), A \intersect B = {},
                   \A x \in A \union B : f[x] \in Int
            PROVE  SumFunctionOnSet(f, A \union B) = SumFunctionOnSet(f, A) + SumFunctionOnSet(f, B)
        BY <4>1, SumOfUnion
      <4> QED BY <2>3, <3>1, <3>2, <4>1
    <3> QED BY <2>3, <3>3
  <2>6. SumFunctionOnSet(f, one) = g[k]
    BY DEF one
  <2>7. SumFunctionOnSet(g, t) = g[k] + SumFunctionOnSet(g, t \ {k})
    BY <1>4, SumWithout
  <2>8. SumFunctionOnSet(f, P(t \ {k})) \in Int /\ g[k] \in Int
    BY <1>2, <1>4, <2>4
  <2>9. SumFunctionOnSet(f, P(t)) = SumFunctionOnSet(g, t)
    BY <2>2, <2>5, <2>6, <2>7, <2>8
  <2> QED BY <2>9 DEF P
<1> QED BY <1>5, <1>6

\* The sum over the images of a one-to-one function.
LEMMA SumOfImage ==
  ASSUME NEW f, NEW S, IsFiniteSet(S), NEW g, \A x, y \in S : g[x] = g[y] => x = y,
         NEW h, \A x \in S : f[g[x]] \in Int /\ h[x] = f[g[x]]
  PROVE  SumFunctionOnSet(f, {g[x] : x \in S}) = SumFunctionOnSet(h, S)
<1> DEFINE I(t) == {g[x] : x \in t}
           T == {t \in SUBSET S : SumFunctionOnSet(f, I(t)) # SumFunctionOnSet(h, t)}
<1> SUFFICES ASSUME T # {} PROVE FALSE
  OBVIOUS
<1>1. PICK t \in T : \A u \in T : u \subseteq t => u = t
  <2> HIDE DEF T
  <2>1. T \subseteq SUBSET S BY DEF T
  <2> QED BY <2>1, SmallestSubset
<1>2. IsFiniteSet(t)
  BY FS_Subset
<1>3. IsFiniteSet(I(t))
  <2> DEFINE k == [x \in t |-> g[x]]
  <2>1. k \in Surjection(t, I(t))
    BY DEF Surjection
  <2> HIDE DEF k, I
  <2> QED BY <1>2, <2>1, FS_Surjection
<1>4. (\A x \in t : h[x] \in Int) /\ \A y \in I(t) : f[y] \in Int
  OBVIOUS
<1>5. CASE t = {}
  <2>1. I(t) = {}
    BY <1>5
  <2> QED BY <1>5, <2>1, SumOfNone
<1>6. ASSUME NEW a \in t PROVE FALSE
  <2>1. t \ {a} \in SUBSET S /\ t \ {a} # t
    OBVIOUS
  <2>2. SumFunctionOnSet(f, I(t \ {a})) = SumFunctionOnSet(h, t \ {a})
    BY <1>1, <2>1
  <2>3. I(t) \ {g[a]} = I(t \ {a}) /\ g[a] \in I(t)
    OBVIOUS
  <2>4. h[a] = f[g[a]]
    OBVIOUS
  <2> HIDE DEF I
  <2>5. SumFunctionOnSet(f, I(t)) = f[g[a]] + SumFunctionOnSet(f, I(t) \ {g[a]})
    BY <1>3, <1>4, <2>3, SumWithout
  <2>6. SumFunctionOnSet(h, t) = h[a] + SumFunctionOnSet(h, t \ {a})
    BY <1>2, <1>4, SumWithout
  <2>7. SumFunctionOnSet(f, I(t)) = SumFunctionOnSet(h, t)
    BY <2>2, <2>3, <2>4, <2>5, <2>6
  <2> QED BY <2>7 DEF I
<1> QED BY <1>5, <1>6
=============================================================================
