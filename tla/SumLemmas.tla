----------------------------- MODULE SumLemmas -----------------------------
(***************************************************************************)
(* What the proofs about money and stock need of sums over finite sets:    *)
(* SumFunctionOnSet does not depend on the order of the elements, and one  *)
(* element can be added or taken away.                                     *)
(***************************************************************************)
EXTENDS Integers, FiniteSets, Functions, FiniteSetTheorems, WellFoundedInduction, TLAPS

\* The element of a set that a sum takes first.
First(s) == CHOOSE x \in s : TRUE

\* g is the function that SumFunctionOnSet(f, S) defines on the subsets of S.
Adds(f, S, g) == g = [s \in SUBSET S |-> IF s = {} THEN 0 ELSE f[First(s)] + g[s \ {First(s)}]]

\* Among subsets of a finite set, some one has none of the others inside it.
LEMMA LeastSubset ==
    ASSUME NEW S, IsFiniteSet(S), NEW B, B \subseteq SUBSET S, B # {}
    PROVE  \E s \in B : \A t \in B : t \subseteq s => t = s
<1>1. \E R : /\ IsWellFoundedOn(R, SUBSET S)
             /\ \A s, t \in SUBSET S : t \subseteq s /\ t # s => <<t, s>> \in R
  <2>1. \A s, t \in SUBSET S : t \subseteq s /\ t # s => <<t, s>> \in StrictSubsetOrdering(S)
    BY DEF StrictSubsetOrdering
  <2>2. IsWellFoundedOn(StrictSubsetOrdering(S), SUBSET S)
    BY FS_FiniteSubsetsOfFinite, FS_StrictSubsetOrderingWellFounded, Zenon
  <2> QED BY <2>1, <2>2, Zenon
<1>2. PICK R : /\ IsWellFoundedOn(R, SUBSET S)
               /\ \A s, t \in SUBSET S : t \subseteq s /\ t # s => <<t, s>> \in R
  BY <1>1
<1>3. PICK s \in B : \A t \in B : ~(<<t, s>> \in R)
  BY <1>2, WFMin, Zenon
<1> QED BY <1>2, <1>3

\* Taking elements away one by one.
LEMMA FirstIn == \A s : s # {} => First(s) \in s
BY DEF First

\* Sums over subsets do not depend on the set they are subsets of.
LEMMA AddsOnce ==
    ASSUME NEW f, NEW S, IsFiniteSet(S), NEW T \in SUBSET S, NEW g, Adds(f, S, g), NEW h, Adds(f, T, h)
    PROVE  g[T] = h[T]
<1> DEFINE B == {s \in SUBSET T : g[s] # h[s]}
<1>1. CASE B # {}
  <2>1. IsFiniteSet(T) /\ B \subseteq SUBSET T
    BY FS_Subset
  <2> HIDE DEF B
  <2>2. PICK s \in B : \A t \in B : t \subseteq s => t = s
    BY <1>1, <2>1, LeastSubset
  <2> USE DEF B
  <2>3. CASE s = {}
    BY <2>3 DEF Adds
  <2>4. CASE s # {}
    <3>1. PICK x : x = First(s) /\ x \in s
      BY <2>4, FirstIn
    <3>2. s \ {x} \in SUBSET T /\ s \ {x} \notin B
      BY <2>2, <3>1
    <3>3. s \in SUBSET T /\ s \in SUBSET S
      OBVIOUS
    <3>4. g[s] = f[x] + g[s \ {x}]
      BY <2>4, <3>1, <3>3 DEF Adds
    <3>5. h[s] = f[x] + h[s \ {x}]
      BY <2>4, <3>1, <3>3 DEF Adds
    <3> QED BY <3>2, <3>4, <3>5
  <2> QED BY <2>3, <2>4
<1> QED BY <1>1

\* The function exists: a smallest set without one would get it from its subsets.
LEMMA AddsExists ==
    ASSUME NEW f, NEW S, IsFiniteSet(S)
    PROVE  \E g : Adds(f, S, g)
<1> DEFINE B == {s \in SUBSET S : ~\E g : Adds(f, s, g)}
<1>1. CASE B # {}
  <2>0. B \subseteq SUBSET S
    OBVIOUS
  <2> HIDE DEF B
  <2>1. PICK s \in B : \A t \in B : t \subseteq s => t = s
    BY <1>1, <2>0, LeastSubset
  <2> USE DEF B
  <2> DEFINE G(t) == CHOOSE g : Adds(f, t, g)
             h == [t \in SUBSET s |-> IF t = {} THEN 0 ELSE f[First(t)] + G(t \ {First(t)})[t \ {First(t)}]]
  <2>2. ASSUME NEW t \in SUBSET s, t # s PROVE Adds(f, t, G(t))
    <3>1. \E g : Adds(f, t, g)
      BY <2>1, <2>2
    <3> QED BY <3>1
  <2>3. ASSUME NEW t \in SUBSET s, t # {}
        PROVE  h[t] = f[First(t)] + h[t \ {First(t)}]
    <3>1. PICK x : x = First(t) /\ x \in t
      BY <2>3, FirstIn
    <3>2. PICK u \in SUBSET s : u = t \ {x} /\ u # s
      <4> HIDE DEF h, G
      <4>1. t \ {x} \in SUBSET s /\ x \in s /\ x \notin t \ {x}
        BY <3>1
      <4> QED BY <4>1
    <3>3. h[t] = f[x] + G(u)[u]
      BY <2>3, <3>1, <3>2
    <3>4. Adds(f, u, G(u))
      BY <2>2, <3>2
    <3>5. h[u] = G(u)[u]
      <4>1. CASE u = {}
        <5>1. G(u)[u] = 0
          BY <3>4, <4>1 DEF Adds
        <5> QED BY <3>2, <4>1, <5>1
      <4>2. CASE u # {}
        <5>1. PICK y : y = First(u) /\ y \in u
          BY <4>2, FirstIn
        <5>2. PICK v \in SUBSET s : v = u \ {y} /\ v # s /\ v \in SUBSET u
          <6> HIDE DEF h, G
          <6>1. u \ {y} \in SUBSET s /\ y \in s /\ y \notin u \ {y} /\ u \ {y} \in SUBSET u
            BY <5>1
          <6> QED BY <6>1
        <5>3. Adds(f, v, G(v))
          BY <2>2, <5>2
        <5>4. h[u] = f[y] + G(v)[v]
          BY <3>2, <4>2, <5>1, <5>2
        <5>5. G(u)[u] = f[y] + G(u)[v]
          BY <3>4, <4>2, <5>1, <5>2 DEF Adds
        <5>6. IsFiniteSet(u)
          BY <3>2, FS_Subset
        <5> HIDE DEF G
        <5>7. G(u)[v] = G(v)[v]
          BY <3>4, <5>2, <5>3, <5>6, AddsOnce
        <5> QED BY <5>4, <5>5, <5>7
      <4> QED BY <4>1, <4>2
    <3> QED BY <3>1, <3>2, <3>3, <3>5
  <2>4. h = [t \in SUBSET s |-> IF t = {} THEN 0 ELSE f[First(t)] + h[t \ {First(t)}]]
    <3>0. \A t \in SUBSET s : t = {} => h[t] = 0
      OBVIOUS
    <3>1. \A t \in SUBSET s : h[t] = IF t = {} THEN 0 ELSE f[First(t)] + h[t \ {First(t)}]
      <4> HIDE DEF h
      <4> QED BY <2>3, <3>0
    <3>2. h = [t \in SUBSET s |-> h[t]]
      OBVIOUS
    <3> HIDE DEF h
    <3> QED BY <3>1, <3>2
  <2>5. Adds(f, s, h)
    BY <2>4 DEF Adds
  <2> QED BY <2>1, <2>5
<1> QED BY <1>1

\* A sum over a finite set is one element and the sum over the rest.
LEMMA SumFirst ==
    ASSUME NEW f, NEW S, IsFiniteSet(S)
    PROVE  SumFunctionOnSet(f, S) =
              IF S = {} THEN 0 ELSE f[First(S)] + SumFunctionOnSet(f, S \ {First(S)})
<1> DEFINE G(t) == CHOOSE g : Adds(f, t, g)
<1>1. \A t : SumFunctionOnSet(f, t) = G(t)[t]
  BY DEF SumFunctionOnSet, FoldFunctionOnSet, MapThenFoldSet, Adds, First
<1>2. Adds(f, S, G(S))
  <2>1. \E g : Adds(f, S, g)
    BY AddsExists
  <2> QED BY <2>1
<1>3. CASE S = {}
  <2>1. SumFunctionOnSet(f, S) = G(S)[S]
    BY <1>1
  <2> HIDE DEF G
  <2>2. G(S)[S] = 0
    BY <1>2, <1>3 DEF Adds
  <2> QED BY <1>3, <2>1, <2>2
<1>4. CASE S # {}
  <2>1. PICK T : T = S \ {First(S)} /\ T \in SUBSET S
    OBVIOUS
  <2>2. Adds(f, T, G(T))
    <3>1. IsFiniteSet(T)
      BY <2>1, FS_Subset
    <3>2. \E g : Adds(f, T, g)
      BY <3>1, AddsExists
    <3> QED BY <3>2
  <2>3. G(S)[S] = f[First(S)] + G(S)[T]
    BY <1>2, <1>4, <2>1 DEF Adds
  <2> HIDE DEF G
  <2>4. G(S)[T] = G(T)[T]
    BY <1>2, <2>1, <2>2, AddsOnce
  <2>5. SumFunctionOnSet(f, S) = G(S)[S] /\ SumFunctionOnSet(f, T) = G(T)[T]
    BY <1>1
  <2> QED BY <1>4, <2>1, <2>3, <2>4, <2>5
<1> QED BY <1>3, <1>4

\* Whatever function adds like that gives the sum.
LEMMA AddsSum ==
    ASSUME NEW f, NEW S, IsFiniteSet(S), NEW g, Adds(f, S, g)
    PROVE  g[S] = SumFunctionOnSet(f, S)
<1> DEFINE h == CHOOSE r : Adds(f, S, r)
<1>1. SumFunctionOnSet(f, S) = h[S]
  BY DEF SumFunctionOnSet, FoldFunctionOnSet, MapThenFoldSet, Adds, First
<1>2. Adds(f, S, h)
  OBVIOUS
<1> HIDE DEF h
<1>3. g[S] = h[S]
  BY <1>2, AddsOnce
<1> QED BY <1>1, <1>3

\* Two functions that agree on a set have one sum, and integers add up to an integer.
LEMMA SumAgree ==
    ASSUME NEW f, NEW g, NEW S, IsFiniteSet(S), \A x \in S : f[x] = g[x]
    PROVE  SumFunctionOnSet(f, S) = SumFunctionOnSet(g, S)
<1> DEFINE B == {s \in SUBSET S : SumFunctionOnSet(f, s) # SumFunctionOnSet(g, s)}
<1>1. CASE B # {}
  <2>0. B \subseteq SUBSET S
    OBVIOUS
  <2> HIDE DEF B
  <2>1. PICK s \in B : \A t \in B : t \subseteq s => t = s
    BY <1>1, <2>0, LeastSubset
  <2> USE DEF B
  <2>2. IsFiniteSet(s)
    BY FS_Subset
  <2>3. CASE s = {}
    BY <2>2, <2>3, SumFirst
  <2>4. CASE s # {}
    <3>1. PICK x : x = First(s) /\ x \in s
      BY <2>4, FirstIn
    <3>2. s \ {x} \in SUBSET S /\ s \ {x} \notin B
      BY <2>1, <3>1
    <3>3. /\ SumFunctionOnSet(f, s) = f[x] + SumFunctionOnSet(f, s \ {x})
          /\ SumFunctionOnSet(g, s) = g[x] + SumFunctionOnSet(g, s \ {x})
      BY <2>2, <2>4, <3>1, SumFirst
    <3> QED BY <3>1, <3>2, <3>3
  <2> QED BY <2>3, <2>4
<1> QED BY <1>1

\* Integers add up to an integer, and naturals to a natural.
LEMMA SumType ==
    ASSUME NEW f, NEW S, IsFiniteSet(S), NEW D \in {Int, Nat}, \A x \in S : f[x] \in D
    PROVE  SumFunctionOnSet(f, S) \in D
<1> DEFINE B == {s \in SUBSET S : SumFunctionOnSet(f, s) \notin D}
<1>1. CASE B # {}
  <2>0. B \subseteq SUBSET S
    OBVIOUS
  <2> HIDE DEF B
  <2>1. PICK s \in B : \A t \in B : t \subseteq s => t = s
    BY <1>1, <2>0, LeastSubset
  <2> USE DEF B
  <2>2. IsFiniteSet(s)
    BY FS_Subset
  <2>3. CASE s = {}
    <3>1. SumFunctionOnSet(f, s) = 0
      BY <2>2, <2>3, SumFirst
    <3>2. 0 \in D
      OBVIOUS
    <3> QED BY <3>1, <3>2
  <2>4. CASE s # {}
    <3>1. PICK x : x = First(s) /\ x \in s
      BY <2>4, FirstIn
    <3>2. s \ {x} \in SUBSET S /\ s \ {x} \notin B
      BY <2>1, <3>1
    <3>3. SumFunctionOnSet(f, s) = f[x] + SumFunctionOnSet(f, s \ {x})
      BY <2>2, <2>4, <3>1, SumFirst
    <3>4. f[x] \in D /\ SumFunctionOnSet(f, s \ {x}) \in D
      BY <3>1, <3>2
    <3>5. SumFunctionOnSet(f, s) \in D
      BY <3>3, <3>4
    <3> QED BY <3>5
  <2> QED BY <2>3, <2>4
<1> QED BY <1>1

\* Any element may be taken first.
LEMMA SumRemove ==
    ASSUME NEW f, NEW S, IsFiniteSet(S), \A x \in S : f[x] \in Int, NEW e \in S
    PROVE  SumFunctionOnSet(f, S) = f[e] + SumFunctionOnSet(f, S \ {e})
<1> DEFINE B == {s \in SUBSET S : \E x \in s : SumFunctionOnSet(f, s) # f[x] + SumFunctionOnSet(f, s \ {x})}
<1>1. CASE B # {}
  <2>0. B \subseteq SUBSET S
    OBVIOUS
  <2> HIDE DEF B
  <2>1. PICK s \in B : \A t \in B : t \subseteq s => t = s
    BY <1>1, <2>0, LeastSubset
  <2>2. s \in SUBSET S /\ IsFiniteSet(s)
    BY <2>0, FS_Subset
  <2>3. PICK x \in s : SumFunctionOnSet(f, s) # f[x] + SumFunctionOnSet(f, s \ {x})
    BY DEF B
  <2>4. PICK y : y = First(s) /\ y \in s
    BY FirstIn
  <2>5. SumFunctionOnSet(f, s) = f[y] + SumFunctionOnSet(f, s \ {y})
    BY <2>2, <2>4, SumFirst
  <2>6. x # y
    BY <2>3, <2>5
  <2>7. s \ {x} \notin B /\ s \ {y} \notin B
    BY <2>1, <2>4
  <2>8. /\ s \ {x} \in SUBSET S /\ s \ {y} \in SUBSET S
        /\ x \in s \ {y} /\ y \in s \ {x} /\ (s \ {x}) \ {y} = (s \ {y}) \ {x}
    BY <2>2, <2>4, <2>6
  <2>9. /\ SumFunctionOnSet(f, s \ {y}) = f[x] + SumFunctionOnSet(f, (s \ {y}) \ {x})
        /\ SumFunctionOnSet(f, s \ {x}) = f[y] + SumFunctionOnSet(f, (s \ {x}) \ {y})
    BY <2>7, <2>8 DEF B
  <2>10. PICK r : r = SumFunctionOnSet(f, (s \ {x}) \ {y}) /\ r \in Int
    <3>1. IsFiniteSet((s \ {x}) \ {y}) /\ \A z \in (s \ {x}) \ {y} : f[z] \in Int
      BY <2>2, FS_Subset
    <3> QED BY <3>1, SumType
  <2>11. f[x] \in Int /\ f[y] \in Int
    BY <2>2, <2>4
  <2>12. SumFunctionOnSet(f, s) = f[y] + (f[x] + r)
    BY <2>5, <2>8, <2>9, <2>10
  <2>13. SumFunctionOnSet(f, s \ {x}) = f[y] + r
    BY <2>9, <2>10
  <2> QED BY <2>3, <2>10, <2>11, <2>12, <2>13
<1>2. CASE B = {}
  <2>1. S \notin B
    BY <1>2
  <2> QED BY <2>1
<1> QED BY <1>1, <1>2

\* One more element.
LEMMA SumAdd ==
    ASSUME NEW f, NEW S, IsFiniteSet(S), NEW e, e \notin S, \A x \in S \cup {e} : f[x] \in Int
    PROVE  SumFunctionOnSet(f, S \cup {e}) = f[e] + SumFunctionOnSet(f, S)
<1>1. IsFiniteSet(S \cup {e}) /\ e \in S \cup {e}
  BY FS_AddElement
<1>2. (S \cup {e}) \ {e} = S
  OBVIOUS
<1>3. SumFunctionOnSet(f, S \cup {e}) = f[e] + SumFunctionOnSet(f, (S \cup {e}) \ {e})
  BY <1>1, SumRemove
<1> QED BY <1>2, <1>3

\* Nothing adds up to 0.
LEMMA SumEmpty == \A f : SumFunctionOnSet(f, {}) = 0
BY SumFirst, FS_EmptySet

\* The sum over two sets that have no element in common.
LEMMA SumUnion ==
    ASSUME NEW f, NEW S, NEW T, IsFiniteSet(S), IsFiniteSet(T), S \cap T = {}, \A x \in S \cup T : f[x] \in Int
    PROVE  SumFunctionOnSet(f, S \cup T) = SumFunctionOnSet(f, S) + SumFunctionOnSet(f, T)
<1> DEFINE B == {t \in SUBSET T : SumFunctionOnSet(f, S \cup t) # SumFunctionOnSet(f, S) + SumFunctionOnSet(f, t)}
<1>1. CASE B # {}
  <2>0. B \subseteq SUBSET T
    OBVIOUS
  <2> HIDE DEF B
  <2>1. PICK t \in B : \A r \in B : r \subseteq t => r = t
    BY <1>1, <2>0, LeastSubset
  <2> USE DEF B
  <2>2. SumFunctionOnSet(f, S) \in Int
    BY SumType
  <2>3. CASE t = {}
    <3>1. S \cup t = S /\ SumFunctionOnSet(f, t) = 0
      BY <2>3, SumEmpty
    <3> QED BY <2>2, <3>1
  <2>4. CASE t # {}
    <3>1. PICK x \in t : TRUE
      BY <2>4
    <3>2. PICK r \in SUBSET T : r = t \ {x} /\ r \notin B
      <4> HIDE DEF B
      <4>1. t \ {x} \in SUBSET T /\ t \ {x} # t /\ t \ {x} \subseteq t
        BY <2>0, <3>1
      <4> QED BY <2>1, <4>1
    <3>3. IsFiniteSet(r) /\ IsFiniteSet(S \cup r)
      BY FS_Subset, FS_Union
    <3>4. t = r \cup {x} /\ S \cup t = (S \cup r) \cup {x} /\ x \notin r /\ x \notin S \cup r
      BY <3>1, <3>2
    <3>5. SumFunctionOnSet(f, r) \in Int /\ f[x] \in Int
      BY <3>1, <3>3, SumType
    <3>6. SumFunctionOnSet(f, S \cup r) = SumFunctionOnSet(f, S) + SumFunctionOnSet(f, r)
      BY <3>2
    <3>7. SumFunctionOnSet(f, t) = f[x] + SumFunctionOnSet(f, r)
      BY <3>1, <3>3, <3>4, SumAdd
    <3>8. SumFunctionOnSet(f, S \cup t) = f[x] + SumFunctionOnSet(f, S \cup r)
      BY <3>1, <3>3, <3>4, SumAdd
    <3>9. SumFunctionOnSet(f, S \cup t) = SumFunctionOnSet(f, S) + SumFunctionOnSet(f, t)
      BY <2>2, <3>5, <3>6, <3>7, <3>8
    <3> QED BY <3>9
  <2> QED BY <2>3, <2>4
<1>2. CASE B = {}
  <2>1. T \notin B
    BY <1>2
  <2> QED BY <2>1
<1> QED BY <1>1, <1>2

\* Nothing but zeros adds up to 0.
LEMMA SumZero ==
    ASSUME NEW f, NEW S, IsFiniteSet(S), \A x \in S : f[x] = 0
    PROVE  SumFunctionOnSet(f, S) = 0
<1> DEFINE B == {s \in SUBSET S : SumFunctionOnSet(f, s) # 0}
<1>1. CASE B # {}
  <2>0. B \subseteq SUBSET S
    OBVIOUS
  <2> HIDE DEF B
  <2>1. PICK s \in B : \A t \in B : t \subseteq s => t = s
    BY <1>1, <2>0, LeastSubset
  <2> USE DEF B
  <2>2. IsFiniteSet(s)
    BY FS_Subset
  <2>3. s # {}
    BY SumEmpty
  <2>4. PICK x : x = First(s) /\ x \in s
    BY <2>3, FirstIn
  <2>5. s \ {x} \in SUBSET S /\ s \ {x} \notin B
    BY <2>1, <2>4
  <2>6. SumFunctionOnSet(f, s) = f[x] + SumFunctionOnSet(f, s \ {x})
    BY <2>2, <2>3, <2>4, SumFirst
  <2> QED BY <2>4, <2>5, <2>6
<1> QED BY <1>1

\* Naturals that are smaller one by one add up to less.
LEMMA SumLess ==
    ASSUME NEW f, NEW g, NEW S, IsFiniteSet(S), \A x \in S : f[x] \in Nat /\ g[x] \in Nat /\ f[x] <= g[x]
    PROVE  SumFunctionOnSet(f, S) <= SumFunctionOnSet(g, S)
<1> DEFINE B == {s \in SUBSET S : ~(SumFunctionOnSet(f, s) <= SumFunctionOnSet(g, s))}
<1>1. CASE B # {}
  <2>0. B \subseteq SUBSET S
    OBVIOUS
  <2> HIDE DEF B
  <2>1. PICK s \in B : \A t \in B : t \subseteq s => t = s
    BY <1>1, <2>0, LeastSubset
  <2> USE DEF B
  <2>2. IsFiniteSet(s)
    BY FS_Subset
  <2>3. s # {}
    BY SumEmpty
  <2>4. PICK x : x \in s
    BY <2>3
  <2>5. s \ {x} \in SUBSET S /\ s \ {x} \notin B /\ IsFiniteSet(s \ {x})
    BY <2>1, <2>2, <2>4, FS_Subset
  <2>6. /\ SumFunctionOnSet(f, s) = f[x] + SumFunctionOnSet(f, s \ {x})
        /\ SumFunctionOnSet(g, s) = g[x] + SumFunctionOnSet(g, s \ {x})
    BY <2>2, <2>4, SumRemove
  <2>7. SumFunctionOnSet(f, s \ {x}) \in Nat /\ SumFunctionOnSet(g, s \ {x}) \in Nat
    BY <2>5, SumType
  <2>8. SumFunctionOnSet(f, s \ {x}) <= SumFunctionOnSet(g, s \ {x})
    BY <2>5
  <2>9. SumFunctionOnSet(f, s) <= SumFunctionOnSet(g, s)
    BY <2>4, <2>6, <2>7, <2>8
  <2> QED BY <2>9
<1>2. CASE B = {}
  <2>1. S \notin B
    BY <1>2
  <2> QED BY <2>1
<1> QED BY <1>1, <1>2

\* The sum over a part, which is that of the whole when there are zeros elsewhere.
LEMMA SumPart ==
    ASSUME NEW f, NEW S, IsFiniteSet(S), \A x \in S : f[x] \in Nat, NEW T \in SUBSET S
    PROVE  /\ SumFunctionOnSet(f, T) \in Nat /\ SumFunctionOnSet(f, S) \in Nat
           /\ SumFunctionOnSet(f, T) <= SumFunctionOnSet(f, S)
           /\ (\A x \in S \ T : f[x] = 0) => SumFunctionOnSet(f, T) = SumFunctionOnSet(f, S)
<1> DEFINE R == S \ T
<1>1. IsFiniteSet(T) /\ IsFiniteSet(R) /\ T \cap R = {} /\ T \cup R = S /\ R \in SUBSET S
  BY FS_Subset
<1>2. \A x \in T \cup R : f[x] \in Int /\ f[x] \in Nat
  OBVIOUS
<1> HIDE DEF R
<1>3. SumFunctionOnSet(f, T \cup R) = SumFunctionOnSet(f, T) + SumFunctionOnSet(f, R)
  BY <1>1, <1>2, SumUnion
<1>4. SumFunctionOnSet(f, T) \in Nat /\ SumFunctionOnSet(f, R) \in Nat
  BY <1>1, <1>2, SumType
<1>5. (\A x \in R : f[x] = 0) => SumFunctionOnSet(f, R) = 0
  BY <1>1, SumZero
<1>6. SumFunctionOnSet(f, S) = SumFunctionOnSet(f, T) + SumFunctionOnSet(f, R)
  BY <1>1, <1>3
<1>7. /\ SumFunctionOnSet(f, S) \in Nat /\ SumFunctionOnSet(f, T) <= SumFunctionOnSet(f, S)
      /\ SumFunctionOnSet(f, R) = 0 => SumFunctionOnSet(f, T) = SumFunctionOnSet(f, S)
  BY <1>4, <1>6
<1>8. (\A x \in S \ T : f[x] = 0) => SumFunctionOnSet(f, R) = 0
  BY <1>5 DEF R
<1> QED BY <1>4, <1>7, <1>8

\* One value changes.
LEMMA SumChange ==
    ASSUME NEW f, NEW g, NEW S, IsFiniteSet(S), NEW e \in S, NEW a \in Nat,
           \A x \in S : f[x] \in Nat, f[e] = 0, g[e] = a, \A x \in S : x # e => g[x] = f[x]
    PROVE  SumFunctionOnSet(g, S) = SumFunctionOnSet(f, S) + a
<1> DEFINE R == S \ {e}
<1>1. IsFiniteSet(R) /\ \A x \in R : g[x] = f[x] /\ f[x] \in Int
  BY FS_Subset
<1>2. SumFunctionOnSet(f, S) = f[e] + SumFunctionOnSet(f, R) /\ SumFunctionOnSet(g, S) = g[e] + SumFunctionOnSet(g, R)
  BY SumRemove
<1> HIDE DEF R
<1>3. SumFunctionOnSet(f, R) = SumFunctionOnSet(g, R) /\ SumFunctionOnSet(f, R) \in Int
  BY <1>1, SumAgree, SumType
<1> QED BY <1>2, <1>3
=============================================================================
