------------------------------ MODULE FiniteSums ------------------------------
(***************************************************************************)
(* Sums over finite sets: the facts about SumFunctionOnSet that the proofs *)
(* about ledgers and budgets need, such as that a sum does not depend on   *)
(* the order of its terms and changes by what one term changes.            *)
(*                                                                         *)
(* The library defines the sum by recursion over an element CHOOSEn from   *)
(* the set, and its own theorems about folds rest on induction over an     *)
(* operator.  Here a claim about all subsets of a finite set is proved by  *)
(* the least counterexample: a nonempty set of subsets has a member none   *)
(* of whose proper subsets belongs to it (LeastSubset).                    *)
(***************************************************************************)
EXTENDS Integers, FiniteSetsExt, FiniteSetTheorems, TLAPS

(* The element whose term the recursion takes first.                       *)
Pick(s) == CHOOSE x \in s : TRUE

(* g maps every subset of T to the sum of f over it.                       *)
Adds(g, f, T) ==
    g = [s \in SUBSET T |-> IF s = {} THEN 0 ELSE f[Pick(s)] + g[s \ {Pick(s)}]]

(* A nonempty set contains the element picked from it.                     *)
LEMMA Picked == ASSUME NEW s, s # {} PROVE Pick(s) \in s
  BY DEF Pick

(* A nonempty collection of subsets of a finite set has a least member.    *)
LEMMA LeastSubset ==
    ASSUME NEW S, IsFiniteSet(S), NEW B, B \subseteq SUBSET S, B # {}
    PROVE  \E T \in B : \A u \in B : u \subseteq T => u = T
<1>1. IsWellFoundedOn(StrictSubsetOrdering(S), SUBSET S)
  BY FS_StrictSubsetOrderingWellFounded, FS_FiniteSubsetsOfFinite
<1>2. PICK T \in B : \A u \in B : <<u, T>> \notin StrictSubsetOrdering(S)
  <2> DEFINE R == StrictSubsetOrdering(S)
             U == SUBSET S
  <2>1. IsWellFoundedOn(R, U) BY <1>1
  <2>2. B \subseteq U OBVIOUS
  <2> HIDE DEF R, U
  <2>3. \E T \in B : \A u \in B : ~(<<u, T>> \in R)
    BY <2>1, <2>2, WFMin
  <2> QED BY <2>3 DEF R
<1> QED
  BY <1>2 DEF StrictSubsetOrdering

(* The equations of a summing function, at the empty and at the other      *)
(* subsets.                                                                *)
LEMMA AddsAt ==
    ASSUME NEW f, NEW T, NEW g, Adds(g, f, T)
    PROVE  /\ g[{}] = 0
           /\ \A s \in SUBSET T : s # {} =>
                 /\ Pick(s) \in s
                 /\ s \ {Pick(s)} \in SUBSET T
                 /\ s \ {Pick(s)} # s
                 /\ g[s] = f[Pick(s)] + g[s \ {Pick(s)}]
<1>1. {} \in SUBSET T OBVIOUS
<1> DEFINE body(s) == IF s = {} THEN 0 ELSE f[Pick(s)] + g[s \ {Pick(s)}]
<1>2. g = [s \in SUBSET T |-> body(s)] BY DEF Adds
<1>3. \A s \in SUBSET T : g[s] = body(s)
  <2> HIDE DEF body
  <2> QED BY <1>2
<1> QED BY <1>1, <1>3, Picked

(* Two summing functions agree wherever both are defined.                  *)
LEMMA AddsAgree ==
    ASSUME NEW f, NEW S, IsFiniteSet(S), NEW g, Adds(g, f, S),
           NEW T \in SUBSET S, NEW h, Adds(h, f, T)
    PROVE  \A s \in SUBSET T : g[s] = h[s]
<1> DEFINE B == {s \in SUBSET T : g[s] # h[s]}
<1> SUFFICES ASSUME B # {} PROVE FALSE
  OBVIOUS
<1>1. IsFiniteSet(T) BY FS_Subset
<1>2. PICK s \in B : \A u \in B : u \subseteq s => u = s
  <2>1. B \subseteq SUBSET T OBVIOUS
  <2> HIDE DEF B
  <2> QED BY <1>1, <2>1, LeastSubset
<1>3. s # {}
  <2>1. g[{}] = 0 BY AddsAt
  <2>2. h[{}] = 0 BY AddsAt
  <2> QED BY <2>1, <2>2
<1>4. /\ g[s] = f[Pick(s)] + g[s \ {Pick(s)}]
      /\ h[s] = f[Pick(s)] + h[s \ {Pick(s)}]
      /\ s \ {Pick(s)} \in SUBSET T /\ s \ {Pick(s)} # s
  BY <1>3, AddsAt
<1>5. g[s \ {Pick(s)}] = h[s \ {Pick(s)}]
  BY <1>2, <1>4
<1> QED BY <1>4, <1>5

(* Every finite set has a summing function, so that the recursive          *)
(* definition of the library defines something.                            *)
LEMMA AddsExists ==
    ASSUME NEW f, NEW S, IsFiniteSet(S)
    PROVE  \E g : Adds(g, f, S)
<1> DEFINE B == {T \in SUBSET S : ~ \E g : Adds(g, f, T)}
<1> SUFFICES ASSUME B # {} PROVE FALSE
  OBVIOUS
<1>1. PICK T \in B : \A u \in B : u \subseteq T => u = T
  <2>1. B \subseteq SUBSET S OBVIOUS
  <2> HIDE DEF B
  <2> QED BY <2>1, LeastSubset
<1> DEFINE G(u) == CHOOSE g : Adds(g, f, u)
           body(s) == IF s = {} THEN 0
                      ELSE f[Pick(s)] + G(s \ {Pick(s)})[s \ {Pick(s)}]
           h == [s \in SUBSET T |-> body(s)]
<1>2. \A u \in SUBSET T : u # T => Adds(G(u), f, u)
  BY <1>1
<1> HIDE DEF G
<1>3. ASSUME NEW u \in SUBSET T, u # T
      PROVE  G(u)[u] = body(u)
  <2>1. Adds(G(u), f, u) BY <1>2, <1>3
  <2>2. CASE u = {} BY <2>1, <2>2, AddsAt
  <2>3. CASE u # {}
    <3> DEFINE v == u \ {Pick(u)}
    <3>1. /\ v \in SUBSET u /\ v # u
          /\ G(u)[u] = f[Pick(u)] + G(u)[v]
      BY <2>1, <2>3, AddsAt
    <3>2. Adds(G(v), f, v) BY <3>1, <1>2
    <3>3. IsFiniteSet(u) BY FS_Subset, <1>1
    <3>4. G(u)[v] = G(v)[v] BY <3>1, <3>2, <3>3, <2>1, AddsAgree
    <3> QED BY <3>1, <3>4, <2>3
  <2> QED BY <2>2, <2>3
<1>4. \A u \in SUBSET T : h[u] = body(u) OBVIOUS
<1>5. ASSUME NEW s \in SUBSET T
      PROVE  body(s) = IF s = {} THEN 0 ELSE f[Pick(s)] + h[s \ {Pick(s)}]
  <2>1. s # {} => s \ {Pick(s)} \in SUBSET T /\ s \ {Pick(s)} # T BY Picked
  <2>2. s # {} => G(s \ {Pick(s)})[s \ {Pick(s)}] = h[s \ {Pick(s)}]
    BY <2>1, <1>3, <1>4
  <2> QED BY <2>2
<1>6. Adds(h, f, T) BY <1>5 DEF Adds
<1> QED BY <1>6, <1>1

(* What the library's definition of a sum expands to.                      *)
LEMMA SumUnfold ==
    ASSUME NEW f, NEW T
    PROVE  SumFunctionOnSet(f, T) = (CHOOSE g : Adds(g, f, T))[T]
  BY DEF SumFunctionOnSet, FoldFunctionOnSet, MapThenFoldSet, Adds, Pick

(* The recursive equation of a sum.                                        *)
LEMMA SumEquation ==
    ASSUME NEW f, NEW S, IsFiniteSet(S)
    PROVE  /\ SumFunctionOnSet(f, {}) = 0
           /\ S # {} =>
                /\ Pick(S) \in S
                /\ SumFunctionOnSet(f, S) =
                      f[Pick(S)] + SumFunctionOnSet(f, S \ {Pick(S)})
<1> DEFINE F(T) == CHOOSE g : Adds(g, f, T)
<1>1. \A T \in SUBSET S : Adds(F(T), f, T)
  BY FS_Subset, AddsExists
<1>2. \A T : SumFunctionOnSet(f, T) = F(T)[T]
  BY SumUnfold
<1> HIDE DEF F
<1>3. SumFunctionOnSet(f, {}) = 0
  <2>1. Adds(F({}), f, {}) BY <1>1
  <2> QED BY <2>1, <1>2, AddsAt
<1>4. ASSUME S # {}
      PROVE  SumFunctionOnSet(f, S) = f[Pick(S)] + SumFunctionOnSet(f, S \ {Pick(S)})
  <2> DEFINE T == S \ {Pick(S)}
  <2>1. T \in SUBSET S OBVIOUS
  <2>2. Adds(F(S), f, S) /\ Adds(F(T), f, T) BY <1>1
  <2>3. F(S)[S] = f[Pick(S)] + F(S)[T] BY <2>2, <1>4, AddsAt
  <2>4. \A u \in SUBSET T : F(S)[u] = F(T)[u]
    <3> HIDE DEF T
    <3> QED BY <2>1, <2>2, AddsAgree
  <2>5. F(S)[T] = F(T)[T] BY <2>4
  <2> QED BY <2>3, <2>5, <1>2
<1> QED BY <1>3, <1>4, Picked

(* A sum of integers is an integer.                                        *)
LEMMA SumInt ==
    ASSUME NEW S, IsFiniteSet(S), NEW f, \A x \in S : f[x] \in Int
    PROVE  SumFunctionOnSet(f, S) \in Int
<1> DEFINE B == {T \in SUBSET S : SumFunctionOnSet(f, T) \notin Int}
<1> SUFFICES ASSUME B # {} PROVE FALSE
  OBVIOUS
<1>1. PICK T \in B : \A u \in B : u \subseteq T => u = T
  <2>1. B \subseteq SUBSET S OBVIOUS
  <2> HIDE DEF B
  <2> QED BY <2>1, LeastSubset
<1>2. IsFiniteSet(T) BY FS_Subset
<1>3. T # {}
  <2>1. SumFunctionOnSet(f, {}) = 0 BY SumEquation, FS_EmptySet
  <2> QED BY <2>1
<1>4. Pick(T) \in T /\ SumFunctionOnSet(f, T) = f[Pick(T)] + SumFunctionOnSet(f, T \ {Pick(T)})
  BY <1>2, <1>3, SumEquation
<1>5. SumFunctionOnSet(f, T \ {Pick(T)}) \in Int
  BY <1>1, <1>4
<1> QED BY <1>4, <1>5

(* A sum of natural numbers is a natural number.                           *)
LEMMA SumNat ==
    ASSUME NEW S, IsFiniteSet(S), NEW f, \A x \in S : f[x] \in Nat
    PROVE  SumFunctionOnSet(f, S) \in Nat
<1> DEFINE B == {T \in SUBSET S : SumFunctionOnSet(f, T) \notin Nat}
<1> SUFFICES ASSUME B # {} PROVE FALSE
  OBVIOUS
<1>1. PICK T \in B : \A u \in B : u \subseteq T => u = T
  <2>1. B \subseteq SUBSET S OBVIOUS
  <2> HIDE DEF B
  <2> QED BY <2>1, LeastSubset
<1>2. IsFiniteSet(T) BY FS_Subset
<1>3. T # {}
  <2>1. SumFunctionOnSet(f, {}) = 0 BY SumEquation, FS_EmptySet
  <2> QED BY <2>1
<1>4. Pick(T) \in T /\ SumFunctionOnSet(f, T) = f[Pick(T)] + SumFunctionOnSet(f, T \ {Pick(T)})
  BY <1>2, <1>3, SumEquation
<1>5. SumFunctionOnSet(f, T \ {Pick(T)}) \in Nat
  BY <1>1, <1>4
<1> QED BY <1>4, <1>5

(* Any term can be taken out of a sum first: the order does not matter.    *)
LEMMA SumTake ==
    ASSUME NEW S, IsFiniteSet(S), NEW f, \A x \in S : f[x] \in Int, NEW y \in S
    PROVE  SumFunctionOnSet(f, S) = f[y] + SumFunctionOnSet(f, S \ {y})
<1> DEFINE Fails(T) == \E x \in T : SumFunctionOnSet(f, T) # f[x] + SumFunctionOnSet(f, T \ {x})
           B == {T \in SUBSET S : Fails(T)}
<1> SUFFICES ASSUME B # {} PROVE FALSE
  OBVIOUS
<1>1. PICK T \in B : \A u \in B : u \subseteq T => u = T
  <2>1. B \subseteq SUBSET S OBVIOUS
  <2> HIDE DEF B
  <2> QED BY <2>1, LeastSubset
<1>2. PICK x \in T : SumFunctionOnSet(f, T) # f[x] + SumFunctionOnSet(f, T \ {x})
  BY <1>1
<1> DEFINE p == Pick(T)
<1>3. IsFiniteSet(T) BY FS_Subset
<1>4. p \in T /\ SumFunctionOnSet(f, T) = f[p] + SumFunctionOnSet(f, T \ {p})
  BY <1>2, <1>3, SumEquation
<1> HIDE DEF p
<1>5. x # p BY <1>2, <1>4
<1>6. /\ SumFunctionOnSet(f, T \ {p}) = f[x] + SumFunctionOnSet(f, (T \ {p}) \ {x})
      /\ SumFunctionOnSet(f, T \ {x}) = f[p] + SumFunctionOnSet(f, (T \ {x}) \ {p})
  BY <1>1, <1>4, <1>5, <1>2
<1>7. (T \ {p}) \ {x} = (T \ {x}) \ {p} OBVIOUS
<1>8. IsFiniteSet((T \ {x}) \ {p}) BY <1>3, FS_RemoveElement
<1>9. SumFunctionOnSet(f, (T \ {x}) \ {p}) \in Int BY <1>8, SumInt
<1>10. f[x] \in Int /\ f[p] \in Int BY <1>4
<1> DEFINE rest == SumFunctionOnSet(f, (T \ {x}) \ {p})
<1>11. SumFunctionOnSet(f, T) = f[p] + (f[x] + rest)
  BY <1>4, <1>6, <1>7
<1>12. SumFunctionOnSet(f, T \ {x}) = f[p] + rest
  BY <1>6
<1>13. rest \in Int BY <1>9
<1> HIDE DEF rest
<1>14. f[p] + (f[x] + rest) = f[x] + (f[p] + rest)
  BY <1>10, <1>13
<1> QED BY <1>2, <1>11, <1>12, <1>14

(* Functions that agree on a set have the same sum over it.                *)
LEMMA SumSame ==
    ASSUME NEW S, IsFiniteSet(S), NEW f, NEW g, \A x \in S : f[x] = g[x]
    PROVE  SumFunctionOnSet(f, S) = SumFunctionOnSet(g, S)
<1> DEFINE B == {T \in SUBSET S : SumFunctionOnSet(f, T) # SumFunctionOnSet(g, T)}
<1> SUFFICES ASSUME B # {} PROVE FALSE
  OBVIOUS
<1>1. PICK T \in B : \A u \in B : u \subseteq T => u = T
  <2>1. B \subseteq SUBSET S OBVIOUS
  <2> HIDE DEF B
  <2> QED BY <2>1, LeastSubset
<1>2. IsFiniteSet(T) BY FS_Subset
<1>3. T # {} BY SumEquation, FS_EmptySet
<1>4. /\ Pick(T) \in T
      /\ SumFunctionOnSet(f, T) = f[Pick(T)] + SumFunctionOnSet(f, T \ {Pick(T)})
      /\ SumFunctionOnSet(g, T) = g[Pick(T)] + SumFunctionOnSet(g, T \ {Pick(T)})
  BY <1>2, <1>3, SumEquation
<1>5. SumFunctionOnSet(f, T \ {Pick(T)}) = SumFunctionOnSet(g, T \ {Pick(T)})
  BY <1>1, <1>4
<1> QED BY <1>4, <1>5

(* A sum over two sets that share nothing is the sum of the two.           *)
LEMMA SumUnion ==
    ASSUME NEW S, IsFiniteSet(S), NEW T, IsFiniteSet(T), S \cap T = {},
           NEW f, \A x \in S \cup T : f[x] \in Int
    PROVE  SumFunctionOnSet(f, S \cup T) = SumFunctionOnSet(f, S) + SumFunctionOnSet(f, T)
<1> DEFINE sum(U) == SumFunctionOnSet(f, U)
           B == {U \in SUBSET T : sum(S \cup U) # sum(S) + sum(U)}
<1> SUFFICES ASSUME B # {} PROVE FALSE
  OBVIOUS
<1>1. PICK U \in B : \A u \in B : u \subseteq U => u = U
  <2>1. B \subseteq SUBSET T OBVIOUS
  <2> HIDE DEF B
  <2> QED BY <2>1, LeastSubset
<1>2. IsFiniteSet(U) /\ IsFiniteSet(S \cup U)
  BY FS_Subset, FS_Union
<1>3. sum(S) \in Int BY SumInt
<1>4. U # {}
  <2>1. sum({}) = 0 BY SumEquation, FS_EmptySet
  <2>2. S \cup {} = S OBVIOUS
  <2>3. sum(S \cup {}) = sum(S) BY <2>2
  <2>4. sum(S \cup U) # sum(S) + sum(U) BY <1>1
  <2> HIDE DEF sum
  <2>5. sum(S) + 0 = sum(S) BY <1>3
  <2> QED BY <2>1, <2>3, <2>4, <2>5
<1>5. PICK y : y \in U BY <1>4
<1> DEFINE V == U \ {y}
<1>6. V \in SUBSET T /\ V # U /\ V \subseteq U BY <1>5
<1>7. sum(S \cup V) = sum(S) + sum(V) BY <1>1, <1>6
<1>8. (S \cup U) \ {y} = S \cup V /\ y \in S \cup U BY <1>5
<1>9. \A x \in S \cup U : f[x] \in Int OBVIOUS
<1>10. sum(S \cup U) = f[y] + sum(S \cup V)
  BY <1>2, <1>8, <1>9, SumTake
<1>11. sum(U) = f[y] + sum(V)
  BY <1>2, <1>5, <1>9, SumTake
<1>12. sum(V) \in Int
  BY <1>2, <1>6, FS_Subset, SumInt
<1>13. f[y] \in Int BY <1>5
<1>14. sum(S \cup U) # sum(S) + sum(U) BY <1>1
<1> HIDE DEF sum
<1> QED BY <1>3, <1>7, <1>10, <1>11, <1>12, <1>13, <1>14

(* A part of a sum of natural numbers is at most the whole.                *)
LEMMA SumSubset ==
    ASSUME NEW T, IsFiniteSet(T), NEW S \in SUBSET T,
           NEW f, \A x \in T : f[x] \in Nat
    PROVE  SumFunctionOnSet(f, S) <= SumFunctionOnSet(f, T)
<1>1. IsFiniteSet(S) /\ IsFiniteSet(T \ S) BY FS_Subset
<1>2. S \cup (T \ S) = T /\ S \cap (T \ S) = {} OBVIOUS
<1>3. SumFunctionOnSet(f, T) = SumFunctionOnSet(f, S) + SumFunctionOnSet(f, T \ S)
  <2>1. \A x \in S \cup (T \ S) : f[x] \in Int OBVIOUS
  <2>2. SumFunctionOnSet(f, S \cup (T \ S)) = SumFunctionOnSet(f, S) + SumFunctionOnSet(f, T \ S)
    BY <1>1, <1>2, <2>1, SumUnion
  <2> QED BY <1>2, <2>2
<1>4. SumFunctionOnSet(f, S) \in Nat /\ SumFunctionOnSet(f, T \ S) \in Nat
  BY <1>1, SumNat
<1> QED BY <1>3, <1>4

(* Sets and functions that differ at one place only have sums that differ  *)
(* by the term at that place: what one write to a table does to a total.   *)
LEMMA SumChange ==
    ASSUME NEW S, IsFiniteSet(S), NEW T, IsFiniteSet(T),
           NEW f, \A x \in S : f[x] \in Int,
           NEW g, \A x \in T : g[x] \in Int,
           NEW y, S \ {y} = T \ {y}, \A x \in S \ {y} : f[x] = g[x]
    PROVE  SumFunctionOnSet(g, T) =
               SumFunctionOnSet(f, S) - (IF y \in S THEN f[y] ELSE 0)
                                      + (IF y \in T THEN g[y] ELSE 0)
<1> DEFINE R == S \ {y}
           rest == SumFunctionOnSet(f, R)
<1>1. IsFiniteSet(R) BY FS_Subset
<1>2. rest \in Int BY <1>1, SumInt
<1>3. SumFunctionOnSet(f, S) = (IF y \in S THEN f[y] ELSE 0) + rest
  <2>1. CASE y \in S
    <3>1. SumFunctionOnSet(f, S) = f[y] + rest BY <2>1, SumTake
    <3> QED BY <2>1, <3>1
  <2>2. CASE y \notin S
    <3>1. R = S BY <2>2
    <3>2. SumFunctionOnSet(f, S) = rest BY <3>1
    <3>3. 0 + rest = rest BY <1>2
    <3> QED BY <2>2, <3>2, <3>3
  <2> QED BY <2>1, <2>2
<1>4. SumFunctionOnSet(g, R) = rest BY <1>1, SumSame
<1>5. SumFunctionOnSet(g, T) = (IF y \in T THEN g[y] ELSE 0) + rest
  <2>1. CASE y \in T
    <3>1. SumFunctionOnSet(g, T) = g[y] + SumFunctionOnSet(g, T \ {y})
      BY <2>1, SumTake
    <3> QED BY <1>4, <2>1, <3>1
  <2>2. CASE y \notin T
    <3>1. R = T BY <2>2
    <3>2. SumFunctionOnSet(g, T) = rest BY <1>4, <3>1
    <3>3. 0 + rest = rest BY <1>2
    <3> QED BY <2>2, <3>2, <3>3
  <2> QED BY <2>1, <2>2
<1> HIDE DEF rest
<1> QED BY <1>2, <1>3, <1>5
===============================================================================
