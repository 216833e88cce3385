----------------------------- MODULE SumTheorems -----------------------------
(***************************************************************************)
(* What the proofs about balances need to know of a sum over a finite set: *)
(* SumFunctionOnSet(f, S), which takes the elements out of S one by one in *)
(* an order of its own.                                                    *)
(*                                                                         *)
(* The summands are given as a function, so that nothing here is about an  *)
(* operator; and induction over finite sets is replaced by its first-order *)
(* form: a non-empty family of finite sets has a minimal member.           *)
(***************************************************************************)
EXTENDS Integers, Functions, FiniteSetTheorems, WellFoundedInduction, TLAPS

\* The element that a sum over s takes out first, and what it leaves.
Pick(s) == CHOOSE x \in s : TRUE
Rest(s) == s \ {Pick(s)}

\* g is the function behind the sum: g[s] is the sum of f over each subset s of S.
IsSum(f, S, g) ==
    g = [s \in SUBSET S |-> IF s = {} THEN 0 ELSE f[Pick(s)] + g[Rest(s)]]

\* A family of subsets of a finite set has a member none of whose proper subsets
\* is in the family.
LEMMA MinimalSet ==
    ASSUME NEW S, IsFiniteSet(S), NEW F \in SUBSET SUBSET S, F # {}
    PROVE  \E T \in F : IsFiniteSet(T) /\ \A U \in SUBSET T : U # T => U \notin F
<1>1. FiniteSubsetsOf(S) = SUBSET S
  BY FS_FiniteSubsetsOfFinite
<1>2. IsWellFoundedOn(StrictSubsetOrdering(S), SUBSET S)
  BY <1>1, FS_StrictSubsetOrderingWellFounded
<1>3. PICK T \in F : \A U \in F : ~(<<U, T>> \in StrictSubsetOrdering(S))
  BY <1>2, WFMin
<1>4. ASSUME NEW U \in SUBSET T, U # T PROVE U \notin F
  <2> SUFFICES ASSUME U \in F PROVE <<U, T>> \in StrictSubsetOrdering(S)
    BY <1>3
  <2> QED
    BY <1>4 DEF StrictSubsetOrdering
<1>5. IsFiniteSet(T)
  BY FS_Subset
<1> QED
  BY <1>3, <1>4, <1>5

\* A non-empty set loses an element of its own.
LEMMA PickProper ==
    ASSUME NEW s, s # {}
    PROVE  Pick(s) \in s /\ Rest(s) \in SUBSET s /\ Rest(s) # s
BY DEF Pick, Rest

\* Two functions behind sums agree where both are defined.
LEMMA SumUnique ==
    ASSUME NEW f, NEW S, IsFiniteSet(S), NEW g, IsSum(f, S, g),
           NEW T \in SUBSET S, NEW h, IsSum(f, T, h)
    PROVE  \A U \in SUBSET T : g[U] = h[U]
<1> DEFINE F == {U \in SUBSET T : g[U] # h[U]}
<1> SUFFICES ASSUME F # {} PROVE FALSE
  OBVIOUS
<1>0. IsFiniteSet(T)
  BY FS_Subset
<1>1. PICK U \in F : \A V \in SUBSET U : V # U => V \notin F
  <2>1. F \in SUBSET SUBSET T
    OBVIOUS
  <2> HIDE DEF F
  <2> QED BY <1>0, <2>1, MinimalSet
<1>2. U \in SUBSET S /\ U \in SUBSET T
  OBVIOUS
<1>3. CASE U = {}
  BY <1>2, <1>3 DEF IsSum
<1>4. CASE U # {}
  <2>1. Rest(U) \in SUBSET U /\ Rest(U) # U
    BY <1>4, PickProper
  <2>2. g[Rest(U)] = h[Rest(U)]
    BY <1>1, <1>2, <2>1
  <2>3. g[U] = f[Pick(U)] + g[Rest(U)] /\ h[U] = f[Pick(U)] + h[Rest(U)]
    BY <1>2, <1>4 DEF IsSum
  <2> QED
    BY <2>2, <2>3
<1> QED
  BY <1>3, <1>4

\* There is a function behind the sum over each finite set.
LEMMA SumExists ==
    ASSUME NEW f, NEW S, IsFiniteSet(S)
    PROVE  \E g : IsSum(f, S, g)
<1> DEFINE F == {T \in SUBSET S : ~ \E g : IsSum(f, T, g)}
<1> SUFFICES ASSUME F # {} PROVE FALSE
  OBVIOUS
<1>1. PICK T \in F : IsFiniteSet(T) /\ \A U \in SUBSET T : U # T => U \notin F
  <2>1. F \in SUBSET SUBSET S
    OBVIOUS
  <2> HIDE DEF F
  <2> QED BY <2>1, MinimalSet
<1> DEFINE h(U) == CHOOSE g : IsSum(f, U, g)
           g == [s \in SUBSET T |->
                   IF s = {} THEN 0 ELSE f[Pick(s)] + h(Rest(s))[Rest(s)]]
<1>2. ASSUME NEW s \in SUBSET T, s # {}
      PROVE  /\ IsSum(f, Rest(s), h(Rest(s))) /\ IsFiniteSet(Rest(s))
             /\ Rest(s) \in SUBSET T
  <2>1. Rest(s) \in SUBSET T /\ Rest(s) # T
    BY <1>2, PickProper
  <2>2. \E k : IsSum(f, Rest(s), k)
    BY <1>1, <2>1
  <2>3. IsSum(f, Rest(s), h(Rest(s)))
    <3> HIDE DEF IsSum
    <3> QED BY <2>2
  <2> QED
    BY <1>1, <2>1, <2>3, FS_Subset
<1>3. ASSUME NEW s \in SUBSET T, s # {}
      PROVE  g[Rest(s)] = h(Rest(s))[Rest(s)]
  <2> DEFINE U == Rest(s)
  <2>1. IsSum(f, U, h(U)) /\ IsFiniteSet(U) /\ U \in SUBSET T
    BY <1>2, <1>3
  <2> HIDE DEF h, U
  <2>2. CASE U = {}
    <3>1. g[U] = 0
      BY <2>1, <2>2
    <3>2. h(U)[U] = 0
      BY <2>1, <2>2 DEF IsSum
    <3> QED
      BY <3>1, <3>2 DEF U
  <2>3. CASE U # {}
    <3>1. g[U] = f[Pick(U)] + h(Rest(U))[Rest(U)]
      BY <2>1, <2>3
    <3>2. h(U)[U] = f[Pick(U)] + h(U)[Rest(U)]
      BY <2>1, <2>3 DEF IsSum
    <3>3. IsSum(f, Rest(U), h(Rest(U)))
      BY <1>2, <2>1, <2>3
    <3>4. Rest(U) \in SUBSET U
      BY <2>3, PickProper
    <3>5. h(U)[Rest(U)] = h(Rest(U))[Rest(U)]
      BY <2>1, <3>3, <3>4, SumUnique
    <3> QED
      BY <3>1, <3>2, <3>5 DEF U
  <2> QED
    BY <2>2, <2>3
<1>4. IsSum(f, T, g)
  <2> HIDE DEF h
  <2>1. \A s \in SUBSET T :
           g[s] = IF s = {} THEN 0 ELSE f[Pick(s)] + g[Rest(s)]
    BY <1>3
  <2>2. g = [s \in SUBSET T |-> g[s]]
    OBVIOUS
  <2> HIDE DEF g
  <2>3. g = [s \in SUBSET T |-> IF s = {} THEN 0 ELSE f[Pick(s)] + g[Rest(s)]]
    BY <2>1, <2>2
  <2> QED
    BY <2>3 DEF IsSum
<1> QED
  BY <1>1, <1>4

\* The sum over a finite set is given by the function behind it.
LEMMA SumFunctionOf ==
    ASSUME NEW f, NEW S, IsFiniteSet(S)
    PROVE  \E g : IsSum(f, S, g) /\ SumFunctionOnSet(f, S) = g[S]
<1> DEFINE Eqn(g) == g = [s \in SUBSET S |->
                            IF s = {} THEN 0
                            ELSE f[CHOOSE x \in s : TRUE]
                                    + g[s \ {CHOOSE x \in s : TRUE}]]
           iter == CHOOSE g : Eqn(g)
<1>1. \A g : IsSum(f, S, g) <=> Eqn(g)
  BY DEF IsSum, Pick, Rest
<1>2. \E g : Eqn(g)
  <2> HIDE DEF Eqn
  <2> QED BY <1>1, SumExists
<1>3. Eqn(iter)
  <2> HIDE DEF Eqn
  <2> QED BY <1>2
<1>4. SumFunctionOnSet(f, S) = iter[S]
  BY DEF SumFunctionOnSet, FoldFunctionOnSet, MapThenFoldSet
<1> HIDE DEF iter, Eqn
<1> QED
  BY <1>1, <1>3, <1>4

-----------------------------------------------------------------------------
(* The sum, one element at a time.                                          *)

\* The sum over no element.
LEMMA SumEmpty ==
    ASSUME NEW f
    PROVE  SumFunctionOnSet(f, {}) = 0
<1>1. IsFiniteSet({})
  BY FS_EmptySet
<1>2. PICK g : IsSum(f, {}, g) /\ SumFunctionOnSet(f, {}) = g[{}]
  BY <1>1, SumFunctionOf
<1> QED
  BY <1>2 DEF IsSum

\* The element taken out first.
LEMMA SumPick ==
    ASSUME NEW f, NEW S, IsFiniteSet(S), S # {}
    PROVE  SumFunctionOnSet(f, S) = f[Pick(S)] + SumFunctionOnSet(f, Rest(S))
<1>1. PICK g : IsSum(f, S, g) /\ SumFunctionOnSet(f, S) = g[S]
  BY SumFunctionOf
<1>2. Rest(S) \in SUBSET S /\ IsFiniteSet(Rest(S))
  BY PickProper, FS_Subset
<1>3. PICK h : IsSum(f, Rest(S), h) /\ SumFunctionOnSet(f, Rest(S)) = h[Rest(S)]
  BY <1>2, SumFunctionOf
<1>4. g[Rest(S)] = h[Rest(S)]
  BY <1>1, <1>2, <1>3, SumUnique
<1>5. g[S] = f[Pick(S)] + g[Rest(S)]
  BY <1>1 DEF IsSum
<1> QED
  BY <1>1, <1>3, <1>4, <1>5

\* A sum of integers is an integer.
LEMMA SumType ==
    ASSUME NEW f, NEW S, IsFiniteSet(S), \A x \in S : f[x] \in Int
    PROVE  SumFunctionOnSet(f, S) \in Int
<1> DEFINE F == {T \in SUBSET S : SumFunctionOnSet(f, T) \notin Int}
<1> SUFFICES ASSUME F # {} PROVE FALSE
  OBVIOUS
<1>1. PICK T \in F : IsFiniteSet(T) /\ \A U \in SUBSET T : U # T => U \notin F
  <2>1. F \in SUBSET SUBSET S
    OBVIOUS
  <2> HIDE DEF F
  <2> QED BY <2>1, MinimalSet
<1>2. T # {}
  BY SumEmpty
<1>3. Rest(T) \in SUBSET S /\ Pick(T) \in S /\ Rest(T) \notin F
  BY <1>1, <1>2, PickProper
<1>4. SumFunctionOnSet(f, T) = f[Pick(T)] + SumFunctionOnSet(f, Rest(T))
  BY <1>1, <1>2, SumPick
<1> QED
  BY <1>3, <1>4

\* A sum of natural numbers is a natural number.
LEMMA SumNat ==
    ASSUME NEW f, NEW S, IsFiniteSet(S), \A x \in S : f[x] \in Nat
    PROVE  SumFunctionOnSet(f, S) \in Nat
<1> DEFINE F == {T \in SUBSET S : SumFunctionOnSet(f, T) \notin Nat}
<1> SUFFICES ASSUME F # {} PROVE FALSE
  OBVIOUS
<1>1. PICK T \in F : IsFiniteSet(T) /\ \A U \in SUBSET T : U # T => U \notin F
  <2>1. F \in SUBSET SUBSET S
    OBVIOUS
  <2> HIDE DEF F
  <2> QED BY <2>1, MinimalSet
<1>2. T # {}
  BY SumEmpty
<1>3. Rest(T) \in SUBSET S /\ Pick(T) \in S /\ Rest(T) \notin F
  BY <1>1, <1>2, PickProper
<1>4. SumFunctionOnSet(f, T) = f[Pick(T)] + SumFunctionOnSet(f, Rest(T))
  BY <1>1, <1>2, SumPick
<1> QED
  BY <1>3, <1>4

\* Whatever the order, any element can be taken out.
LEMMA SumRemove ==
    ASSUME NEW f, NEW S, IsFiniteSet(S), \A x \in S : f[x] \in Int, NEW x \in S
    PROVE  SumFunctionOnSet(f, S) = f[x] + SumFunctionOnSet(f, S \ {x})
<1> DEFINE Sum(T) == SumFunctionOnSet(f, T)
           Removes(T) == \A y \in T : Sum(T) = f[y] + Sum(T \ {y})
           F == {T \in SUBSET S : ~Removes(T)}
<1>0. SUFFICES F = {}
  OBVIOUS
<1> SUFFICES ASSUME F # {} PROVE FALSE
  OBVIOUS
<1>1. PICK T \in F : IsFiniteSet(T) /\ \A U \in SUBSET T : U # T => U \notin F
  <2>1. F \in SUBSET SUBSET S
    OBVIOUS
  <2> HIDE DEF F
  <2> QED BY <2>1, MinimalSet
<1>2. PICK y \in T : Sum(T) # f[y] + Sum(T \ {y})
  BY <1>1
<1> DEFINE p == Pick(T)
<1>3. p \in T /\ Rest(T) = T \ {p} /\ Sum(T) = f[p] + Sum(T \ {p})
  BY <1>1, <1>2, SumPick, PickProper DEF Rest
<1> HIDE DEF p
<1>4. y # p
  BY <1>2, <1>3
<1>5. /\ T \ {p} \in SUBSET S /\ T \ {p} \notin F
      /\ T \ {y} \in SUBSET S /\ T \ {y} \notin F
  BY <1>1, <1>2, <1>3
<1>6. Removes(T \ {p}) /\ Removes(T \ {y})
  <2> HIDE DEF Removes
  <2> QED BY <1>5
<1>7. y \in T \ {p} /\ p \in T \ {y} /\ (T \ {p}) \ {y} = (T \ {y}) \ {p}
  BY <1>2, <1>3, <1>4
<1>8. Sum(T \ {p}) = f[y] + Sum((T \ {p}) \ {y})
  BY <1>6, <1>7
<1>9. Sum(T \ {y}) = f[p] + Sum((T \ {p}) \ {y})
  BY <1>6, <1>7
<1>10. Sum((T \ {p}) \ {y}) \in Int /\ f[p] \in Int /\ f[y] \in Int
  <2>1. IsFiniteSet((T \ {p}) \ {y}) /\ (T \ {p}) \ {y} \subseteq S
    BY <1>1, FS_Subset
  <2> QED
    BY <1>2, <1>3, <2>1, SumType
<1> HIDE DEF Sum
<1> QED
  BY <1>2, <1>3, <1>8, <1>9, <1>10

\* Adding an element.
LEMMA SumAdd ==
    ASSUME NEW f, NEW S, IsFiniteSet(S), NEW x, x \notin S,
           \A y \in S \cup {x} : f[y] \in Int
    PROVE  SumFunctionOnSet(f, S \cup {x}) = f[x] + SumFunctionOnSet(f, S)
<1>1. IsFiniteSet(S \cup {x}) /\ x \in S \cup {x} /\ (S \cup {x}) \ {x} = S
  BY FS_AddElement
<1> QED
  BY <1>1, SumRemove

\* Only the summands on the set count.
LEMMA SumEqual ==
    ASSUME NEW f, NEW g, NEW S, IsFiniteSet(S), \A x \in S : f[x] = g[x]
    PROVE  SumFunctionOnSet(f, S) = SumFunctionOnSet(g, S)
<1> DEFINE F == {T \in SUBSET S : SumFunctionOnSet(f, T) # SumFunctionOnSet(g, T)}
<1> SUFFICES ASSUME F # {} PROVE FALSE
  OBVIOUS
<1>1. PICK T \in F : IsFiniteSet(T) /\ \A U \in SUBSET T : U # T => U \notin F
  <2>1. F \in SUBSET SUBSET S
    OBVIOUS
  <2> HIDE DEF F
  <2> QED BY <2>1, MinimalSet
<1>2. T # {}
  BY SumEmpty
<1>3. Rest(T) \in SUBSET S /\ Pick(T) \in S /\ Rest(T) \notin F
  BY <1>1, <1>2, PickProper
<1>4. /\ SumFunctionOnSet(f, T) = f[Pick(T)] + SumFunctionOnSet(f, Rest(T))
      /\ SumFunctionOnSet(g, T) = g[Pick(T)] + SumFunctionOnSet(g, Rest(T))
  BY <1>1, <1>2, SumPick
<1> QED
  BY <1>3, <1>4

\* A change of one summand changes the sum by as much.
LEMMA SumChange ==
    ASSUME NEW f, NEW g, NEW S, IsFiniteSet(S), NEW x \in S,
           \A y \in S : f[y] \in Int /\ g[y] \in Int,
           \A y \in S \ {x} : g[y] = f[y]
    PROVE  SumFunctionOnSet(g, S) = SumFunctionOnSet(f, S) + g[x] - f[x]
<1>1. IsFiniteSet(S \ {x})
  BY FS_Subset
<1>2. SumFunctionOnSet(f, S \ {x}) = SumFunctionOnSet(g, S \ {x})
  BY <1>1, SumEqual
<1>3. SumFunctionOnSet(f, S \ {x}) \in Int
  BY <1>1, SumType
<1>4. /\ SumFunctionOnSet(f, S) = f[x] + SumFunctionOnSet(f, S \ {x})
      /\ SumFunctionOnSet(g, S) = g[x] + SumFunctionOnSet(g, S \ {x})
  BY SumRemove
<1> QED
  BY <1>2, <1>3, <1>4

\* Summands that are 0 may be left out.
LEMMA SumSupport ==
    ASSUME NEW f, NEW S, IsFiniteSet(S), NEW T \in SUBSET S,
           \A x \in S : f[x] \in Int, \A x \in S \ T : f[x] = 0
    PROVE  SumFunctionOnSet(f, T) = SumFunctionOnSet(f, S)
<1> DEFINE F == {U \in SUBSET S : T \subseteq U
                    /\ SumFunctionOnSet(f, U) # SumFunctionOnSet(f, T)}
<1> SUFFICES ASSUME F # {} PROVE FALSE
  OBVIOUS
<1>1. PICK U \in F : IsFiniteSet(U) /\ \A V \in SUBSET U : V # U => V \notin F
  <2>1. F \in SUBSET SUBSET S
    OBVIOUS
  <2> HIDE DEF F
  <2> QED BY <2>1, MinimalSet
<1>2. U # T
  OBVIOUS
<1>3. PICK x \in U : x \notin T
  BY <1>2
<1>4. SumFunctionOnSet(f, U \ {x}) = SumFunctionOnSet(f, T)
  BY <1>1, <1>3
<1>5. SumFunctionOnSet(f, U) = f[x] + SumFunctionOnSet(f, U \ {x})
  BY <1>1, SumRemove
<1>6. f[x] = 0 /\ SumFunctionOnSet(f, U \ {x}) \in Int
  <2>1. IsFiniteSet(U \ {x})
    BY <1>1, FS_Subset
  <2> QED
    BY <1>3, <2>1, SumType
<1> QED
  BY <1>4, <1>5, <1>6

\* A sum of zeros.
LEMMA SumZero ==
    ASSUME NEW f, NEW S, IsFiniteSet(S), \A x \in S : f[x] = 0
    PROVE  SumFunctionOnSet(f, S) = 0
BY SumSupport, SumEmpty
==============================================================================
