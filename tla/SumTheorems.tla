---------------------------- MODULE SumTheorems -----------------------------
(***************************************************************************)
(* Facts about SumFunctionOnSet(f, S), the sum of f[x] for the x of a      *)
(* finite set S.  The sums of the models, written with MapThenSumSet, are  *)
(* such sums of a function.  Induction over S is by a smallest subset of S *)
(* for which a fact does not hold.  Then induction over the numbers up to  *)
(* n, and increasing lists of numbers.                                     *)
(***************************************************************************)
EXTENDS FiniteSetsExt, FiniteSetTheorems, WellFoundedInduction, TLAPS

Pick(s) == CHOOSE x \in s : TRUE

(* The recursive function that the fold defines on the subsets of S.       *)
IsSum(g, f, S) ==
    g = [s \in SUBSET S |-> IF s = {} THEN 0 ELSE f[Pick(s)] + g[s \ {Pick(s)}]]

LEMMA SumUnfold ==
  ASSUME NEW f, NEW S
  PROVE  SumFunctionOnSet(f, S) = (CHOOSE g : IsSum(g, f, S))[S]
BY DEF SumFunctionOnSet, FoldFunctionOnSet, MapThenFoldSet, IsSum, Pick

StrictlyWithin(s, t) == s \subseteq t /\ s # t

(* A set of subsets of a finite set has a member that contains no other.   *)
LEMMA SmallestSubset ==
  ASSUME NEW S, IsFiniteSet(S), NEW F, F \subseteq SUBSET S, F # {}
  PROVE  \E T \in F : \A U \in F : ~StrictlyWithin(U, T)
<1>1. IsWellFoundedOn(StrictSubsetOrdering(S), SUBSET S)
  BY FS_StrictSubsetOrderingWellFounded, FS_FiniteSubsetsOfFinite
<1>2. PICK T \in F : \A U \in F : <<U, T>> \notin StrictSubsetOrdering(S)
  BY <1>1, WFMin
<1>3. \A U \in F : StrictlyWithin(U, T) => <<U, T>> \in StrictSubsetOrdering(S)
  BY DEF StrictSubsetOrdering, StrictlyWithin
<1> QED
  BY <1>2, <1>3

LEMMA PickProperties ==
  ASSUME NEW s, s # {}
  PROVE  /\ Pick(s) \in s
         /\ s \ {Pick(s)} \subseteq s /\ s \ {Pick(s)} # s
<1>1. Pick(s) \in s
  BY DEF Pick
<1> QED
  BY <1>1

LEMMA IsSumValues ==
  ASSUME NEW f, NEW S, NEW g, IsSum(g, f, S), NEW s \in SUBSET S
  PROVE  g[s] = IF s = {} THEN 0 ELSE f[Pick(s)] + g[s \ {Pick(s)}]
BY DEF IsSum

(* The recursion determines the values on the common subsets.              *)
LEMMA SumUnique ==
  ASSUME NEW f, NEW S, IsFiniteSet(S), NEW T, T \subseteq S,
         NEW g, NEW h, IsSum(g, f, S), IsSum(h, f, T), NEW t \in SUBSET T
  PROVE  g[t] = h[t]
<1> DEFINE Bad == {s \in SUBSET T : g[s] # h[s]}
<1> SUFFICES ASSUME Bad # {} PROVE FALSE
  OBVIOUS
<1>1. IsFiniteSet(T)
  BY FS_Subset
<1>2. PICK s \in Bad : \A u \in Bad : ~StrictlyWithin(u, s)
  <2>1. Bad \subseteq SUBSET T
    OBVIOUS
  <2> HIDE DEF Bad
  <2> QED
    BY <1>1, <2>1, SmallestSubset
<1>3. CASE s = {}
  BY <1>2, <1>3, IsSumValues
<1>4. CASE s # {}
  <2>1. s \ {Pick(s)} \notin Bad
    BY <1>2, <1>4, PickProperties DEF StrictlyWithin
  <2>2. g[s \ {Pick(s)}] = h[s \ {Pick(s)}]
    BY <2>1
  <2>3. g[s] = f[Pick(s)] + g[s \ {Pick(s)}]
    <3>1. s \in SUBSET S
      BY <1>2
    <3> QED
      BY <1>4, <3>1, IsSumValues
  <2>4. h[s] = f[Pick(s)] + h[s \ {Pick(s)}]
    <3>1. s \in SUBSET T
      BY <1>2
    <3> QED
      BY <1>4, <3>1, IsSumValues
  <2> QED
    BY <1>2, <2>2, <2>3, <2>4
<1> QED
  BY <1>3, <1>4

LEMMA SumExists ==
  ASSUME NEW f, NEW S, IsFiniteSet(S)
  PROVE  \E g : IsSum(g, f, S)
<1> DEFINE The(s) == CHOOSE g : IsSum(g, f, s)
           Bad == {s \in SUBSET S : ~\E g : IsSum(g, f, s)}
<1> SUFFICES ASSUME Bad # {} PROVE FALSE
  OBVIOUS
<1>1. PICK T \in Bad : \A u \in Bad : ~StrictlyWithin(u, T)
  <2>1. Bad \subseteq SUBSET S
    OBVIOUS
  <2> HIDE DEF Bad
  <2> QED
    BY <2>1, SmallestSubset
<1>2. \A u \in SUBSET T : u # T => IsSum(The(u), f, u) /\ IsFiniteSet(u)
  <2> TAKE u \in SUBSET T
  <2> HAVE u # T
  <2>1. u \in SUBSET S /\ u \notin Bad
    BY <1>1 DEF StrictlyWithin
  <2> QED
    BY <2>1, FS_Subset
<1>3. CASE T = {}
  <2> DEFINE g == [s \in SUBSET T |-> 0]
  <2>1. \A s \in SUBSET T : s = {}
    BY <1>3
  <2>2. IsSum(g, f, T)
    BY <2>1 DEF IsSum
  <2> QED
    BY <1>1, <2>2
<1>4. CASE T # {}
  <2> DEFINE value(s) == IF s = T THEN f[Pick(T)] + The(T \ {Pick(T)})[T \ {Pick(T)}]
                         ELSE The(s)[s]
             h == [s \in SUBSET T |-> value(s)]
  <2>1. ASSUME NEW s \in SUBSET T
        PROVE  value(s) = IF s = {} THEN 0 ELSE f[Pick(s)] + h[s \ {Pick(s)}]
    <3>1. CASE s = T
      <4>1. T \ {Pick(T)} \in SUBSET T /\ T \ {Pick(T)} # T
        BY <1>4, PickProperties
      <4>2. h[T \ {Pick(T)}] = The(T \ {Pick(T)})[T \ {Pick(T)}]
        BY <4>1
      <4> QED
        BY <1>4, <3>1, <4>2
    <3>2. CASE s # T /\ s = {}
      <4>1. IsSum(The(s), f, s)
        BY <1>2, <3>2
      <4>2. The(s)[s] = 0
        BY <3>2, <4>1, IsSumValues
      <4> QED
        BY <3>2, <4>2
    <3>3. CASE s # T /\ s # {}
      <4> DEFINE u == s \ {Pick(s)}
      <4>1. u \subseteq s /\ u # s /\ u \in SUBSET T /\ u # T
        BY <3>3, PickProperties
      <4>2. IsSum(The(s), f, s) /\ IsFiniteSet(s) /\ IsSum(The(u), f, u)
        BY <1>2, <3>3, <4>1
      <4>3. The(s)[s] = f[Pick(s)] + The(s)[u]
        BY <3>3, <4>2, IsSumValues
      <4>4. The(s)[u] = The(u)[u]
        <5> HIDE DEF The, u
        <5> QED
          BY <4>1, <4>2, SumUnique
      <4>5. h[u] = The(u)[u]
        BY <4>1
      <4> QED
        BY <3>3, <4>3, <4>4, <4>5
    <3> QED
      BY <3>1, <3>2, <3>3
  <2>2. IsSum(h, f, T)
    <3> HIDE DEF value
    <3> QED
      BY <2>1 DEF IsSum
  <2> QED
    BY <1>1, <2>2
<1> QED
  BY <1>3, <1>4

(***************************************************************************)
(* The sum as a recursion over finite sets.                                *)
(***************************************************************************)
LEMMA SumEmpty ==
  ASSUME NEW f
  PROVE  SumFunctionOnSet(f, {}) = 0
<1>1. \E g : IsSum(g, f, {})
  BY FS_EmptySet, SumExists
<1>2. IsSum(CHOOSE g : IsSum(g, f, {}), f, {})
  BY <1>1
<1> QED
  BY <1>2, IsSumValues, SumUnfold

LEMMA SumStep ==
  ASSUME NEW f, NEW S, IsFiniteSet(S), S # {}
  PROVE  SumFunctionOnSet(f, S) = f[Pick(S)] + SumFunctionOnSet(f, S \ {Pick(S)})
<1> DEFINE The(s) == CHOOSE g : IsSum(g, f, s)
           U == S \ {Pick(S)}
<1>1. U \subseteq S /\ IsFiniteSet(U)
  BY PickProperties, FS_Subset
<1>2. IsSum(The(S), f, S) /\ IsSum(The(U), f, U)
  BY <1>1, SumExists
<1>3. The(S)[S] = f[Pick(S)] + The(S)[U]
  BY <1>2, IsSumValues
<1>4. The(S)[U] = The(U)[U]
  <2> HIDE DEF The, U
  <2> QED
    BY <1>1, <1>2, SumUnique
<1>5. SumFunctionOnSet(f, S) = The(S)[S] /\ SumFunctionOnSet(f, U) = The(U)[U]
  BY SumUnfold
<1> QED
  BY <1>3, <1>4, <1>5


(* The sum depends on the values of the function on the set only.          *)
LEMMA SumCongruence ==
  ASSUME NEW f, NEW g, NEW S, IsFiniteSet(S), \A x \in S : f[x] = g[x]
  PROVE  SumFunctionOnSet(f, S) = SumFunctionOnSet(g, S)
<1> DEFINE F(s) == SumFunctionOnSet(f, s)
           G(s) == SumFunctionOnSet(g, s)
           Bad == {s \in SUBSET S : F(s) # G(s)}
<1> SUFFICES ASSUME Bad # {} PROVE FALSE
  OBVIOUS
<1>1. PICK s \in Bad : \A u \in Bad : ~StrictlyWithin(u, s)
  <2>1. Bad \subseteq SUBSET S
    OBVIOUS
  <2> HIDE DEF Bad
  <2> QED
    BY <2>1, SmallestSubset
<1>2. CASE s = {}
  BY <1>1, <1>2, SumEmpty
<1>3. CASE s # {}
  <2> DEFINE u == s \ {Pick(s)}
  <2>1. u \subseteq s /\ u # s /\ Pick(s) \in S
    BY <1>1, <1>3, PickProperties
  <2>2. F(u) = G(u)
    BY <1>1, <2>1 DEF StrictlyWithin
  <2>3. IsFiniteSet(s)
    BY <1>1, FS_Subset
  <2>4. F(s) = f[Pick(s)] + F(u) /\ G(s) = g[Pick(s)] + G(u)
    BY <1>3, <2>3, SumStep
  <2> QED
    BY <1>1, <2>1, <2>2, <2>4
<1> QED
  BY <1>2, <1>3

LEMMA SumInt ==
  ASSUME NEW f, NEW S, IsFiniteSet(S), \A x \in S : f[x] \in Int
  PROVE  SumFunctionOnSet(f, S) \in Int
<1> DEFINE F(s) == SumFunctionOnSet(f, s)
           Bad == {s \in SUBSET S : F(s) \notin Int}
<1> SUFFICES ASSUME Bad # {} PROVE FALSE
  OBVIOUS
<1>1. PICK s \in Bad : \A u \in Bad : ~StrictlyWithin(u, s)
  <2>1. Bad \subseteq SUBSET S
    OBVIOUS
  <2> HIDE DEF Bad
  <2> QED
    BY <2>1, SmallestSubset
<1>2. CASE s = {}
  BY <1>1, <1>2, SumEmpty
<1>3. CASE s # {}
  <2> DEFINE u == s \ {Pick(s)}
  <2>1. u \subseteq s /\ u # s /\ Pick(s) \in S
    BY <1>1, <1>3, PickProperties
  <2>2. F(u) \in Int
    BY <1>1, <2>1 DEF StrictlyWithin
  <2>3. IsFiniteSet(s)
    BY <1>1, FS_Subset
  <2>4. F(s) = f[Pick(s)] + F(u)
    BY <1>3, <2>3, SumStep
  <2>5. f[Pick(s)] \in Int
    BY <2>1
  <2> HIDE DEF F, u
  <2>6. F(s) \in Int
    BY <2>2, <2>4, <2>5
  <2> QED
    BY <1>1, <2>6
<1> QED
  BY <1>2, <1>3

LEMMA SumNat ==
  ASSUME NEW f, NEW S, IsFiniteSet(S), \A x \in S : f[x] \in Nat
  PROVE  SumFunctionOnSet(f, S) \in Nat
<1> DEFINE F(s) == SumFunctionOnSet(f, s)
           Bad == {s \in SUBSET S : F(s) \notin Nat}
<1> SUFFICES ASSUME Bad # {} PROVE FALSE
  OBVIOUS
<1>1. PICK s \in Bad : \A u \in Bad : ~StrictlyWithin(u, s)
  <2>1. Bad \subseteq SUBSET S
    OBVIOUS
  <2> HIDE DEF Bad
  <2> QED
    BY <2>1, SmallestSubset
<1>2. CASE s = {}
  BY <1>1, <1>2, SumEmpty
<1>3. CASE s # {}
  <2> DEFINE u == s \ {Pick(s)}
  <2>1. u \subseteq s /\ u # s /\ Pick(s) \in S
    BY <1>1, <1>3, PickProperties
  <2>2. F(u) \in Nat
    BY <1>1, <2>1 DEF StrictlyWithin
  <2>3. IsFiniteSet(s)
    BY <1>1, FS_Subset
  <2>4. F(s) = f[Pick(s)] + F(u)
    BY <1>3, <2>3, SumStep
  <2>5. f[Pick(s)] \in Nat
    BY <2>1
  <2> HIDE DEF F, u
  <2>6. F(s) \in Nat
    BY <2>2, <2>4, <2>5
  <2> QED
    BY <1>1, <2>6
<1> QED
  BY <1>2, <1>3

(* Any member can be taken out, not only the one the fold picks.           *)
LEMMA SumTake ==
  ASSUME NEW f, NEW S, IsFiniteSet(S), \A x \in S : f[x] \in Int, NEW y \in S
  PROVE  SumFunctionOnSet(f, S) = f[y] + SumFunctionOnSet(f, S \ {y})
<1> DEFINE F(s) == SumFunctionOnSet(f, s)
           Bad == {s \in SUBSET S : ~\A z \in s : F(s) = f[z] + F(s \ {z})}
<1> SUFFICES ASSUME Bad # {} PROVE FALSE
  OBVIOUS
<1>1. PICK s \in Bad : \A u \in Bad : ~StrictlyWithin(u, s)
  <2>1. Bad \subseteq SUBSET S
    OBVIOUS
  <2> HIDE DEF Bad
  <2> QED
    BY <2>1, SmallestSubset
<1>2. PICK z \in s : F(s) # f[z] + F(s \ {z})
  BY <1>1
<1> DEFINE x == Pick(s)
           u == s \ {x}
           v == s \ {z}
           w == (s \ {x}) \ {z}
<1>3. x \in s /\ u \subseteq s /\ u # s /\ v \subseteq s /\ v # s
  BY <1>2, PickProperties
<1>4. IsFiniteSet(s) /\ IsFiniteSet(w)
  BY <1>1, FS_Subset
<1>5. F(s) = f[x] + F(u)
  BY <1>3, <1>4, SumStep
<1>6. x # z
  BY <1>2, <1>5
<1>7. u \notin Bad /\ v \notin Bad /\ u \in SUBSET S /\ v \in SUBSET S
  BY <1>1, <1>3 DEF StrictlyWithin
<1>8. F(u) = f[z] + F(u \ {z})
  BY <1>2, <1>6, <1>7
<1>9. F(v) = f[x] + F(v \ {x})
  BY <1>3, <1>6, <1>7
<1>10. u \ {z} = w /\ v \ {x} = w
  OBVIOUS
<1>11. F(w) \in Int /\ f[x] \in Int /\ f[z] \in Int
  <2>1. \A i \in w : f[i] \in Int
    BY <1>1
  <2> QED
    BY <1>1, <1>2, <1>3, <1>4, <2>1, SumInt
<1>12. F(s) = f[x] + (f[z] + F(w)) /\ f[z] + F(v) = f[z] + (f[x] + F(w))
  BY <1>5, <1>8, <1>9, <1>10
<1>13. F(s) = f[z] + F(v)
  <2> HIDE DEF F, x, u, v, w
  <2> QED
    BY <1>11, <1>12
<1> QED
  BY <1>2, <1>13

(* A sum splits over a subset and the rest.                                *)
LEMMA SumSplit ==
  ASSUME NEW f, NEW S, IsFiniteSet(S), \A x \in S : f[x] \in Int,
         NEW T, T \subseteq S
  PROVE  SumFunctionOnSet(f, S)
            = SumFunctionOnSet(f, T) + SumFunctionOnSet(f, S \ T)
<1> DEFINE F(s) == SumFunctionOnSet(f, s)
           Bad == {t \in SUBSET T : F(S) # F(t) + F(S \ t)}
<1> SUFFICES ASSUME Bad # {} PROVE FALSE
  OBVIOUS
<1>1. IsFiniteSet(T)
  BY FS_Subset
<1>2. PICK t \in Bad : \A u \in Bad : ~StrictlyWithin(u, t)
  <2>1. Bad \subseteq SUBSET T
    OBVIOUS
  <2> HIDE DEF Bad
  <2> QED
    BY <1>1, <2>1, SmallestSubset
<1>3. CASE t = {}
  <2> DEFINE rest == S \ t
  <2>1. F(t) = 0
    BY <1>3, SumEmpty
  <2>2. rest = S
    BY <1>3
  <2>3. F(S) \in Int
    BY SumInt
  <2>4. F(rest) = F(S)
    BY <2>2
  <2>5. F(S) = F(t) + F(rest)
    <3> HIDE DEF F, rest
    <3> QED
      BY <2>1, <2>3, <2>4
  <2> QED
    BY <1>2, <2>5
<1>4. CASE t # {}
  <2> DEFINE x == Pick(t)
             u == t \ {x}
             more == S \ u
             rest == S \ t
  <2>1. x \in t /\ u \subseteq t /\ u # t
    BY <1>4, PickProperties
  <2>2. F(S) = F(u) + F(S \ u)
    BY <1>2, <2>1 DEF StrictlyWithin
  <2>3. /\ IsFiniteSet(t) /\ IsFiniteSet(u)
        /\ IsFiniteSet(S \ t) /\ IsFiniteSet(S \ u)
    BY <1>2, <2>1, FS_Subset
  <2>4. x \in S \ u /\ (S \ u) \ {x} = S \ t
    BY <1>2, <2>1
  <2>5. F(t) = f[x] + F(u)
    BY <1>4, <2>3, SumStep
  <2>6. F(S \ u) = f[x] + F((S \ u) \ {x})
    <3>1. \A i \in S \ u : f[i] \in Int
      OBVIOUS
    <3> HIDE DEF x, u
    <3> QED
      BY <2>3, <2>4, <3>1, SumTake
  <2>7. F(u) \in Int /\ F(S \ t) \in Int /\ f[x] \in Int
    <3>1. \A i \in u : f[i] \in Int
      BY <1>2, <2>1
    <3> QED
      BY <1>2, <2>1, <2>3, <3>1, SumInt
  <2>8. F(more) = f[x] + F(rest)
    BY <2>4, <2>6
  <2>9. F(S) = F(t) + F(rest)
    <3>1. F(S) = F(u) + F(more) /\ F(rest) \in Int
      BY <2>2, <2>7
    <3> HIDE DEF F, x, u, more, rest
    <3> QED
      BY <2>5, <2>7, <2>8, <3>1
  <2> QED
    BY <1>2, <2>9
<1> QED
  BY <1>3, <1>4

LEMMA SumZero ==
  ASSUME NEW f, NEW S, IsFiniteSet(S), \A x \in S : f[x] = 0
  PROVE  SumFunctionOnSet(f, S) = 0
<1> DEFINE F(s) == SumFunctionOnSet(f, s)
           Bad == {s \in SUBSET S : F(s) # 0}
<1> SUFFICES ASSUME Bad # {} PROVE FALSE
  OBVIOUS
<1>1. PICK s \in Bad : \A u \in Bad : ~StrictlyWithin(u, s)
  <2>1. Bad \subseteq SUBSET S
    OBVIOUS
  <2> HIDE DEF Bad
  <2> QED
    BY <2>1, SmallestSubset
<1>2. CASE s = {}
  BY <1>1, <1>2, SumEmpty
<1>3. CASE s # {}
  <2> DEFINE u == s \ {Pick(s)}
  <2>1. u \subseteq s /\ u # s /\ Pick(s) \in S
    BY <1>1, <1>3, PickProperties
  <2>2. F(u) = 0
    BY <1>1, <2>1 DEF StrictlyWithin
  <2>3. IsFiniteSet(s)
    BY <1>1, FS_Subset
  <2>4. F(s) = f[Pick(s)] + F(u)
    BY <1>3, <2>3, SumStep
  <2> QED
    BY <1>1, <2>1, <2>2, <2>4
<1> QED
  BY <1>2, <1>3

(* Renaming the members.                                                   *)
LEMMA SumImage ==
  ASSUME NEW S, NEW f, NEW g, NEW b, IsFiniteSet(S),
         \A x \in S : g[x] = f[b[x]], \A x \in S : f[b[x]] \in Int,
         \A x \in S : \A y \in S : b[x] = b[y] => x = y
  PROVE  SumFunctionOnSet(g, S) = SumFunctionOnSet(f, {b[x] : x \in S})
<1> DEFINE Image(s) == {b[x] : x \in s}
           G(s) == SumFunctionOnSet(g, s)
           F(s) == SumFunctionOnSet(f, s)
           Bad == {s \in SUBSET S : G(s) # F(Image(s))}
<1> SUFFICES ASSUME Bad # {} PROVE FALSE
  OBVIOUS
<1>1. PICK s \in Bad : \A u \in Bad : ~StrictlyWithin(u, s)
  <2>1. Bad \subseteq SUBSET S
    OBVIOUS
  <2> HIDE DEF Bad
  <2> QED
    BY <2>1, SmallestSubset
<1>2. CASE s = {}
  <2>1. Image(s) = {}
    BY <1>2
  <2>2. G(s) = 0 /\ F(Image(s)) = 0
    <3> HIDE DEF Image
    <3> QED
      BY <1>2, <2>1, SumEmpty
  <2> QED
    BY <1>1, <2>2
<1>3. CASE s # {}
  <2> DEFINE x == Pick(s)
             u == s \ {x}
  <2>1. x \in s /\ u \subseteq s /\ u # s
    BY <1>3, PickProperties
  <2>2. G(u) = F(Image(u))
    BY <1>1, <2>1 DEF StrictlyWithin
  <2>3. IsFiniteSet(s)
    BY <1>1, FS_Subset
  <2>4. IsFiniteSet(Image(s))
    <3> DEFINE c == [y \in s |-> b[y]]
    <3>1. c \in Surjection(s, Image(s))
      BY DEF Surjection
    <3> QED
      BY <2>3, <3>1, FS_Surjection
  <2>5. G(s) = g[x] + G(u) /\ g[x] = f[b[x]]
    <3>1. G(s) = g[x] + G(u)
      BY <1>3, <2>3, SumStep
    <3> QED
      BY <1>1, <2>1, <3>1
  <2>6. b[x] \in Image(s) /\ Image(s) \ {b[x]} = Image(u)
    BY <1>1, <2>1
  <2>7. \A i \in Image(s) : f[i] \in Int
    BY <1>1
  <2>8. F(Image(s)) = f[b[x]] + F(Image(s) \ {b[x]})
    <3> HIDE DEF Image, x, u
    <3> QED
      BY <2>4, <2>6, <2>7, SumTake
  <2>9. G(s) = F(Image(s))
    BY <2>2, <2>5, <2>6, <2>8
  <2> QED
    BY <1>1, <2>9
<1> QED
  BY <1>2, <1>3

(* Adding up two functions at once or one after the other.                 *)
LEMMA SumPlus ==
  ASSUME NEW S, IsFiniteSet(S), NEW f, NEW g, NEW h, \A x \in S : h[x] = f[x] + g[x],
         \A x \in S : f[x] \in Int /\ g[x] \in Int
  PROVE  SumFunctionOnSet(h, S) = SumFunctionOnSet(f, S) + SumFunctionOnSet(g, S)
<1> DEFINE F(s) == SumFunctionOnSet(f, s)
           G(s) == SumFunctionOnSet(g, s)
           H(s) == SumFunctionOnSet(h, s)
           Bad == {s \in SUBSET S : H(s) # F(s) + G(s)}
<1> SUFFICES ASSUME Bad # {} PROVE FALSE
  OBVIOUS
<1>1. PICK s \in Bad : \A u \in Bad : ~StrictlyWithin(u, s)
  <2>1. Bad \subseteq SUBSET S
    OBVIOUS
  <2> HIDE DEF Bad
  <2> QED
    BY <2>1, SmallestSubset
<1>2. CASE s = {}
  <2>1. F(s) = 0 /\ G(s) = 0 /\ H(s) = 0
    BY <1>2, SumEmpty
  <2>2. H(s) = F(s) + G(s)
    <3> HIDE DEF F, G, H
    <3> QED
      BY <2>1
  <2> QED
    BY <1>1, <2>2
<1>3. CASE s # {}
  <2> DEFINE x == Pick(s)
             u == s \ {x}
  <2>1. u \subseteq s /\ u # s /\ x \in S
    BY <1>1, <1>3, PickProperties
  <2>2. H(u) = F(u) + G(u)
    BY <1>1, <2>1 DEF StrictlyWithin
  <2>3. IsFiniteSet(s) /\ IsFiniteSet(u)
    BY <1>1, <2>1, FS_Subset
  <2>4. F(s) = f[x] + F(u) /\ G(s) = g[x] + G(u) /\ H(s) = h[x] + H(u)
    BY <1>3, <2>3, SumStep
  <2>5. F(u) \in Int /\ G(u) \in Int
    <3>1. \A i \in u : f[i] \in Int /\ g[i] \in Int
      BY <1>1, <2>1
    <3> QED
      BY <2>3, <3>1, SumInt
  <2>6. f[x] \in Int /\ g[x] \in Int /\ h[x] = f[x] + g[x]
    BY <2>1
  <2>7. H(s) = F(s) + G(s)
    <3> HIDE DEF F, G, H, x, u
    <3> QED
      BY <2>2, <2>4, <2>5, <2>6
  <2> QED
    BY <1>1, <2>7
<1> QED
  BY <1>2, <1>3

(* The same between two functions that are given by name.                  *)
LEMMA SumRename ==
  ASSUME NEW S, NEW I, NEW f, NEW g, NEW b, IsFiniteSet(S),
         \A x \in S : b[x] \in I, \A x \in S : g[x] = f[b[x]],
         \A x \in S : \A y \in S : b[x] = b[y] => x = y,
         \A i \in I : f[i] \in Int, \A i \in I : \E x \in S : b[x] = i
  PROVE  SumFunctionOnSet(g, S) = SumFunctionOnSet(f, I)
<1> DEFINE J == {b[x] : x \in S}
<1>1. J = I
  OBVIOUS
<1>2. SumFunctionOnSet(g, S) = SumFunctionOnSet(f, J)
  <2>1. \A x \in S : f[b[x]] \in Int
    OBVIOUS
  <2> QED
    BY <2>1, SumImage
<1> QED
  BY <1>1, <1>2

(* One value changes.                                                      *)
LEMMA SumChange ==
  ASSUME NEW S, IsFiniteSet(S), NEW f, NEW g, NEW y \in S,
         \A x \in S \ {y} : g[x] = f[x], \A x \in S : f[x] \in Int, g[y] \in Int
  PROVE  SumFunctionOnSet(g, S) = SumFunctionOnSet(f, S) - f[y] + g[y]
<1> DEFINE rest == S \ {y}
           F(s) == SumFunctionOnSet(f, s)
           G(s) == SumFunctionOnSet(g, s)
<1>1. IsFiniteSet(rest)
  BY FS_Subset
<1>2. \A x \in S : g[x] \in Int
  OBVIOUS
<1>3. F(S) = f[y] + F(rest) /\ G(S) = g[y] + G(rest)
  BY <1>2, SumTake
<1>4. G(rest) = F(rest)
  <2> HIDE DEF rest
  <2> QED
    BY <1>1, SumCongruence DEF rest
<1>5. F(rest) \in Int
  <2>1. \A x \in rest : f[x] \in Int
    OBVIOUS
  <2> QED
    BY <1>1, <2>1, SumInt
<1>6. G(S) = F(S) - f[y] + g[y]
  <2> HIDE DEF F, G, rest
  <2> QED
    BY <1>3, <1>4, <1>5
<1> QED
  BY <1>6

(* A sum of natural numbers is at least each of them.                      *)
LEMMA SumAtLeast ==
  ASSUME NEW f, NEW S, IsFiniteSet(S), \A x \in S : f[x] \in Nat, NEW y \in S
  PROVE  f[y] <= SumFunctionOnSet(f, S)
<1> DEFINE rest == SumFunctionOnSet(f, S \ {y})
<1>1. IsFiniteSet(S \ {y}) /\ \A x \in S \ {y} : f[x] \in Nat
  BY FS_Subset
<1>2. rest \in Nat
  <2> DEFINE R == S \ {y}
  <2> HIDE DEF R
  <2> QED
    BY <1>1, SumNat DEF R
<1>3. SumFunctionOnSet(f, S) = f[y] + rest
  <2>1. \A x \in S : f[x] \in Int
    OBVIOUS
  <2> QED
    BY <2>1, SumTake
<1> QED
  <2> HIDE DEF rest
  <2> QED
    BY <1>2, <1>3

(* The pairs of a member and a number up to its value are as many as the   *)
(* sum of the values.                                                      *)
Below(f, s) == UNION {{<<x, k>> : k \in 1 .. f[x]} : x \in s}

LEMMA SumCounts ==
  ASSUME NEW f, NEW S, IsFiniteSet(S), \A x \in S : f[x] \in Nat
  PROVE  IsFiniteSet(Below(f, S)) /\ Cardinality(Below(f, S)) = SumFunctionOnSet(f, S)
<1> DEFINE F(s) == SumFunctionOnSet(f, s)
           B(s) == Below(f, s)
           Right(s) == IsFiniteSet(B(s)) /\ Cardinality(B(s)) = F(s)
           Bad == {s \in SUBSET S : ~Right(s)}
<1> SUFFICES ASSUME Bad # {} PROVE FALSE
  OBVIOUS
<1>1. PICK s \in Bad : \A u \in Bad : ~StrictlyWithin(u, s)
  <2>1. Bad \subseteq SUBSET S
    OBVIOUS
  <2> HIDE DEF Bad
  <2> QED
    BY <2>1, SmallestSubset
<1>2. CASE s = {}
  <2>1. B(s) = {}
    BY <1>2 DEF Below
  <2>2. F(s) = 0
    BY <1>2, SumEmpty
  <2>3. Right(s)
    BY <2>1, <2>2, FS_EmptySet
  <2> QED
    BY <1>1, <2>3
<1>3. CASE s # {}
  <2> DEFINE x == Pick(s)
             u == s \ {x}
             New == {<<x, k>> : k \in 1 .. f[x]}
  <2>1. u \subseteq s /\ u # s /\ x \in s /\ x \in S
    BY <1>1, <1>3, PickProperties
  <2>2. Right(u)
    BY <1>1, <2>1 DEF StrictlyWithin
  <2>3. IsFiniteSet(s) /\ IsFiniteSet(u)
    BY <1>1, <2>1, FS_Subset
  <2>4. F(s) = f[x] + F(u)
    BY <1>3, <2>3, SumStep
  <2>5. F(u) \in Nat /\ f[x] \in Nat
    <3>1. \A i \in u : f[i] \in Nat
      BY <1>1, <2>1
    <3> QED
      BY <2>1, <2>3, <3>1, SumNat
  <2>6. B(s) = B(u) \cup New /\ B(u) \cap New = {}
    <3>1. s = u \cup {x} /\ x \notin u
      BY <2>1
    <3> HIDE DEF x, u
    <3> QED
      BY <3>1 DEF Below, New
  <2>7. IsFiniteSet(New) /\ Cardinality(New) = f[x]
    <3> DEFINE n == f[x]
               c == [k \in 1 .. n |-> <<x, k>>]
    <3>1. c \in Bijection(1 .. n, New)
      <4> HIDE DEF x
      <4> QED
        BY DEF Bijection, Injection, Surjection, IsInjective
    <3>2. n \in Nat
      BY <2>5
    <3> HIDE DEF c, New, x, n
    <3>3. IsFiniteSet(1 .. n) /\ Cardinality(1 .. n) = n
      BY <3>2, FS_Interval
    <3>4. IsFiniteSet(New) /\ Cardinality(New) = Cardinality(1 .. n)
      BY <3>1, <3>3, FS_Bijection DEF ExistsBijection
    <3> QED
      BY <3>3, <3>4 DEF n
  <2>8. /\ IsFiniteSet(B(s))
        /\ Cardinality(B(s)) = Cardinality(B(u)) + Cardinality(New) - Cardinality(B(u) \cap New)
    <3> HIDE DEF B, New, x, u
    <3> QED
      BY <2>2, <2>6, <2>7, FS_Union
  <2>9. Cardinality(B(u) \cap New) = 0
    BY <2>6, FS_EmptySet
  <2>10. Right(s)
    <3> HIDE DEF F, B, New, x, u
    <3> QED
      BY <2>2, <2>4, <2>5, <2>7, <2>8, <2>9
  <2> QED
    BY <1>1, <2>10
<1> QED
  BY <1>2, <1>3

(* A sum of numbers up to a bound.                                         *)
LEMMA SumAtMost ==
  ASSUME NEW f, NEW S, IsFiniteSet(S), NEW c \in Nat,
         \A x \in S : f[x] \in Nat, \A x \in S : f[x] <= c
  PROVE  SumFunctionOnSet(f, S) <= Cardinality(S) * c
<1> DEFINE F(s) == SumFunctionOnSet(f, s)
           Bad == {s \in SUBSET S : ~(F(s) <= Cardinality(s) * c)}
<1> SUFFICES ASSUME Bad # {} PROVE FALSE
  OBVIOUS
<1>1. PICK s \in Bad : \A u \in Bad : ~StrictlyWithin(u, s)
  <2>1. Bad \subseteq SUBSET S
    OBVIOUS
  <2> HIDE DEF Bad
  <2> QED
    BY <2>1, SmallestSubset
<1>2. CASE s = {}
  <2>1. F(s) = 0 /\ Cardinality(s) = 0
    BY <1>2, SumEmpty, FS_EmptySet
  <2> QED
    BY <1>1, <2>1
<1>3. CASE s # {}
  <2> DEFINE x == Pick(s)
             u == s \ {x}
             n == Cardinality(u)
             p == n * c
  <2>1. u \subseteq s /\ u # s /\ x \in s /\ x \in S /\ u \subseteq S
    BY <1>1, <1>3, PickProperties
  <2>2. F(u) <= p
    BY <1>1, <2>1 DEF StrictlyWithin
  <2>3. IsFiniteSet(s) /\ IsFiniteSet(u)
    BY <1>1, <2>1, FS_Subset
  <2>4. F(s) = f[x] + F(u)
    BY <1>3, <2>3, SumStep
  <2>5. Cardinality(s) = n + 1 /\ n \in Nat
    BY <2>1, <2>3, FS_RemoveElement, FS_CardinalityType
  <2>6. F(u) \in Nat
    <3>1. \A y \in u : f[y] \in Nat
      BY <2>1
    <3> HIDE DEF u
    <3> QED
      BY <2>3, <3>1, SumNat
  <2>7. p \in Nat /\ (n + 1) * c = p + c
    <3> HIDE DEF n
    <3> QED
      BY <2>5
  <2>8. f[x] \in Nat /\ f[x] <= c
    BY <2>1
  <2>9. F(s) <= p + c
    <3> HIDE DEF F, p, x, u
    <3> QED
      BY <2>2, <2>4, <2>6, <2>7, <2>8
  <2> QED
    BY <1>1, <2>5, <2>7, <2>9
<1> QED
  BY <1>2, <1>3

(* Summands that are at most a multiple of others.                         *)
LEMMA SumScaled ==
  ASSUME NEW f, NEW g, NEW S, IsFiniteSet(S), NEW c \in Nat,
         \A x \in S : f[x] \in Nat, \A x \in S : g[x] \in Nat,
         \A x \in S : f[x] <= g[x] * c
  PROVE  SumFunctionOnSet(f, S) <= SumFunctionOnSet(g, S) * c
<1> DEFINE F(s) == SumFunctionOnSet(f, s)
           G(s) == SumFunctionOnSet(g, s)
           Bad == {s \in SUBSET S : ~(F(s) <= G(s) * c)}
<1> SUFFICES ASSUME Bad # {} PROVE FALSE
  OBVIOUS
<1>1. PICK s \in Bad : \A u \in Bad : ~StrictlyWithin(u, s)
  <2>1. Bad \subseteq SUBSET S
    OBVIOUS
  <2> HIDE DEF Bad
  <2> QED
    BY <2>1, SmallestSubset
<1>2. CASE s = {}
  <2>1. F(s) = 0 /\ G(s) = 0
    BY <1>2, SumEmpty
  <2> QED
    BY <1>1, <2>1
<1>3. CASE s # {}
  <2> DEFINE x == Pick(s)
             u == s \ {x}
             a == G(u)
             b == g[x]
             p == a * c
             d == b * c
  <2>1. u \subseteq s /\ u # s /\ x \in s /\ x \in S /\ u \subseteq S
    BY <1>1, <1>3, PickProperties
  <2>2. F(u) <= p
    BY <1>1, <2>1 DEF StrictlyWithin
  <2>3. IsFiniteSet(s) /\ IsFiniteSet(u)
    BY <1>1, <2>1, FS_Subset
  <2>4. F(s) = f[x] + F(u) /\ G(s) = b + a
    BY <1>3, <2>3, SumStep
  <2>5. F(u) \in Nat /\ a \in Nat
    <3>1. \A y \in u : f[y] \in Nat /\ g[y] \in Nat
      BY <2>1
    <3> HIDE DEF u
    <3> QED
      BY <2>3, <3>1, SumNat
  <2>6. f[x] \in Nat /\ b \in Nat /\ f[x] <= d
    BY <2>1
  <2>7. p \in Nat /\ d \in Nat /\ (b + a) * c = d + p
    <3> HIDE DEF a, b
    <3> QED
      BY <2>5, <2>6
  <2>8. F(s) <= d + p
    <3> HIDE DEF F, p, x, u, d
    <3> QED
      BY <2>2, <2>4, <2>5, <2>6, <2>7
  <2> QED
    BY <1>1, <2>4, <2>7, <2>8
<1> QED
  BY <1>2, <1>3

(* A nonempty set of natural numbers has a least one.                      *)
LEMMA LeastExists ==
  ASSUME NEW S \in SUBSET Nat, S # {}
  PROVE  Min(S) \in S
<1> DEFINE R == OpToRel(<, Nat)
<1>1. PICK x \in S : \A y \in S : ~ (<<y, x>> \in R)
  BY NatLessThanWellFounded, WFMin
<1>2. R = {p \in Nat \X Nat : p[1] < p[2]}
  BY DEF OpToRel
<1> HIDE DEF R
<1>3. \A y \in S : x <= y
  <2> TAKE y \in S
  <2>1. <<y, x>> \in R <=> y < x
    BY <1>2
  <2>2. ~ (y < x)
    BY <1>1, <2>1
  <2> QED
    BY <2>2
<1> QED
  BY <1>3 DEF Min

(***************************************************************************)
(* Sums over the places 1 .. n of a sequence.                              *)
(***************************************************************************)
LEMMA PlacesFinite ==
  ASSUME NEW n \in Nat
  PROVE  IsFiniteSet(1 .. n)
<1>1. 1 \in Int /\ n \in Int
  OBVIOUS
<1> QED
  BY <1>1, FS_Interval

LEMMA SumNext ==
  ASSUME NEW n \in Nat, NEW f, \A k \in 1 .. n + 1 : f[k] \in Int
  PROVE  /\ SumFunctionOnSet(f, 1 .. n + 1) = SumFunctionOnSet(f, 1 .. n) + f[n + 1]
         /\ SumFunctionOnSet(f, 1 .. n) \in Int
<1> DEFINE S == 1 .. n + 1
           m == n + 1
<1>1. m \in S /\ S \ {m} = 1 .. n /\ m \in Nat
  OBVIOUS
<1>2. IsFiniteSet(S) /\ IsFiniteSet(1 .. n)
  BY <1>1, PlacesFinite
<1>3. \A k \in 1 .. n : f[k] \in Int
  OBVIOUS
<1>4. SumFunctionOnSet(f, 1 .. n) \in Int
  BY <1>2, <1>3, SumInt
<1>5. \A k \in S : f[k] \in Int
  OBVIOUS
<1> HIDE DEF S, m
<1>6. SumFunctionOnSet(f, S) = f[m] + SumFunctionOnSet(f, S \ {m})
  BY <1>1, <1>2, <1>5, SumTake
<1>7. f[m] \in Int
  BY <1>1, <1>5
<1>8. SumFunctionOnSet(f, S) = SumFunctionOnSet(f, 1 .. n) + f[m]
  <2>1. SumFunctionOnSet(f, S) = f[m] + SumFunctionOnSet(f, 1 .. n)
    BY Zenon, <1>1, <1>6
  <2> QED
    BY <1>4, <1>7, <2>1
<1> QED
  BY <1>4, <1>8 DEF S, m

(* The sum over two stretches, one after the other.                         *)
LEMMA SumStretch ==
  ASSUME NEW a \in Nat, NEW b \in Nat, NEW f, NEW g,
         \A p \in 1 .. a + b : f[p] \in Int, \A j \in 1 .. b : g[j] = f[a + j]
  PROVE  SumFunctionOnSet(f, 1 .. a + b)
            = SumFunctionOnSet(f, 1 .. a) + SumFunctionOnSet(g, 1 .. b)
<1> DEFINE S == 1 .. a + b
           T == 1 .. a
           I == a + 1 .. a + b
           at == [j \in 1 .. b |-> a + j]
<1>1. T \subseteq S /\ S \ T = I /\ a + b \in Nat
  OBVIOUS
<1>2. IsFiniteSet(S) /\ IsFiniteSet(1 .. b)
  BY <1>1, PlacesFinite
<1>3. /\ \A j \in 1 .. b : at[j] \in I /\ at[j] = a + j
      /\ \A i \in I : i - a \in 1 .. b /\ at[i - a] = i
  OBVIOUS
<1>4. /\ \A j \in 1 .. b : g[j] = f[at[j]]
      /\ \A j \in 1 .. b : \A k \in 1 .. b : at[j] = at[k] => j = k
      /\ \A i \in I : \E j \in 1 .. b : at[j] = i
      /\ \A i \in I : f[i] \in Int
      /\ \A j \in 1 .. b : at[j] \in I
      /\ \A p \in S : f[p] \in Int
  <2>1. \A i \in I : i \in S
    BY <1>1
  <2>2. \A j \in 1 .. b : \A k \in 1 .. b : a + j = a + k => j = k
    OBVIOUS
  <2>3. \A p \in S : f[p] \in Int
    OBVIOUS
  <2> HIDE DEF at, I, S
  <2> QED
    BY <1>3, <2>1, <2>2, <2>3
<1> HIDE DEF S, T, I, at
<1>5. SumFunctionOnSet(f, S) = SumFunctionOnSet(f, T) + SumFunctionOnSet(f, I)
  BY <1>1, <1>2, <1>4, SumSplit
<1>6. SumFunctionOnSet(g, 1 .. b) = SumFunctionOnSet(f, I)
  <2> DEFINE J == 1 .. b
  <2>1. /\ IsFiniteSet(J) /\ \A j \in J : at[j] \in I
        /\ \A j \in J : g[j] = f[at[j]]
        /\ \A j \in J : \A k \in J : at[j] = at[k] => j = k
        /\ \A i \in I : f[i] \in Int
        /\ \A i \in I : \E j \in J : at[j] = i
    BY Zenon, <1>2, <1>4
  <2> HIDE DEF J
  <2>2. SumFunctionOnSet(g, J) = SumFunctionOnSet(f, I)
    BY <2>1, SumRename
  <2> QED
    BY <2>2 DEF J
<1> QED
  BY <1>5, <1>6 DEF S, T

-----------------------------------------------------------------------------
(* Induction over the numbers up to n, for the set of those that have a     *)
(* property.                                                                *)
LEMMA CountUp ==
  ASSUME NEW n \in Nat, NEW S, 0 \in S, \A k \in 0 .. n - 1 : k \in S => k + 1 \in S
  PROVE  \A k \in 0 .. n : k \in S
<1> DEFINE R == OpToRel(<, Nat)
           bad == {k \in 0 .. n : k \notin S}
<1> SUFFICES ASSUME bad # {} PROVE FALSE
  OBVIOUS
<1>1. bad \in SUBSET Nat
  OBVIOUS
<1>2. \A x, y \in Nat : <<y, x>> \in R <=> y < x
  BY DEF OpToRel
<1>3. PICK x \in bad : \A y \in bad : ~ (<<y, x>> \in R)
  <2> HIDE DEF bad, R
  <2>1. IsWellFoundedOn(R, Nat)
    BY NatLessThanWellFounded DEF R
  <2> QED
    BY <1>1, <2>1, WFMin
<1>4. x \in 1 .. n /\ x - 1 \in 0 .. n - 1
  OBVIOUS
<1>5. x - 1 \notin bad
  <2>1. x \in Nat /\ x - 1 \in Nat /\ x - 1 < x
    BY <1>4
  <2>2. <<x - 1, x>> \in R
    BY <1>2, <2>1
  <2> HIDE DEF bad, R
  <2> QED
    BY <1>3, <2>2
<1> QED
  BY <1>4, <1>5

(* Two increasing lists of the same numbers are one list.                   *)
Increasing(g, n) == \A i, k \in 1 .. n : i < k => g[i] < g[k]

LEMMA NoLonger ==
  ASSUME NEW a \in Nat, NEW b \in Nat, NEW g \in [1 .. a -> Nat], NEW h \in [1 .. b -> Nat],
         Increasing(g, a), Increasing(h, b),
         \A i \in 1 .. a : \E j \in 1 .. b : h[j] = g[i],
         \A j \in 1 .. b : \E i \in 1 .. a : g[i] = h[j]
  PROVE  a <= b /\ \A i \in 1 .. a : g[i] = h[i]
<1> DEFINE S == {m \in 0 .. a : m <= b /\ \A i \in 1 .. m : g[i] = h[i]}
<1>1. 0 \in S
  OBVIOUS
<1>2. ASSUME NEW m \in 0 .. a - 1, m \in S PROVE m + 1 \in S
  <2>1. m + 1 \in 1 .. a /\ m \in 0 .. b /\ \A i \in 1 .. m : g[i] = h[i]
    BY <1>2
  <2>2. PICK j \in 1 .. b : h[j] = g[m + 1]
    BY <2>1
  <2>3. m < j
    <3>1. CASE j \in 1 .. m
      <4>1. j \in 1 .. a /\ j < m + 1
        BY <2>1, <3>1
      <4>2. g[j] < g[m + 1]
        BY <2>1, <4>1 DEF Increasing
      <4>3. g[j] = g[m + 1] /\ g[j] \in Nat /\ g[m + 1] \in Nat
        BY <2>1, <2>2, <3>1, <4>1
      <4> QED
        BY <4>2, <4>3
    <3> QED
      BY <2>1, <3>1
  <2>4. m + 1 \in 1 .. b
    BY <2>1, <2>3
  <2>5. PICK i \in 1 .. a : g[i] = h[m + 1]
    BY <2>4
  <2>6. m < i
    <3>1. CASE i \in 1 .. m
      <4>1. i \in 1 .. b /\ i < m + 1
        BY <2>4, <3>1
      <4>2. h[i] < h[m + 1]
        BY <2>4, <4>1 DEF Increasing
      <4>3. h[i] = h[m + 1] /\ h[i] \in Nat /\ h[m + 1] \in Nat
        BY <2>1, <2>4, <2>5, <3>1, <4>1
      <4> QED
        BY <4>2, <4>3
    <3> QED
      BY <2>1, <3>1
  <2>7. h[m + 1] <= h[j] /\ g[m + 1] <= g[i]
    <3>1. m + 1 = j \/ m + 1 < j
      BY <2>1, <2>3
    <3>2. m + 1 = i \/ m + 1 < i
      BY <2>1, <2>6
    <3>3. h[m + 1] \in Nat /\ h[j] \in Nat /\ g[m + 1] \in Nat /\ g[i] \in Nat
      BY <2>1, <2>4
    <3>4. m + 1 < j => h[m + 1] < h[j]
      BY <2>4 DEF Increasing
    <3>5. m + 1 < i => g[m + 1] < g[i]
      BY <2>1 DEF Increasing
    <3>6. (m + 1 = j => h[m + 1] = h[j]) /\ (m + 1 = i => g[m + 1] = g[i])
      BY Zenon
    <3>7. \A x, y \in Nat : x < y \/ x = y => x <= y
      OBVIOUS
    <3>8. h[m + 1] <= h[j]
      BY Zenon, <3>1, <3>3, <3>4, <3>6, <3>7
    <3> QED
      BY Zenon, <3>2, <3>3, <3>5, <3>6, <3>7, <3>8
  <2>8. g[m + 1] = h[m + 1]
    BY <2>1, <2>2, <2>4, <2>5, <2>7
  <2>9. \A k \in 1 .. m + 1 : k \in 1 .. m \/ k = m + 1
    BY <2>1
  <2>10. \A k \in 1 .. m + 1 : g[k] = h[k]
    BY Zenon, <2>1, <2>8, <2>9
  <2>11. m + 1 \in 0 .. a /\ m + 1 <= b
    BY <2>1, <2>4
  <2> QED
    BY Zenon, <2>10, <2>11
<1> HIDE DEF S
<1>3. \A m \in 0 .. a : m \in S
  BY <1>1, <1>2, CountUp
<1>4. a \in S
  BY <1>3
<1> QED
  BY <1>4 DEF S

=============================================================================
