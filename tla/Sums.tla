-------------------------------- MODULE Sums --------------------------------
(***************************************************************************)
(* Facts about MapThenSumSet for proofs about money: what a sum over a     *)
(* finite set becomes when one summand is added, dropped or changed.  The  *)
(* fold is a recursive function, and the induction theorems of the library *)
(* cannot be used, since they take the statement as an operator.  Their    *)
(* well-founded forms take a set: the sets for which a statement fails,    *)
(* if there are any, have a minimal one (LeastFailure), whose proper       *)
(* subsets satisfy it.  That this one does not fail is the induction step. *)
(***************************************************************************)
EXTENDS FiniteSetsExt, FiniteSetTheorems, TLAPS

\* The sum of a function over a set, the way the modules of this directory write it.
SumOver(f, S) == MapThenSumSet(LAMBDA x : f[x], S)

Chosen(s) == CHOOSE x \in s : TRUE

SumStep(f, s, g) == IF s = {} THEN 0 ELSE f[Chosen(s)] + g[s \ {Chosen(s)}]

\* g is the recursive function that the fold over S defines.
Summation(f, g, S) == g = [s \in SUBSET S |-> SumStep(f, s, g)]

PartSums(f, S) == CHOOSE g : Summation(f, g, S)

-----------------------------------------------------------------------------
\* The community module's definition, unfolded.
LEMMA SumIsPartSums ==
  ASSUME NEW f, NEW S
  PROVE  SumOver(f, S) = PartSums(f, S)[S]
  BY Zenon DEF SumOver, MapThenSumSet, MapThenFoldSet, PartSums, Summation, SumStep, Chosen

\* A nonempty set has the element that is chosen.
LEMMA ChosenIn ==
  ASSUME NEW s, s # {}
  PROVE  Chosen(s) \in s
  BY DEF Chosen

\* Of a set of subsets of a finite set, if there are any, one has no smaller one in it.
LEMMA LeastFailure ==
  ASSUME NEW S, IsFiniteSet(S), NEW Bad \in SUBSET (SUBSET S), Bad # {}
  PROVE  \E T \in Bad : \A U \in SUBSET T : U # T => U \notin Bad
<1>1. Bad \subseteq FiniteSubsetsOf(S)
  BY FS_FiniteSubsetsOfFinite
<1>2. PICK T \in Bad : \A U \in Bad : <<U, T>> \notin StrictSubsetOrdering(S)
  BY <1>1, FS_StrictSubsetOrderingWellFounded, WFMin
<1>3. ASSUME NEW U \in SUBSET T, U # T, U \in Bad
      PROVE  FALSE
  BY <1>2, <1>3 DEF StrictSubsetOrdering
<1> QED
  BY <1>2, <1>3

\* Summations over a set and over a subset of it agree on the latter.
LEMMA SummationUnique ==
  ASSUME NEW f, NEW S, IsFiniteSet(S), NEW T \in SUBSET S,
         NEW g, NEW h, Summation(f, g, S), Summation(f, h, T)
  PROVE  \A s \in SUBSET T : g[s] = h[s]
<1> DEFINE Bad == {s \in SUBSET T : g[s] # h[s]}
<1> SUFFICES ASSUME Bad # {} PROVE FALSE
  OBVIOUS
<1>1. IsFiniteSet(T) /\ Bad \in SUBSET (SUBSET T)
  BY FS_Subset
<1>2. PICK s \in Bad : \A U \in SUBSET s : U # s => U \notin Bad
  <2> HIDE DEF Bad
  <2> QED
    BY <1>1, LeastFailure
<1>3. g[s] = SumStep(f, s, g) /\ h[s] = SumStep(f, s, h)
  BY DEF Summation
<1>4. CASE s = {}
  BY <1>3, <1>4 DEF SumStep
<1>5. CASE s # {}
  <2>1. s \ {Chosen(s)} \in SUBSET s /\ s \ {Chosen(s)} # s
    BY <1>5, ChosenIn
  <2>2. g[s \ {Chosen(s)}] = h[s \ {Chosen(s)}]
    BY <1>2, <2>1
  <2> QED
    BY <1>3, <1>5, <2>2 DEF SumStep
<1> QED
  BY <1>4, <1>5

\* The recursion defines a function: one is put together from those of smaller sets.
LEMMA SummationExists ==
  ASSUME NEW f, NEW S, IsFiniteSet(S)
  PROVE  Summation(f, PartSums(f, S), S)
<1> DEFINE Bad == {T \in SUBSET S : ~ \E g : Summation(f, g, T)}
<1>1. ASSUME Bad # {} PROVE FALSE
  <2>0. Bad \in SUBSET (SUBSET S)
    OBVIOUS
  <2>1. PICK T \in Bad : \A U \in SUBSET T : U # T => U \notin Bad
    <3> HIDE DEF Bad
    <3> QED
      BY <1>1, <2>0, LeastFailure
  <2>2. IsFiniteSet(T)
    BY FS_Subset
  <2>3. ASSUME NEW U \in SUBSET T, U # T
        PROVE  Summation(f, PartSums(f, U), U)
    <3>1. \E g : Summation(f, g, U)
      BY <2>1, <2>3
    <3> QED
      BY <3>1 DEF PartSums
  <2> DEFINE top(U) == PartSums(f, U)[U]
             g == [s \in SUBSET T |-> IF s = {} THEN 0
                                      ELSE f[Chosen(s)] + top(s \ {Chosen(s)})]
  <2>4. ASSUME NEW U \in SUBSET T, U # T
        PROVE  g[U] = top(U)
    <3>1. top(U) = SumStep(f, U, PartSums(f, U))
      BY <2>3, <2>4 DEF Summation
    <3>2. CASE U = {}
      BY <3>1, <3>2 DEF SumStep
    <3>3. CASE U # {}
      <4> DEFINE V == U \ {Chosen(U)}
      <4>1. V \in SUBSET U /\ V \in SUBSET T /\ V # T
        BY <3>3, ChosenIn
      <4>2. Summation(f, PartSums(f, V), V) /\ Summation(f, PartSums(f, U), U) /\ IsFiniteSet(U)
        BY <2>2, <2>3, <2>4, <4>1, FS_Subset
      <4>3. PartSums(f, U)[V] = PartSums(f, V)[V]
        <5>1. V \in SUBSET V
          OBVIOUS
        <5> HIDE DEF V
        <5> QED
          BY <4>1, <4>2, <5>1, SummationUnique
      <4> QED
        BY <3>1, <3>3, <4>3 DEF SumStep
    <3> QED
      BY <3>2, <3>3
  <2>5. ASSUME NEW s \in SUBSET T
        PROVE  g[s] = SumStep(f, s, g)
    <3>1. CASE s = {}
      BY <3>1 DEF SumStep
    <3>2. CASE s # {}
      <4>1. s \ {Chosen(s)} \in SUBSET T /\ s \ {Chosen(s)} # T
        BY <3>2, ChosenIn
      <4> QED
        BY <2>4, <3>2, <4>1 DEF SumStep
    <3> QED
      BY <3>1, <3>2
  <2>6. Summation(f, g, T)
    <3>1. g = [s \in SUBSET T |-> g[s]]
      OBVIOUS
    <3> QED
      BY <2>5, <3>1 DEF Summation
  <2> QED
    BY <2>1, <2>6
<1>2. \E g : Summation(f, g, S)
  BY <1>1
<1> QED
  BY <1>2 DEF PartSums

\* The empty sum.
LEMMA SumEmpty ==
  ASSUME NEW f
  PROVE  SumOver(f, {}) = 0
<1>1. Summation(f, PartSums(f, {}), {})
  BY FS_EmptySet, SummationExists
<1> QED
  BY <1>1, SumIsPartSums DEF Summation, SumStep

\* The recursion, for sums.
LEMMA SumChosen ==
  ASSUME NEW f, NEW S, IsFiniteSet(S), S # {}
  PROVE  SumOver(f, S) = f[Chosen(S)] + SumOver(f, S \ {Chosen(S)})
<1> DEFINE V == S \ {Chosen(S)}
<1>1. V \in SUBSET S /\ IsFiniteSet(V)
  BY FS_Subset
<1>2. Summation(f, PartSums(f, S), S) /\ Summation(f, PartSums(f, V), V)
  BY <1>1, SummationExists
<1>3. PartSums(f, S)[V] = PartSums(f, V)[V]
  <2>1. V \in SUBSET V
    OBVIOUS
  <2> HIDE DEF V
  <2> QED
    BY <1>1, <1>2, <2>1, SummationUnique
<1>4. PartSums(f, S)[S] = f[Chosen(S)] + PartSums(f, S)[V]
  BY <1>2 DEF Summation, SumStep
<1> QED
  BY <1>3, <1>4, SumIsPartSums

\* A sum of integers is one.
LEMMA SumType ==
  ASSUME NEW f, NEW S, IsFiniteSet(S), \A x \in S : f[x] \in Int
  PROVE  SumOver(f, S) \in Int
<1> DEFINE Bad == {T \in SUBSET S : SumOver(f, T) \notin Int}
<1>1. ASSUME Bad # {} PROVE FALSE
  <2>0. Bad \in SUBSET (SUBSET S)
    OBVIOUS
  <2>1. PICK T \in Bad : \A U \in SUBSET T : U # T => U \notin Bad
    <3> HIDE DEF Bad
    <3> QED
      BY <1>1, <2>0, LeastFailure
  <2>2. IsFiniteSet(T)
    BY FS_Subset
  <2>3. CASE T = {}
    BY <2>3, SumEmpty
  <2>4. CASE T # {}
    <3>1. Chosen(T) \in T /\ f[Chosen(T)] \in Int
      BY <2>4, ChosenIn
    <3>2. SumOver(f, T \ {Chosen(T)}) \in Int
      BY <2>1, <3>1
    <3> QED
      BY <2>2, <2>4, <3>1, <3>2, SumChosen
  <2> QED
    BY <2>3, <2>4
<1> QED
  BY <1>1

\* Any element may be taken out first.
LEMMA SumTake ==
  ASSUME NEW f, NEW S, IsFiniteSet(S), \A x \in S : f[x] \in Int, NEW x \in S
  PROVE  SumOver(f, S) = f[x] + SumOver(f, S \ {x})
<1> DEFINE Bad == {T \in SUBSET S : \E y \in T : SumOver(f, T) # f[y] + SumOver(f, T \ {y})}
<1>1. ASSUME Bad # {} PROVE FALSE
  <2>0. Bad \in SUBSET (SUBSET S)
    OBVIOUS
  <2>1. PICK T \in Bad : \A U \in SUBSET T : U # T => U \notin Bad
    <3> HIDE DEF Bad
    <3> QED
      BY <1>1, <2>0, LeastFailure
  <2>2. PICK y \in T : SumOver(f, T) # f[y] + SumOver(f, T \ {y})
    BY <2>1
  <2> DEFINE p == Chosen(T)
  <2>3. IsFiniteSet(T) /\ p \in T
    BY <2>2, FS_Subset, ChosenIn
  <2>4. SumOver(f, T) = f[p] + SumOver(f, T \ {p}) /\ p # y
    BY <2>2, <2>3, SumChosen
  <2>5. SumOver(f, T \ {p}) = f[y] + SumOver(f, (T \ {p}) \ {y})
    BY <2>1, <2>3, <2>4
  <2>6. SumOver(f, T \ {y}) = f[p] + SumOver(f, (T \ {y}) \ {p})
    BY <2>1, <2>3, <2>4
  <2>7. (T \ {y}) \ {p} = (T \ {p}) \ {y}
    OBVIOUS
  <2>8. SumOver(f, (T \ {p}) \ {y}) \in Int /\ f[p] \in Int /\ f[y] \in Int
    <3>1. IsFiniteSet((T \ {p}) \ {y}) /\ \A z \in (T \ {p}) \ {y} : f[z] \in Int
      BY FS_Subset
    <3> QED
      BY <2>3, <3>1, SumType
  <2> HIDE DEF p
  <2> DEFINE rest == SumOver(f, (T \ {p}) \ {y})
  <2>9. SumOver(f, T) = f[p] + (f[y] + rest) /\ SumOver(f, T \ {y}) = f[p] + rest
    BY <2>4, <2>5, <2>6, <2>7
  <2>10. rest \in Int /\ f[p] \in Int /\ f[y] \in Int
    BY <2>8
  <2> HIDE DEF rest
  <2> QED
    BY <2>2, <2>9, <2>10
<1> QED
  BY <1>1

\* A sum depends on the summands only.
LEMMA SumSame ==
  ASSUME NEW f, NEW g, NEW S, IsFiniteSet(S), \A x \in S : f[x] = g[x]
  PROVE  SumOver(f, S) = SumOver(g, S)
<1> DEFINE Bad == {T \in SUBSET S : SumOver(f, T) # SumOver(g, T)}
<1>1. ASSUME Bad # {} PROVE FALSE
  <2>0. Bad \in SUBSET (SUBSET S)
    OBVIOUS
  <2>1. PICK T \in Bad : \A U \in SUBSET T : U # T => U \notin Bad
    <3> HIDE DEF Bad
    <3> QED
      BY <1>1, <2>0, LeastFailure
  <2>2. CASE T = {}
    BY <2>2, SumEmpty
  <2>3. CASE T # {}
    <3>1. IsFiniteSet(T) /\ Chosen(T) \in T
      BY <2>3, FS_Subset, ChosenIn
    <3>2. SumOver(f, T \ {Chosen(T)}) = SumOver(g, T \ {Chosen(T)})
      BY <2>1, <3>1
    <3> QED
      BY <2>1, <2>3, <3>1, <3>2, SumChosen
  <2> QED
    BY <2>2, <2>3
<1> QED
  BY <1>1

\* An element more.
LEMMA SumAdd ==
  ASSUME NEW f, NEW S, IsFiniteSet(S), NEW y, y \notin S,
         \A x \in S \cup {y} : f[x] \in Int
  PROVE  SumOver(f, S \cup {y}) = SumOver(f, S) + f[y]
<1> DEFINE T == S \cup {y}
<1>1. IsFiniteSet(T) /\ T \ {y} = S
  BY FS_AddElement
<1>2. SumOver(f, T) = f[y] + SumOver(f, S)
  BY <1>1, SumTake
<1>3. SumOver(f, S) \in Int /\ f[y] \in Int
  BY SumType
<1> HIDE DEF T
<1> QED
  BY <1>2, <1>3 DEF T

\* One summand is changed.
LEMMA SumChange ==
  ASSUME NEW f, NEW g, NEW S, IsFiniteSet(S), NEW y \in S,
         \A x \in S : f[x] \in Int, \A x \in S : g[x] \in Int,
         \A x \in S \ {y} : f[x] = g[x]
  PROVE  SumOver(g, S) = SumOver(f, S) + g[y] - f[y]
<1>1. SumOver(f, S) = f[y] + SumOver(f, S \ {y})
  BY SumTake
<1>2. SumOver(g, S) = g[y] + SumOver(g, S \ {y})
  BY SumTake
<1>3. IsFiniteSet(S \ {y})
  BY FS_RemoveElement
<1>4. SumOver(f, S \ {y}) = SumOver(g, S \ {y})
  BY <1>3, SumSame
<1>5. SumOver(f, S \ {y}) \in Int
  BY <1>3, SumType
<1> QED
  BY <1>1, <1>2, <1>4, <1>5

\* Larger summands, larger sum.
LEMMA SumMonotone ==
  ASSUME NEW f, NEW g, NEW S, IsFiniteSet(S),
         \A x \in S : f[x] \in Int /\ g[x] \in Int /\ f[x] <= g[x]
  PROVE  SumOver(f, S) <= SumOver(g, S)
<1> DEFINE Bad == {T \in SUBSET S : ~(SumOver(f, T) <= SumOver(g, T))}
<1>1. ASSUME Bad # {} PROVE FALSE
  <2>0. Bad \in SUBSET (SUBSET S)
    OBVIOUS
  <2>1. PICK T \in Bad : \A U \in SUBSET T : U # T => U \notin Bad
    <3> HIDE DEF Bad
    <3> QED
      BY <1>1, <2>0, LeastFailure
  <2>2. CASE T = {}
    BY <2>2, SumEmpty
  <2>3. CASE T # {}
    <3> DEFINE c == Chosen(T)
               U == T \ {c}
    <3>1. IsFiniteSet(T) /\ c \in T /\ IsFiniteSet(U)
      BY <2>3, FS_Subset, ChosenIn
    <3>2. SumOver(f, U) <= SumOver(g, U)
      BY <2>1, <3>1
    <3>3. SumOver(f, U) \in Int /\ SumOver(g, U) \in Int
      BY <3>1, SumType
    <3>4. SumOver(f, T) = f[c] + SumOver(f, U) /\ SumOver(g, T) = g[c] + SumOver(g, U)
      BY <2>3, <3>1, SumChosen
    <3>5. f[c] \in Int /\ g[c] \in Int /\ f[c] <= g[c]
      BY <3>1
    <3>6. ~(SumOver(f, T) <= SumOver(g, T))
      BY <2>1
    <3> HIDE DEF c, U
    <3> QED
      BY <3>2, <3>3, <3>4, <3>5, <3>6
  <2> QED
    BY <2>2, <2>3
<1> QED
  BY <1>1

\* The elements that are left out count nothing.
Kept(f, S, T) == [x \in S |-> IF x \in T THEN f[x] ELSE 0]

LEMMA SumKept ==
  ASSUME NEW f, NEW S, IsFiniteSet(S), NEW T \in SUBSET S, \A x \in T : f[x] \in Int
  PROVE  SumOver(f, T) = SumOver(Kept(f, S, T), S)
<1> DEFINE g == Kept(f, S, T)
           Bad == {V \in SUBSET S : SumOver(f, V \cap T) # SumOver(g, V)}
<1>0. \A x \in S : g[x] = IF x \in T THEN f[x] ELSE 0
  BY DEF Kept
<1> HIDE DEF g
<1>1. ASSUME Bad # {} PROVE FALSE
  <2>0. Bad \in SUBSET (SUBSET S)
    OBVIOUS
  <2>1. PICK V \in Bad : \A U \in SUBSET V : U # V => U \notin Bad
    <3> HIDE DEF Bad
    <3> QED
      BY <1>1, <2>0, LeastFailure
  <2>2. CASE V = {}
    <3>1. V \cap T = {}
      BY <2>2
    <3> QED
      BY <2>2, <3>1, SumEmpty
  <2>3. CASE V # {}
    <3> DEFINE c == Chosen(V)
               U == V \ {c}
    <3>1. IsFiniteSet(V) /\ c \in V /\ IsFiniteSet(U) /\ IsFiniteSet(U \cap T)
      BY <2>3, FS_Subset, ChosenIn
    <3>2. SumOver(f, U \cap T) = SumOver(g, U)
      BY <2>1, <3>1
    <3>3. SumOver(g, V) = g[c] + SumOver(g, U)
      BY <2>3, <3>1, SumChosen
    <3>4. SumOver(f, U \cap T) \in Int
      BY <3>1, SumType
    <3>5. SumOver(f, V \cap T) # SumOver(g, V) /\ V \in SUBSET S
      BY <2>1
    <3>6. c \in V /\ U = V \ {c}
      BY <3>1
    <3> HIDE DEF c, U
    <3>7. CASE c \in T
      <4>1. V \cap T = (U \cap T) \cup {c} /\ c \notin U \cap T
        BY <3>6, <3>7
      <4>2. SumOver(f, V \cap T) = SumOver(f, U \cap T) + f[c]
        BY <3>1, <4>1, SumAdd
      <4>3. g[c] = f[c] /\ f[c] \in Int
        BY <1>0, <3>5, <3>6, <3>7
      <4> QED
        BY <3>2, <3>3, <3>4, <3>5, <4>2, <4>3
    <3>8. CASE c \notin T
      <4>1. V \cap T = U \cap T
        BY <3>6, <3>8
      <4>2. g[c] = 0
        BY <1>0, <3>5, <3>6, <3>8
      <4>3. SumOver(f, V \cap T) = SumOver(g, U)
        BY <3>2, <4>1
      <4>4. SumOver(g, U) \in Int
        BY <3>2, <3>4
      <4> QED
        BY <3>3, <3>5, <4>2, <4>3, <4>4
    <3> QED
      BY <3>7, <3>8
  <2> QED
    BY <2>2, <2>3
<1>2. S \cap T = T
  OBVIOUS
<1> QED
  BY <1>1, <1>2 DEF g

\* The sum over a subset, of summands that are not negative.
LEMMA SumSubset ==
  ASSUME NEW f, NEW S, IsFiniteSet(S), NEW T \in SUBSET S, \A x \in S : f[x] \in Nat
  PROVE  SumOver(f, T) <= SumOver(f, S)
<1>1. SumOver(f, T) = SumOver(Kept(f, S, T), S)
  BY SumKept
<1>2. \A x \in S : Kept(f, S, T)[x] \in Int /\ f[x] \in Int /\ Kept(f, S, T)[x] <= f[x]
  BY DEF Kept
<1> QED
  BY <1>1, <1>2, SumMonotone

\* A sum of zeros.
LEMMA SumOfZeros ==
  ASSUME NEW f, NEW S, IsFiniteSet(S), \A x \in S : f[x] = 0
  PROVE  SumOver(f, S) = 0
<1> DEFINE none == {}
           zeros == Kept(f, S, none)
<1>1. SumOver(f, none) = SumOver(zeros, S)
  BY SumKept
<1>2. \A x \in S : f[x] = zeros[x]
  BY DEF Kept
<1> HIDE DEF zeros
<1>3. SumOver(f, S) = SumOver(zeros, S)
  BY <1>2, SumSame
<1> QED
  BY <1>1, <1>3, SumEmpty

\* A sum of the amounts of rows, as the models write it, is one of these sums.
LEMMA SumOfAmounts ==
  ASSUME NEW rows, NEW S
  PROVE  MapThenSumSet(LAMBDA x : rows[x].amount, S) = SumOver([x \in S |-> rows[x].amount], S)
<1> DEFINE f == [x \in S |-> rows[x].amount]
           step(g, s) == IF s = {} THEN 0 ELSE rows[Chosen(s)].amount + g[s \ {Chosen(s)}]
           sums == CHOOSE g : g = [s \in SUBSET S |-> step(g, s)]
<1>1. MapThenSumSet(LAMBDA x : rows[x].amount, S) = sums[S]
  BY Zenon DEF MapThenSumSet, MapThenFoldSet, Chosen
<1>2. \A g : \A s \in SUBSET S : step(g, s) = SumStep(f, s, g)
  BY ChosenIn DEF SumStep
<1> HIDE DEF step, f
<1>3. \A g : (g = [s \in SUBSET S |-> step(g, s)]) <=> Summation(f, g, S)
  BY <1>2 DEF Summation
<1>4. sums = PartSums(f, S)
  BY <1>3 DEF PartSums
<1> QED
  BY <1>1, <1>4, SumIsPartSums DEF f
=============================================================================
