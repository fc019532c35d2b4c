----------------------------- MODULE DataLemmas -----------------------------
(***************************************************************************)
(* Lemmas about data that the proofs of several components rest on: least  *)
(* and greatest numbers, the first element of a finite set in an order,    *)
(* and what a recursion over the subsets of a finite set computes, which   *)
(* is what the folds of the community modules are.  Induction over data is *)
(* the choice of a smallest counterexample: strict inclusion of finite     *)
(* sets is well-founded.  Then what a recursion over the numbers up to n   *)
(* computes, as filters do.                                                *)
(***************************************************************************)
EXTENDS Integers, Sequences, FiniteSets, SequencesExt, FiniteSetTheorems, WellFoundedInduction, TLAPS, Lists

\* Every set of numbers that is not empty has a least element.
LEMMA LeastNat ==
  ASSUME NEW T, T \subseteq Nat, T # {}
  PROVE  \E n \in T : \A m \in T : n <= m
<1> DEFINE F == {0 .. n : n \in T}
<1>1. F \subseteq FiniteSubsetsOf(Nat) /\ F # {}
  <2>1. \A n \in T : IsFiniteSet(0 .. n) /\ 0 .. n \in SUBSET Nat
    <3> SUFFICES ASSUME NEW n \in T
                 PROVE  IsFiniteSet(0 .. n) /\ 0 .. n \in SUBSET Nat
      OBVIOUS
    <3>1. n \in Int /\ 0 \in Int
      OBVIOUS
    <3>2. IsFiniteSet(0 .. n)
      BY <3>1, FS_Interval
    <3> QED
      BY <3>2
  <2> QED
    BY <2>1 DEF FiniteSubsetsOf
<1>2. IsWellFoundedOn(StrictSubsetOrdering(Nat), FiniteSubsetsOf(Nat))
  BY FS_StrictSubsetOrderingWellFounded
<1> HIDE DEF F
<1>3. \E x \in F : \A y \in F : ~(<<y, x>> \in StrictSubsetOrdering(Nat))
  BY <1>1, <1>2, WFMin
<1> USE DEF F
<1>4. PICK n \in T : \A m \in T : ~(<<0 .. m, 0 .. n>> \in StrictSubsetOrdering(Nat))
  BY <1>3
<1>5. ASSUME NEW m \in T, m < n
      PROVE  FALSE
  <2>1. /\ 0 .. m \subseteq 0 .. n /\ n \in 0 .. n /\ n \notin 0 .. m
        /\ 0 .. m \subseteq Nat /\ 0 .. n \subseteq Nat
    BY <1>5
  <2> QED
    BY <1>4, <2>1 DEF StrictSubsetOrdering
<1> QED
  BY <1>5

\* A family of subsets of a finite set that is not empty has a smallest member.
LEMMA SmallestSubset ==
  ASSUME NEW S, IsFiniteSet(S), NEW F, F \subseteq SUBSET S, F # {}
  PROVE  \E T \in F : \A U \in F : ~(U \subseteq T /\ U # T)
<1>1. F \subseteq FiniteSubsetsOf(S)
  BY FS_Subset DEF FiniteSubsetsOf
<1>2. IsWellFoundedOn(StrictSubsetOrdering(S), FiniteSubsetsOf(S))
  BY FS_StrictSubsetOrderingWellFounded
<1>3. PICK T \in F : \A U \in F : ~(<<U, T>> \in StrictSubsetOrdering(S))
  BY <1>1, <1>2, WFMin
<1>4. ASSUME NEW U \in F
      PROVE  ~(U \subseteq T /\ U # T)
  BY <1>3 DEF StrictSubsetOrdering
<1> QED
  BY <1>4

\* ch takes a member of every subset of S that is not empty.
Picks(ch, S) == \A T \in SUBSET S : T # {} => ch[T] \in T

\* A function g on the subsets of S that is what the recursion says.
Recursive(S, D, g, base, ch, st) ==
  \A T \in D : g[T] = IF T = {} THEN base ELSE st[<<ch[T], g[T \ {ch[T]}]>>]

\* g is the function on all subsets of S that the recursion defines.
Solves(g, S, base, ch, st) ==
  g = [T \in SUBSET S |-> IF T = {} THEN base ELSE st[<<ch[T], g[T \ {ch[T]}]>>]]

ClosedUnder(S, D, ch) == D \subseteq SUBSET S /\ \A T \in D : T # {} => T \ {ch[T]} \in D

\* Two functions that the recursion describes agree wherever both are defined.
LEMMA RecursionAgrees ==
  ASSUME NEW S, IsFiniteSet(S), NEW ch, Picks(ch, S),
         NEW base, NEW st, NEW C, ClosedUnder(S, C, ch), NEW D, ClosedUnder(S, D, ch),
         NEW g, Recursive(S, C, g, base, ch, st), NEW h, Recursive(S, D, h, base, ch, st)
  PROVE  \A T \in C \cap D : g[T] = h[T]
<1>0. \A T \in SUBSET S : T # {} => ch[T] \in T
  BY DEF Picks
<1> DEFINE F == {T \in C \cap D : g[T] # h[T]}
<1>1. SUFFICES ASSUME F # {} PROVE FALSE
  OBVIOUS
<1>2. F \subseteq SUBSET S
  BY DEF ClosedUnder
<1> HIDE DEF F
<1>3. PICK T \in F : \A U \in F : ~(U \subseteq T /\ U # T)
  BY <1>1, <1>2, SmallestSubset
<1>4. T \in C /\ T \in D /\ g[T] # h[T] /\ T \in SUBSET S
  BY <1>2, <1>3 DEF F
<1>5. T # {}
  BY <1>4 DEF Recursive
<1> DEFINE U == T \ {ch[T]}
<1>6. U \in C /\ U \in D /\ U \subseteq T /\ U # T
  BY <1>0, <1>4, <1>5 DEF ClosedUnder
<1>7. g[U] = h[U]
  <2>1. U \notin F
    BY <1>3, <1>6
  <2> QED
    BY <1>6, <2>1 DEF F
<1>8. g[T] = st[<<ch[T], g[U]>>] /\ h[T] = st[<<ch[T], h[U]>>]
  BY <1>4, <1>5 DEF Recursive
<1> QED
  BY <1>4, <1>7, <1>8

\* The recursion describes a function.
LEMMA RecursionExists ==
  ASSUME NEW S, IsFiniteSet(S), NEW ch, Picks(ch, S),
         NEW base, NEW st
  PROVE  \E g : Solves(g, S, base, ch, st)
<1>0. \A T \in SUBSET S : T # {} => ch[T] \in T
  BY DEF Picks
<1> DEFINE Part(D, h) == ClosedUnder(S, D, ch) /\ h = [T \in D |-> h[T]] /\ Recursive(S, D, h, base, ch, st)
           Reached(T) == \E D, h : Part(D, h) /\ T \in D
           F == {T \in SUBSET S : ~Reached(T)}
<1>1. F = {}
  <2>1. SUFFICES ASSUME F # {} PROVE FALSE
    OBVIOUS
  <2>0. F \subseteq SUBSET S
    OBVIOUS
  <2> HIDE DEF F
  <2>2. PICK T \in F : \A U \in F : ~(U \subseteq T /\ U # T)
    BY <2>0, <2>1, SmallestSubset
  <2>3. T \in SUBSET S /\ ~Reached(T)
    BY <2>2 DEF F
  <2>4. T # {}
    <3> DEFINE h == [U \in {{}} |-> base]
    <3>1. ClosedUnder(S, {{}}, ch)
      BY DEF ClosedUnder
    <3>2. h = [U \in {{}} |-> h[U]] /\ h[{}] = base
      OBVIOUS
    <3>3. Recursive(S, {{}}, h, base, ch, st)
      BY <3>2 DEF Recursive
    <3>4. Reached({})
      BY <3>1, <3>2, <3>3
    <3> QED
      BY <2>3, <3>4
  <2> DEFINE U == T \ {ch[T]}
  <2>5. U \in SUBSET S /\ U \subseteq T /\ U # T
    BY <1>0, <2>3, <2>4
  <2>6. Reached(U)
    <3>1. U \notin F
      BY <2>2, <2>5
    <3> QED
      BY <2>5, <3>1 DEF F
  <2>7. PICK D, h : Part(D, h) /\ U \in D
    BY <2>6
  <2>8. T \notin D
    BY <2>3, <2>7
  <2> DEFINE E == D \cup {T}
             k == [V \in E |-> IF V = T THEN st[<<ch[T], h[U]>>] ELSE h[V]]
  <2>9. ClosedUnder(S, E, ch)
    BY <2>3, <2>7 DEF ClosedUnder
  <2>10. k = [V \in E |-> k[V]] /\ k[T] = st[<<ch[T], h[U]>>] /\ \A V \in D : k[V] = h[V]
    BY <2>8
  <2> HIDE DEF k
  <2>11. Recursive(S, E, k, base, ch, st)
    <3> SUFFICES ASSUME NEW V \in E
                 PROVE  k[V] = IF V = {} THEN base ELSE st[<<ch[V], k[V \ {ch[V]}]>>]
      BY DEF Recursive
    <3>1. CASE V = T
      BY <2>4, <2>7, <2>10, <3>1
    <3>2. CASE V \in D
      <4>1. V # {} => V \ {ch[V]} \in D
        BY <2>7, <3>2 DEF ClosedUnder
      <4>2. h[V] = IF V = {} THEN base ELSE st[<<ch[V], h[V \ {ch[V]}]>>]
        BY <2>7, <3>2 DEF Recursive
      <4> QED
        BY <2>10, <3>2, <4>1, <4>2
    <3> QED
      BY <3>1, <3>2
  <2>12. Part(E, k) /\ T \in E
    BY <2>9, <2>10, <2>11
  <2> QED
    BY <2>3, <2>12
<1> HIDE DEF Part
<1>2. \A T \in SUBSET S : Reached(T)
  BY <1>1
<1> DEFINE value(T) == CHOOSE v : \E D, h : Part(D, h) /\ T \in D /\ v = h[T]
           g == [T \in SUBSET S |-> value(T)]
<1>3. ASSUME NEW D, NEW h, Part(D, h), NEW T \in D
      PROVE  value(T) = h[T]
  <2>1. PICK C, k : Part(C, k) /\ T \in C /\ value(T) = k[T]
    <3>1. \E v : \E C, k : Part(C, k) /\ T \in C /\ v = k[T]
      BY <1>3
    <3> QED
      BY <3>1
  <2>2. \A V \in C \cap D : k[V] = h[V]
    BY <1>3, <2>1, RecursionAgrees DEF Part
  <2> QED
    BY <2>1, <2>2
<1>4. ASSUME NEW T \in SUBSET S
      PROVE  g[T] = IF T = {} THEN base ELSE st[<<ch[T], g[T \ {ch[T]}]>>]
  <2>1. PICK D, h : Part(D, h) /\ T \in D
    BY <1>2
  <2>2. g[T] = h[T]
    BY <1>3, <2>1
  <2>3. T # {} => T \ {ch[T]} \in D /\ T \ {ch[T]} \in SUBSET S
    BY <2>1 DEF Part, ClosedUnder
  <2>4. ASSUME T # {}
        PROVE  g[T \ {ch[T]}] = h[T \ {ch[T]}]
    <3> DEFINE U == T \ {ch[T]}
    <3>1. U \in D /\ U \in SUBSET S
      BY <2>3, <2>4
    <3> HIDE DEF U
    <3>2. value(U) = h[U]
      BY <1>3, <2>1, <3>1
    <3> HIDE DEF value
    <3>3. g[U] = h[U]
      BY <3>1, <3>2
    <3> QED
      BY <3>3 DEF U
  <2>5. h[T] = IF T = {} THEN base ELSE st[<<ch[T], h[T \ {ch[T]}]>>]
    BY <2>1 DEF Part, Recursive
  <2> QED
    BY <2>2, <2>4, <2>5
<1>5. g = [T \in SUBSET S |-> IF T = {} THEN base ELSE st[<<ch[T], g[T \ {ch[T]}]>>]]
  <2>1. g = [T \in SUBSET S |-> g[T]]
    OBVIOUS
  <2> HIDE DEF g
  <2> QED
    BY <1>4, <2>1
<1> QED
  BY <1>5 DEF Solves

\* A function that takes the recursion's steps wherever it has stayed in V.
Obeys(g, S, V, base, ch, st) ==
  /\ g[{}] = base
  /\ \A T \in SUBSET S : T # {} /\ g[T \ {ch[T]}] \in V => g[T] = st[<<ch[T], g[T \ {ch[T]}]>>]

\* g stays in V and takes the recursion's steps everywhere.
Steps(g, S, V, ch, st) ==
  /\ \A T \in SUBSET S : g[T] \in V
  /\ \A T \in SUBSET S : T # {} => g[T] = st[<<ch[T], g[T \ {ch[T]}]>>]

\* A function that takes the steps as long as it stays in a set that holds the
\* base and what the steps make of it never leaves that set.
LEMMA RecursionStays ==
  ASSUME NEW S, IsFiniteSet(S), NEW ch, Picks(ch, S), NEW V, NEW base, base \in V,
         NEW st, st \in [S \X V -> V], NEW g, Obeys(g, S, V, base, ch, st)
  PROVE  Steps(g, S, V, ch, st)
<1>0. \A T \in SUBSET S : T # {} => ch[T] \in T
  BY DEF Picks
<1> DEFINE F == {T \in SUBSET S : g[T] \notin V}
<1>1. F = {}
  <2> SUFFICES ASSUME F # {} PROVE FALSE
    OBVIOUS
  <2>2. F \subseteq SUBSET S
    OBVIOUS
  <2> HIDE DEF F
  <2>3. PICK T \in F : \A U \in F : ~(U \subseteq T /\ U # T)
    BY <2>2, SmallestSubset
  <2>4. T \in SUBSET S /\ g[T] \notin V
    BY <2>2, <2>3 DEF F
  <2>5. T # {}
    BY <2>4 DEF Obeys
  <2>6. ch[T] \in T /\ ch[T] \in S
    BY <1>0, <2>4, <2>5
  <2> DEFINE U == T \ {ch[T]}
  <2>7. U \in SUBSET S /\ U \subseteq T /\ U # T
    BY <2>4, <2>6
  <2> HIDE DEF U
  <2>8. g[U] \in V
    BY <2>3, <2>7 DEF F
  <2>9. g[T] = st[<<ch[T], g[U]>>]
    BY <2>4, <2>5, <2>8 DEF U, Obeys
  <2> QED
    BY <2>4, <2>6, <2>8, <2>9
<1>2. \A T \in SUBSET S : g[T] \in V
  BY <1>1
<1>3. ASSUME NEW T \in SUBSET S, T # {}
      PROVE  g[T] = st[<<ch[T], g[T \ {ch[T]}]>>]
  <2>1. T \ {ch[T]} \in SUBSET S
    OBVIOUS
  <2> QED
    BY <1>2, <1>3, <2>1 DEF Obeys
<1> QED
  BY <1>2, <1>3 DEF Steps

\* There is one, and it is the function that the recursion defines.
LEMMA RecursionSolved ==
  ASSUME NEW S, IsFiniteSet(S), NEW ch, Picks(ch, S), NEW V, NEW base, base \in V,
         NEW st, st \in [S \X V -> V]
  PROVE  \E g : Solves(g, S, base, ch, st) /\ Steps(g, S, V, ch, st)
<1>1. PICK g : Solves(g, S, base, ch, st)
  BY RecursionExists
<1>2. Obeys(g, S, V, base, ch, st)
  <2>1. {} \in SUBSET S
    OBVIOUS
  <2>2. \A T \in SUBSET S : g[T] = IF T = {} THEN base ELSE st[<<ch[T], g[T \ {ch[T]}]>>]
    BY <1>1 DEF Solves
  <2> QED
    BY <2>1, <2>2 DEF Obeys
<1>3. Steps(g, S, V, ch, st)
  BY <1>2, RecursionStays
<1> QED
  BY <1>1, <1>3

\* A finite set that is not empty has a first element in any total, transitive relation.
LEMMA FirstOfFinite ==
  ASSUME NEW S, IsFiniteSet(S), S # {}, NEW R,
         \A x, y \in S : <<x, y>> \in R \/ <<y, x>> \in R,
         \A x, y, z \in S : <<x, y>> \in R /\ <<y, z>> \in R => <<x, z>> \in R
  PROVE  \E x \in S : \A y \in S : <<x, y>> \in R
<1> DEFINE HasFirst(T) == \E x \in T : \A y \in T : <<x, y>> \in R
           Bad == {T \in SUBSET S : T # {} /\ ~HasFirst(T)}
<1>1. SUFFICES ASSUME Bad # {} PROVE FALSE
  <2>1. S \notin Bad
    BY <1>1
  <2> QED
    BY <2>1
<1>2. Bad \subseteq FiniteSubsetsOf(S)
  BY FS_Subset DEF FiniteSubsetsOf
<1>3. IsWellFoundedOn(StrictSubsetOrdering(S), FiniteSubsetsOf(S))
  BY FS_StrictSubsetOrderingWellFounded
<1> HIDE DEF Bad
<1>4. PICK T \in Bad : \A U \in Bad : ~(<<U, T>> \in StrictSubsetOrdering(S))
  BY <1>1, <1>2, <1>3, WFMin
<1>5. T \in SUBSET S /\ T # {} /\ ~HasFirst(T)
  BY <1>4 DEF Bad
<1>6. PICK x \in T : TRUE
  BY <1>5
<1>7. ~(T \ {x} # {} /\ ~HasFirst(T \ {x}))
  <2>1. <<T \ {x}, T>> \in StrictSubsetOrdering(S)
    BY <1>5, <1>6 DEF StrictSubsetOrdering
  <2>2. T \ {x} \notin Bad
    BY <1>4, <2>1
  <2> QED
    BY <1>5, <2>2 DEF Bad
<1>8. CASE T \ {x} = {}
  BY <1>5, <1>6, <1>8
<1>9. CASE HasFirst(T \ {x})
  <2>1. PICK y \in T \ {x} : \A z \in T \ {x} : <<y, z>> \in R
    BY <1>9
  <2>2. T \subseteq S /\ x \in S /\ y \in S
    BY <1>5, <1>6, <2>1
  <2>3. CASE <<x, y>> \in R
    <3>1. \A z \in T : <<x, z>> \in R
      BY <2>1, <2>2, <2>3
    <3> QED
      BY <1>5, <1>6, <3>1
  <2>4. CASE <<y, x>> \in R
    <3>1. \A z \in T : <<y, z>> \in R
      BY <2>1, <2>4
    <3> QED
      BY <1>5, <2>1, <3>1
  <2> QED
    BY <2>2, <2>3, <2>4
<1> QED
  BY <1>7, <1>8, <1>9

\* Every set of positions that is not empty has a last one.
LEMMA LastPosition ==
  ASSUME NEW n \in Nat, NEW T \in SUBSET (1 .. n), T # {}
  PROVE  \E x \in T : \A y \in T : x >= y
<1> DEFINE B == {m \in 1 .. n : \A y \in T : y <= m}
<1>0. PICK x \in T : x \in 1 .. n
  OBVIOUS
<1>1. n \in B /\ B \subseteq Nat
  <2>1. \A y \in T : y \in 1 .. n /\ y <= n
    OBVIOUS
  <2>2. n \in 1 .. n
    BY <1>0
  <2> QED
    BY <2>1, <2>2
<1> HIDE DEF B
<1>2. PICK m \in B : \A k \in B : m <= k
  BY <1>1, LeastNat
<1>3. m \in 1 .. n /\ \A y \in T : y <= m
  BY <1>2 DEF B
<1>4. m \in T
  <2> SUFFICES ASSUME m \notin T PROVE FALSE
    OBVIOUS
  <2>1. \A y \in T : y <= m - 1 /\ y \in 1 .. n
    BY <1>3
  <2>2. m - 1 \in 1 .. n
    BY <1>0, <1>3, <2>1
  <2>3. m - 1 \in B
    BY <2>1, <2>2 DEF B
  <2> QED
    BY <1>2, <1>3, <2>3
<1> QED
  BY <1>3, <1>4

\* The greatest of some numbers up to n is one of them.
LEMMA MaxIn ==
  ASSUME NEW n \in Nat, NEW T \in SUBSET (1 .. n), T # {}
  PROVE  Max(T) \in T
BY LastPosition DEF Max

-----------------------------------------------------------------------------
\* FoldLeft over a sequence of n elements takes the last position first.
LastOf(n) == [T \in SUBSET (1 .. n) |-> Max(T)]

\* The last of a set of positions is one of them, and of a prefix its length.
LEMMA LastIn ==
  ASSUME NEW n \in Nat
  PROVE  /\ IsFiniteSet(1 .. n)
         /\ Picks(LastOf(n), 1 .. n)
         /\ \A m \in 1 .. n : LastOf(n)[1 .. m] = m
<1>1. IsFiniteSet(1 .. n)
  BY FS_Interval
<1>2. \A T \in SUBSET (1 .. n) : T # {} => Max(T) \in T
  BY MaxIn
<1>3. ASSUME NEW m \in 1 .. n
      PROVE  LastOf(n)[1 .. m] = m
  <2>1. 1 .. m \in SUBSET (1 .. n)
    OBVIOUS
  <2>2. LastOf(n)[1 .. m] = Max(1 .. m)
    BY <2>1 DEF LastOf
  <2>3. \A x \in 1 .. m : (\A y \in 1 .. m : x >= y) <=> x = m
    OBVIOUS
  <2>4. m \in 1 .. m
    OBVIOUS
  <2>5. Max(1 .. m) = m
    BY <2>3, <2>4 DEF Max
  <2> QED
    BY <2>2, <2>5
<1> QED
  BY <1>1, <1>2, <1>3 DEF LastOf, Picks

\* g is the fold of each prefix of n positions: of its last one and the prefix before.
FoldsPrefixes(g, n, V, base, st) ==
  /\ g[1 .. 0] = base
  /\ \A m \in 0 .. n : g[1 .. m] \in V
  /\ \A m \in 1 .. n : g[1 .. m] = st[<<m, g[1 .. m - 1]>>]

\* A function that takes the steps of FoldLeft does.
LEMMA LeftSteps ==
  ASSUME NEW n \in Nat, NEW V, NEW base \in V, NEW st \in [(1 .. n) \X V -> V],
         NEW g, Obeys(g, 1 .. n, V, base, LastOf(n), st)
  PROVE  FoldsPrefixes(g, n, V, base, st)
<1> DEFINE S == 1 .. n
           last == LastOf(n)
<1>1. IsFiniteSet(S) /\ Picks(last, S) /\ base \in V /\ st \in [S \X V -> V] /\ Obeys(g, S, V, base, last, st)
  BY LastIn
<1> HIDE DEF S, last
<1>2. Steps(g, S, V, last, st)
  BY <1>1, RecursionStays
<1>3. g[1 .. 0] = base
  <2>1. 1 .. 0 = {}
    OBVIOUS
  <2> QED
    BY <1>1, <2>1 DEF Obeys
<1>4. \A m \in 0 .. n : 1 .. m \in SUBSET S
  BY DEF S
<1>5. ASSUME NEW m \in 1 .. n
      PROVE  g[1 .. m] = st[<<m, g[1 .. m - 1]>>]
  <2>1. 1 .. m \in SUBSET S /\ 1 .. m # {} /\ (1 .. m) \ {m} = 1 .. m - 1
    BY DEF S
  <2>2. last[1 .. m] = m
    BY LastIn DEF last
  <2> QED
    BY <1>2, <2>1, <2>2 DEF Steps
<1> QED
  BY <1>2, <1>3, <1>4, <1>5 DEF FoldsPrefixes, Steps

\* The fold of a prefix does not depend on what follows it.
LEMMA PrefixesAgree ==
  ASSUME NEW n \in Nat, NEW k \in Nat, n <= k, NEW V, NEW base, NEW st, NEW more,
         NEW g, FoldsPrefixes(g, n, V, base, st), NEW h, FoldsPrefixes(h, k, V, base, more),
         \A i \in 1 .. n : \A v \in V : st[<<i, v>>] = more[<<i, v>>]
  PROVE  \A m \in 0 .. n : g[1 .. m] = h[1 .. m]
<1> DEFINE F == {m \in 0 .. n : g[1 .. m] # h[1 .. m]}
<1> SUFFICES ASSUME F # {} PROVE FALSE
  OBVIOUS
<1>1. F \subseteq Nat /\ F \subseteq 0 .. n
  OBVIOUS
<1> HIDE DEF F
<1>2. PICK m \in F : \A j \in F : m <= j
  BY <1>1, LeastNat
<1>3. m \in 0 .. n /\ g[1 .. m] # h[1 .. m]
  BY <1>1, <1>2 DEF F
<1>4. m # 0
  BY <1>3 DEF FoldsPrefixes
<1>5. m \in 1 .. n /\ m \in 1 .. k /\ m - 1 \in 0 .. n /\ ~(m <= m - 1)
  BY <1>1, <1>3, <1>4
<1>6. g[1 .. m - 1] = h[1 .. m - 1]
  <2>1. m - 1 \notin F
    BY <1>2, <1>5
  <2> QED
    BY <1>5, <2>1 DEF F
<1>7. g[1 .. m] = st[<<m, g[1 .. m - 1]>>] /\ g[1 .. m - 1] \in V
  BY <1>5 DEF FoldsPrefixes
<1>8. h[1 .. m] = more[<<m, h[1 .. m - 1]>>]
  BY <1>5 DEF FoldsPrefixes
<1> QED
  BY <1>3, <1>5, <1>6, <1>7, <1>8

-----------------------------------------------------------------------------
\* A sum over a finite set, of the weights w of its members as ch picks them.
Sums(g, S, ch, w) ==
  /\ g[{}] = 0
  /\ \A T \in SUBSET S : T # {} => g[T] = w[ch[T]] + g[T \ {ch[T]}]

\* Such a sum is a number, and does not depend on the order: any member may go first.
LEMMA SumTakesAny ==
  ASSUME NEW S, IsFiniteSet(S), NEW ch, Picks(ch, S), NEW w, \A x \in S : w[x] \in Int,
         NEW g, Sums(g, S, ch, w)
  PROVE  /\ \A T \in SUBSET S : g[T] \in Int
         /\ \A T \in SUBSET S : \A x \in T : g[T] = w[x] + g[T \ {x}]
<1> DEFINE st == [p \in S \X Int |-> w[p[1]] + p[2]]
<1>1. st \in [S \X Int -> Int] /\ \A x \in S, v \in Int : st[<<x, v>>] = w[x] + v
  OBVIOUS
<1> HIDE DEF st
<1>2. \A T \in SUBSET S : T # {} => ch[T] \in T /\ ch[T] \in S
  BY DEF Picks
<1>3. Obeys(g, S, Int, 0, ch, st)
  BY <1>1, <1>2 DEF Obeys, Sums
<1>4. \A T \in SUBSET S : g[T] \in Int
  <2>1. 0 \in Int
    OBVIOUS
  <2>2. Steps(g, S, Int, ch, st)
    BY <1>1, <1>3, <2>1, RecursionStays
  <2> QED
    BY <2>2 DEF Steps
<1> DEFINE AnyFirst(T) == \A x \in T : g[T] = w[x] + g[T \ {x}]
           F == {T \in SUBSET S : ~AnyFirst(T)}
<1>5. F = {}
  <2> SUFFICES ASSUME F # {} PROVE FALSE
    OBVIOUS
  <2>1. F \subseteq SUBSET S
    OBVIOUS
  <2> HIDE DEF F
  <2>2. PICK T \in F : \A U \in F : ~(U \subseteq T /\ U # T)
    BY <2>1, SmallestSubset
  <2>3. T \in SUBSET S /\ ~AnyFirst(T)
    BY <2>1, <2>2 DEF F
  <2>4. PICK x \in T : g[T] # w[x] + g[T \ {x}]
    BY <2>3
  <2> DEFINE c == ch[T]
  <2>5. c \in T /\ c \in S /\ x \in S /\ g[T] = w[c] + g[T \ {c}]
    BY <1>2, <2>3, <2>4 DEF Sums
  <2>6. x # c
    BY <2>4, <2>5
  <2> HIDE DEF c
  <2>7. ASSUME NEW y \in T
        PROVE  AnyFirst(T \ {y})
    <3>1. T \ {y} \subseteq T /\ T \ {y} # T /\ T \ {y} \in SUBSET S
      BY <2>3
    <3>2. T \ {y} \notin F
      BY <2>2, <3>1
    <3> QED
      BY <3>1, <3>2 DEF F
  <2>8. g[T \ {c}] = w[x] + g[(T \ {c}) \ {x}]
    BY <2>4, <2>5, <2>6, <2>7
  <2>9. g[T \ {x}] = w[c] + g[(T \ {x}) \ {c}]
    BY <2>4, <2>5, <2>6, <2>7
  <2>10. (T \ {x}) \ {c} = (T \ {c}) \ {x} /\ (T \ {c}) \ {x} \in SUBSET S
    BY <2>3
  <2>11. g[(T \ {c}) \ {x}] \in Int /\ w[x] \in Int /\ w[c] \in Int
    BY <1>4, <2>5, <2>10
  <2> DEFINE rest == g[(T \ {c}) \ {x}]
  <2>12. g[T] = w[c] + (w[x] + rest)
    BY <2>5, <2>8
  <2>13. g[T \ {x}] = w[c] + rest
    BY <2>9, <2>10
  <2>14. w[x] \in Int /\ w[c] \in Int /\ rest \in Int
    BY <2>11
  <2> HIDE DEF rest
  <2>15. w[c] + (w[x] + rest) = w[x] + (w[c] + rest)
    BY <2>14
  <2> QED
    BY <2>4, <2>12, <2>13, <2>15
<1>6. \A T \in SUBSET S : AnyFirst(T)
  BY <1>5
<1> QED
  BY <1>4, <1>6

-----------------------------------------------------------------------------
\* What holds at 0 and passes from each number to the next holds up to n.
LEMMA CountsUp ==
  ASSUME NEW n \in Nat, NEW B, 0 \in B, \A m \in 1 .. n : m - 1 \in B => m \in B
  PROVE  \A m \in 0 .. n : m \in B
<1> DEFINE F == {m \in 0 .. n : m \notin B}
<1> SUFFICES ASSUME F # {} PROVE FALSE
  OBVIOUS
<1>1. F \subseteq Nat /\ F \subseteq 0 .. n /\ \A m \in F : m \notin B
  OBVIOUS
<1>2. \A m \in 0 .. n : m \notin F => m \in B
  OBVIOUS
<1> HIDE DEF F
<1>3. PICK m \in F : \A j \in F : m <= j
  BY <1>1, LeastNat
<1>4. m # 0 /\ m \in 0 .. n
  BY <1>1, <1>3
<1>5. m \in 1 .. n /\ m - 1 \in 0 .. n /\ ~(m <= m - 1)
  BY <1>4
<1>6. m - 1 \in B
  BY <1>2, <1>3, <1>5
<1> QED
  BY <1>1, <1>3, <1>5, <1>6

\* f starts with base, takes the steps st and stays in V.
Counts(f, n, V, base, st) ==
  /\ f = [m \in 0 .. n |-> IF m = 0 THEN base ELSE st[<<m, f[m - 1]>>]]
  /\ \A m \in 0 .. n : f[m] \in V

\* There is a function of 0 .. n that starts with base and takes the steps st.
LEMMA CountingRecursion ==
  ASSUME NEW n \in Nat, NEW V, NEW base \in V, NEW st \in [(1 .. n) \X V -> V]
  PROVE  \E f : Counts(f, n, V, base, st)
<1> DEFINE ch == LastOf(n)
<1>1. IsFiniteSet(1 .. n) /\ Picks(ch, 1 .. n)
  BY LastIn
<1> HIDE DEF ch
<1>2. PICK g : Solves(g, 1 .. n, base, ch, st) /\ Steps(g, 1 .. n, V, ch, st)
  BY <1>1, RecursionSolved
<1>3. Obeys(g, 1 .. n, V, base, ch, st)
  BY <1>2 DEF Obeys, Solves, Steps
<1>4. FoldsPrefixes(g, n, V, base, st)
  <2>1. Obeys(g, 1 .. n, V, base, LastOf(n), st)
    BY <1>3 DEF ch
  <2> QED
    BY <2>1, LeftSteps
<1> DEFINE f == [m \in 0 .. n |-> g[1 .. m]]
<1>5. f[0] = base /\ \A m \in 0 .. n : f[m] = g[1 .. m]
  <2>1. 0 \in 0 .. n
    OBVIOUS
  <2>2. \A m \in 0 .. n : f[m] = g[1 .. m]
    OBVIOUS
  <2>3. g[1 .. 0] = base
    BY <1>4 DEF FoldsPrefixes
  <2> QED
    BY <2>1, <2>2, <2>3
<1>6. f = [m \in 0 .. n |-> f[m]]
  OBVIOUS
<1> HIDE DEF f
<1>7. ASSUME NEW m \in 0 .. n, m # 0
      PROVE  f[m] = st[<<m, f[m - 1]>>]
  <2>1. m \in 1 .. n /\ m - 1 \in 0 .. n
    BY <1>7
  <2>2. g[1 .. m] = st[<<m, g[1 .. m - 1]>>]
    BY <1>4, <2>1 DEF FoldsPrefixes
  <2> QED
    BY <1>5, <2>1, <2>2
<1>8. \A m \in 0 .. n : f[m] = IF m = 0 THEN base ELSE st[<<m, f[m - 1]>>]
  BY <1>5, <1>7
<1>9. \A m \in 0 .. n : f[m] \in V
  BY <1>4, <1>5 DEF FoldsPrefixes
<1>10. f = [m \in 0 .. n |-> IF m = 0 THEN base ELSE st[<<m, f[m - 1]>>]]
  BY <1>6, <1>8
<1> QED
  BY <1>9, <1>10 DEF Counts

\* Appending an element adds it to those of the list.
LEMMA AppendRange ==
  ASSUME NEW A, NEW k \in Seq(A), NEW x \in A
  PROVE  Range(Append(k, x)) = Range(k) \cup {x}
<1> DEFINE l == Append(k, x)
<1>1. /\ Len(k) \in Nat /\ DOMAIN k = 1 .. Len(k) /\ DOMAIN l = 1 .. Len(k) + 1
      /\ l[Len(k) + 1] = x /\ \A i \in 1 .. Len(k) : l[i] = k[i]
  OBVIOUS
<1> HIDE DEF l
<1>2. DOMAIN l = DOMAIN k \cup {Len(k) + 1}
  BY <1>1
<1> QED
  BY <1>1, <1>2 DEF Range, l

\* Filtering the first n elements is a recursion over their number.
Filters(f, s, K) ==
  /\ f[0] = <<>>
  /\ \A m \in 1 .. Len(s) : f[m] = IF s[m] \in K THEN Append(f[m - 1], s[m]) ELSE f[m - 1]

\* The kept elements solve that recursion.
LEMMA KeptFilters ==
  ASSUME NEW A, NEW s \in Seq(A), NEW K
  PROVE  \E f : Filters(f, s, K) /\ Kept(s, K) = f[Len(s)]
<1> DEFINE n == Len(s)
           op(v, m) == IF s[m] \in K THEN Append(v, s[m]) ELSE v
           Equation(f) == f = [m \in 0 .. n |-> IF m = 0 THEN <<>> ELSE op(f[m - 1], m)]
           it == CHOOSE f : Equation(f)
           V == Seq(A)
           st == [p \in (1 .. n) \X V |-> op(p[2], p[1])]
<1>1. Kept(s, K) = it[n]
  BY DEF Kept
<1>2. n \in Nat /\ <<>> \in V /\ \A m \in 1 .. n, v \in V : op(v, m) \in V
  OBVIOUS
<1> HIDE DEF V, op, n
<1>3. st \in [(1 .. n) \X V -> V] /\ \A m \in 1 .. n, v \in V : st[<<m, v>>] = op(v, m)
  BY <1>2
<1> HIDE DEF st
<1>4. PICK f : Counts(f, n, V, <<>>, st)
  <2>1. n \in Nat /\ <<>> \in V /\ st \in [(1 .. n) \X V -> V]
    BY <1>2, <1>3
  <2> QED
    BY <2>1, CountingRecursion
<1>5. \A m \in 0 .. n : m # 0 => m \in 1 .. n /\ m - 1 \in 0 .. n
  BY <1>2
<1>6. Equation(f)
  <2>1. \A m \in 0 .. n : m # 0 => st[<<m, f[m - 1]>>] = op(f[m - 1], m)
    BY <1>3, <1>4, <1>5 DEF Counts
  <2> QED
    BY <1>4, <2>1 DEF Counts
<1>7. Equation(it)
  BY <1>6
<1> HIDE DEF it
<1>8. it[0] = <<>> /\ \A m \in 1 .. n : it[m] = op(it[m - 1], m)
  <2>1. 0 \in 0 .. n /\ \A m \in 1 .. n : m \in 0 .. n /\ m # 0
    BY <1>2
  <2> QED
    BY <1>7, <2>1
<1> QED
  BY <1>1, <1>8 DEF Filters, op, n

\* The kept elements are those of the list that are in the set.
LEMMA KeptIs ==
  ASSUME NEW A, NEW s \in Seq(A), NEW K
  PROVE  Kept(s, K) \in Seq(A) /\ Range(Kept(s, K)) = Range(s) \cap K
<1> DEFINE n == Len(s)
           some(m) == {s[i] : i \in 1 .. m} \cap K
<1>1. PICK f : Filters(f, s, K) /\ Kept(s, K) = f[n]
  BY KeptFilters
<1> DEFINE Good == {m \in 0 .. n : f[m] \in Seq(A) /\ Range(f[m]) = some(m)}
<1>2. n \in Nat
  OBVIOUS
<1>3. 0 \in Good
  <2>1. 0 \in 0 .. n /\ some(0) = {} /\ f[0] = <<>>
    BY <1>1 DEF Filters
  <2>2. Range(<<>>) = {} /\ <<>> \in Seq(A)
    BY DEF Range
  <2> QED
    BY <2>1, <2>2
<1>4. ASSUME NEW m \in 1 .. n, m - 1 \in Good
      PROVE  m \in Good
  <2>1. f[m - 1] \in Seq(A) /\ Range(f[m - 1]) = some(m - 1) /\ s[m] \in A /\ m \in 0 .. n
    BY <1>4
  <2>2. some(m) = some(m - 1) \cup ({s[m]} \cap K)
    <3>1. 1 .. m = (1 .. (m - 1)) \cup {m}
      BY <1>2
    <3> QED
      BY <3>1
  <2>3. CASE s[m] \in K
    <3>1. f[m] = Append(f[m - 1], s[m])
      BY <1>1, <2>3 DEF Filters
    <3> DEFINE k == f[m - 1]
    <3>2. k \in Seq(A) /\ Append(k, s[m]) \in Seq(A)
      BY <2>1
    <3>3. Range(Append(k, s[m])) = Range(k) \cup {s[m]}
      BY <2>1, AppendRange
    <3> QED
      BY <2>1, <2>2, <2>3, <3>1, <3>2, <3>3
  <2>4. CASE s[m] \notin K
    <3>1. f[m] = f[m - 1]
      BY <1>1, <2>4 DEF Filters
    <3> QED
      BY <2>1, <2>2, <2>4, <3>1
  <2> QED
    BY <2>3, <2>4
<1> HIDE DEF Good
<1>5. n \in Good
  <2>1. \A m \in 1 .. n : m - 1 \in Good => m \in Good
    BY <1>4
  <2>2. \A m \in 0 .. n : m \in Good
    BY <1>2, <1>3, <2>1, CountsUp
  <2> QED
    BY <1>2, <2>2
<1>6. some(n) = Range(s) \cap K
  BY DEF Range
<1> QED
  BY <1>1, <1>5, <1>6 DEF Good

\* What is left of a list is its beginning.
LEMMA UptoIs ==
  ASSUME NEW A, NEW s \in Seq(A), NEW cap \in Nat
  PROVE  /\ Upto(s, cap) \in Seq(A) /\ Len(Upto(s, cap)) <= Len(s) /\ Len(Upto(s, cap)) <= cap
         /\ \A i \in 1 .. Len(Upto(s, cap)) : Upto(s, cap)[i] = s[i]
         /\ Range(Upto(s, cap)) \subseteq Range(s)
<1>1. CASE Len(s) <= cap
  BY <1>1 DEF Upto
<1>2. CASE ~(Len(s) <= cap)
  <2> DEFINE l == SubSeq(s, 1, cap)
  <2>1. Len(s) \in Nat /\ cap \in 0 .. Len(s)
    BY <1>2
  <2>2. l \in Seq(A) /\ Len(l) = cap /\ \A i \in 1 .. Len(l) : i \in 1 .. Len(s) /\ l[i] = s[i]
    BY <2>1
  <2> HIDE DEF l
  <2>3. Range(l) \subseteq Range(s)
    BY <2>2 DEF Range
  <2> QED
    BY <1>2, <2>1, <2>2, <2>3 DEF Upto, l
<1> QED
  BY <1>1, <1>2

\* The beginning of two lists that are joined has all of the first, or nothing
\* else.
LEMMA UptoOfJoin ==
  ASSUME NEW A, NEW s \in Seq(A), NEW t \in Seq(A), NEW cap \in Nat
  PROVE  \/ Range(s) \subseteq Range(Upto(s \o t, cap))
         \/ Range(Upto(s \o t, cap)) \subseteq Range(s)
<1> DEFINE st == s \o t
           u == Upto(st, cap)
<1>1. /\ st \in Seq(A) /\ Len(s) \in Nat /\ Len(t) \in Nat /\ Len(st) = Len(s) + Len(t)
      /\ \A i \in 1 .. Len(s) : st[i] = s[i]
  OBVIOUS
<1> HIDE DEF st
<1>2. u \in Seq(A) /\ Len(u) <= cap /\ \A i \in 1 .. Len(u) : u[i] = st[i]
  BY <1>1, UptoIs
<1>3. Len(u) = Len(st) \/ Len(u) = cap
  BY <1>1 DEF Upto
<1> HIDE DEF u
<1>4. CASE Len(s) <= Len(u)
  <2>1. \A i \in 1 .. Len(s) : i \in 1 .. Len(u) /\ u[i] = s[i]
    BY <1>1, <1>2, <1>4
  <2> QED
    BY <1>2, <2>1 DEF Range, u, st
<1>5. CASE Len(u) < Len(s)
  <2>1. \A i \in 1 .. Len(u) : i \in 1 .. Len(s) /\ u[i] = s[i]
    BY <1>1, <1>2, <1>5
  <2> QED
    BY <1>2, <2>1 DEF Range, u, st
<1> QED
  BY <1>1, <1>2, <1>4, <1>5

\* A list is one of its own elements.
LEMMA OwnList ==
  ASSUME NEW A, NEW s \in Seq(A)
  PROVE  s \in Seq(Range(s)) /\ Range(s) \subseteq A
<1>1. Len(s) \in Nat /\ DOMAIN s = 1 .. Len(s) /\ s = [i \in 1 .. Len(s) |-> s[i]] /\ \A i \in 1 .. Len(s) : s[i] \in A
  OBVIOUS
<1>2. \A i \in 1 .. Len(s) : s[i] \in Range(s)
  BY <1>1 DEF Range
<1>3. s \in Seq(Range(s))
  BY <1>1, <1>2
<1> QED
  BY <1>1, <1>3 DEF Range

\* A list of different values is no longer than a list that has them all.
LEMMA NoLonger ==
  ASSUME NEW S, NEW s \in Seq(S), NEW k \in Nat, NEW e, \A i \in 1 .. k : e[i] \in Range(s),
         \A i, j \in 1 .. k : e[i] = e[j] => i = j
  PROVE  k <= Len(s)
<1> DEFINE n == Len(s)
           T == Range(s)
<1>1. n \in Nat /\ T = {s[i] : i \in 1 .. n}
  BY DEF Range
<1> DEFINE g == [i \in 1 .. n |-> s[i]]
           h == [i \in 1 .. k |-> e[i]]
<1> HIDE DEF n, T
<1>2. IsFiniteSet(1 .. n) /\ Cardinality(1 .. n) = n
  BY <1>1, FS_Interval
<1>3. IsFiniteSet(1 .. k) /\ Cardinality(1 .. k) = k
  BY FS_Interval
<1>4. g \in Surjection(1 .. n, T)
  BY <1>1 DEF Surjection
<1>5. IsFiniteSet(T) /\ Cardinality(T) <= Cardinality(1 .. n)
  BY <1>2, <1>4, FS_Surjection
<1>6. Cardinality(T) \in Nat
  BY <1>5, FS_CardinalityType
<1>7. h \in [1 .. k -> T] /\ \A i \in 1 .. k : h[i] = e[i]
  BY DEF T
<1> HIDE DEF h
<1>8. CASE ~(k <= n)
  <2>1. Cardinality(T) < Cardinality(1 .. k)
    BY <1>1, <1>2, <1>3, <1>5, <1>6, <1>8
  <2>2. \E i, j \in 1 .. k : i # j /\ h[i] = h[j]
    BY <1>3, <1>5, <1>7, <2>1, FS_PigeonHole
  <2> QED
    BY <1>7, <2>2
<1> QED
  BY <1>8 DEF n
=============================================================================
