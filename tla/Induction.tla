----------------------------- MODULE Induction ------------------------------
(***************************************************************************)
(* Induction and recursion, in a form that needs no operator parameter.    *)
(*                                                                         *)
(* A statement about every number, or every finite set, is proved by       *)
(* looking at the set of its counterexamples, which would have a least     *)
(* member; a recursive definition is shown to define something by giving   *)
(* its step as a function.                                                 *)
(***************************************************************************)
EXTENDS Integers, FiniteSets, FiniteSetTheorems, TLAPS

\* A set of numbers that is not empty has a least member.
LEMMA LeastNatural ==
    ASSUME NEW S \in SUBSET Nat, S # {}
    PROVE  \E m \in S : \A n \in S : m <= n
<1>1. PICK m \in S : \A n \in S : <<n, m>> \notin OpToRel(<, Nat)
  BY WFMin, NatLessThanWellFounded, Zenon
<1>2. \A n \in S : ~ (n < m)
  BY <1>1, Zenon DEF OpToRel
<1>3. \A n \in S : m <= n
  BY <1>2
<1> QED BY <1>3

\* One that is bounded has a greatest member, too.
LEMMA GreatestNatural ==
    ASSUME NEW S \in SUBSET Nat, S # {}, NEW b \in Nat, \A n \in S : n <= b
    PROVE  \E m \in S : \A n \in S : n <= m
<1> DEFINE D == {k \in Nat : b - k \in S}
<1>1. D # {}
  <2>1. PICK n \in S : TRUE
    OBVIOUS
  <2>2. b - n \in Nat /\ b - (b - n) = n
    BY <2>1
  <2> QED BY <2>1, <2>2
<1>2. PICK k \in D : \A n \in D : k <= n
  BY <1>1, LeastNatural
<1>3. ASSUME NEW n \in S PROVE n <= b - k
  <2>1. b - n \in Nat /\ b - (b - n) = n
    OBVIOUS
  <2>2. k <= b - n
    BY <2>1, <1>2
  <2> QED BY <2>2
<1> QED BY <1>2, <1>3

\* A family of sets of a finite universe has a member that contains no other one.
LEMMA SmallestSet ==
    ASSUME NEW U, IsFiniteSet(U), NEW S \in SUBSET SUBSET U, S # {}
    PROVE  \E m \in S : \A n \in S : n \subseteq m => n = m
<1>1. IsWellFoundedOn(StrictSubsetOrdering(U), SUBSET U)
  BY FS_StrictSubsetOrderingWellFounded, FS_FiniteSubsetsOfFinite
<1>2. \E x \in S : \A y \in S : <<y, x>> \notin StrictSubsetOrdering(U)
  BY <1>1, WFMin
<1>3. \A x, y \in SUBSET U : <<y, x>> \in StrictSubsetOrdering(U) <=> y \subseteq x /\ y # x
  BY DEF StrictSubsetOrdering
<1> QED BY <1>2, <1>3

\* What holds of 0 and goes over to the next number holds up to n.
LEMMA UpTo ==
    ASSUME NEW n \in Nat, NEW T, 0 \in T, \A k \in 0..n : k # n /\ k \in T => k + 1 \in T
    PROVE  0..n \subseteq T
<1> DEFINE Out == {k \in 0..n : k \notin T}
<1> SUFFICES ASSUME Out # {} PROVE FALSE
  OBVIOUS
<1>1. PICK k \in Out : \A j \in Out : k <= j
  <2>1. Out \in SUBSET Nat
    OBVIOUS
  <2> HIDE DEF Out
  <2> QED BY <2>1, LeastNatural
<1>2. k \in 0..n /\ k \notin T /\ k # 0
  BY <1>1
<1>3. k - 1 \in 0..n /\ k - 1 # n /\ (k - 1) + 1 = k /\ ~(k <= k - 1)
  BY <1>2
<1>4. k - 1 \in T
  BY <1>1, <1>3
<1> QED BY <1>2, <1>3, <1>4

\* What holds of {} and of a set if it holds without one of its members holds of all
\* subsets of a finite set.
LEMMA AllSubsets ==
    ASSUME NEW S, IsFiniteSet(S), NEW F, {} \in F,
           \A s \in SUBSET S : s # {} => \E x \in s : s \ {x} \in F => s \in F
    PROVE  SUBSET S \subseteq F
<1> DEFINE Out == {s \in SUBSET S : s \notin F}
<1> SUFFICES ASSUME Out # {} PROVE FALSE
  OBVIOUS
<1>1. PICK s \in Out : \A r \in Out : r \subseteq s => r = s
  <2>1. Out \in SUBSET SUBSET S
    OBVIOUS
  <2> HIDE DEF Out
  <2> QED BY <2>1, SmallestSet
<1>2. s \in SUBSET S /\ s \notin F
  BY <1>1
<1>3. s # {}
  BY <1>2
<1>4. PICK x \in s : s \ {x} \in F => s \in F
  BY <1>2, <1>3
<1>5. s \ {x} \in F
  BY <1>1, <1>2
<1> QED BY <1>2, <1>4, <1>5

\* A function of a finite set has finitely many values.
LEMMA FiniteRange ==
    ASSUME NEW S, IsFiniteSet(S), NEW T, NEW f \in [S -> T]
    PROVE  IsFiniteSet({f[x] : x \in S})
<1>1. f \in Surjection(S, {f[x] : x \in S})
  BY DEF Surjection
<1> QED BY <1>1, FS_Surjection

\* The values of X that step leads to from a, one after the other.
StepsIn(X, step) == step \in [Nat -> [X -> X]]
Leads(X, a, step, f) ==
    /\ f \in [Nat -> X]
    /\ f[0] = a
    /\ \A n \in Nat : f[n + 1] = step[n][f[n]]

\* A step that is a function can be repeated from any start.
LEMMA Repeated ==
    ASSUME NEW X, NEW a \in X, NEW step, StepsIn(X, step)
    PROVE  \E f : Leads(X, a, step, f)
<1> USE DEF StepsIn
<1> DEFINE Run(f, n) ==
              /\ f \in [0..n -> X]
              /\ f[0] = a
              /\ \A k \in 0..n : k # n => f[k + 1] = step[k][f[k]]
           Stuck == {n \in Nat : ~ \E f : Run(f, n)}
<1>1. Stuck = {}
  <2> SUFFICES ASSUME Stuck # {} PROVE FALSE
    OBVIOUS
  <2>1. PICK n \in Stuck : \A k \in Stuck : n <= k
    BY LeastNatural
  <2>2. n # 0
    <3>1. Run([k \in 0..0 |-> a], 0)
      OBVIOUS
    <3> QED BY <3>1
  <2>3. n - 1 \in Nat /\ n - 1 \notin Stuck
    <3>1. n \in Nat /\ n - 1 \in Nat /\ ~ (n <= n - 1)
      BY <2>1, <2>2
    <3> HIDE DEF Stuck
    <3> QED BY <2>1, <3>1
  <2>4. PICK f : Run(f, n - 1)
    BY <2>3
  <2> DEFINE g == [k \in 0..n |-> IF k = n THEN step[n - 1][f[n - 1]] ELSE f[k]]
  <2>5. g \in [0..n -> X]
    <3>1. f[n - 1] \in X
      BY <2>3, <2>4
    <3>2. step[n - 1][f[n - 1]] \in X
      BY <2>3, <3>1
    <3>3. \A k \in 0..n : k # n => k \in 0..n - 1
      BY <2>3
    <3> QED BY <2>4, <3>2, <3>3
  <2>6. g[0] = a
    BY <2>2, <2>4
  <2>7. ASSUME NEW k \in 0..n, k # n PROVE g[k + 1] = step[k][g[k]]
    <3>1. CASE k = n - 1
      BY <3>1, <2>2, <2>7
    <3>2. CASE k # n - 1
      <4>1. k \in 0..n - 1 /\ k + 1 \in 0..n - 1
        BY <3>2, <2>3, <2>7
      <4>2. f[k + 1] = step[k][f[k]]
        BY <2>4, <4>1, <3>2
      <4>3. g[k] = f[k] /\ g[k + 1] = f[k + 1]
        BY <4>1
      <4> QED BY <4>2, <4>3
    <3> QED BY <3>1, <3>2
  <2>8. Run(g, n)
    BY <2>5, <2>6, <2>7
  <2> QED BY <2>1, <2>8
<1>2. ASSUME NEW n \in Nat, NEW f, Run(f, n), NEW m \in Nat, n <= m, NEW g, Run(g, m)
      PROVE  \A k \in 0..n : f[k] = g[k]
  <2> DEFINE Apart == {k \in 0..n : f[k] # g[k]}
  <2> SUFFICES ASSUME Apart # {} PROVE FALSE
    OBVIOUS
  <2>1. PICK k \in Apart : \A j \in Apart : k <= j
    <3>1. Apart \in SUBSET Nat
      OBVIOUS
    <3> HIDE DEF Apart
    <3> QED BY <3>1, LeastNatural
  <2>2. k # 0
    BY <2>1, <1>2
  <2>3. k - 1 \in 0..n /\ k - 1 # n /\ k - 1 \in 0..m /\ k - 1 # m
    BY <2>1, <2>2, <1>2
  <2>4. f[k - 1] = g[k - 1]
    BY <2>1, <2>3
  <2>5. f[(k - 1) + 1] = step[k - 1][f[k - 1]] /\ g[(k - 1) + 1] = step[k - 1][g[k - 1]]
    BY <2>3, <1>2
  <2>6. (k - 1) + 1 = k
    BY <2>1
  <2> QED BY <2>1, <2>4, <2>5, <2>6
<1> DEFINE At(n) == CHOOSE f : Run(f, n)
           F == [n \in Nat |-> At(n)[n]]
<1>3. \A n \in Nat : Run(At(n), n)
  BY <1>1
<1> HIDE DEF At
<1>4. F \in [Nat -> X]
  BY <1>3
<1>5. F[0] = a
  BY <1>3
<1>6. ASSUME NEW n \in Nat PROVE F[n + 1] = step[n][F[n]]
  <2>1. Run(At(n), n) /\ Run(At(n + 1), n + 1)
    BY <1>3
  <2>2. At(n)[n] = At(n + 1)[n]
    <3> HIDE DEF Run
    <3> QED BY <2>1, <1>2
  <2>3. At(n + 1)[n + 1] = step[n][At(n + 1)[n]]
    BY <2>1
  <2> QED BY <2>2, <2>3
<1> QED BY <1>4, <1>5, <1>6 DEF Leads

\* A function on 0..n that is defined from its value before.
Recurs(n, X, a, step, f) ==
    /\ f \in [0..n -> X]
    /\ f = [k \in 0..n |-> IF k = 0 THEN a ELSE step[k - 1][f[k - 1]]]

\* There is one.
LEMMA Recursion ==
    ASSUME NEW n \in Nat, NEW X, NEW a \in X, NEW step, StepsIn(X, step)
    PROVE  \E f : Recurs(n, X, a, step, f)
<1>1. PICK g : Leads(X, a, step, g)
  BY Repeated
<1> DEFINE f == [k \in 0..n |-> g[k]]
<1>2. f \in [0..n -> X]
  BY <1>1 DEF Leads
<1>3. ASSUME NEW k \in 0..n PROVE f[k] = IF k = 0 THEN a ELSE step[k - 1][f[k - 1]]
  <2>1. CASE k = 0
    BY <1>1, <2>1 DEF Leads
  <2>2. CASE k # 0
    <3>1. k - 1 \in Nat /\ k - 1 \in 0..n /\ (k - 1) + 1 = k
      BY <2>2
    <3>2. g[(k - 1) + 1] = step[k - 1][g[k - 1]]
      BY <1>1, <3>1 DEF Leads
    <3> QED BY <2>2, <3>1, <3>2
  <2> QED BY <2>1, <2>2
<1>4. f = [k \in 0..n |-> IF k = 0 THEN a ELSE step[k - 1][f[k - 1]]]
  <2> DEFINE F(k) == IF k = 0 THEN a ELSE step[k - 1][f[k - 1]]
  <2>1. \A k \in 0..n : f[k] = F(k)
    BY <1>3
  <2> HIDE DEF F
  <2>2. f = [k \in 0..n |-> F(k)]
    BY <1>2, <2>1
  <2> QED BY <2>2, Zenon DEF F
<1> QED BY <1>2, <1>4 DEF Recurs

\* A fold over S that takes out one element after the other, as pick chooses them.
FoldStep(S, X, step, pick) ==
    /\ step \in [S -> [X -> X]]
    /\ \A s \in SUBSET S : s # {} => pick[s] \in s
IsFold(S, X, base, step, pick, g) ==
    /\ g \in [SUBSET S -> X]
    /\ g = [s \in SUBSET S |-> IF s = {} THEN base ELSE step[pick[s]][g[s \ {pick[s]}]]]

\* Over a finite set such a fold is defined.
LEMMA Folded ==
    ASSUME NEW S, IsFiniteSet(S), NEW X, NEW base \in X,
           NEW step, NEW pick, FoldStep(S, X, step, pick)
    PROVE  \E g : IsFold(S, X, base, step, pick, g)
<1> USE DEF FoldStep
<1> DEFINE Next(g, s) == IF s = {} THEN base ELSE step[pick[s]][g[s \ {pick[s]}]]
           Steps == [n \in Nat |-> [g \in [SUBSET S -> X] |-> [s \in SUBSET S |-> Next(g, s)]]]
           Start == [s \in SUBSET S |-> base]
<1>1. \A g \in [SUBSET S -> X] : \A s \in SUBSET S : Next(g, s) \in X
  <2> SUFFICES ASSUME NEW g \in [SUBSET S -> X], NEW s \in SUBSET S PROVE Next(g, s) \in X
    OBVIOUS
  <2>1. CASE s # {}
    <3>1. pick[s] \in S /\ s \ {pick[s]} \in SUBSET S
      BY <2>1
    <3>2. g[s \ {pick[s]}] \in X
      BY <3>1
    <3>3. step[pick[s]] \in [X -> X]
      BY <3>1
    <3> QED BY <3>2, <3>3, <2>1
  <2> QED BY <2>1
<1>2. Start \in [SUBSET S -> X]
  OBVIOUS
<1>3. Steps \in [Nat -> [[SUBSET S -> X] -> [SUBSET S -> X]]]
  <2> HIDE DEF Next
  <2> QED BY <1>1
<1>4. PICK F \in [Nat -> [SUBSET S -> X]] :
         F[0] = Start /\ \A n \in Nat : F[n + 1] = Steps[n][F[n]]
  <2> DEFINE State == [SUBSET S -> X]
  <2>1. Start \in State /\ Steps \in [Nat -> [State -> State]]
    BY <1>2, <1>3
  <2>2. StepsIn(State, Steps)
    BY <2>1 DEF StepsIn
  <2>3. PICK F : Leads(State, Start, Steps, F)
    <3> HIDE DEF Start, Steps, State
    <3> QED BY <2>1, <2>2, Repeated
  <2> QED BY <2>3 DEF Leads
<1>5. \A n \in Nat : \A s \in SUBSET S : F[n + 1][s] = Next(F[n], s)
  <2> HIDE DEF Next
  <2>1. \A n \in Nat : \A g \in [SUBSET S -> X] : Steps[n][g] = [s \in SUBSET S |-> Next(g, s)]
    OBVIOUS
  <2> SUFFICES ASSUME NEW n \in Nat, NEW s \in SUBSET S PROVE F[n + 1][s] = Next(F[n], s)
    OBVIOUS
  <2>2. F[n] \in [SUBSET S -> X]
    OBVIOUS
  <2>3. Steps[n][F[n]] = [r \in SUBSET S |-> Next(F[n], r)]
    <3> HIDE DEF Steps
    <3> QED BY <2>1, <2>2, Zenon
  <2>4. F[n + 1] = [r \in SUBSET S |-> Next(F[n], r)]
    BY <1>4, <2>3, Zenon
  <2> QED BY <2>4, Zenon
<1>6. \A s \in SUBSET S : F[0][s] = base
  BY <1>4
<1>7. \A s \in SUBSET S : Cardinality(s) \in Nat
  BY FS_Subset, FS_CardinalityType
<1> DEFINE Moving == {s \in SUBSET S : \E n \in Nat : n >= Cardinality(s) /\ F[n + 1][s] # F[n][s]}
<1>8. Moving = {}
  <2> SUFFICES ASSUME Moving # {} PROVE FALSE
    OBVIOUS
  <2>1. PICK s \in Moving : \A r \in Moving : r \subseteq s => r = s
    <3>1. Moving \in SUBSET SUBSET S
      OBVIOUS
    <3> HIDE DEF Moving
    <3> QED BY <3>1, SmallestSet
  <2>2. PICK n \in Nat : n >= Cardinality(s) /\ F[n + 1][s] # F[n][s]
    BY <2>1
  <2>3. CASE s = {}
    <3>1. F[n + 1][s] = base
      BY <1>5, <2>3
    <3>2. CASE n = 0
      BY <1>6, <2>2, <3>1, <3>2
    <3>3. CASE n # 0
      <4>1. n - 1 \in Nat /\ (n - 1) + 1 = n
        BY <3>3
      <4>2. F[(n - 1) + 1][s] = base
        BY <1>5, <2>3, <4>1
      <4> QED BY <2>2, <3>1, <4>1, <4>2
    <3> QED BY <3>2, <3>3
  <2>4. CASE s # {}
    <3> DEFINE r == s \ {pick[s]}
    <3>1. s \in SUBSET S /\ pick[s] \in s /\ r \in SUBSET S /\ r # s /\ r \subseteq s
      BY <2>4
    <3>2. IsFiniteSet(s)
      BY <3>1, FS_Subset
    <3>3. Cardinality(r) = Cardinality(s) - 1
      BY <3>1, <3>2, FS_RemoveElement
    <3>4. n - 1 \in Nat /\ (n - 1) + 1 = n /\ n - 1 >= Cardinality(r)
      BY <1>7, <2>2, <3>1, <3>3
    <3>5. r \notin Moving
      BY <2>1, <3>1
    <3>6. F[(n - 1) + 1][r] = F[n - 1][r]
      BY <3>1, <3>4, <3>5
    <3>7. F[n + 1][s] = Next(F[n], s) /\ F[(n - 1) + 1][s] = Next(F[n - 1], s)
      <4> HIDE DEF Next
      <4> QED BY <1>5, <2>2, <3>1, <3>4
    <3>8. F[n + 1][s] = step[pick[s]][F[n][r]] /\ F[n][s] = step[pick[s]][F[n - 1][r]]
      BY <2>4, <3>4, <3>7
    <3> QED BY <2>2, <3>4, <3>6, <3>8
  <2> QED BY <2>3, <2>4
<1> DEFINE n == Cardinality(S)
<1>9. n \in Nat /\ \A s \in SUBSET S : n >= Cardinality(s)
  BY <1>7, FS_Subset
<1>10. \A s \in SUBSET S : F[n + 1][s] = F[n][s]
  BY <1>8, <1>9
<1>11. F[n] \in [SUBSET S -> X] /\ \A s \in SUBSET S : F[n][s] = Next(F[n], s)
  <2> HIDE DEF Next
  <2> QED BY <1>5, <1>9, <1>10
<1>12. IsFold(S, X, base, step, pick, F[n])
  <2> DEFINE g == F[n]
  <2>1. g \in [SUBSET S -> X] /\ \A s \in SUBSET S : g[s] = Next(g, s)
    BY <1>11
  <2> HIDE DEF g, Next
  <2>2. g = [s \in SUBSET S |-> Next(g, s)]
    BY <2>1
  <2> QED BY <2>1, <2>2, Zenon DEF IsFold, Next, g
<1> QED BY <1>12
-----------------------------------------------------------------------------
\* A relation that puts the members of S in a row.
Orders(R, S) ==
    /\ \A x \in S : <<x, x>> \notin R
    /\ \A x, y \in S : x # y => <<x, y>> \in R \/ <<y, x>> \in R
    /\ \A x, y, z \in S : <<x, y>> \in R /\ <<y, z>> \in R => <<x, z>> \in R

\* The last of a finite set: no member is behind it.
LEMMA LastOfFinite ==
    ASSUME NEW S, IsFiniteSet(S), S # {}, NEW R, Orders(R, S)
    PROVE  \E m \in S : \A x \in S : x # m => <<x, m>> \in R
<1> USE DEF Orders
<1> DEFINE Behind(m) == {x \in S : <<m, x>> \in R}
           F == {U \in SUBSET S : \E m \in S : U = Behind(m)}
<1>1. \A m \in S : Behind(m) \in F
  OBVIOUS
<1>2. PICK U \in F : \A V \in F : V \subseteq U => V = U
  <2>1. F \in SUBSET SUBSET S /\ F # {}
    BY <1>1
  <2> HIDE DEF F
  <2> QED BY <2>1, SmallestSet
<1>3. PICK m \in S : U = Behind(m)
  BY <1>2
<1>4. U = {}
  <2> SUFFICES ASSUME NEW y \in U PROVE FALSE
    OBVIOUS
  <2>1. y \in S /\ <<m, y>> \in R
    BY <1>3
  <2>2. Behind(y) \subseteq U /\ y \notin Behind(y)
    BY <1>3, <2>1
  <2>3. Behind(y) \in F
    BY <1>1, <2>1
  <2> HIDE DEF F, Behind
  <2> QED BY <1>2, <2>2, <2>3
<1> QED BY <1>3, <1>4

\* A finite set of numbers has a greatest member.
LEMMA GreatestOfFinite ==
    ASSUME NEW S \in SUBSET Nat, IsFiniteSet(S), S # {}
    PROVE  \E m \in S : \A n \in S : n <= m
<1> DEFINE R == {x \in S \X S : x[1] < x[2]}
<1>1. \A a, b \in S : <<a, b>> \in R <=> a < b
  OBVIOUS
<1> HIDE DEF R
<1>2. Orders(R, S)
  BY <1>1 DEF Orders
<1>3. PICK m \in S : \A n \in S : n # m => <<n, m>> \in R
  BY <1>2, LastOfFinite
<1>4. ASSUME NEW n \in S PROVE n <= m
  <2>1. m \in Nat /\ n \in Nat
    OBVIOUS
  <2>2. n # m => n < m
    BY <1>1, <1>3
  <2> QED BY <2>1, <2>2
<1> QED BY <1>4

\* The members of a set, one after the other.
InOrder(R, S, order) ==
    /\ order \in [1..Cardinality(S) -> S]
    /\ \A i, j \in 1..Cardinality(S) : i < j => <<order[i], order[j]>> \in R

\* Every finite set that is ordered can be enumerated.
LEMMA Sorted ==
    ASSUME NEW S, IsFiniteSet(S), NEW R, Orders(R, S)
    PROVE  \E order : InOrder(R, S, order)
<1> DEFINE Missing == {T \in SUBSET S : ~ \E order : InOrder(R, T, order)}
<1> SUFFICES ASSUME Missing # {} PROVE FALSE
  OBVIOUS
<1>1. PICK T \in Missing : \A V \in Missing : V \subseteq T => V = T
  <2>1. Missing \in SUBSET SUBSET S
    OBVIOUS
  <2> HIDE DEF Missing
  <2> QED BY <2>1, SmallestSet
<1>2. T \in SUBSET S /\ ~ \E order : InOrder(R, T, order)
  BY <1>1
<1>3. IsFiniteSet(T) /\ Orders(R, T)
  BY <1>2, FS_Subset DEF Orders
<1>4. T # {}
  <2> SUFFICES ASSUME T = {} PROVE FALSE
    OBVIOUS
  <2>1. Cardinality(T) = 0
    BY FS_EmptySet
  <2>2. InOrder(R, T, [i \in 1..0 |-> i])
    BY <2>1 DEF InOrder
  <2> QED BY <1>2, <2>2
<1>5. PICK m \in T : \A x \in T : x # m => <<x, m>> \in R
  BY <1>3, <1>4, LastOfFinite
<1> DEFINE V == T \ {m}
           n == Cardinality(V)
<1>6. n \in Nat /\ Cardinality(T) = n + 1
  <2>1. IsFiniteSet(V) /\ Cardinality(V) = Cardinality(T) - 1
    BY <1>3, FS_RemoveElement
  <2>2. Cardinality(V) \in Nat /\ Cardinality(T) \in Nat
    BY <1>3, <2>1, FS_CardinalityType
  <2> HIDE DEF V
  <2> QED BY <2>1, <2>2
<1>7. PICK g : InOrder(R, V, g)
  <2>1. V \in SUBSET S /\ V \subseteq T /\ V # T
    BY <1>2
  <2>2. V \notin Missing
    <3> HIDE DEF Missing, V
    <3> QED BY <1>1, <2>1
  <2> HIDE DEF V
  <2> QED BY <2>1, <2>2
<1>8. /\ g \in [1..n -> V]
      /\ \A i, j \in 1..n : i < j => <<g[i], g[j]>> \in R
  BY <1>7 DEF InOrder
<1> DEFINE order == [i \in 1..n + 1 |-> IF i = n + 1 THEN m ELSE g[i]]
<1>9. \A i \in 1..n + 1 : i # n + 1 => i \in 1..n
  BY <1>6
<1>10. order \in [1..n + 1 -> T]
  <2>1. \A i \in 1..n : g[i] \in T
    BY <1>8
  <2> HIDE DEF n
  <2> QED BY <1>9, <2>1
<1>11. ASSUME NEW i \in 1..n + 1, NEW j \in 1..n + 1, i < j
       PROVE  <<order[i], order[j]>> \in R
  <2>1. i \in 1..n /\ order[i] = g[i]
    BY <1>6, <1>11
  <2>2. CASE j = n + 1
    <3>1. g[i] \in V /\ order[j] = m
      BY <1>8, <2>1, <2>2
    <3>2. g[i] \in T /\ g[i] # m
      BY <3>1
    <3> QED BY <1>5, <2>1, <3>1, <3>2
  <2>3. CASE j # n + 1
    <3>1. j \in 1..n /\ order[j] = g[j]
      BY <1>9, <2>3
    <3> QED BY <1>8, <1>11, <2>1, <3>1
  <2> QED BY <2>2, <2>3
<1>12. InOrder(R, T, order)
  <2> HIDE DEF order, n
  <2> QED BY <1>6, <1>10, <1>11 DEF InOrder
<1> QED BY <1>2, <1>12
=============================================================================
