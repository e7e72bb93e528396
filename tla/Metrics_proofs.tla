--------------------------- MODULE Metrics_proofs ---------------------------
(* The sums behind an average, for any number of runs.  FiniteSetsExt's sum  *)
(* is a recursive function on subsets, of which nothing is known before it   *)
(* is shown to exist: here by a minimal counterexample among the subsets of  *)
(* a finite set, for a weight that is a function.                            *)
EXTENDS Metrics, FiniteSetTheorems, WellFoundedInduction, TLAPS

USE KeysAssumption

\* The element MapThenSumSet goes on with.
Chosen(s) == CHOOSE x \in s : TRUE

\* g[t] is the sum of the weights h of t, for the subsets t of S.
IsSum(g, h, S) ==
  g = [t \in SUBSET S |-> IF t = {} THEN 0 ELSE h[Chosen(t)] + g[t \ {Chosen(t)}]]

LEMMA ChosenIn == \A s : s # {} => Chosen(s) \in s
  BY DEF Chosen

\* A set of subsets of a finite set has a least element.
LEMMA LeastSubset ==
  ASSUME NEW S, IsFiniteSet(S), NEW T \in SUBSET (SUBSET S), T # {}
  PROVE  \E t \in T : \A u \in T : u \subseteq t => u = t
<1>1. IsWellFoundedOn(StrictSubsetOrdering(S), SUBSET S)
  BY FS_StrictSubsetOrderingWellFounded, FS_FiniteSubsetsOfFinite
<1>2. PICK t \in T : \A u \in T : <<u, t>> \notin StrictSubsetOrdering(S)
  BY <1>1, WFMin
<1>. QED  BY <1>2 DEF StrictSubsetOrdering

\* There is at most one sum.
LEMMA SumUnique ==
  ASSUME NEW h, NEW S, NEW R, NEW f, NEW g, IsSum(f, h, S), IsSum(g, h, R),
         NEW t \in SUBSET S, t \in SUBSET R, IsFiniteSet(t)
  PROVE  f[t] = g[t]
<1>. DEFINE T == {s \in SUBSET t : f[s] # g[s]}
<1>1. SUFFICES ASSUME T # {} PROVE FALSE
  OBVIOUS
<1>2. PICK s \in T : \A u \in T : u \subseteq s => u = s
  <2>1. T \in SUBSET (SUBSET t)
    OBVIOUS
  <2>. HIDE DEF T
  <2>. QED  BY <1>1, <2>1, LeastSubset
<1>3. s \in SUBSET S /\ s \in SUBSET R
  OBVIOUS
<1>4. /\ f[s] = IF s = {} THEN 0 ELSE h[Chosen(s)] + f[s \ {Chosen(s)}]
      /\ g[s] = IF s = {} THEN 0 ELSE h[Chosen(s)] + g[s \ {Chosen(s)}]
  BY <1>3 DEF IsSum
<1>5. s # {} => f[s \ {Chosen(s)}] = g[s \ {Chosen(s)}]
  BY <1>2, ChosenIn
<1>. QED  BY <1>4, <1>5

\* There is a sum, and it is a natural number.
LEMMA SumExists ==
  ASSUME NEW S, IsFiniteSet(S), NEW h \in [S -> Nat]
  PROVE  \E g \in [SUBSET S -> Nat] : IsSum(g, h, S)
<1>. DEFINE Has(t) == \E g \in [SUBSET t -> Nat] : IsSum(g, h, t)
            T == {t \in SUBSET S : ~Has(t)}
<1>1. SUFFICES ASSUME T # {} PROVE FALSE
  OBVIOUS
<1>2. PICK t \in T : \A u \in T : u \subseteq t => u = t
  <2>1. T \in SUBSET (SUBSET S)
    OBVIOUS
  <2>. HIDE DEF T
  <2>. QED  BY <1>1, <2>1, LeastSubset
<1>. DEFINE of(s) == CHOOSE g \in [SUBSET s -> Nat] : IsSum(g, h, s)
            val(s) == of(s)[s]
            g == [s \in SUBSET t |-> IF s = t /\ t # {} THEN h[Chosen(t)] + val(t \ {Chosen(t)})
                                     ELSE IF s = {} THEN 0 ELSE val(s)]
<1>3. ASSUME NEW s \in SUBSET t, s # t
      PROVE  of(s) \in [SUBSET s -> Nat] /\ IsSum(of(s), h, s)
  <2>1. Has(s)
    BY <1>2, <1>3
  <2>. QED  BY <2>1
<1>4. ASSUME NEW s \in SUBSET t, s # {}
      PROVE  s \ {Chosen(s)} \in SUBSET t /\ s \ {Chosen(s)} # t /\ Chosen(s) \in S
  BY <1>4, ChosenIn
<1>5. ASSUME NEW s \in SUBSET t, s # {}, s # t
      PROVE  val(s) = h[Chosen(s)] + val(s \ {Chosen(s)})
  <2>. DEFINE r == s \ {Chosen(s)}
  <2>1. r \in SUBSET t /\ r # t /\ r \in SUBSET s
    BY <1>4, <1>5
  <2>2. IsSum(of(s), h, s) /\ IsSum(of(r), h, r)
    BY <1>3, <1>5, <2>1
  <2>3. IsFiniteSet(r)
    BY <2>1, FS_Subset
  <2>4. of(s)[r] = of(r)[r]
    <3>. HIDE DEF of, r
    <3>. QED  BY <2>1, <2>2, <2>3, SumUnique
  <2>5. of(s)[s] = h[Chosen(s)] + of(s)[r]
    <3>. HIDE DEF of
    <3>. QED  BY <1>5, <2>2 DEF IsSum
  <2>. QED  BY <2>4, <2>5
<1>6. val({}) = 0 \/ t = {}
  <2>. SUFFICES ASSUME t # {} PROVE val({}) = 0
    OBVIOUS
  <2>1. IsSum(of({}), h, {})
    BY <1>3
  <2>. HIDE DEF of
  <2>. QED  BY <2>1 DEF IsSum
<1>7. \A s \in SUBSET t : s # t => val(s) \in Nat
  <2>. SUFFICES ASSUME NEW s \in SUBSET t, s # t PROVE val(s) \in Nat
    OBVIOUS
  <2>1. of(s) \in [SUBSET s -> Nat]
    BY <1>3
  <2>. HIDE DEF of
  <2>. QED  BY <2>1
<1>. HIDE DEF val
<1>8. g \in [SUBSET t -> Nat]
  <2>. SUFFICES ASSUME NEW s \in SUBSET t PROVE g[s] \in Nat
    OBVIOUS
  <2>. QED  BY <1>4, <1>7
<1>9. IsSum(g, h, t)
  <2>. SUFFICES ASSUME NEW s \in SUBSET t
                PROVE  g[s] = IF s = {} THEN 0 ELSE h[Chosen(s)] + g[s \ {Chosen(s)}]
    BY DEF IsSum
  <2>1. CASE s = {}
    BY <2>1
  <2>2. CASE s # {}
    <3>1. /\ s \ {Chosen(s)} \in SUBSET t /\ s \ {Chosen(s)} # t
          /\ g[s \ {Chosen(s)}] = val(s \ {Chosen(s)})
      BY <1>4, <1>6, <2>2
    <3>2. g[s] = h[Chosen(s)] + val(s \ {Chosen(s)})
      BY <1>5, <2>2
    <3>. QED  BY <2>2, <3>1, <3>2
  <2>. QED  BY <2>1, <2>2
<1>10. Has(t)
  BY <1>8, <1>9
<1>. QED  BY <1>2, <1>10

\* And it is all that is known of g: the sum of one weight is the weight.
LEMMA SumValue ==
  ASSUME NEW V, IsFiniteSet(V), NEW h \in [V -> Nat], NEW g, IsSum(g, h, V)
  PROVE  g[V] \in Nat /\ \A v : V = {v} => g[V] = h[v]
<1>1. PICK f \in [SUBSET V -> Nat] : IsSum(f, h, V)
  BY SumExists
<1>2. g[V] \in Nat
  BY <1>1, SumUnique
<1>3. ASSUME NEW v, V = {v} PROVE g[V] = h[v]
  <2>1. Chosen(V) = v /\ V \ {v} = {}
    BY <1>3, ChosenIn
  <2>2. g[V] = h[v] + g[{}] /\ g[{}] = 0
    BY <1>3, <2>1 DEF IsSum
  <2>. QED  BY <1>3, <2>2
<1>. QED  BY <1>2, <1>3

\* A sum, its weights and the number of elements, one element at a time.
LEMMA SumStep ==
  ASSUME NEW V, IsFiniteSet(V), NEW h \in [V -> Nat], NEW g, IsSum(g, h, V), NEW t \in SUBSET V, t # {}
  PROVE  LET c == Chosen(t)
             s == t \ {c}
         IN  /\ c \in t /\ s \in SUBSET V /\ s \subseteq t /\ s # t
             /\ h[c] \in Nat /\ g[s] \in Nat /\ Cardinality(s) \in Nat
             /\ g[t] = h[c] + g[s] /\ Cardinality(t) = Cardinality(s) + 1
<1>. DEFINE c == Chosen(t)
            s == t \ {c}
<1>1. c \in t /\ h[c] \in Nat /\ s \in SUBSET V
  BY ChosenIn
<1>2. g[t] = h[c] + g[s]
  BY DEF IsSum
<1>3. g[s] \in Nat
  <2>1. PICK f \in [SUBSET V -> Nat] : IsSum(f, h, V)
    BY SumExists
  <2>2. IsFiniteSet(s)
    BY <1>1, FS_Subset
  <2>3. g[s] = f[s]
    <3>. HIDE DEF s
    <3>. QED  BY <1>1, <2>1, <2>2, SumUnique
  <2>. QED  BY <1>1, <2>3
<1>4. IsFiniteSet(t)
  BY FS_Subset
<1>5. Cardinality(s) = Cardinality(t) - 1 /\ Cardinality(t) \in Nat /\ Cardinality(s) \in Nat
  BY <1>1, <1>4, FS_RemoveElement, FS_CardinalityType, FS_Subset
<1>6. Cardinality(t) = Cardinality(s) + 1
  <2>. HIDE DEF s
  <2>. QED  BY <1>5
<1>. QED  BY <1>1, <1>2, <1>3, <1>5, <1>6

\* A sum of weights that are all at least m, or at most m.
LEMMA SumBounds ==
  ASSUME NEW V, IsFiniteSet(V), NEW h \in [V -> Nat], NEW g, IsSum(g, h, V), NEW m \in Nat
  PROVE  /\ (\A v \in V : h[v] >= m) => g[V] >= m * Cardinality(V)
         /\ (\A v \in V : h[v] <= m) => g[V] <= m * Cardinality(V)
<1>. DEFINE Good(t) == /\ (\A v \in t : h[v] >= m) => g[t] >= m * Cardinality(t)
                       /\ (\A v \in t : h[v] <= m) => g[t] <= m * Cardinality(t)
            T == {t \in SUBSET V : ~Good(t)}
<1>1. SUFFICES ASSUME T # {} PROVE FALSE
  BY <1>1
<1>2. PICK t \in T : \A u \in T : u \subseteq t => u = t
  <2>1. T \in SUBSET (SUBSET V)
    OBVIOUS
  <2>. HIDE DEF T
  <2>. QED  BY <1>1, <2>1, LeastSubset
<1>3. CASE t = {}
  <2>1. g[t] = 0 /\ Cardinality(t) = 0
    BY <1>3, FS_EmptySet DEF IsSum
  <2>. QED  BY <2>1
<1>4. CASE t # {}
  <2>. DEFINE c == Chosen(t)
              s == t \ {c}
  <2>1. /\ c \in t /\ s \in SUBSET V /\ s \subseteq t /\ s # t
        /\ h[c] \in Nat /\ g[s] \in Nat /\ Cardinality(s) \in Nat
        /\ g[t] = h[c] + g[s] /\ Cardinality(t) = Cardinality(s) + 1
    BY <1>4, SumStep
  <2>2. Good(s)
    BY <1>2, <2>1
  <2>3. m * Cardinality(t) = m * Cardinality(s) + m /\ m * Cardinality(s) \in Nat
    <3>. HIDE DEF s
    <3>. QED  BY <2>1
  <2>4. \A v \in s : v \in t
    BY <2>1
  <2>5. Good(t)
    <3>. HIDE DEF s, c
    <3>. QED  BY <2>1, <2>2, <2>3, <2>4
  <2>. QED  BY <2>5
<1>. QED  BY <1>3, <1>4

LEMMA SquaresFar == \A x, y \in Nat : x * x + y * y >= 2 * (x * y)
<1>. SUFFICES ASSUME NEW x \in Nat, NEW y \in Nat PROVE x * x + y * y >= 2 * (x * y)
  OBVIOUS
<1>1. \A d \in Int : d * d >= 0
  OBVIOUS
<1>2. (x - y) * (x - y) >= 0
  BY <1>1
<1>3. (x - y) * (x - y) = x * x + y * y - 2 * (x * y)
  OBVIOUS
<1>4. x * x \in Nat /\ y * y \in Nat /\ x * y \in Nat
  OBVIOUS
<1>. QED  BY <1>2, <1>3, <1>4

\* The sum of the squares and the square of the sum.
LEMMA SumSquares ==
  ASSUME NEW V, IsFiniteSet(V), NEW h \in [V -> Nat], NEW g, IsSum(g, h, V),
         NEW h2 \in [V -> Nat], \A v \in V : h2[v] = h[v] * h[v], NEW q, IsSum(q, h2, V)
  PROVE  Cardinality(V) * q[V] >= g[V] * g[V]
<1>0. ASSUME NEW t \in SUBSET V, t # {}
      PROVE  q[t \ {Chosen(t)}] \in Nat /\ q[t] = h2[Chosen(t)] + q[t \ {Chosen(t)}]
  <2>. DEFINE c == Chosen(t)
              s == t \ {c}
  <2>1. /\ c \in t /\ s \in SUBSET V /\ s \subseteq t /\ s # t
        /\ h2[c] \in Nat /\ q[s] \in Nat /\ Cardinality(s) \in Nat
        /\ q[t] = h2[c] + q[s] /\ Cardinality(t) = Cardinality(s) + 1
    BY <1>0, SumStep, Zenon
  <2>. QED  BY <2>1
<1>. DEFINE Good(t) == /\ \A x \in Nat : Cardinality(t) * (x * x) + q[t] >= 2 * (x * g[t])
                       /\ Cardinality(t) * q[t] >= g[t] * g[t]
            T == {t \in SUBSET V : ~Good(t)}
<1>1. SUFFICES ASSUME T # {} PROVE FALSE
  BY <1>1
<1>2. PICK t \in T : \A u \in T : u \subseteq t => u = t
  <2>1. T \in SUBSET (SUBSET V)
    OBVIOUS
  <2>. HIDE DEF T
  <2>. QED  BY <1>1, <2>1, LeastSubset
<1>3. CASE t = {}
  <2>1. g[t] = 0 /\ q[t] = 0 /\ Cardinality(t) = 0
    BY <1>3, FS_EmptySet DEF IsSum
  <2>. QED  BY <2>1
<1>4. CASE t # {}
  <2>. DEFINE c == Chosen(t)
              s == t \ {c}
              n == Cardinality(s)
              y == h[c]
  <2>1. /\ c \in t /\ s \in SUBSET V /\ s \subseteq t /\ s # t
        /\ y \in Nat /\ g[s] \in Nat /\ n \in Nat
        /\ g[t] = y + g[s] /\ Cardinality(t) = n + 1
    BY <1>4, SumStep
  <2>2. q[s] \in Nat /\ q[t] = y * y + q[s]
    <3>1. h2[c] = y * y /\ t \in SUBSET V
      BY <2>1
    <3>2. q[s] \in Nat /\ q[t] = h2[c] + q[s]
      BY <1>4, <1>0, <3>1
    <3>. QED  BY <3>1, <3>2
  <2>3. Good(s)
    BY <1>2, <2>1
  <2>. DEFINE G == g[s]
              Q == q[s]
  <2>4. /\ \A x \in Nat : n * (x * x) + Q >= 2 * (x * G)
        /\ n * Q >= G * G
    BY <2>3
  <2>5. /\ g[t] = y + G /\ q[t] = y * y + Q /\ Cardinality(t) = n + 1
        /\ y \in Nat /\ n \in Nat /\ G \in Nat /\ Q \in Nat
    BY <2>1, <2>2
  <2>. HIDE DEF n, y, G, Q, s, c
  <2>6. ASSUME NEW x \in Nat PROVE Cardinality(t) * (x * x) + q[t] >= 2 * (x * g[t])
    <3>1. (n + 1) * (x * x) = n * (x * x) + x * x /\ x * (y + G) = x * y + x * G
      BY <2>5
    <3>2. x * x + y * y >= 2 * (x * y)
      BY <2>5, SquaresFar
    <3>3. n * (x * x) + Q >= 2 * (x * G)
      BY <2>4
    <3>4. {n * (x * x), x * x, y * y, x * y, x * G} \subseteq Nat
      BY <2>5
    <3>. QED  BY <2>5, <3>1, <3>2, <3>3, <3>4
  <2>7. Cardinality(t) * q[t] >= g[t] * g[t]
    <3>1. (n + 1) * (y * y + Q) = n * (y * y) + n * Q + y * y + Q
      BY <2>5
    <3>2. (y + G) * (y + G) = y * y + 2 * (y * G) + G * G
      BY <2>5
    <3>3. n * (y * y) + Q >= 2 * (y * G) /\ n * Q >= G * G
      BY <2>4, <2>5
    <3>4. {n * (y * y), n * Q, y * y, y * G, G * G} \subseteq Nat
      BY <2>5
    <3>. QED  BY <2>5, <3>1, <3>2, <3>3, <3>4
  <2>8. Good(t)
    BY <2>6, <2>7
  <2>. QED  BY <2>8
<1>. QED  BY <1>3, <1>4

-----------------------------------------------------------------------------
(* Averages.                                                                *)

\* The sums of Average are such sums.
LEMMA ValueSum ==
  ASSUME NEW V, IsFiniteSet(V), \A v \in V : v[2] \in Nat
  PROVE  \E g : /\ IsSum(g, [v \in V |-> v[2]], V)
                /\ MapThenSumSet(LAMBDA v : v[2], V) = g[V]
<1>. DEFINE h == [v \in V |-> v[2]]
            F(f) == [t \in SUBSET V |-> IF t = {} THEN 0 ELSE Chosen(t)[2] + f[t \ {Chosen(t)}]]
            g == CHOOSE f : f = F(f)
<1>1. MapThenSumSet(LAMBDA v : v[2], V) = g[V]
  BY DEF MapThenSumSet, MapThenFoldSet, Chosen
<1>2. h \in [V -> Nat] /\ \A f : IsSum(f, h, V) <=> f = F(f)
  BY ChosenIn DEF IsSum
<1>3. \E f : IsSum(f, h, V)
  <2>. HIDE DEF h
  <2>. QED  BY <1>2, SumExists
<1>4. IsSum(g, h, V)
  <2>1. g = F(g)
    BY <1>2, <1>3
  <2>. HIDE DEF g
  <2>. QED  BY <1>2, <2>1
<1>. QED  BY <1>1, <1>4

LEMMA SquareSum ==
  ASSUME NEW V, IsFiniteSet(V), \A v \in V : v[2] \in Nat
  PROVE  \E g : /\ IsSum(g, [v \in V |-> v[2] * v[2]], V)
                /\ MapThenSumSet(LAMBDA v : v[2] * v[2], V) = g[V]
<1>. DEFINE h == [v \in V |-> v[2] * v[2]]
            F(f) == [t \in SUBSET V |->
                       IF t = {} THEN 0 ELSE Chosen(t)[2] * Chosen(t)[2] + f[t \ {Chosen(t)}]]
            g == CHOOSE f : f = F(f)
<1>1. MapThenSumSet(LAMBDA v : v[2] * v[2], V) = g[V]
  BY DEF MapThenSumSet, MapThenFoldSet, Chosen
<1>2. h \in [V -> Nat]
  OBVIOUS
<1>3. \A f : IsSum(f, h, V) <=> f = F(f)
  <2>1. \A t \in SUBSET V : t # {} => h[Chosen(t)] = Chosen(t)[2] * Chosen(t)[2]
    BY ChosenIn
  <2>. HIDE DEF h
  <2>. QED  BY <2>1 DEF IsSum
<1>4. \E f : IsSum(f, h, V)
  <2>. HIDE DEF h
  <2>. QED  BY <1>2, SumExists
<1>5. IsSum(g, h, V)
  <2>1. g = F(g)
    BY <1>3, <1>4
  <2>. HIDE DEF g
  <2>. QED  BY <1>3, <2>1
<1>. QED  BY <1>1, <1>5

\* The average of natural numbers, and that of a single one; how it lies
\* between them, and that its variance is not negative.
LEMMA AverageType ==
  ASSUME NEW V, IsFiniteSet(V), V # {}, \A v \in V : v[2] \in Nat
  PROVE  LET a == Average(V)
         IN  /\ a \in Averages /\ \A v : V = {v} => a = Single(v[2])
             /\ a.n * a.sq >= a.sum * a.sum
             /\ \A m \in Nat : /\ (\A v \in V : v[2] >= m) => a.sum >= m * a.n
                               /\ (\A v \in V : v[2] <= m) => a.sum <= m * a.n
<1>1. Cardinality(V) \in Nat \ {0} /\ \A v : V = {v} => Cardinality(V) = 1
  BY FS_CardinalityType, FS_EmptySet, FS_Singleton
<1>. DEFINE h == [v \in V |-> v[2]]
            h2 == [v \in V |-> v[2] * v[2]]
            sum == MapThenSumSet(LAMBDA v : v[2], V)
            sq == MapThenSumSet(LAMBDA v : v[2] * v[2], V)
<1>2. Average(V) = [n |-> Cardinality(V), sum |-> sum, sq |-> sq]
  BY DEF Average
<1>3. PICK g : IsSum(g, h, V) /\ sum = g[V]
  BY ValueSum
<1>4. PICK q : IsSum(q, h2, V) /\ sq = q[V]
  BY SquareSum
<1>5. h \in [V -> Nat] /\ h2 \in [V -> Nat] /\ \A v \in V : h2[v] = h[v] * h[v]
  OBVIOUS
<1>6. \A v \in V : h[v] = v[2] /\ h2[v] = v[2] * v[2]
  OBVIOUS
<1>. HIDE DEF sum, sq, h, h2
<1>7. /\ sum \in Nat /\ \A v : V = {v} => sum = v[2]
      /\ sq \in Nat /\ \A v : V = {v} => sq = v[2] * v[2]
  BY <1>3, <1>4, <1>5, <1>6, SumValue
<1>8. Cardinality(V) * sq >= sum * sum
  BY <1>3, <1>4, <1>5, SumSquares
<1>9. ASSUME NEW m \in Nat
      PROVE  /\ (\A v \in V : v[2] >= m) => sum >= m * Cardinality(V)
             /\ (\A v \in V : v[2] <= m) => sum <= m * Cardinality(V)
  BY <1>3, <1>5, <1>6, SumBounds
<1>10. Average(V) \in Averages
  BY <1>1, <1>2, <1>7 DEF Averages
<1>11. ASSUME NEW v, V = {v} PROVE Average(V) = Single(v[2])
  <2>1. Cardinality(V) = 1 /\ sum = v[2] /\ sq = v[2] * v[2]
    BY <1>1, <1>7, <1>11
  <2>. QED  BY <1>2, <2>1 DEF Single
<1>12. Average(V).n = Cardinality(V) /\ Average(V).sum = sum /\ Average(V).sq = sq
  BY <1>2
<1>. QED  BY <1>8, <1>9, <1>10, <1>11, <1>12

\* What avg_results makes of runs whose values are natural numbers.
Measured(R) == IsFiniteSet(R) /\ \A r \in R : r.values \in [DOMAIN r.values -> Nat]

\* A metric of avg_results is the average of the runs that have it: one run's
\* is its value, that of several lies between theirs, and its variance, of
\* which the code takes the square root, is not negative.
THEOREM ResultsType ==
  ASSUME NEW R, Measured(R), NEW k \in DOMAIN avg_results(R)
  PROVE  LET a == avg_results(R)[k]
         IN  /\ a \in Averages
             /\ \A r : R = {r} => a = Single(r.values[k]) /\ k \in DOMAIN r.values
             /\ a.n * a.sq >= a.sum * a.sum
             /\ \A m \in Nat :
                  LET Of == {r \in R : k \in DOMAIN r.values}
                  IN  /\ (\A r \in Of : r.values[k] >= m) => a.sum >= m * a.n
                      /\ (\A r \in Of : r.values[k] <= m) => a.sum <= m * a.n
<1>. DEFINE Q == {r \in R : k \in DOMAIN r.values}
            V == {<<r, r.values[k]>> : r \in Q}
            f == [r \in Q |-> <<r, r.values[k]>>]
<1>1. avg_results(R)[k] = Average(V) /\ Q # {}
  BY DEF avg_results
<1>2. IsFiniteSet(Q)
  <2>1. Q \in SUBSET R
    OBVIOUS
  <2>. HIDE DEF Q
  <2>. QED  BY <2>1, FS_Subset DEF Measured
<1>3. f \in Surjection(Q, V)
  BY DEF Surjection
<1>4. IsFiniteSet(V)
  <2>. HIDE DEF Q, V, f
  <2>. QED  BY <1>2, <1>3, FS_Surjection
<1>5. V # {} /\ \A v \in V : v[2] \in Nat
  <2>1. \A r \in Q : <<r, r.values[k]>>[2] \in Nat
    BY DEF Measured
  <2>2. PICK r \in Q : TRUE
    BY <1>1
  <2>. HIDE DEF Q
  <2>. QED  BY <2>1, <2>2
<1>6. \A v \in V : \E r \in Q : v[2] = r.values[k]
  OBVIOUS
<1>7. ASSUME NEW r, R = {r} PROVE V = {<<r, r.values[k]>>} /\ k \in DOMAIN r.values
  BY <1>1, <1>7
<1>. DEFINE a == Average(V)
<1>. HIDE DEF V
<1>8. /\ a \in Averages /\ \A v : V = {v} => a = Single(v[2])
      /\ a.n * a.sq >= a.sum * a.sum
      /\ \A m \in Nat : /\ (\A v \in V : v[2] >= m) => a.sum >= m * a.n
                        /\ (\A v \in V : v[2] <= m) => a.sum <= m * a.n
  BY <1>4, <1>5, AverageType
<1>. HIDE DEF a
<1>9. ASSUME NEW r, R = {r} PROVE a = Single(r.values[k])
  <2>1. <<r, r.values[k]>>[2] = r.values[k]
    OBVIOUS
  <2>. QED  BY <1>7, <1>8, <1>9, <2>1
<1>10. ASSUME NEW m \in Nat
       PROVE  /\ (\A r \in Q : r.values[k] >= m) => a.sum >= m * a.n
              /\ (\A r \in Q : r.values[k] <= m) => a.sum <= m * a.n
  <2>. HIDE DEF Q
  <2>1. /\ (\A r \in Q : r.values[k] >= m) => \A v \in V : v[2] >= m
        /\ (\A r \in Q : r.values[k] <= m) => \A v \in V : v[2] <= m
    BY <1>6
  <2>. QED  BY <1>8, <2>1
<1>11. avg_results(R)[k] = a
  BY <1>1 DEF a
<1>. QED  BY <1>7, <1>8, <1>9, <1>10, <1>11

-----------------------------------------------------------------------------
(* Thresholds.                                                              *)

\* No two averages are better than each other: the comparison of two labels
\* never calls a metric better both ways, whatever the runs of the labels.
THEOREM BetterOneWay ==
  ASSUME NEW a \in Averages, NEW b \in Averages, NEW k, diff_string(a, b, k) = "green"
  PROVE  diff_string(b, a, k) # "green"
<1>1. a.sum * b.n \in Int /\ b.sum * a.n \in Int
  BY DEF Averages
<1>2. ~(Gap(a, b) > 0 /\ Gap(b, a) > 0) /\ ~(Gap(a, b) < 0 /\ Gap(b, a) < 0)
  BY <1>1 DEF Gap
<1>3. (Above(a, b) /\ HigherIsBetter(k)) \/ (Below(a, b) /\ ~HigherIsBetter(k))
  BY DEF diff_string
<1>4. ~((Above(b, a) /\ HigherIsBetter(k)) \/ (Below(b, a) /\ ~HigherIsBetter(k)))
  BY <1>2, <1>3 DEF Above, Below
<1>. QED  BY <1>4 DEF diff_string

\* The thresholds of check_regression are those of diff_string: a value regresses
\* against an average exactly if its row would be red.
THEOREM SameThreshold ==
  ASSUME NEW a \in Averages, NEW v \in Nat, NEW k
  PROVE  Regresses(a, v, k) <=> diff_string(a, Single(v), k) = "red"
<1>. DEFINE d == v * a.n - a.sum
            g == Gap(a, Single(v))
            var == a.n * a.sq - a.sum * a.sum
<1>1. a.n \in Nat \ {0} /\ a.sum \in Nat /\ a.sq \in Nat /\ Single(v).n = 1 /\ Single(v).sum = v
  BY DEF Averages, Single
<1>2. g = a.sum - v * a.n
  BY <1>1 DEF Gap
<1>3. d \in Int /\ g = 0 - d /\ var \in Int
  BY <1>1, <1>2
<1>4. Beyond(a, d) <=> a.n = 1 \/ 625 * d * d * (a.n - 1) > 2401 * a.n * var
  BY DEF Beyond
<1>5. Significant(a, Single(v)) <=>
        IF a.n = 1 THEN g # 0 ELSE 625 * g * g * (a.n - 1) > 2401 * var * a.n * 1 * 1
  BY <1>1 DEF Significant
<1>. HIDE DEF d, g, var
<1>6. 625 * g * g = 625 * d * d
  BY <1>3
<1>7. 2401 * var * a.n * 1 * 1 = 2401 * a.n * var
  BY <1>1, <1>3
<1>8. d # 0 => (Beyond(a, d) <=> Significant(a, Single(v)))
  BY <1>3, <1>4, <1>5, <1>6, <1>7
<1>9. /\ Below(a, Single(v)) <=> d < 0 /\ Beyond(a, d)
      /\ Above(a, Single(v)) <=> d > 0 /\ Beyond(a, d)
  <2>1. (g > 0 <=> d < 0) /\ (g < 0 <=> d > 0) /\ (d < 0 => d # 0) /\ (d > 0 => d # 0)
    BY <1>3
  <2>. QED  BY <1>8, <2>1 DEF Below, Above, g
<1>10. Regresses(a, v, k) <=> Beyond(a, d) /\ IF HigherIsBetter(k) THEN d < 0 ELSE d > 0
  BY DEF Regresses, d
<1>. QED  BY <1>9, <1>10 DEF diff_string

\* check_regression finds a value to be worse than an average only if it is
\* worse than one of the runs averaged: the best run so far never regresses.
THEOREM WorseThanOne ==
  ASSUME NEW R, Measured(R), NEW k \in DOMAIN avg_results(R), NEW v \in Nat,
         Regresses(avg_results(R)[k], v, k)
  PROVE  \E r \in R : k \in DOMAIN r.values /\
           IF HigherIsBetter(k) THEN v < r.values[k] ELSE v > r.values[k]
<1>. DEFINE a == avg_results(R)[k]
            Of == {r \in R : k \in DOMAIN r.values}
<1>1. a \in Averages
  BY ResultsType
<1>2. \A m \in Nat : /\ (\A r \in Of : r.values[k] >= m) => a.sum >= m * a.n
                     /\ (\A r \in Of : r.values[k] <= m) => a.sum <= m * a.n
  BY ResultsType
<1>3. \A r \in Of : r.values[k] \in Nat
  BY DEF Measured
<1>4. a.sum \in Nat /\ v * a.n \in Nat
  BY <1>1 DEF Averages
<1>5. IF HigherIsBetter(k) THEN v * a.n - a.sum < 0 ELSE v * a.n - a.sum > 0
  BY DEF Regresses
<1>. HIDE DEF a
<1>6. IF HigherIsBetter(k) THEN ~(a.sum <= v * a.n) ELSE ~(a.sum >= v * a.n)
  BY <1>4, <1>5
<1>7. IF HigherIsBetter(k) THEN \E r \in Of : ~(r.values[k] <= v) ELSE \E r \in Of : ~(r.values[k] >= v)
  BY <1>2, <1>6
<1>. QED  BY <1>3, <1>7

LEMMA Count ==
  ASSUME NEW S, IsFiniteSet(S)
  PROVE  Cardinality(S) \in Nat /\ (S = {} <=> Cardinality(S) = 0)
  BY FS_CardinalityType, FS_EmptySet

\* A test fails only if a headline metric regresses, and all were looked at.
LEMMA CheckSound ==
  ASSUME NEW b, NEW v, NEW seen, check_regression(b, v, seen)
  PROVE  seen = DOMAIN b /\ \E k \in seen \cap test_regression_keys : Regresses(b[k], v[k], k)
<1>. DEFINE regress == seen \cap test_regression_keys
            fail == {k \in regress : Regresses(b[k], v[k], k)}
<1>1. seen = DOMAIN b /\ 100 * Cardinality(fail) >= (IF regress = {} THEN 100 ELSE 10 * Cardinality(regress))
  BY DEF check_regression
<1>2. IsFiniteSet(regress) /\ IsFiniteSet(fail)
  BY FS_Subset
<1>4. fail # {}
  <2>. HIDE DEF fail, regress
  <2>. QED  BY <1>1, <1>2, Count
<1>. QED  BY <1>1, <1>4

\* If all were looked at and the test did not fail, none regresses: one of ten
\* is enough.
LEMMA CheckComplete ==
  ASSUME NEW b, NEW v, ~check_regression(b, v, DOMAIN b)
  PROVE  \A k \in DOMAIN b \cap test_regression_keys : ~Regresses(b[k], v[k], k)
<1>. DEFINE regress == DOMAIN b \cap test_regression_keys
            fail == {k \in regress : Regresses(b[k], v[k], k)}
<1>1. ~(100 * Cardinality(fail) >= (IF regress = {} THEN 100 ELSE 10 * Cardinality(regress)))
  BY DEF check_regression
<1>2. IsFiniteSet(regress) /\ IsFiniteSet(fail)
  BY FS_Subset
<1>3. Cardinality(regress) \in Nat /\ Cardinality(regress) <= 10
  BY <1>2, FS_CardinalityType, FS_Subset
<1>5. fail = {}
  <2>1. regress = {} => fail = {}
    OBVIOUS
  <2>. HIDE DEF fail, regress
  <2>. QED  BY <1>1, <1>2, <1>3, <2>1, Count
<1>. QED  BY <1>5

LEMMA SeenTwice ==
  ASSUME NEW b, NEW v, NEW seen \in Examined(b, v)
  PROVE  /\ seen \subseteq DOMAIN b /\ seen \subseteq DOMAIN v
         /\ DOMAIN b \subseteq DOMAIN v => seen = DOMAIN b
  BY DEF Examined
=============================================================================
