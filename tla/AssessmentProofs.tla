-------------------------- MODULE AssessmentProofs --------------------------
(***************************************************************************)
(* Proofs about Assessment, for any sources, audits, commits, decisions    *)
(* and overlays: the graph a scan builds, the scores made of its findings, *)
(* and what triage and the release gates do with them.                     *)
(***************************************************************************)
EXTENDS Assessment, FiniteSetTheorems, SequenceTheorems, WellFoundedInduction, TLAPS

(* Sums over finite sets, as the folds of the community modules compute    *)
(* them: by taking out one element after another.                          *)
ItemOf(T) == CHOOSE x \in T : TRUE
Total(w, S) == MapThenSumSet(LAMBDA x : w[x], S)
IsSum(g, w, S) ==
    g = [T \in SUBSET S |-> IF T = {} THEN 0 ELSE w[ItemOf(T)] + g[T \ {ItemOf(T)}]]

(* A set of subsets of a finite set has a member none of whose proper      *)
(* subsets is a member: the induction over finite sets.                    *)
LEMMA SmallestSubset ==
  ASSUME NEW S, IsFiniteSet(S), NEW F, F \subseteq SUBSET S, F # {}
  PROVE  \E T \in F : \A U \in F : U \subseteq T => U = T
<1>1. IsWellFoundedOn(StrictSubsetOrdering(S), SUBSET S)
  BY FS_StrictSubsetOrderingWellFounded, FS_FiniteSubsetsOfFinite
<1>2. PICK T \in F : \A U \in F : ~(<<U, T>> \in StrictSubsetOrdering(S))
  BY <1>1, WFMin
<1>3. ASSUME NEW U \in F, U \subseteq T PROVE U = T
  <2>1. <<U, T>> \in (SUBSET S) \X (SUBSET S) /\ <<U, T>>[1] = U /\ <<U, T>>[2] = T
    OBVIOUS
  <2> QED
    BY <1>2, <1>3, <2>1 DEF StrictSubsetOrdering
<1> QED
  BY <1>3

LEMMA SumsAgree ==
  ASSUME NEW S, IsFiniteSet(S), NEW A \in SUBSET S, NEW B \in SUBSET S, NEW w, NEW g, NEW h,
         IsSum(g, w, A), IsSum(h, w, B), NEW T \in SUBSET (A \cap B)
  PROVE  g[T] = h[T]
<1> DEFINE F == {U \in SUBSET (A \cap B) : g[U] # h[U]}
<1>1. SUFFICES ASSUME F # {} PROVE FALSE
  OBVIOUS
<1>2. F \subseteq SUBSET S
  OBVIOUS
<1>3. PICK U \in F : \A V \in F : V \subseteq U => V = U
  <2> HIDE DEF F
  <2> QED
    BY <1>1, <1>2, SmallestSubset
<1>4. U \in SUBSET A /\ U \in SUBSET B /\ g[U] # h[U]
  BY <1>3
<1>5. U # {}
  BY <1>4 DEF IsSum
<1>6. ItemOf(U) \in U
  BY <1>5 DEF ItemOf
<1> DEFINE V == U \ {ItemOf(U)}
<1>7. g[V] = h[V]
  BY <1>3, <1>4, <1>6
<1>8. g[U] = w[ItemOf(U)] + g[V] /\ h[U] = w[ItemOf(U)] + h[V]
  BY <1>4, <1>5 DEF IsSum
<1> QED
  BY <1>4, <1>7, <1>8

LEMMA SumExists ==
  ASSUME NEW S, IsFiniteSet(S), NEW w
  PROVE  \E g : IsSum(g, w, S)
<1> DEFINE F == {T \in SUBSET S : ~ \E g : IsSum(g, w, T)}
<1>1. SUFFICES ASSUME F # {} PROVE FALSE
  OBVIOUS
<1>2. F \subseteq SUBSET S
  OBVIOUS
<1>3. PICK T \in F : \A U \in F : U \subseteq T => U = T
  <2> HIDE DEF F
  <2> QED
    BY <1>1, <1>2, SmallestSubset
<1> DEFINE Sum(U) == CHOOSE g : IsSum(g, w, U)
           g == [U \in SUBSET T |->
                   IF U = {} THEN 0 ELSE w[ItemOf(U)] + Sum(U \ {ItemOf(U)})[U \ {ItemOf(U)}]]
<1>4. ASSUME NEW U \in SUBSET T, U # T PROVE IsSum(Sum(U), w, U)
  BY <1>3, <1>4
<1> HIDE DEF Sum
<1>5. ASSUME NEW U \in SUBSET T, U # T PROVE g[U] = Sum(U)[U]
  <2>1. CASE U = {}
    BY <1>4, <1>5, <2>1 DEF IsSum
  <2>2. CASE U # {}
    <3> DEFINE V == U \ {ItemOf(U)}
    <3>1. ItemOf(U) \in U
      BY <2>2 DEF ItemOf
    <3>2. V \in SUBSET T /\ V # T /\ V \in SUBSET U
      BY <3>1
    <3>3. IsSum(Sum(U), w, U) /\ IsSum(Sum(V), w, V)
      BY <1>4, <1>5, <3>2
    <3>4. Sum(U)[U] = w[ItemOf(U)] + Sum(U)[V]
      BY <2>2, <3>3 DEF IsSum
    <3>5. V \in SUBSET (U \cap V) /\ U \in SUBSET S /\ V \in SUBSET S
      BY <1>3, <3>2
    <3>6. Sum(U)[V] = Sum(V)[V]
      BY <3>3, <3>5, SumsAgree
    <3> QED
      BY <2>2, <3>4, <3>6
  <2> QED
    BY <2>1, <2>2
<1>6. IsSum(g, w, T)
  <2>1. ASSUME NEW U \in SUBSET T, U # {}
        PROVE  g[U] = w[ItemOf(U)] + g[U \ {ItemOf(U)}]
    <3>1. ItemOf(U) \in U
      BY <2>1 DEF ItemOf
    <3>2. U \ {ItemOf(U)} \in SUBSET T /\ U \ {ItemOf(U)} # T
      BY <3>1
    <3>3. g[U \ {ItemOf(U)}] = Sum(U \ {ItemOf(U)})[U \ {ItemOf(U)}]
      BY <1>5, <3>2
    <3> QED
      BY <2>1, <3>3
  <2>2. g[{}] = 0
    OBVIOUS
  <2>3. \A U \in SUBSET T : g[U] = IF U = {} THEN 0 ELSE w[ItemOf(U)] + g[U \ {ItemOf(U)}]
    BY <2>1, <2>2
  <2>4. g = [U \in SUBSET T |-> g[U]]
    OBVIOUS
  <2> HIDE DEF g
  <2> QED
    BY <2>3, <2>4 DEF IsSum
<1> QED
  BY <1>3, <1>6

LEMMA TotalIsSum ==
  ASSUME NEW S, IsFiniteSet(S), NEW w
  PROVE  \E h : IsSum(h, w, S) /\ Total(w, S) = h[S]
<1> DEFINE iter[s \in SUBSET S] ==
             IF s = {} THEN 0 ELSE LET x == CHOOSE x \in s : TRUE IN w[x] + iter[s \ {x}]
<1>1. Total(w, S) = iter[S]
  BY DEF Total, MapThenSumSet, MapThenFoldSet
<1>2. iter = CHOOSE h : IsSum(h, w, S)
  BY DEF IsSum, ItemOf
<1> HIDE DEF iter
<1> QED
  BY <1>1, <1>2, SumExists

LEMMA SumGivesTotals ==
  ASSUME NEW S, IsFiniteSet(S), NEW w, NEW g, IsSum(g, w, S), NEW T \in SUBSET S
  PROVE  g[T] = Total(w, T)
<1>1. IsFiniteSet(T)
  BY FS_Subset
<1>2. PICK h : IsSum(h, w, T) /\ Total(w, T) = h[T]
  BY <1>1, TotalIsSum
<1>3. S \in SUBSET S /\ T \in SUBSET (S \cap T)
  OBVIOUS
<1> QED
  BY <1>2, <1>3, SumsAgree

LEMMA TotalEmpty == \A w : Total(w, {}) = 0
<1> SUFFICES ASSUME NEW w PROVE Total(w, {}) = 0
  OBVIOUS
<1>1. PICK h : IsSum(h, w, {}) /\ Total(w, {}) = h[{}]
  BY TotalIsSum, FS_EmptySet
<1> QED
  BY <1>1 DEF IsSum

LEMMA TotalItem ==
  ASSUME NEW S, IsFiniteSet(S), S # {}, NEW w
  PROVE  Total(w, S) = w[ItemOf(S)] + Total(w, S \ {ItemOf(S)}) /\ ItemOf(S) \in S
<1>1. PICK h : IsSum(h, w, S) /\ Total(w, S) = h[S]
  BY TotalIsSum
<1>2. h[S] = w[ItemOf(S)] + h[S \ {ItemOf(S)}]
  BY <1>1 DEF IsSum
<1>3. S \ {ItemOf(S)} \in SUBSET S
  OBVIOUS
<1>4. h[S \ {ItemOf(S)}] = Total(w, S \ {ItemOf(S)})
  BY <1>1, <1>3, SumGivesTotals
<1> QED
  BY <1>1, <1>2, <1>4 DEF ItemOf

LEMMA TotalNat ==
  ASSUME NEW S, IsFiniteSet(S), NEW w, \A x \in S : w[x] \in Nat
  PROVE  Total(w, S) \in Nat
<1> DEFINE F == {T \in SUBSET S : Total(w, T) \notin Nat}
<1>1. SUFFICES ASSUME F # {} PROVE FALSE
  OBVIOUS
<1>2. F \subseteq SUBSET S
  OBVIOUS
<1>3. PICK T \in F : \A U \in F : U \subseteq T => U = T
  <2> HIDE DEF F
  <2> QED
    BY <1>1, <1>2, SmallestSubset
<1>4. IsFiniteSet(T) /\ T # {}
  <2>1. IsFiniteSet(T)
    BY <1>3, FS_Subset
  <2>2. T # {}
    <3>1. Total(w, T) \notin Nat
      BY <1>3
    <3>2. Total(w, {}) \in Nat
      BY TotalEmpty
    <3> QED
      BY <3>1, <3>2
  <2> QED
    BY <2>1, <2>2
<1>5. Total(w, T) = w[ItemOf(T)] + Total(w, T \ {ItemOf(T)}) /\ ItemOf(T) \in T
  BY <1>4, TotalItem
<1>6. Total(w, T \ {ItemOf(T)}) \in Nat
  BY <1>3, <1>5
<1> QED
  BY <1>3, <1>5, <1>6

(* A sum does not depend on the order in which its elements are taken.     *)
LEMMA TotalTakeOut ==
  ASSUME NEW S, IsFiniteSet(S), NEW w, \A x \in S : w[x] \in Nat, NEW y \in S
  PROVE  Total(w, S) = w[y] + Total(w, S \ {y})
<1> DEFINE F == {T \in SUBSET S : \E x \in T : Total(w, T) # w[x] + Total(w, T \ {x})}
<1>1. SUFFICES ASSUME F # {} PROVE FALSE
  OBVIOUS
<1>2. F \subseteq SUBSET S
  OBVIOUS
<1>3. PICK T \in F : \A U \in F : U \subseteq T => U = T
  <2> HIDE DEF F
  <2> QED
    BY <1>1, <1>2, SmallestSubset
<1>4. PICK x \in T : Total(w, T) # w[x] + Total(w, T \ {x})
  BY <1>3
<1> DEFINE i == ItemOf(T)
<1>5. IsFiniteSet(T) /\ T \in SUBSET S
  BY <1>3, FS_Subset
<1>6. Total(w, T) = w[i] + Total(w, T \ {i}) /\ i \in T
  BY <1>4, <1>5, TotalItem
<1>7. x # i
  BY <1>4, <1>6
<1> HIDE DEF i
<1>8. T \ {i} \notin F /\ T \ {x} \notin F
  BY <1>3, <1>4, <1>6
<1>9. /\ Total(w, T \ {i}) = w[x] + Total(w, (T \ {i}) \ {x})
      /\ Total(w, T \ {x}) = w[i] + Total(w, (T \ {x}) \ {i})
  BY <1>4, <1>5, <1>6, <1>7, <1>8
<1>10. (T \ {i}) \ {x} = (T \ {x}) \ {i}
  OBVIOUS
<1>11. Total(w, (T \ {x}) \ {i}) \in Nat /\ w[x] \in Nat /\ w[i] \in Nat
  <2>1. IsFiniteSet((T \ {x}) \ {i})
    BY <1>5, FS_Subset
  <2> QED
    BY <1>4, <1>5, <1>6, <2>1, TotalNat
<1>12. \A a, b, c \in Nat : b + (a + c) = a + (b + c)
  OBVIOUS
<1> HIDE DEF F
<1> QED
  BY <1>4, <1>6, <1>9, <1>10, <1>11, <1>12

(* More elements, or larger ones, never sum up to less.                    *)
LEMMA TotalMonotone ==
  ASSUME NEW B, IsFiniteSet(B), NEW A \in SUBSET B, NEW v, NEW w,
         \A x \in B : w[x] \in Nat, \A x \in A : v[x] \in Nat /\ v[x] <= w[x]
  PROVE  Total(v, A) <= Total(w, B)
<1> DEFINE F == {T \in SUBSET B : ~ Total(v, A \cap T) <= Total(w, T)}
<1>1. SUFFICES ASSUME F # {} PROVE FALSE
  <2>1. A \cap B = A /\ B \in SUBSET B
    OBVIOUS
  <2> QED
    BY <2>1
<1>2. F \subseteq SUBSET B
  OBVIOUS
<1>3. PICK T \in F : \A U \in F : U \subseteq T => U = T
  <2> HIDE DEF F
  <2> QED
    BY <1>1, <1>2, SmallestSubset
<1>4. T \in SUBSET B /\ ~ Total(v, A \cap T) <= Total(w, T)
  BY <1>3
<1>5. T # {}
  BY <1>4, TotalEmpty
<1>6. PICK x \in T : TRUE
  BY <1>5
<1>7. Total(v, A \cap (T \ {x})) <= Total(w, T \ {x})
  BY <1>3, <1>6
<1>8. IsFiniteSet(T) /\ IsFiniteSet(A \cap T) /\ IsFiniteSet(T \ {x}) /\ IsFiniteSet(A \cap (T \ {x}))
  BY <1>4, FS_Subset
<1>9. /\ Total(v, A \cap (T \ {x})) \in Nat /\ Total(w, T \ {x}) \in Nat
  <2>1. \A y \in A \cap (T \ {x}) : v[y] \in Nat
    OBVIOUS
  <2>2. \A y \in T \ {x} : w[y] \in Nat
    BY <1>4
  <2> QED
    BY <1>8, <2>1, <2>2, TotalNat
<1>10. Total(w, T) = w[x] + Total(w, T \ {x}) /\ w[x] \in Nat
  BY <1>4, <1>8, TotalTakeOut
<1>11. CASE x \in A
  <2>1. x \in A \cap T /\ (A \cap T) \ {x} = A \cap (T \ {x})
    BY <1>11
  <2>2. \A y \in A \cap T : v[y] \in Nat
    OBVIOUS
  <2>3. Total(v, A \cap T) = v[x] + Total(v, (A \cap T) \ {x})
    BY <1>8, <2>1, <2>2, TotalTakeOut
  <2>4. v[x] \in Nat /\ v[x] <= w[x]
    BY <1>11
  <2> QED
    BY <1>4, <1>7, <1>9, <1>10, <2>1, <2>3, <2>4
<1>12. CASE x \notin A
  <2>1. A \cap T = A \cap (T \ {x})
    BY <1>12
  <2> QED
    BY <1>4, <1>7, <1>9, <1>10, <2>1
<1> QED
  BY <1>11, <1>12
-----------------------------------------------------------------------------
(* Fewer findings weigh less, so every score of a dimension is as good.    *)

Points(F) == [f \in F |-> f.weight * ConfidenceFactor(f.confidence)]
Weighable(F) == IsFiniteSet(F) /\ \A f \in F : f.weight \in Nat

LEMMA PointsNat ==
  ASSUME NEW F, Weighable(F)
  PROVE  \A f \in F : Points(F)[f] \in Nat
<1> SUFFICES ASSUME NEW f \in F PROVE f.weight * ConfidenceFactor(f.confidence) \in Nat
  BY DEF Points
<1>1. ConfidenceFactor(f.confidence) \in {17, 12, 20}
  BY DEF ConfidenceFactor
<1>2. f.weight \in Nat
  BY DEF Weighable
<1> QED
  BY <1>1, <1>2

LEMMA WeightedIsTotal ==
  ASSUME NEW F, IsFiniteSet(F)
  PROVE  Weighted(F) = Total(Points(F), F)
<1> DEFINE iter[s \in SUBSET F] ==
             IF s = {} THEN 0
             ELSE LET x == CHOOSE x \in s : TRUE
                  IN  x.weight * ConfidenceFactor(x.confidence) + iter[s \ {x}]
           Folds(h) == h = [s \in SUBSET F |->
             IF s = {} THEN 0
             ELSE LET x == CHOOSE x \in s : TRUE
                  IN  x.weight * ConfidenceFactor(x.confidence) + h[s \ {x}]]
<1>1. Weighted(F) = iter[F]
  BY DEF Weighted, MapThenSumSet, MapThenFoldSet
<1>2. iter = CHOOSE h : Folds(h)
  OBVIOUS
<1>3. \A s \in SUBSET F : s # {} =>
         Points(F)[ItemOf(s)] = ItemOf(s).weight * ConfidenceFactor(ItemOf(s).confidence)
  BY DEF Points, ItemOf
<1>4. \A h : IsSum(h, Points(F), F) <=> Folds(h)
  BY <1>3 DEF IsSum, ItemOf
<1> HIDE DEF iter, Folds
<1>5. IsSum(iter, Points(F), F)
  BY <1>2, <1>4, SumExists
<1> QED
  BY <1>1, <1>5, SumGivesTotals

LEMMA FewerWeighLess ==
  ASSUME NEW F, Weighable(F), NEW G \in SUBSET F
  PROVE  /\ Weighted(G) \in Nat /\ Weighted(F) \in Nat /\ Weighted(G) <= Weighted(F)
         /\ Weighable(G)
<1>1. IsFiniteSet(F) /\ IsFiniteSet(G) /\ Weighable(G)
  BY FS_Subset DEF Weighable
<1>2. Weighted(F) = Total(Points(F), F) /\ Weighted(G) = Total(Points(G), G)
  BY <1>1, WeightedIsTotal
<1>3. /\ \A f \in F : Points(F)[f] \in Nat
      /\ \A f \in G : Points(G)[f] \in Nat
  BY <1>1, PointsNat
<1>4. \A f \in G : Points(G)[f] = Points(F)[f]
  BY DEF Points
<1>5. \A f \in G : Points(G)[f] \in Nat /\ Points(G)[f] <= Points(F)[f]
  BY <1>3, <1>4
<1> QED
  BY <1>1, <1>2, <1>3, <1>5, TotalNat, TotalMonotone

(* The engines' inputs before and after findings were closed.              *)
Input2(in) == Weighable(in.findings) /\ in.quality \in Int
Improved(old, new) ==
    /\ Input2(old)
    /\ new.findings \subseteq old.findings
    /\ new.graph = old.graph /\ new.quality = old.quality /\ new.analyzed = old.analyzed
    /\ new.vulnerabilities = old.vulnerabilities /\ new.changes = old.changes
    /\ new.age = old.age

Rounded(z) == (Clamp(z, 0, 40000) + 200) \div 400

LEMMA RoundedMonotone ==
  ASSUME NEW x \in Int, NEW y \in Int, x <= y
  PROVE  /\ Rounded(x) \in 0 .. 100 /\ Rounded(y) \in 0 .. 100
         /\ Rounded(x) <= Rounded(y)
<1>1. CASE y < 0
  BY <1>1 DEF Rounded, Clamp, Least
<1>2. CASE x < 0 /\ 0 <= y /\ y <= 40000
  BY <1>2 DEF Rounded, Clamp, Least
<1>3. CASE x < 0 /\ 40000 < y
  BY <1>3 DEF Rounded, Clamp, Least
<1>4. CASE 0 <= x /\ y <= 40000
  BY <1>4 DEF Rounded, Clamp, Least
<1>5. CASE 0 <= x /\ x <= 40000 /\ 40000 < y
  BY <1>5 DEF Rounded, Clamp, Least
<1>6. CASE 40000 < x
  BY <1>6 DEF Rounded, Clamp, Least
<1> QED
  BY <1>1, <1>2, <1>3, <1>4, <1>5, <1>6

Healthy(full, penalty) == Rounded(full * 400 - penalty)

LEMMA HealthRange ==
  ASSUME NEW p \in Nat, NEW q \in Nat, p <= q, NEW full \in 0 .. 100
  PROVE  /\ Healthy(full, Saturated(p)) \in 0 .. 100
         /\ Healthy(full, Saturated(q)) \in 0 .. 100
         /\ Healthy(full, Saturated(q)) <= Healthy(full, Saturated(p))
<1>1. Saturated(p) \in Nat /\ Saturated(q) \in Nat /\ Saturated(p) <= Saturated(q)
  BY DEF Saturated
<1>2. /\ full * 400 - Saturated(q) \in Int /\ full * 400 - Saturated(p) \in Int
      /\ full * 400 - Saturated(q) <= full * 400 - Saturated(p)
  BY <1>1
<1> QED
  BY <1>2, RoundedMonotone DEF Healthy

LEMMA HealthImproves ==
  ASSUME NEW old, NEW new, Improved(old, new), NEW d
  PROVE  /\ Health(old, d) \in 0 .. 100 /\ Health(new, d) \in 0 .. 100
         /\ Health(new, d) >= Health(old, d)
<1> DEFINE full == IF d = "maintainability" THEN 100 - Clamp(old.quality, 0, 100) ELSE 100
           F == OfDimension(old.findings, d)
           G == OfDimension(new.findings, d)
<1>1. full \in 0 .. 100
  BY DEF Improved, Input2, Clamp, Least
<1>2. Weighable(F)
  BY FewerWeighLess DEF Improved, Input2, OfDimension
<1>3. G \in SUBSET F
  BY DEF OfDimension, Improved
<1>4. Weighted(G) \in Nat /\ Weighted(F) \in Nat /\ Weighted(G) <= Weighted(F)
  BY <1>2, <1>3, FewerWeighLess
<1>5. /\ Health(old, d) = Healthy(full, Saturated(Weighted(F)))
      /\ Health(new, d) = Healthy(full, Saturated(Weighted(G)))
  BY DEF Health, PenaltyFor, Improved, Healthy, Rounded
<1> HIDE DEF full, F, G
<1>6. /\ Healthy(full, Saturated(Weighted(G))) \in 0 .. 100
      /\ Healthy(full, Saturated(Weighted(F))) \in 0 .. 100
      /\ Healthy(full, Saturated(Weighted(F))) <= Healthy(full, Saturated(Weighted(G)))
  BY <1>1, <1>4, HealthRange
<1> QED
  BY <1>5, <1>6

-----------------------------------------------------------------------------
(* The posture: a weighted mean over the dimensions that were measured.    *)

LEMMA DivMonotone ==
  ASSUME NEW a \in Nat, NEW b \in Nat, a <= b, NEW c \in Nat, c > 0
  PROVE  a \div c \in Nat /\ b \div c \in Nat /\ a \div c <= b \div c
<1> DEFINE p == a \div c
           q == b \div c
<1>1. p \in Int /\ q \in Int /\ c * p <= a /\ a < c * p + c /\ c * q <= b /\ b < c * q + c
  OBVIOUS
<1> HIDE DEF p, q
<1>2. ASSUME q + 1 <= p PROVE FALSE
  <2>1. PICK k \in Nat : p = q + 1 + k
    BY <1>1, <1>2
  <2>2. c * p = c * q + c + c * k /\ c * k \in Nat /\ c * q \in Int
    BY <1>1, <2>1
  <2> QED
    BY <1>1, <2>2
<1>3. ASSUME p + 1 <= 0 PROVE FALSE
  <2>1. PICK k \in Nat : p = 0 - 1 - k
    BY <1>1, <1>3
  <2>2. c * p = 0 - c - c * k /\ c * k \in Nat
    BY <2>1
  <2> QED
    BY <1>1, <2>2
<1>4. p \in Nat /\ q \in Nat /\ p <= q
  BY <1>1, <1>2, <1>3
<1> QED
  BY <1>4 DEF p, q

WeightedHealth(in) == [d \in Dimensions |-> Health(in, d) * DimensionWeight[d]]

HealthSum(in, M) == MapThenSumSet(LAMBDA d : Health(in, d) * DimensionWeight[d], M)

LEMMA HealthSumIsTotal ==
  ASSUME NEW in, NEW M \in SUBSET Dimensions, IsFiniteSet(M)
  PROVE  HealthSum(in, M) = Total(WeightedHealth(in), M)
<1> DEFINE iter[s \in SUBSET M] ==
             IF s = {} THEN 0
             ELSE LET x == CHOOSE x \in s : TRUE
                  IN  Health(in, x) * DimensionWeight[x] + iter[s \ {x}]
           Folds(h) == h = [s \in SUBSET M |->
             IF s = {} THEN 0
             ELSE LET x == CHOOSE x \in s : TRUE
                  IN  Health(in, x) * DimensionWeight[x] + h[s \ {x}]]
<1>1. HealthSum(in, M) = iter[M]
  BY DEF HealthSum, MapThenSumSet, MapThenFoldSet
<1>2. iter = CHOOSE h : Folds(h)
  OBVIOUS
<1>3. \A s \in SUBSET M : s # {} =>
         WeightedHealth(in)[ItemOf(s)] = Health(in, ItemOf(s)) * DimensionWeight[ItemOf(s)]
  BY DEF WeightedHealth, ItemOf
<1>4. \A h : IsSum(h, WeightedHealth(in), M) <=> Folds(h)
  BY <1>3 DEF IsSum, ItemOf
<1> HIDE DEF iter, Folds
<1>5. IsSum(iter, WeightedHealth(in), M)
  BY <1>2, <1>4, SumExists
<1> QED
  BY <1>1, <1>5, SumGivesTotals

LEMMA DimensionsFinite == \A M \in SUBSET Dimensions : IsFiniteSet(M)
<1>1. IsFiniteSet({"security"} \cup ({"ai_security"} \cup ({"reliability"}
                    \cup ({"architecture"} \cup {"maintainability"}))))
  BY FS_Singleton, FS_Union
<1>2. IsFiniteSet(Dimensions)
  BY <1>1 DEF Dimensions
<1> QED
  BY <1>2, FS_Subset

Mean(total, weight) == (2 * total + weight) \div (2 * weight)

LEMMA PostureIsMean ==
  ASSUME NEW in
  PROVE  PostureScore(in) = IF Measured(in) = {} THEN -1
                            ELSE Mean(HealthSum(in, Measured(in)), Total(DimensionWeight, Measured(in)))
  BY DEF PostureScore, Mean, HealthSum, Total

LEMMA MeanMonotone ==
  ASSUME NEW a \in Nat, NEW b \in Nat, a <= b, NEW c \in Nat, c > 0
  PROVE  Mean(a, c) \in Nat /\ Mean(b, c) \in Nat /\ Mean(a, c) <= Mean(b, c)
<1>1. /\ 2 * a + c \in Nat /\ 2 * b + c \in Nat /\ 2 * c \in Nat
      /\ 2 * a + c <= 2 * b + c /\ 2 * c > 0
  OBVIOUS
<1> QED
  BY <1>1, DivMonotone DEF Mean

(* With the same dimensions measured, a posture computed from fewer        *)
(* findings is as good, and so is its band.                                *)
LEMMA PostureImproves ==
  ASSUME NEW old, NEW new, Improved(old, new), Measured(new) = Measured(old)
  PROVE  /\ PostureScore(new) >= PostureScore(old)
         /\ Measured(old) = {} => PostureScore(new) = -1 /\ PostureScore(old) = -1
         /\ Measured(old) # {} => PostureScore(new) \in Nat /\ PostureScore(old) \in Nat
<1> DEFINE M == Measured(old)
<1>1. CASE M = {}
  <2>1. PostureScore(new) = -1 /\ PostureScore(old) = -1
    BY <1>1, PostureIsMean
  <2> QED
    BY <1>1, <2>1
<1>2. CASE M # {}
  <2>1. M \in SUBSET Dimensions /\ IsFiniteSet(M)
    BY DimensionsFinite DEF Measured
  <2> DEFINE a == Total(WeightedHealth(old), M)
             b == Total(WeightedHealth(new), M)
             c == Total(DimensionWeight, M)
  <2>2. PostureScore(old) = Mean(a, c) /\ PostureScore(new) = Mean(b, c)
    <3>1. HealthSum(old, M) = a /\ HealthSum(new, M) = b
      BY <2>1, HealthSumIsTotal
    <3> QED
      BY <1>2, <3>1, PostureIsMean
  <2>3. \A d \in Dimensions : DimensionWeight[d] \in Nat /\ DimensionWeight[d] > 0
    BY DEF Dimensions, DimensionWeight
  <2>4. \A d \in Dimensions : /\ WeightedHealth(old)[d] \in Nat /\ WeightedHealth(new)[d] \in Nat
                              /\ WeightedHealth(old)[d] <= WeightedHealth(new)[d]
    <3> SUFFICES ASSUME NEW d \in Dimensions
                 PROVE  /\ Health(old, d) * DimensionWeight[d] \in Nat
                        /\ Health(new, d) * DimensionWeight[d] \in Nat
                        /\ Health(old, d) * DimensionWeight[d] <= Health(new, d) * DimensionWeight[d]
      BY DEF WeightedHealth
    <3>1. /\ Health(old, d) \in 0 .. 100 /\ Health(new, d) \in 0 .. 100
          /\ Health(new, d) >= Health(old, d)
      BY HealthImproves
    <3>2. DimensionWeight[d] \in {7, 10, 11, 12, 13}
      BY DEF Dimensions, DimensionWeight
    <3> HIDE DEF Dimensions, DimensionWeight
    <3>3. CASE DimensionWeight[d] = 7
      BY <3>1, <3>3
    <3>4. CASE DimensionWeight[d] = 10
      BY <3>1, <3>4
    <3>5. CASE DimensionWeight[d] = 11
      BY <3>1, <3>5
    <3>6. CASE DimensionWeight[d] = 12
      BY <3>1, <3>6
    <3>7. CASE DimensionWeight[d] = 13
      BY <3>1, <3>7
    <3> QED
      BY <3>2, <3>3, <3>4, <3>5, <3>6, <3>7
  <2>5. a \in Nat /\ b \in Nat /\ a <= b /\ c \in Nat
    <3>1. /\ \A d \in M : WeightedHealth(old)[d] \in Nat
          /\ \A d \in M : WeightedHealth(new)[d] \in Nat
          /\ \A d \in M : DimensionWeight[d] \in Nat
          /\ \A d \in M : WeightedHealth(old)[d] \in Nat /\ WeightedHealth(old)[d] <= WeightedHealth(new)[d]
          /\ M \in SUBSET M
      BY <2>1, <2>3, <2>4
    <3> HIDE DEF M
    <3>2. a \in Nat /\ b \in Nat /\ c \in Nat
      BY <2>1, <3>1, TotalNat
    <3>3. a <= b
      BY <2>1, <3>1, TotalMonotone
    <3> QED
      BY <3>2, <3>3
  <2>6. c > 0
    <3>1. PICK d \in M : TRUE
      BY <1>2
    <3>2. \A e \in M : DimensionWeight[e] \in Nat /\ DimensionWeight[e] > 0
      BY <2>1, <2>3
    <3> HIDE DEF M
    <3>3. c = DimensionWeight[d] + Total(DimensionWeight, M \ {d})
      BY <2>1, <3>1, <3>2, TotalTakeOut
    <3>4. Total(DimensionWeight, M \ {d}) \in Nat
      BY <2>1, <3>2, TotalNat, FS_Subset
    <3> HIDE DEF c
    <3> QED
      BY <3>1, <3>2, <3>3, <3>4
  <2> HIDE DEF a, b, c
  <2>7. Mean(a, c) \in Nat /\ Mean(b, c) \in Nat /\ Mean(a, c) <= Mean(b, c)
    BY <2>5, <2>6, MeanMonotone
  <2> QED
    BY <1>2, <2>2, <2>7
<1> QED
  BY <1>1, <1>2

LEMMA BandImproves ==
  ASSUME NEW x \in Nat, NEW y \in Nat, x <= y, NEW a \in BOOLEAN, NEW b \in BOOLEAN, b => a
  PROVE  SeverityOrder[BandFor(y, b)] <= SeverityOrder[BandFor(x, a)]
<1>1. x # -1 /\ y # -1
  OBVIOUS
<1>2. BandFor(x, a) = IF a THEN (IF x >= 60 THEN "high" ELSE "critical")
                      ELSE IF x >= 85 THEN "low" ELSE IF x >= 70 THEN "medium"
                      ELSE IF x >= 50 THEN "high" ELSE "critical"
  BY <1>1 DEF BandFor
<1>3. BandFor(y, b) = IF b THEN (IF y >= 60 THEN "high" ELSE "critical")
                      ELSE IF y >= 85 THEN "low" ELSE IF y >= 70 THEN "medium"
                      ELSE IF y >= 50 THEN "high" ELSE "critical"
  BY <1>1 DEF BandFor
<1>4. CASE a /\ b
  BY <1>2, <1>3, <1>4 DEF SeverityOrder
<1>5. CASE a /\ ~b
  BY <1>2, <1>3, <1>5 DEF SeverityOrder
<1>6. CASE ~a /\ ~b
  BY <1>2, <1>3, <1>6 DEF SeverityOrder
<1> QED
  BY <1>4, <1>5, <1>6

LEMMA TotalsEqual ==
  ASSUME NEW S, IsFiniteSet(S), NEW v, NEW w, \A x \in S : v[x] \in Nat,
         \A x \in S : v[x] = w[x]
  PROVE  Total(v, S) = Total(w, S)
<1>1. /\ S \in SUBSET S
      /\ \A x \in S : w[x] \in Nat
      /\ \A x \in S : v[x] \in Nat /\ v[x] <= w[x]
      /\ \A x \in S : w[x] \in Nat /\ w[x] <= v[x]
  OBVIOUS
<1>2. Total(v, S) <= Total(w, S)
  BY <1>1, TotalMonotone
<1>3. Total(w, S) <= Total(v, S)
  BY <1>1, TotalMonotone
<1>4. Total(v, S) \in Nat /\ Total(w, S) \in Nat
  BY <1>1, TotalNat
<1> QED
  BY <1>2, <1>3, <1>4

-----------------------------------------------------------------------------
(* Readiness: closing findings takes blockers away; the one warning that   *)
(* may appear in exchange weighs less than the blocker it replaces.        *)

BlockerSum(S) == MapThenSumSet(LAMBDA x : IF x.severity = "critical" THEN 34 ELSE 22, S)
BlockerWeights(S) == [x \in S |-> IF x.severity = "critical" THEN 34 ELSE 22]

LEMMA BlockerSumIsTotal ==
  ASSUME NEW S, IsFiniteSet(S)
  PROVE  BlockerSum(S) = Total(BlockerWeights(S), S)
<1> DEFINE iter[s \in SUBSET S] ==
             IF s = {} THEN 0
             ELSE LET x == CHOOSE x \in s : TRUE IN (IF x.severity = "critical" THEN 34 ELSE 22) + iter[s \ {x}]
           Folds(h) == h = [s \in SUBSET S |->
             IF s = {} THEN 0
             ELSE LET x == CHOOSE x \in s : TRUE IN (IF x.severity = "critical" THEN 34 ELSE 22) + h[s \ {x}]]
<1>1. BlockerSum(S) = iter[S]
  BY DEF BlockerSum, MapThenSumSet, MapThenFoldSet
<1>2. iter = CHOOSE h : Folds(h)
  OBVIOUS
<1>3. \A s \in SUBSET S : s # {} =>
         BlockerWeights(S)[ItemOf(s)] = IF ItemOf(s).severity = "critical" THEN 34 ELSE 22
  BY DEF BlockerWeights, ItemOf
<1>4. \A h : IsSum(h, BlockerWeights(S), S) <=> Folds(h)
  BY <1>3 DEF IsSum, ItemOf
<1> HIDE DEF iter, Folds
<1>5. IsSum(iter, BlockerWeights(S), S)
  BY <1>2, <1>4, SumExists
<1> QED
  BY <1>1, <1>5, SumGivesTotals

WarningSum(S) == MapThenSumSet(LAMBDA x : IF x.severity = "high" THEN 10 ELSE 5, S)
WarningWeights(S) == [x \in S |-> IF x.severity = "high" THEN 10 ELSE 5]

LEMMA WarningSumIsTotal ==
  ASSUME NEW S, IsFiniteSet(S)
  PROVE  WarningSum(S) = Total(WarningWeights(S), S)
<1> DEFINE iter[s \in SUBSET S] ==
             IF s = {} THEN 0
             ELSE LET x == CHOOSE x \in s : TRUE IN (IF x.severity = "high" THEN 10 ELSE 5) + iter[s \ {x}]
           Folds(h) == h = [s \in SUBSET S |->
             IF s = {} THEN 0
             ELSE LET x == CHOOSE x \in s : TRUE IN (IF x.severity = "high" THEN 10 ELSE 5) + h[s \ {x}]]
<1>1. WarningSum(S) = iter[S]
  BY DEF WarningSum, MapThenSumSet, MapThenFoldSet
<1>2. iter = CHOOSE h : Folds(h)
  OBVIOUS
<1>3. \A s \in SUBSET S : s # {} =>
         WarningWeights(S)[ItemOf(s)] = IF ItemOf(s).severity = "high" THEN 10 ELSE 5
  BY DEF WarningWeights, ItemOf
<1>4. \A h : IsSum(h, WarningWeights(S), S) <=> Folds(h)
  BY <1>3 DEF IsSum, ItemOf
<1> HIDE DEF iter, Folds
<1>5. IsSum(iter, WarningWeights(S), S)
  BY <1>2, <1>4, SumExists
<1> QED
  BY <1>1, <1>5, SumGivesTotals

LEMMA ReadinessIsClamped ==
  ASSUME NEW in, in.analyzed
  PROVE  ReadinessScore(in) =
           Clamp(100 - BlockerSum(Blockers(in)) - WarningSum(Warnings(in)), 0, 100)
  BY DEF ReadinessScore, BlockerSum, WarningSum

LEMMA ItemsFinite ==
  ASSUME NEW in
  PROVE  IsFiniteSet(Blockers(in)) /\ IsFiniteSet(Warnings(in))
<1> DEFINE X(area, sev) == {[area |-> area, severity |-> sev]}
           B == X("security", "critical") \cup (X("dependency", "critical")
                  \cup (X("reliability", "critical") \cup (X("reliability", "high")
                  \cup X("change", "critical"))))
           W == X("security", "high") \cup (X("dependency", "high") \cup (X("reliability", "high")
                  \cup (X("backup", "high") \cup (X("change", "high")
                  \cup (X("coverage", "medium") \cup X("age", "medium"))))))
<1>1. \A area, sev : IsFiniteSet(X(area, sev))
  BY FS_Singleton
<1>2. \A S, T : IsFiniteSet(S) /\ IsFiniteSet(T) => IsFiniteSet(S \cup T)
  BY FS_Union
<1>3. Blockers(in) \subseteq B
  BY DEF Blockers, Item
<1>4. Warnings(in) \subseteq W
  BY DEF Warnings, Item
<1> HIDE DEF X
<1>5. IsFiniteSet(B)
  BY <1>1, <1>2
<1>6. IsFiniteSet(W)
  BY <1>1, <1>2
<1> QED
  BY <1>3, <1>4, <1>5, <1>6, FS_Subset

CriticalSecurity == [area |-> "security", severity |-> "critical"]
HighSecurity == [area |-> "security", severity |-> "high"]

LEMMA FewerBlockers ==
  ASSUME NEW old, NEW new, Improved(old, new)
  PROVE  Blockers(new) \subseteq Blockers(old)
<1>1. /\ SecurityAt(new, "critical") => SecurityAt(old, "critical")
      /\ OtherCriticals(new) => OtherCriticals(old)
      /\ NoBackup(new) => NoBackup(old)
  BY DEF SecurityAt, OtherCriticals, NoBackup, Has, Improved
<1>2. /\ VulnerableAt(new, "critical") = VulnerableAt(old, "critical")
      /\ ChangedAt(new, "critical") = ChangedAt(old, "critical")
      /\ new.changes = old.changes
  BY DEF VulnerableAt, ChangedAt, Improved
<1> QED
  BY <1>1, <1>2 DEF Blockers, Item

LEMMA NewWarning ==
  ASSUME NEW old, NEW new, Improved(old, new)
  PROVE  \/ Warnings(new) \subseteq Warnings(old)
         \/ /\ Warnings(new) \subseteq Warnings(old) \cup {HighSecurity}
            /\ HighSecurity \notin Warnings(old)
            /\ CriticalSecurity \in Blockers(old) /\ CriticalSecurity \notin Blockers(new)
<1>1. /\ SecurityAt(new, "critical") => SecurityAt(old, "critical")
      /\ SecurityAt(new, "high") => SecurityAt(old, "high")
      /\ SpofAtLeastHigh(new) => SpofAtLeastHigh(old)
      /\ NoBackup(new) => NoBackup(old)
  BY DEF SecurityAt, SpofAtLeastHigh, NoBackup, Has, Improved
<1>2. /\ VulnerableAt(new, "critical") = VulnerableAt(old, "critical")
      /\ VulnerableAt(new, "high") = VulnerableAt(old, "high")
      /\ ChangedAt(new, "critical") = ChangedAt(old, "critical")
      /\ ChangedAt(new, "high") = ChangedAt(old, "high")
      /\ new.changes = old.changes /\ new.age = old.age
  BY DEF VulnerableAt, ChangedAt, Improved
<1>3. CASE SecurityAt(old, "critical") /\ ~SecurityAt(new, "critical")
  <2>1. Warnings(new) \subseteq Warnings(old) \cup {HighSecurity}
    BY <1>1, <1>2, <1>3 DEF Warnings, Item, HighSecurity
  <2>2. HighSecurity \notin Warnings(old)
    BY <1>3 DEF Warnings, Item, HighSecurity
  <2>3. CriticalSecurity \in Blockers(old) /\ CriticalSecurity \notin Blockers(new)
    BY <1>3 DEF Blockers, Item, CriticalSecurity
  <2> QED
    BY <2>1, <2>2, <2>3
<1>4. CASE SecurityAt(old, "critical") => SecurityAt(new, "critical")
  BY <1>1, <1>2, <1>4 DEF Warnings, Item
<1> QED
  BY <1>1, <1>3, <1>4

LEMMA ItemSums ==
  ASSUME NEW S, IsFiniteSet(S), NEW T \in SUBSET S
  PROVE  /\ BlockerSum(S) \in Nat /\ BlockerSum(T) \in Nat /\ BlockerSum(T) <= BlockerSum(S)
         /\ WarningSum(S) \in Nat /\ WarningSum(T) \in Nat /\ WarningSum(T) <= WarningSum(S)
         /\ \A x \in S : /\ BlockerSum(S) = BlockerWeights(S)[x] + BlockerSum(S \ {x})
                         /\ WarningSum(S) = WarningWeights(S)[x] + WarningSum(S \ {x})
<1>1. \A U : /\ \A x \in U : BlockerWeights(U)[x] \in Nat
            /\ \A x \in U : WarningWeights(U)[x] \in Nat
  BY DEF BlockerWeights, WarningWeights
<1>2. IsFiniteSet(T)
  BY FS_Subset
<1>3. \A U \in {S, T} : /\ BlockerSum(U) = Total(BlockerWeights(U), U)
                      /\ WarningSum(U) = Total(WarningWeights(U), U)
  BY <1>2, BlockerSumIsTotal, WarningSumIsTotal
<1>4. /\ \A x \in T : BlockerWeights(T)[x] = BlockerWeights(S)[x]
      /\ \A x \in T : WarningWeights(T)[x] = WarningWeights(S)[x]
  BY DEF BlockerWeights, WarningWeights
<1>5. /\ \A x \in T : BlockerWeights(T)[x] \in Nat /\ BlockerWeights(T)[x] <= BlockerWeights(S)[x]
      /\ \A x \in T : WarningWeights(T)[x] \in Nat /\ WarningWeights(T)[x] <= WarningWeights(S)[x]
  BY <1>1, <1>4
<1>6. BlockerSum(S) \in Nat /\ BlockerSum(T) \in Nat /\ WarningSum(S) \in Nat /\ WarningSum(T) \in Nat
  BY <1>1, <1>2, <1>3, TotalNat
<1>7. BlockerSum(T) <= BlockerSum(S)
  BY <1>1, <1>3, <1>5, TotalMonotone
<1>8. WarningSum(T) <= WarningSum(S)
  BY <1>1, <1>3, <1>5, TotalMonotone
<1>9. ASSUME NEW x \in S
      PROVE  /\ BlockerSum(S) = BlockerWeights(S)[x] + BlockerSum(S \ {x})
             /\ WarningSum(S) = WarningWeights(S)[x] + WarningSum(S \ {x})
  <2> DEFINE U == S \ {x}
  <2>1. U \in SUBSET S /\ IsFiniteSet(U)
    BY FS_Subset
  <2>2. /\ Total(BlockerWeights(S), S) = BlockerWeights(S)[x] + Total(BlockerWeights(S), U)
        /\ Total(WarningWeights(S), S) = WarningWeights(S)[x] + Total(WarningWeights(S), U)
    BY <1>1, TotalTakeOut
  <2>3. /\ \A y \in U : BlockerWeights(U)[y] = BlockerWeights(S)[y]
        /\ \A y \in U : WarningWeights(U)[y] = WarningWeights(S)[y]
    BY DEF BlockerWeights, WarningWeights
  <2>4. /\ Total(BlockerWeights(U), U) = Total(BlockerWeights(S), U)
        /\ Total(WarningWeights(U), U) = Total(WarningWeights(S), U)
    BY <1>1, <2>1, <2>3, TotalsEqual
  <2>5. BlockerSum(U) = Total(BlockerWeights(U), U) /\ WarningSum(U) = Total(WarningWeights(U), U)
    BY <2>1, BlockerSumIsTotal, WarningSumIsTotal
  <2> HIDE DEF U
  <2>6. BlockerSum(S) = BlockerWeights(S)[x] + BlockerSum(U) /\ WarningSum(S) = WarningWeights(S)[x] + WarningSum(U)
    BY <1>3, <2>2, <2>4, <2>5
  <2> QED
    BY <2>6 DEF U
<1> QED
  BY <1>6, <1>7, <1>8, <1>9

LEMMA ReadinessImproves ==
  ASSUME NEW old, NEW new, Improved(old, new)
  PROVE  /\ ReadinessScore(new) >= ReadinessScore(old)
         /\ Verdict(new) = "blocked" => Verdict(old) = "blocked"
<1>1. new.analyzed = old.analyzed
  BY DEF Improved
<1>2. CASE ~old.analyzed
  <2>1. ReadinessScore(new) = 0 /\ ReadinessScore(old) = 0
    BY <1>1, <1>2 DEF ReadinessScore
  <2>2. Verdict(new) = "review"
    BY <1>1, <1>2 DEF Verdict
  <2> QED
    BY <2>1, <2>2
<1>3. CASE old.analyzed
  <2> DEFINE B == Blockers(old)
             C == Blockers(new)
             V == Warnings(old)
             W == Warnings(new)
  <2>1. C \subseteq B /\ IsFiniteSet(B) /\ IsFiniteSet(V) /\ IsFiniteSet(C) /\ IsFiniteSet(W)
    BY FewerBlockers, ItemsFinite
  <2>2. \/ W \subseteq V
        \/ /\ W \subseteq V \cup {HighSecurity} /\ HighSecurity \notin V
           /\ CriticalSecurity \in B /\ CriticalSecurity \notin C
    BY NewWarning
  <2>3. Verdict(new) = "blocked" => Verdict(old) = "blocked"
    BY <1>1, <1>3, <2>1 DEF Verdict
  <2>4. ReadinessScore(old) = Clamp(100 - BlockerSum(B) - WarningSum(V), 0, 100)
    BY <1>3, ReadinessIsClamped
  <2>5. ReadinessScore(new) = Clamp(100 - BlockerSum(C) - WarningSum(W), 0, 100)
    BY <1>1, <1>3, ReadinessIsClamped
  <2> HIDE DEF B, C, V, W
  <2>6. /\ BlockerSum(B) \in Nat /\ BlockerSum(C) \in Nat /\ WarningSum(V) \in Nat /\ WarningSum(W) \in Nat
        /\ BlockerSum(C) + WarningSum(W) <= BlockerSum(B) + WarningSum(V)
    <3>1. BlockerSum(B) \in Nat /\ BlockerSum(C) \in Nat /\ BlockerSum(C) <= BlockerSum(B)
      BY <2>1, ItemSums
    <3>2. WarningSum(V) \in Nat /\ WarningSum(W) \in Nat
      BY <2>1, ItemSums
    <3>3. CASE W \subseteq V
      <4>1. WarningSum(W) <= WarningSum(V)
        BY <2>1, <3>3, ItemSums
      <4> QED
        BY <3>1, <3>2, <4>1
    <3>4. CASE /\ W \subseteq V \cup {HighSecurity} /\ HighSecurity \notin V
               /\ CriticalSecurity \in B /\ CriticalSecurity \notin C
      <4> DEFINE D == B \ {CriticalSecurity}
                 U == V \cup {HighSecurity}
      <4>1. C \in SUBSET D /\ IsFiniteSet(D) /\ W \in SUBSET U
        BY <2>1, <3>4, FS_Subset
      <4>2. IsFiniteSet(U)
        BY <2>1, FS_Union, FS_Singleton
      <4>3. BlockerSum(B) = 34 + BlockerSum(D)
        <5>1. BlockerWeights(B)[CriticalSecurity] = 34
          BY <3>4 DEF BlockerWeights, CriticalSecurity
        <5>2. BlockerSum(B) = BlockerWeights(B)[CriticalSecurity] + BlockerSum(D)
          BY <2>1, <3>4, ItemSums
        <5> QED
          BY <5>1, <5>2
      <4>4. WarningSum(U) = 10 + WarningSum(V)
        <5>1. HighSecurity \in U /\ WarningWeights(U)[HighSecurity] = 10
          BY DEF WarningWeights, HighSecurity
        <5>2. U \ {HighSecurity} = V
          BY <3>4
        <5> HIDE DEF U
        <5>3. WarningSum(U) = WarningWeights(U)[HighSecurity] + WarningSum(U \ {HighSecurity})
          BY <4>2, <5>1, ItemSums
        <5> QED
          BY <5>1, <5>2, <5>3
      <4> HIDE DEF D, U
      <4>5. BlockerSum(C) <= BlockerSum(D) /\ BlockerSum(D) \in Nat
        BY <4>1, ItemSums
      <4>6. WarningSum(W) <= WarningSum(U) /\ WarningSum(U) \in Nat
        BY <4>1, <4>2, ItemSums
      <4> QED
        BY <3>1, <3>2, <4>3, <4>4, <4>5, <4>6
    <3> QED
      BY <2>2, <3>3, <3>4
  <2> DEFINE x == 100 - BlockerSum(B) - WarningSum(V)
             y == 100 - BlockerSum(C) - WarningSum(W)
  <2>7. x \in Int /\ y \in Int /\ x <= y
    BY <2>6
  <2> HIDE DEF x, y
  <2>8. Clamp(x, 0, 100) <= Clamp(y, 0, 100)
    <3>1. CASE y < 0
      BY <2>7, <3>1 DEF Clamp, Least
    <3>2. CASE 0 <= y /\ y <= 100
      BY <2>7, <3>2 DEF Clamp, Least
    <3>3. CASE 100 < y
      BY <2>7, <3>3 DEF Clamp, Least
    <3> QED
      BY <2>7, <3>1, <3>2, <3>3
  <2>9. ReadinessScore(new) >= ReadinessScore(old)
    <3>1. ReadinessScore(old) = Clamp(x, 0, 100) /\ ReadinessScore(new) = Clamp(y, 0, 100)
      BY <2>4, <2>5 DEF x, y
    <3>2. Clamp(x, 0, 100) \in Int /\ Clamp(y, 0, 100) \in Int
      BY <2>7 DEF Clamp, Least
    <3> QED
      BY <2>8, <3>1, <3>2
  <2> QED
    BY <2>3, <2>9
<1> QED
  BY <1>2, <1>3

-----------------------------------------------------------------------------
(* Places in the code's list of nodes.                                     *)
Placed(S) == \A n \in S : n.at \in Nat \X Nat

LEMMA LeastNumber ==
  ASSUME NEW S, S \subseteq Nat, S # {}
  PROVE  \E k \in S : \A j \in S : k <= j
<1> DEFINE R == {ss \in Nat \X Nat : ss[1] < ss[2]}
<1>1. IsWellFoundedOn(R, Nat)
  <2>1. R = OpToRel(<, Nat)
    BY DEF OpToRel
  <2> QED
    BY <2>1, NatLessThanWellFounded
<1>2. PICK k \in S : \A j \in S : ~(<<j, k>> \in R)
  <2> HIDE DEF R
  <2> QED
    BY <1>1, WFMin
<1>3. ASSUME NEW j \in S PROVE k <= j
  <2>1. <<j, k>> \in Nat \X Nat /\ <<j, k>>[1] = j /\ <<j, k>>[2] = k
    OBVIOUS
  <2>2. ~(j < k)
    BY <1>2, <2>1
  <2> QED
    BY <2>2
<1> QED
  BY <1>3

LEMMA FirstIsMember ==
  ASSUME NEW S, Placed(S), S # {}
  PROVE  First(S) \in S /\ \A b \in S : Before(First(S), b)
<1> DEFINE P == {n.at[1] : n \in S}
<1>1. P \subseteq Nat /\ P # {}
  BY DEF Placed
<1>2. PICK p \in P : \A q \in P : p <= q
  <2> HIDE DEF P
  <2> QED
    BY <1>1, LeastNumber
<1> DEFINE T == {n \in S : n.at[1] = p}
           Q == {n.at[2] : n \in T}
<1>3. Q \subseteq Nat /\ Q # {}
  BY <1>2 DEF Placed
<1>4. PICK q \in Q : \A r \in Q : q <= r
  <2> HIDE DEF Q
  <2> QED
    BY <1>3, LeastNumber
<1>5. PICK a \in S : a.at[1] = p /\ a.at[2] = q
  BY <1>4
<1>6. ASSUME NEW b \in S PROVE Before(a, b)
  <2>1. b.at[1] \in Nat /\ b.at[2] \in Nat /\ p \in Nat /\ q \in Nat /\ p <= b.at[1]
    BY <1>1, <1>2, <1>3, <1>4 DEF Placed
  <2>2. b.at[1] = p => q <= b.at[2]
    BY <1>4
  <2> QED
    BY <1>5, <2>1, <2>2 DEF Before
<1> QED
  BY <1>6 DEF First

LEMMA LargestExists ==
  ASSUME NEW S, IsFiniteSet(S), S # {}, NEW f, \A a \in S : f[a] \in Nat
  PROVE  \E a \in S : \A b \in S : f[b] <= f[a]
<1> DEFINE F == {T \in SUBSET S : T # {} /\ ~ \E a \in T : \A b \in T : f[b] <= f[a]}
<1>1. SUFFICES ASSUME F # {} PROVE FALSE
  BY <1>1
<1>2. F \subseteq SUBSET S
  OBVIOUS
<1>3. PICK T \in F : \A U \in F : U \subseteq T => U = T
  <2> HIDE DEF F
  <2> QED
    BY <1>1, <1>2, SmallestSubset
<1>4. PICK x \in T : TRUE
  BY <1>3
<1> DEFINE U == T \ {x}
<1>5. CASE U = {}
  <2>1. T = {x} /\ f[x] \in Nat
    BY <1>3, <1>4, <1>5
  <2> QED
    BY <1>3, <2>1
<1>6. CASE U # {}
  <2>1. U \notin F
    BY <1>3, <1>4
  <2>2. PICK a \in U : \A b \in U : f[b] <= f[a]
    BY <1>3, <1>6, <2>1
  <2>3. a \in T /\ x \in T /\ \A b \in T : f[b] \in Nat /\ (b = x \/ b \in U)
    BY <1>3, <1>4, <2>2
  <2>4. CASE f[x] <= f[a]
    BY <1>3, <2>2, <2>3, <2>4
  <2>5. CASE ~(f[x] <= f[a])
    <3>1. \A b \in T : f[b] <= f[x]
      BY <2>2, <2>3, <2>5
    <3> QED
      BY <1>3, <2>3, <3>1
  <2> QED
    BY <2>4, <2>5
<1> QED
  BY <1>5, <1>6

LEMMA LastIsMember ==
  ASSUME NEW S, IsFiniteSet(S), Placed(S), S # {}
  PROVE  Last(S) \in S
<1> DEFINE f == [n \in S |-> n.at[1]]
<1>1. \A n \in S : f[n] \in Nat /\ f[n] = n.at[1]
  BY DEF Placed
<1>2. PICK m \in S : \A n \in S : f[n] <= f[m]
  <2> HIDE DEF f
  <2> QED
    BY <1>1, LargestExists
<1> DEFINE T == {n \in S : f[n] = f[m]}
           g == [n \in T |-> n.at[2]]
<1>3. \A n \in T : g[n] \in Nat /\ g[n] = n.at[2]
  BY DEF Placed
<1>4. IsFiniteSet(T) /\ T # {}
  BY FS_Subset
<1>5. PICK b \in T : \A n \in T : g[n] <= g[b]
  <2> HIDE DEF T, g
  <2> QED
    BY <1>3, <1>4, LargestExists
<1>6. ASSUME NEW a \in S PROVE Before(a, b)
  <2>1. a.at[1] \in Nat /\ b.at[1] \in Nat /\ a.at[1] <= b.at[1]
    BY <1>1, <1>2, <1>5
  <2>2. a.at[1] = b.at[1] => a.at[2] <= b.at[2]
    BY <1>1, <1>3, <1>5
  <2> QED
    BY <2>1, <2>2 DEF Before
<1> QED
  BY <1>5, <1>6 DEF Last

-----------------------------------------------------------------------------
LEMMA ImageFinite ==
  ASSUME NEW S, IsFiniteSet(S), NEW f, NEW T \in SUBSET S
  PROVE  IsFiniteSet({f[x] : x \in T})
<1> DEFINE I == {f[x] : x \in T}
           g == [x \in T |-> f[x]]
<1>1. g \in Surjection(T, I)
  BY DEF Surjection
<1> QED
  BY <1>1, FS_Subset, FS_Surjection

(* A graph every engine can walk: nodes told apart by their ids, edges     *)
(* between two of them, one for a pair, and finitely many of both.         *)
Attributes == {"id", "at", "kind", "provider", "region", "redundant", "hasBackup",
               "hasRateLimit", "hasAuth", "spof", "estimated"}

Noded(S) == IsFiniteSet(S) /\ Placed(S) /\ \A n \in S : DOMAIN n = Attributes

Weighed(E) == IsFiniteSet(E) /\ \A e \in E : e = Edge(e.from, e.to, e.crit) /\ e.crit \in Int

ProperGraph(g) ==
    /\ WellFormed(g)
    /\ \A e \in g.edges : e.from # e.to
    /\ Noded(g.nodes) /\ Weighed(g.edges)

LEMMA ContributedNoded ==
  ASSUME NEW frags, IsFiniteSet(DOMAIN frags), DOMAIN frags \subseteq Nat,
         \A f \in DOMAIN frags : Noded(frags[f].nodes)
  PROVE  Noded(Contributed(frags))
<1> DEFINE D == DOMAIN frags
           c == [f \in D |-> PlacedAt(f, frags[f].nodes)]
<1>1. ASSUME NEW f \in D
      PROVE  IsFiniteSet(c[f]) /\ \A d \in c[f] : d.at \in Nat \X Nat /\ DOMAIN d = Attributes
  <2> DEFINE N == frags[f].nodes
             h == [n \in N |-> [n EXCEPT !.at = <<f, n.at[2]>>]]
  <2>1. c[f] = {h[n] : n \in N}
    BY <1>1 DEF PlacedAt
  <2>2. IsFiniteSet(N) /\ N \in SUBSET N
    BY <1>1 DEF Noded
  <2>3. \A n \in N : h[n].at \in Nat \X Nat /\ DOMAIN h[n] = Attributes
    <3> SUFFICES ASSUME NEW n \in N PROVE h[n].at \in Nat \X Nat /\ DOMAIN h[n] = Attributes
      OBVIOUS
    <3>1. n.at \in Nat \X Nat /\ DOMAIN n = Attributes /\ f \in Nat
      BY <1>1 DEF Noded, Placed
    <3> QED
      BY <3>1 DEF Attributes
  <2> HIDE DEF N, h
  <2>4. IsFiniteSet({h[n] : n \in N})
    BY <2>2, ImageFinite
  <2> HIDE DEF c
  <2> QED
    BY <2>1, <2>3, <2>4
<1> DEFINE U == {c[f] : f \in D}
<1>2. IsFiniteSet(U) /\ \A S \in U : IsFiniteSet(S)
  <2>1. D \in SUBSET D /\ IsFiniteSet(D)
    OBVIOUS
  <2> HIDE DEF c, D
  <2> QED
    BY <1>1, <2>1, ImageFinite
<1>3. Contributed(frags) = UNION U
  BY DEF Contributed
<1> HIDE DEF c
<1>4. IsFiniteSet(UNION U)
  <2> HIDE DEF U
  <2> QED
    BY <1>2, FS_UNION
<1>5. \A d \in UNION U : d.at \in Nat \X Nat /\ DOMAIN d = Attributes
  BY <1>1
<1> QED
  BY <1>3, <1>4, <1>5 DEF Noded, Placed

LEMMA MergedNoded ==
  ASSUME NEW C, Noded(C)
  PROVE  /\ Noded(MergeNodes(C))
         /\ {n.id : n \in MergeNodes(C)} = {n.id : n \in C}
         /\ \A m, n \in MergeNodes(C) : m.id = n.id => m = n
<1> DEFINE I == {n.id : n \in C}
           f == [id \in I |-> MergeNode(id, {n \in C : n.id = id})]
<1>1. MergeNodes(C) = {f[id] : id \in I}
  BY DEF MergeNodes
<1>2. \A id \in I : f[id].id = id /\ DOMAIN f[id] = Attributes
  BY DEF MergeNode, Attributes
<1>3. ASSUME NEW id \in I PROVE f[id].at \in Nat \X Nat
  <2> DEFINE S == {n \in C : n.id = id}
  <2>1. S # {} /\ Placed(S)
    BY <1>3 DEF Noded, Placed
  <2>2. First(S) \in S
    <3> HIDE DEF S
    <3> QED
      BY <2>1, FirstIsMember
  <2>3. f[id].at = First(S).at
    BY <1>3 DEF MergeNode
  <2> QED
    BY <2>1, <2>2, <2>3 DEF Placed
<1>4. IsFiniteSet({f[id] : id \in I})
  <2> DEFINE h == [n \in C |-> n.id]
  <2>1. I = {h[n] : n \in C}
    OBVIOUS
  <2>2. IsFiniteSet(C) /\ C \in SUBSET C /\ I \in SUBSET I
    BY DEF Noded
  <2> HIDE DEF h
  <2>3. IsFiniteSet({h[n] : n \in C})
    BY <2>2, ImageFinite
  <2>4. IsFiniteSet(I)
    BY <2>1, <2>3
  <2> HIDE DEF f, I
  <2> QED
    BY <2>2, <2>4, ImageFinite
<1> HIDE DEF f
<1> QED
  BY <1>1, <1>2, <1>3, <1>4 DEF Noded, Placed

LEMMA MergeIsProper ==
  ASSUME NEW frags, IsFiniteSet(DOMAIN frags), DOMAIN frags \subseteq Nat,
         \A f \in DOMAIN frags : Noded(frags[f].nodes) /\ Weighed(frags[f].edges)
  PROVE  ProperGraph(MergeFragments(frags))
<1> DEFINE C == Contributed(frags)
           g == MergeFragments(frags)
           EE == [f \in DOMAIN frags |-> frags[f].edges]
           U == {EE[f] : f \in DOMAIN frags}
           K == {e \in UNION U : e.from # e.to /\ {e.from, e.to} \subseteq {n.id : n \in C}}
<1>1. Noded(C)
  BY ContributedNoded
<1>2. g.nodes = MergeNodes(C) /\ g.edges = Strongest(K)
  BY DEF MergeFragments
<1>3. IsFiniteSet(U) /\ \A E \in U : IsFiniteSet(E)
  <2>1. \A f \in DOMAIN frags : IsFiniteSet(EE[f])
    BY DEF Weighed
  <2> DEFINE D == DOMAIN frags
  <2>2. IsFiniteSet(D) /\ D \in SUBSET D
    OBVIOUS
  <2>3. IsFiniteSet({EE[f] : f \in D})
    <3> HIDE DEF D, EE
    <3> QED
      BY <2>2, ImageFinite
  <2> QED
    BY <2>1, <2>3
<1>4. IsFiniteSet(UNION U)
  <2> HIDE DEF U
  <2> QED
    BY <1>3, FS_UNION
<1>5. \A e \in UNION U : e = Edge(e.from, e.to, e.crit) /\ e.crit \in Int
  BY DEF Weighed
<1>6. Strongest(K) \in SUBSET K /\ K \in SUBSET (UNION U)
  BY DEF Strongest
<1> HIDE DEF U, EE
<1>7. Weighed(g.edges)
  BY <1>2, <1>4, <1>5, <1>6, FS_Subset DEF Weighed
<1>8. \A d, e \in g.edges : d.from = e.from /\ d.to = e.to => d = e
  <2> SUFFICES ASSUME NEW d \in g.edges, NEW e \in g.edges, d.from = e.from, d.to = e.to
               PROVE  d = e
    OBVIOUS
  <2>1. d.crit <= e.crit /\ e.crit <= d.crit
    BY <1>2 DEF Strongest
  <2>2. d = Edge(d.from, d.to, d.crit) /\ e = Edge(e.from, e.to, e.crit)
        /\ d.crit \in Int /\ e.crit \in Int
    BY <1>2, <1>5, <1>6
  <2>3. d.crit = e.crit
    BY <2>1, <2>2
  <2> QED
    BY <2>2, <2>3
<1>9. \A e \in g.edges : e.from # e.to /\ {e.from, e.to} \subseteq {n.id : n \in C}
  BY <1>2, <1>6
<1> HIDE DEF g, C
<1>10. /\ Noded(g.nodes)
       /\ {n.id : n \in g.nodes} = {n.id : n \in C}
       /\ \A m, n \in g.nodes : m.id = n.id => m = n
  BY <1>1, <1>2, MergedNoded
<1>11. \A e \in g.edges : {e.from, e.to} \subseteq NodeIds(g)
  BY <1>9, <1>10 DEF NodeIds
<1>12. WellFormed(g)
  BY <1>8, <1>10, <1>11 DEF WellFormed
<1> QED
  BY <1>7, <1>9, <1>10, <1>12 DEF ProperGraph, g

LEMMA IdsAreNodes ==
  ASSUME NEW g, WellFormed(g), NEW n \in g.nodes
  PROVE  n.id \in NodeIds(g) /\ NodeOf(g, n.id) = n
  BY DEF WellFormed, NodeIds, NodeOf

LEMMA OnePerPairIs ==
  ASSUME NEW E
  PROVE  /\ OnePerPair(E) \subseteq E
         /\ \A d, e \in OnePerPair(E) : d.from = e.from /\ d.to = e.to => d = e
         /\ \A e \in E : \E d \in OnePerPair(E) : d.from = e.from /\ d.to = e.to
<1>1. ASSUME NEW e \in E
      PROVE  /\ Between(E, e.from, e.to) \in E
             /\ Between(E, e.from, e.to).from = e.from
             /\ Between(E, e.from, e.to).to = e.to
  BY DEF Between
<1> QED
  BY <1>1 DEF OnePerPair

LEMMA TwinIsVerified ==
  ASSUME NEW g, Placed(g.nodes), NEW n \in Remapped(g)
  PROVE  Twin(g, n) \in Verified(g) /\ Twin(g, n).kind = n.kind
<1> DEFINE T == Twins(g, n)
<1>1. T \subseteq Verified(g) /\ T # {} /\ \A v \in T : v.kind = n.kind
  BY DEF Twins, Remapped
<1>2. Placed(T)
  BY <1>1 DEF Verified, Placed
<1> HIDE DEF T
<1>3. First(T) \in T
  BY <1>1, <1>2, FirstIsMember
<1> QED
  BY <1>1, <1>3 DEF Twin, T

LEMMA FillKeeps ==
  ASSUME NEW v, NEW twins, DOMAIN v = Attributes
  PROVE  /\ DOMAIN Fill(v, twins) = Attributes
         /\ Fill(v, twins).id = v.id /\ Fill(v, twins).at = v.at /\ Fill(v, twins).kind = v.kind
         /\ Fill(v, twins).hasBackup = FillGap(v, twins, "hasBackup")
  BY DEF Fill, Attributes

LEMMA DedupeIsProper ==
  ASSUME NEW g, ProperGraph(g)
  PROVE  ProperGraph(DedupeEstimated(g))
<1> DEFINE Kept == g.nodes \ Remapped(g)
           F == [v \in Kept |-> Fill(v, {n \in Remapped(g) : Twin(g, n) = v})]
           M == [e \in g.edges |-> Edge(NewId(g, e.from), NewId(g, e.to), e.crit)]
           moved == {M[e] : e \in g.edges}
           E == {e \in moved : e.from # e.to}
           h == DedupeEstimated(g)
<1>1. h.nodes = {F[v] : v \in Kept} /\ h.edges = OnePerPair(E)
  BY DEF DedupeEstimated
<1>2. \A v \in Kept : DOMAIN F[v] = Attributes /\ F[v].id = v.id /\ F[v].at = v.at
  BY FillKeeps DEF ProperGraph, Noded
<1>3. /\ Noded(h.nodes) /\ {n.id : n \in h.nodes} = {n.id : n \in Kept}
      /\ \A m, n \in h.nodes : m.id = n.id => m = n
  <2>1. Kept \in SUBSET g.nodes /\ Placed(Kept) /\ IsFiniteSet(g.nodes)
    BY DEF ProperGraph, Noded, Placed
  <2>2. \A m, n \in Kept : m.id = n.id => m = n
    BY DEF ProperGraph, WellFormed
  <2> HIDE DEF F, Kept, h
  <2>3. IsFiniteSet({F[v] : v \in Kept})
    BY <2>1, ImageFinite
  <2> QED
    BY <1>1, <1>2, <2>1, <2>2, <2>3 DEF Noded, Placed
<1>4. ASSUME NEW id \in NodeIds(g) PROVE NewId(g, id) \in {n.id : n \in Kept}
  <2>1. PICK n \in g.nodes : n.id = id /\ NodeOf(g, id) = n
    BY IdsAreNodes DEF NodeIds, ProperGraph
  <2>2. CASE n \in Remapped(g)
    <3>1. NewId(g, id) = Twin(g, n).id
      BY <2>1, <2>2 DEF NewId
    <3>2. Twin(g, n) \in Verified(g)
      BY <2>2, TwinIsVerified DEF ProperGraph, Noded
    <3>3. Twin(g, n) \in Kept
      BY <3>2 DEF Verified, Remapped
    <3> QED
      BY <3>1, <3>3
  <2>3. CASE n \notin Remapped(g)
    <3>1. \A m \in Remapped(g) : m.id # id
      BY <2>1, <2>3 DEF Remapped, ProperGraph, WellFormed
    <3> QED
      BY <2>1, <2>3, <3>1 DEF NewId
  <2> QED
    BY <2>2, <2>3
<1>5. \A e \in E : /\ e = Edge(e.from, e.to, e.crit) /\ e.crit \in Int /\ e.from # e.to
                  /\ {e.from, e.to} \subseteq {n.id : n \in Kept}
  <2>3. ASSUME NEW d \in g.edges
               PROVE  /\ M[d] = Edge(M[d].from, M[d].to, M[d].crit) /\ M[d].crit \in Int
                      /\ {M[d].from, M[d].to} \subseteq {n.id : n \in Kept}
    <3>1. d.from \in NodeIds(g) /\ d.to \in NodeIds(g) /\ d.crit \in Int
      BY DEF ProperGraph, WellFormed, Weighed
    <3>2. M[d] = Edge(NewId(g, d.from), NewId(g, d.to), d.crit)
      OBVIOUS
    <3>3. M[d].from = NewId(g, d.from) /\ M[d].to = NewId(g, d.to) /\ M[d].crit = d.crit
      BY <3>2 DEF Edge
    <3> HIDE DEF Kept, M
    <3> QED
      BY <1>4, <3>1, <3>2, <3>3
  <2> HIDE DEF Kept, M
  <2> QED
    BY <2>3
<1>6. IsFiniteSet(E)
  <2>1. IsFiniteSet(g.edges) /\ g.edges \in SUBSET g.edges
    BY DEF ProperGraph, Weighed
  <2> HIDE DEF M
  <2>2. IsFiniteSet(moved)
    BY <2>1, ImageFinite
  <2> QED
    BY <2>2, FS_Subset
<1> HIDE DEF E, F, Kept, h
<1>7. h.edges \subseteq E /\ \A d, e \in h.edges : d.from = e.from /\ d.to = e.to => d = e
  BY <1>1, OnePerPairIs
<1>8. Weighed(h.edges)
  BY <1>5, <1>6, <1>7, FS_Subset DEF Weighed
<1>9. \A e \in h.edges : e.from # e.to /\ {e.from, e.to} \subseteq NodeIds(h)
  BY <1>3, <1>5, <1>7 DEF NodeIds
<1> QED
  BY <1>3, <1>7, <1>8, <1>9 DEF ProperGraph, WellFormed, h

(* Once there is an API or a service every backing node has a caller.      *)
Supported(g) ==
    OfKind(g, {"api", "service"}) # {} =>
        \A n \in g.nodes : n.kind \in BackingKinds => IncomingEdges(g, n.id) # {}

LEMMA UnionsAreProper ==
  ASSUME NEW A, NEW B
  PROVE  /\ Weighed(A) /\ Weighed(B) => Weighed(A \cup B)
         /\ Noded(A) /\ Noded(B) => Noded(A \cup B)
<1>1. IsFiniteSet(A) /\ IsFiniteSet(B) => IsFiniteSet(A \cup B)
  BY FS_Union
<1> QED
  BY <1>1 DEF Weighed, Noded, Placed

LEMMA PrimaryApiIsNode ==
  ASSUME NEW g, ProperGraph(g), OfKind(g, {"api", "service"}) # {}
  PROVE  PrimaryApi(g) \in g.nodes /\ PrimaryApi(g).kind \in {"api", "service"}
<1> DEFINE A == OfKind(g, {"api", "service"})
           f == [n \in A |-> Cardinality(OutgoingEdges(g, n.id))]
           T == {n \in A : \A m \in A : f[m] <= f[n]}
<1>1. IsFiniteSet(A) /\ Placed(A) /\ A \subseteq g.nodes /\ \A n \in A : n.kind \in {"api", "service"}
  <2>1. A \in SUBSET g.nodes /\ \A n \in A : n.kind \in {"api", "service"}
    BY DEF OfKind
  <2> QED
    BY <2>1, FS_Subset DEF ProperGraph, Noded, Placed
<1>2. ASSUME NEW n \in A PROVE f[n] \in Nat
  <2>1. IsFiniteSet(OutgoingEdges(g, n.id))
    BY FS_Subset DEF OutgoingEdges, ProperGraph, Weighed
  <2> QED
    BY <2>1, FS_CardinalityType
<1>3. PrimaryApi(g) = First(T)
  BY DEF PrimaryApi
<1> HIDE DEF A, f
<1>4. T # {}
  BY <1>1, <1>2, LargestExists DEF A
<1>5. T \subseteq A /\ Placed(T)
  BY <1>1 DEF Placed
<1> HIDE DEF T
<1> QED
  BY <1>1, <1>3, <1>4, <1>5, FirstIsMember

LEMMA OrphansAreConnected ==
  ASSUME NEW g, ProperGraph(g)
  PROVE  /\ ProperGraph(ConnectOrphans(g))
         /\ Supported(ConnectOrphans(g))
         /\ ConnectOrphans(g).nodes = g.nodes
<1>1. CASE OfKind(g, {"api", "service"}) = {}
  BY <1>1 DEF ConnectOrphans, Supported
<1>2. CASE OfKind(g, {"api", "service"}) # {}
  <2> DEFINE p == PrimaryApi(g)
             O == Orphans(g)
             f == [n \in O |-> Edge(p.id, n.id, OrphanCriticality(n.kind))]
             New == {f[n] : n \in O}
             h == ConnectOrphans(g)
  <2>1. h.nodes = g.nodes /\ h.edges = g.edges \cup New
    BY <1>2 DEF ConnectOrphans
  <2>2. p \in g.nodes /\ p.kind \in {"api", "service"}
    BY <1>2, PrimaryApiIsNode
  <2>3. O \in SUBSET g.nodes /\ IsFiniteSet(O)
        /\ \A n \in O : n.kind \in BackingKinds /\ IncomingEdges(g, n.id) = {}
    BY FS_Subset DEF Orphans, ProperGraph, Noded
  <2>4. \A n \in O : /\ f[n].from = p.id /\ f[n].to = n.id /\ f[n].crit \in Int
                     /\ f[n] = Edge(f[n].from, f[n].to, f[n].crit)
    BY DEF Edge, OrphanCriticality
  <2>5. \A n \in O : p.id # n.id
    BY <2>2, <2>3 DEF BackingKinds, ProperGraph, WellFormed
  <2> HIDE DEF p, O, f, h
  <2>6. IsFiniteSet(New)
    BY <2>3, ImageFinite
  <2>7. Weighed(h.edges)
    <3>1. Weighed(New)
      BY <2>4, <2>6 DEF Weighed
    <3> QED
      BY <2>1, <3>1, UnionsAreProper DEF ProperGraph
  <2>8. \A n \in g.nodes : n.id \in NodeIds(g)
    BY DEF NodeIds
  <2>9. NodeIds(h) = NodeIds(g)
    BY <2>1 DEF NodeIds
  <2>10. \A e \in h.edges : e.from # e.to /\ {e.from, e.to} \subseteq NodeIds(h)
    <3>1. \A e \in New : e.from # e.to /\ {e.from, e.to} \subseteq NodeIds(g)
      BY <2>2, <2>3, <2>4, <2>5, <2>8
    <3>2. \A e \in g.edges : e.from # e.to /\ {e.from, e.to} \subseteq NodeIds(g)
      BY DEF ProperGraph, WellFormed
    <3> QED
      BY <2>1, <2>9, <3>1, <3>2
  <2>11. ASSUME NEW d \in h.edges, NEW e \in h.edges, d.from = e.from, d.to = e.to PROVE d = e
    <3>1. CASE d \in g.edges /\ e \in g.edges
      BY <2>11, <3>1 DEF ProperGraph, WellFormed
    <3>2. CASE d \in New /\ e \in New
      BY <2>3, <2>4, <2>11, <3>2 DEF ProperGraph, WellFormed
    <3>3. \A a \in g.edges, b \in New : a.to # b.to
      BY <2>3, <2>4 DEF IncomingEdges
    <3> QED
      BY <2>1, <2>11, <3>1, <3>2, <3>3
  <2>12. ProperGraph(h)
    <3>1. WellFormed(h)
      BY <2>1, <2>10, <2>11 DEF ProperGraph, WellFormed
    <3> QED
      BY <2>1, <2>7, <2>10, <3>1 DEF ProperGraph
  <2>13. Supported(h)
    <3> SUFFICES ASSUME NEW n \in g.nodes, n.kind \in BackingKinds
                 PROVE  IncomingEdges(h, n.id) # {}
      BY <2>1 DEF Supported
    <3>1. CASE IncomingEdges(g, n.id) # {}
      BY <2>1, <3>1 DEF IncomingEdges
    <3>2. CASE IncomingEdges(g, n.id) = {}
      <4>1. n \in O
        BY <3>2 DEF O, Orphans
      <4>2. f[n] \in h.edges /\ f[n].to = n.id
        BY <2>1, <2>4, <4>1
      <4> QED
        BY <4>2 DEF IncomingEdges
    <3> QED
      BY <3>1, <3>2
  <2> QED
    BY <2>1, <2>12, <2>13 DEF h
<1> QED
  BY <1>1, <1>2

LEMMA UniqueByIdIs ==
  ASSUME NEW S, Placed(S)
  PROVE  /\ UniqueById(S) \subseteq S
         /\ \A m, n \in UniqueById(S) : m.id = n.id => m = n
<1>1. ASSUME NEW c \in S PROVE First({d \in S : d.id = c.id}) \in {d \in S : d.id = c.id}
  <2> DEFINE T == {d \in S : d.id = c.id}
  <2>1. T # {} /\ Placed(T)
    BY DEF Placed
  <2> HIDE DEF T
  <2>2. First(T) \in T
    BY <2>1, FirstIsMember
  <2> QED
    BY <2>2 DEF T
<1> QED
  BY <1>1 DEF UniqueById

LEMMA AttachIsProper ==
  ASSUME NEW g, ProperGraph(g), Supported(g),
         NEW C, IsFiniteSet(C), Placed(C), \A c \in C : c.kind \in AiKinds
  PROVE  /\ ProperGraph(AttachAiComponents(g, C))
         /\ Supported(AttachAiComponents(g, C))
<1> DEFINE N == Fresh(g, C)
           fN == [c \in N |-> AiNode(c)]
           NN == {fN[c] : c \in N}
           X == AiEdges(g, N)
           h == AttachAiComponents(g, C)
<1>1. h.nodes = g.nodes \cup NN /\ h.edges = g.edges \cup X
  BY DEF AttachAiComponents
<1>2. /\ N \in SUBSET C /\ IsFiniteSet(N) /\ Placed(N)
      /\ \A c \in N : c.id \notin NodeIds(g) /\ c.kind \in AiKinds
      /\ \A c, d \in N : c.id = d.id => c = d
  <2>1. N \in SUBSET C /\ \A c \in N : c.id \notin NodeIds(g)
    BY UniqueByIdIs DEF Fresh
  <2>2. \A c, d \in N : c.id = d.id => c = d
    BY UniqueByIdIs DEF Fresh
  <2> QED
    BY <2>1, <2>2, FS_Subset DEF Placed
<1>3. \A c \in N : /\ fN[c].id = c.id /\ fN[c].kind = c.kind /\ fN[c].at = c.at
                   /\ DOMAIN fN[c] = Attributes
  BY DEF AiNode, PlainNode, Attributes
<1> HIDE DEF N, fN, h
<1>4. IsFiniteSet(NN)
  BY <1>2, ImageFinite
<1>5. Noded(h.nodes)
  <2>1. Noded(NN)
    BY <1>2, <1>3, <1>4 DEF Noded, Placed
  <2>2. Noded(g.nodes)
    BY DEF ProperGraph
  <2> HIDE DEF NN, X
  <2> QED
    BY <1>1, <2>1, <2>2, UnionsAreProper
<1>6. ASSUME NEW m \in h.nodes, NEW n \in h.nodes, m.id = n.id PROVE m = n
  <2>1. \A a \in NN : a.id \notin NodeIds(g)
    BY <1>2, <1>3
  <2>2. \A a, b \in NN : a.id = b.id => a = b
    BY <1>2, <1>3
  <2>3. \A a, b \in g.nodes : a.id \in NodeIds(g) /\ (a.id = b.id => a = b)
    BY DEF NodeIds, ProperGraph, WellFormed
  <2> QED
    BY <1>1, <1>6, <2>1, <2>2, <2>3
<1> DEFINE Ids == {c.id : c \in N}
<1>7. NodeIds(h) = NodeIds(g) \cup Ids
  BY <1>1, <1>3 DEF NodeIds
<1>8. Callers(g) \subseteq NodeIds(g) /\ IsFiniteSet(Callers(g))
  <2> DEFINE T == IF OfKind(g, {"api", "service"}) # {} THEN OfKind(g, {"api", "service"})
                                                       ELSE OfKind(g, {"frontend"})
             k == [n \in g.nodes |-> n.id]
  <2>1. T \in SUBSET g.nodes /\ IsFiniteSet(g.nodes)
    BY DEF OfKind, ProperGraph, Noded
  <2>2. Callers(g) = {k[n] : n \in T}
    <3>1. \A n \in T : k[n] = n.id
      BY <2>1
    <3> HIDE DEF k
    <3>2. {k[n] : n \in T} = {n.id : n \in T}
      BY <3>1
    <3> QED
      BY <3>2 DEF Callers
  <2>3. IsFiniteSet({k[n] : n \in T})
    <3> HIDE DEF T, k
    <3> QED
      BY <2>1, ImageFinite
  <2> QED
    BY <2>1, <2>2, <2>3 DEF NodeIds
<1> DEFINE K == Callers(g)
           agents == {c \in N : c.kind = "ai_agent"}
           agent == First(agents)
           F5 == [q \in K \X N |-> Edge(q[1], q[2].id, 5)]
           F8 == [c \in N |-> Edge(agent.id, c.id, 8)]
           Apart == {d \in N : d.id # agent.id}
<1>9. agents # {} => agent \in N
  <2>1. Placed(agents) /\ agents \subseteq N
    BY <1>2 DEF Placed
  <2> HIDE DEF agents
  <2> QED
    BY <2>1, FirstIsMember
<1>10. /\ IsFiniteSet(X)
       /\ \A e \in X : /\ e = Edge(e.from, e.to, e.crit) /\ e.crit \in Int
                       /\ e.from \in NodeIds(h) /\ e.to \in Ids /\ e.from # e.to
       /\ \A d, e \in X : d.from = e.from /\ d.to = e.to => d = e
  <2>1. IsFiniteSet(K \X N)
    BY <1>2, <1>8, FS_Product
  <2>2. CASE agents # {}
    <3> DEFINE E5 == {Edge(f, agent.id, 5) : f \in K}
               E8 == {Edge(agent.id, c.id, 8) : c \in Apart}
               f5 == [f \in K |-> Edge(f, agent.id, 5)]
    <3>1. X = E5 \cup E8
      BY <2>2 DEF AiEdges
    <3>2. IsFiniteSet(E5)
      <4>1. \A f \in K : f5[f] = Edge(f, agent.id, 5)
        OBVIOUS
      <4>2. IsFiniteSet(K) /\ K \in SUBSET K
        BY <1>8
      <4> HIDE DEF f5, K, agent
      <4>3. {f5[f] : f \in K} = E5
        BY <4>1
      <4>4. IsFiniteSet({f5[f] : f \in K})
        BY <4>2, ImageFinite
      <4> QED
        BY <4>3, <4>4
    <3>3. IsFiniteSet(E8)
      <4>1. \A c \in Apart : F8[c] = Edge(agent.id, c.id, 8)
        OBVIOUS
      <4>2. IsFiniteSet(N) /\ Apart \in SUBSET N
        BY <1>2
      <4> HIDE DEF F8, Apart, agent
      <4>3. {F8[c] : c \in Apart} = E8
        BY <4>1
      <4>4. IsFiniteSet({F8[c] : c \in Apart})
        BY <4>2, ImageFinite
      <4> QED
        BY <4>3, <4>4
    <3> HIDE DEF E5, E8, F8, f5
    <3>4. IsFiniteSet(X)
      BY <3>1, <3>2, <3>3, FS_Union
    <3>5. \A e \in X : /\ e = Edge(e.from, e.to, e.crit) /\ e.crit \in {5, 8}
                       /\ \/ e.from \in K /\ e.to = agent.id /\ e.crit = 5
                          \/ e.from = agent.id /\ e.to \in Ids \ {agent.id} /\ e.crit = 8
      <4>1. \A e \in E5 : e = Edge(e.from, e.to, e.crit) /\ e.from \in K
                          /\ e.to = agent.id /\ e.crit = 5
        BY DEF Edge, E5
      <4>2. \A e \in E8 : /\ e = Edge(e.from, e.to, e.crit) /\ e.from = agent.id
                          /\ e.to \in Ids \ {agent.id} /\ e.crit = 8
        BY DEF Edge, E8
      <4> HIDE DEF X, K, Ids, agent
      <4> QED
        BY <3>1, <4>1, <4>2
    <3>6. agent.id \in Ids /\ agent.id \notin K
      BY <1>2, <1>8, <1>9, <2>2
    <3> HIDE DEF X, agent, Ids, K
    <3>7. \A d, e \in X : d.from = e.from /\ d.to = e.to => d = e
      BY <3>5, <3>6
    <3>8. \A e \in X : e.crit \in Int /\ e.from \in NodeIds(h) /\ e.to \in Ids /\ e.from # e.to
      BY <1>7, <1>8, <3>5, <3>6 DEF K
    <3> QED
      BY <3>4, <3>5, <3>7, <3>8
  <2>3. CASE agents = {}
    <3> DEFINE E == {Edge(f, c.id, 5) : f \in K, c \in N}
    <3>1. X = E
      BY <2>3 DEF AiEdges
    <3>2. IsFiniteSet(X)
      <4> DEFINE P == K \X N
      <4>1. IsFiniteSet(P) /\ P \in SUBSET P
        BY <2>1
      <4>2. \A q \in P : q[1] \in K /\ q[2] \in N /\ F5[q] = Edge(q[1], q[2].id, 5)
        OBVIOUS
      <4>3. \A f \in K, c \in N : <<f, c>> \in P /\ <<f, c>>[1] = f /\ <<f, c>>[2] = c
        OBVIOUS
      <4> HIDE DEF F5, P, K
      <4>4. IsFiniteSet({F5[q] : q \in P})
        BY <4>1, ImageFinite
      <4>5. {F5[q] : q \in P} = E
        <5>1. \A f \in K, c \in N : F5[<<f, c>>] = Edge(f, c.id, 5)
          BY <4>2, <4>3
        <5>2. ASSUME NEW x \in E
              PROVE  x \in {F5[q] : q \in P}
          <6>1. PICK f \in K, c \in N : x = Edge(f, c.id, 5)
            BY <5>2
          <6>2. <<f, c>> \in P /\ x = F5[<<f, c>>]
            BY <4>3, <5>1, <6>1
          <6> QED
            BY <6>2
        <5>3. ASSUME NEW x \in {F5[q] : q \in P}
              PROVE  x \in E
          BY <4>2
        <5> QED
          BY <5>2, <5>3
      <4> QED
        <5> HIDE DEF E, X
        <5> QED
          BY <3>1, <4>4, <4>5
    <3>3. \A e \in X : /\ e = Edge(e.from, e.to, e.crit) /\ e.crit = 5
                       /\ e.from \in K /\ e.to \in Ids
      BY <3>1 DEF Edge
    <3>4. \A i \in Ids : i \notin K
      BY <1>2, <1>8
    <3> HIDE DEF X, Ids, K
    <3> QED
      BY <1>7, <1>8, <3>2, <3>3, <3>4 DEF K
  <2> QED
    BY <2>2, <2>3
<1> HIDE DEF X
<1>11. Weighed(h.edges)
  <2>1. Weighed(X)
    BY <1>10 DEF Weighed
  <2> QED
    BY <1>1, <2>1, UnionsAreProper DEF ProperGraph
<1>12. \A e \in g.edges : e.from # e.to /\ {e.from, e.to} \subseteq NodeIds(g)
  BY DEF ProperGraph, WellFormed
<1>13. \A i \in Ids : i \notin NodeIds(g)
  BY <1>2
<1> HIDE DEF Ids
<1>14. \A e \in h.edges : e.from # e.to /\ {e.from, e.to} \subseteq NodeIds(h)
  BY <1>1, <1>7, <1>10, <1>12
<1>15. ASSUME NEW d \in h.edges, NEW e \in h.edges, d.from = e.from, d.to = e.to PROVE d = e
  <2>1. CASE d \in g.edges /\ e \in g.edges
    BY <1>15, <2>1 DEF ProperGraph, WellFormed
  <2>2. CASE d \in X /\ e \in X
    BY <1>10, <1>15, <2>2
  <2>3. \A a \in g.edges, b \in X : a.to # b.to
    BY <1>10, <1>12, <1>13
  <2> QED
    BY <1>1, <1>15, <2>1, <2>2, <2>3
<1>16. ProperGraph(h)
  <2>1. WellFormed(h)
    BY <1>6, <1>14, <1>15 DEF WellFormed
  <2> QED
    BY <1>5, <1>11, <1>14, <2>1 DEF ProperGraph
<1>17. Supported(h)
  <2>1. \A a \in NN : a.kind \notin BackingKinds /\ a.kind \notin {"api", "service"}
    BY <1>2, <1>3 DEF BackingKinds, AiKinds
  <2>2. OfKind(h, {"api", "service"}) = OfKind(g, {"api", "service"})
    BY <1>1, <2>1 DEF OfKind
  <2>3. \A id : IncomingEdges(g, id) \subseteq IncomingEdges(h, id)
    BY <1>1 DEF IncomingEdges
  <2>4. \A n \in h.nodes : n.kind \in BackingKinds => n \in g.nodes
    BY <1>1, <2>1
  <2> QED
    BY <2>2, <2>3, <2>4 DEF Supported
<1> QED
  BY <1>16, <1>17 DEF h

LEMMA OverlayIsWellFormed ==
  ASSUME NEW g, ProperGraph(g), NEW o, Placed(o.added)
  PROVE  WellFormed(ApplyOverlay(g, o))
<1> DEFINE kept == {n \in g.nodes : n.id \notin o.removed}
           F(n) == IF n.id \in DOMAIN o.overrides
                   THEN [n EXCEPT !.hasBackup = o.overrides[n.id]] ELSE n
           fixed == {F(n) : n \in kept}
           fresh == {n \in UniqueById(o.added) : n.id \notin {m.id : m \in kept}}
           nodes == fixed \cup fresh
           ids == {n.id : n \in nodes}
           edges == EdgesKept(g, o)
           drawn == {q \in o.drawn : {q[1], q[2]} \subseteq ids
                        /\ ~\E e \in edges : e.from = q[1] /\ e.to = q[2]}
           h == ApplyOverlay(g, o)
<1>1. h.nodes = nodes /\ h.edges = edges \cup {Edge(p[1], p[2], 10) : p \in drawn}
  BY DEF ApplyOverlay
<1>2. \A n \in kept : F(n).id = n.id
  BY DEF ProperGraph, Noded, Attributes
<1>3. \A m, n \in kept : m.id = n.id => m = n
  BY DEF ProperGraph, WellFormed
<1>4. /\ \A m \in fresh : m.id \notin {n.id : n \in kept}
      /\ \A m, n \in fresh : m.id = n.id => m = n
  BY UniqueByIdIs
<1>5. \A e \in edges : /\ e \in g.edges
                       /\ {e.from, e.to} \subseteq {n.id : n \in kept}
  <2> SUFFICES ASSUME NEW e \in edges
               PROVE  e \in g.edges /\ {e.from, e.to} \subseteq {n.id : n \in kept}
    OBVIOUS
  <2>1. e \in g.edges /\ {e.from, e.to} \cap o.removed = {}
    BY DEF EdgesKept
  <2>2. PICK m \in g.nodes, n \in g.nodes : m.id = e.from /\ n.id = e.to
    BY <2>1 DEF ProperGraph, WellFormed, NodeIds
  <2>3. m \in kept /\ n \in kept
    BY <2>1, <2>2
  <2> QED
    BY <2>1, <2>2, <2>3
<1> HIDE DEF F, kept, fresh, h
<1>6. ids = {n.id : n \in kept} \cup {n.id : n \in fresh}
  BY <1>2
<1>7. \A m, n \in h.nodes : m.id = n.id => m = n
  BY <1>1, <1>2, <1>3, <1>4
<1> HIDE DEF edges, nodes
<1>8. \A p \in drawn : /\ Edge(p[1], p[2], 10).from = p[1] /\ Edge(p[1], p[2], 10).to = p[2]
                       /\ {p[1], p[2]} \subseteq ids
  BY DEF Edge
<1>9. \A e \in h.edges : {e.from, e.to} \subseteq NodeIds(h)
  <2>1. NodeIds(h) = ids
    BY <1>1 DEF NodeIds
  <2> HIDE DEF ids
  <2> QED
    BY <1>1, <1>5, <1>6, <1>8, <2>1
<1>10. ASSUME NEW d \in h.edges, NEW e \in h.edges, d.from = e.from, d.to = e.to PROVE d = e
  <2>1. CASE d \in edges /\ e \in edges
    BY <1>5, <1>10, <2>1 DEF ProperGraph, WellFormed
  <2>2. \A a \in edges, p \in drawn : ~(a.from = p[1] /\ a.to = p[2])
    OBVIOUS
  <2> HIDE DEF drawn
  <2>3. CASE d \notin edges /\ e \notin edges
    <3>1. PICK p \in drawn, q \in drawn : d = Edge(p[1], p[2], 10) /\ e = Edge(q[1], q[2], 10)
      BY <1>1, <2>3
    <3>2. p[1] = q[1] /\ p[2] = q[2]
      BY <1>8, <1>10, <3>1
    <3> QED
      BY <3>1, <3>2
  <2>4. \A a \in edges, p \in drawn : ~(a.from = Edge(p[1], p[2], 10).from
                                        /\ a.to = Edge(p[1], p[2], 10).to)
    BY <1>8, <2>2
  <2> QED
    BY <1>1, <1>10, <2>1, <2>3, <2>4
<1> QED
  BY <1>7, <1>9, <1>10 DEF WellFormed, h

-----------------------------------------------------------------------------
(* What every fragment is.                                                 *)
Fragment(f) == Noded(f.nodes) /\ Weighed(f.edges)

LEMMA ListIs ==
  ASSUME NEW s, IsList(s)
  PROVE  /\ Len(s) \in Nat /\ DOMAIN s = 1..Len(s)
         /\ IsFiniteSet(DOMAIN s) /\ DOMAIN s \subseteq Nat
<1>1. Len(s) \in Nat /\ DOMAIN s = 1..Len(s)
  BY DEF IsList
<1>2. IsFiniteSet(1..Len(s))
  BY <1>1, FS_Interval
<1> QED
  BY <1>1, <1>2

LEMMA EightAreFinite ==
  ASSUME NEW a, NEW b, NEW c, NEW d, NEW e, NEW f, NEW g, NEW h
  PROVE  IsFiniteSet({a, b, c, d, e, f, g, h})
<1>1. IsFiniteSet({a} \cup {b})
  BY FS_Singleton, FS_Union
<1>2. IsFiniteSet({a} \cup {b} \cup {c})
  BY <1>1, FS_Singleton, FS_Union
<1>3. IsFiniteSet({a} \cup {b} \cup {c} \cup {d})
  BY <1>2, FS_Singleton, FS_Union
<1>4. IsFiniteSet({a} \cup {b} \cup {c} \cup {d} \cup {e})
  BY <1>3, FS_Singleton, FS_Union
<1>5. IsFiniteSet({a} \cup {b} \cup {c} \cup {d} \cup {e} \cup {f})
  BY <1>4, FS_Singleton, FS_Union
<1>6. IsFiniteSet({a} \cup {b} \cup {c} \cup {d} \cup {e} \cup {f} \cup {g})
  BY <1>5, FS_Singleton, FS_Union
<1>7. IsFiniteSet({a} \cup {b} \cup {c} \cup {d} \cup {e} \cup {f} \cup {g} \cup {h})
  BY <1>6, FS_Singleton, FS_Union
<1>8. {a} \cup {b} \cup {c} \cup {d} \cup {e} \cup {f} \cup {g} \cup {h} = {a, b, c, d, e, f, g, h}
  OBVIOUS
<1> QED
  BY <1>7, <1>8

LEMMA HintIs ==
  ASSUME NEW place \in Nat, NEW id, NEW kind, NEW provider, NEW backup, NEW rate, NEW redundant
  PROVE  LET n == Hint(place, id, kind, provider, backup, rate, redundant)
         IN  DOMAIN n = Attributes /\ n.at \in Nat \X Nat
BY DEF Hint, PlainNode, Attributes

LEMMA HintsAreNoded == Noded(ServiceHints)
<1>1. IsFiniteSet(ServiceHints)
  BY EightAreFinite DEF ServiceHints
<1>2. \A n \in ServiceHints : DOMAIN n = Attributes /\ n.at \in Nat \X Nat
  BY HintIs DEF ServiceHints
<1> QED
  BY <1>1, <1>2 DEF Noded, Placed

LEMMA RepoIsFragment == ASSUME NEW r PROVE Fragment(RepoFragment(r))
<1> DEFINE source == IF HasApi(r) THEN ApiId(r) ELSE FrontendId(r)
           B == Backing(r)
           front == IF r.frontend THEN {FrontendNode(r)} ELSE {}
           api == IF HasApi(r) THEN {ApiNode(r)} ELSE {}
           call == IF r.frontend /\ HasApi(r) THEN {Edge(FrontendId(r), ApiId(r), 10)} ELSE {}
           f == [n \in B |-> Edge(source, n.id, EdgeCriticality(n.kind))]
           calls == {f[n] : n \in B}
           h == RepoFragment(r)
<1>1. h.nodes = front \cup api \cup B /\ h.edges = call \cup calls
  BY DEF RepoFragment
<1>2. Noded(B)
  <2>1. B \subseteq ServiceHints
    BY DEF Backing
  <2> QED
    BY <2>1, HintsAreNoded, FS_Subset DEF Noded, Placed
<1>3. Noded(front) /\ Noded(api)
  <2>1. IsFiniteSet(front) /\ IsFiniteSet(api)
    BY FS_EmptySet, FS_Singleton
  <2>2. DOMAIN FrontendNode(r) = Attributes /\ FrontendNode(r).at = <<0, 1>>
    BY DEF FrontendNode, PlainNode, Attributes
  <2>3. DOMAIN ApiNode(r) = Attributes /\ ApiNode(r).at = <<0, 2>>
    BY DEF ApiNode, PlainNode, Attributes
  <2> QED
    BY <2>1, <2>2, <2>3 DEF Noded, Placed
<1>4. Weighed(call)
  <2>1. IsFiniteSet(call)
    BY FS_EmptySet, FS_Singleton
  <2>2. \A e \in call : e = Edge(e.from, e.to, e.crit) /\ e.crit \in Int
    BY DEF Edge
  <2> QED
    BY <2>1, <2>2 DEF Weighed
<1>5. Weighed(calls)
  <2>1. IsFiniteSet(B) /\ B \in SUBSET B
    BY <1>2 DEF Noded
  <2>2. \A n \in B : f[n] = Edge(f[n].from, f[n].to, f[n].crit) /\ f[n].crit \in Int
    BY DEF Edge, EdgeCriticality
  <2> HIDE DEF f, B
  <2>3. IsFiniteSet(calls)
    BY <2>1, ImageFinite
  <2> QED
    BY <2>2, <2>3 DEF Weighed
<1> HIDE DEF front, api, call, calls, B
<1>6. Noded(front \cup api \cup B) /\ Weighed(call \cup calls)
  BY <1>2, <1>3, <1>4, <1>5, UnionsAreProper
<1> QED
  BY <1>1, <1>6 DEF Fragment

LEMMA CloudIsFragment == ASSUME NEW c, IsList(c.services) PROVE Fragment(CloudFragment(c))
<1> DEFINE D == DOMAIN c.services
           f == [i \in D |-> CloudNode(c, i)]
<1>1. IsFiniteSet(D) /\ D \subseteq Nat /\ D \in SUBSET D
  BY ListIs
<1>2. \A i \in D : DOMAIN f[i] = Attributes /\ f[i].at \in Nat \X Nat
  BY <1>1 DEF CloudNode, PlainNode, Attributes
<1>3. CloudFragment(c).nodes = {f[i] : i \in D} /\ CloudFragment(c).edges = {}
  BY DEF CloudFragment
<1> HIDE DEF D, f
<1>4. IsFiniteSet({f[i] : i \in D})
  BY <1>1, ImageFinite
<1>5. Noded(CloudFragment(c).nodes)
  BY <1>2, <1>3, <1>4 DEF Noded, Placed
<1>6. Weighed({})
  BY FS_EmptySet DEF Weighed
<1> QED
  BY <1>3, <1>5, <1>6 DEF Fragment

LEMMA SingleNodeIsFragment ==
  ASSUME NEW n, DOMAIN n = Attributes, n.at \in Nat \X Nat
  PROVE  Fragment([nodes |-> {n}, edges |-> {}])
BY FS_Singleton, FS_EmptySet DEF Fragment, Noded, Placed, Weighed

LEMMA DatabaseIsFragment == ASSUME NEW d PROVE Fragment(DatabaseFragment(d))
<1>1. DOMAIN DatabaseNode(d) = Attributes /\ DatabaseNode(d).at = <<0, 0>>
  BY DEF DatabaseNode, PlainNode, Attributes
<1> QED
  BY <1>1, SingleNodeIsFragment DEF DatabaseFragment

LEMMA BillingIsFragment == Fragment(BillingFragment)
<1> DEFINE n == [PlainNode("stripe", "external_api") EXCEPT
                   !.provider = "stripe", !.hasRateLimit = "yes", !.hasAuth = "yes"]
<1>1. DOMAIN n = Attributes /\ n.at = <<0, 0>>
  BY DEF PlainNode, Attributes
<1>2. BillingFragment = [nodes |-> {n}, edges |-> {}]
  BY DEF BillingFragment
<1> HIDE DEF n
<1> QED
  BY <1>1, <1>2, SingleNodeIsFragment

(* Sources that are lists, as every scan's are.                            *)
Listed(c) ==
    /\ IsList(c.repos) /\ IsList(c.clouds) /\ IsList(c.databases)
    /\ \A r \in DOMAIN c.repos :
          IsList(c.repos[r].ai) /\ \A i \in DOMAIN c.repos[r].ai : c.repos[r].ai[i].kind \in AiKinds
    /\ \A i \in DOMAIN c.clouds : IsList(c.clouds[i].services)

LEMMA IsListOf ==
  ASSUME NEW S, NEW n \in Nat, NEW f \in [1..n -> S]
  PROVE  f \in Seq(S)
BY SeqDef

(* The fragments of a collection are what its sources give, and every      *)
(* source gives one.                                                       *)
RepoFragments(c) == {RepoFragment(c.repos[i]) : i \in DOMAIN c.repos}
CloudFragments(c) == {CloudFragment(c.clouds[i]) : i \in DOMAIN c.clouds}
DatabaseFragments(c) == {DatabaseFragment(c.databases[i]) : i \in DOMAIN c.databases}

(* Whether all that is in the list s is in the list u.                     *)
Holds(u, s) == \A i \in DOMAIN s : \E k \in DOMAIN u : u[k] = s[i]

LEMMA ConcatHolds ==
  ASSUME NEW S, NEW s \in Seq(S), NEW t \in Seq(S)
  PROVE  s \o t \in Seq(S) /\ Holds(s \o t, s) /\ Holds(s \o t, t)
<1>1. s \o t \in Seq(S) /\ Len(s) \in Nat /\ Len(t) \in Nat
      /\ DOMAIN s = 1..Len(s) /\ DOMAIN t = 1..Len(t) /\ DOMAIN (s \o t) = 1..(Len(s) + Len(t))
  OBVIOUS
<1>2. ASSUME NEW i \in DOMAIN s PROVE i \in DOMAIN (s \o t) /\ (s \o t)[i] = s[i]
  BY <1>1
<1>3. ASSUME NEW i \in DOMAIN t
      PROVE  i + Len(s) \in DOMAIN (s \o t) /\ (s \o t)[i + Len(s)] = t[i]
  BY <1>1
<1> QED
  BY <1>1, <1>2, <1>3 DEF Holds

LEMMA FragmentsList ==
  ASSUME NEW c, Listed(c)
  PROVE  /\ Fragments(c) \in Seq(RepoFragments(c) \cup CloudFragments(c)
                                   \cup DatabaseFragments(c) \cup {BillingFragment})
         /\ \A x \in RepoFragments(c) \cup DatabaseFragments(c) :
               \E f \in DOMAIN Fragments(c) : Fragments(c)[f] = x
<1> DEFINE R == [i \in DOMAIN c.repos |-> RepoFragment(c.repos[i])]
           L == [i \in DOMAIN c.clouds |-> CloudFragment(c.clouds[i])]
           D == [i \in DOMAIN c.databases |-> DatabaseFragment(c.databases[i])]
           B == IF c.billing THEN <<BillingFragment>> ELSE <<>>
           S == RepoFragments(c) \cup CloudFragments(c) \cup DatabaseFragments(c)
                  \cup {BillingFragment}
<1>1. Fragments(c) = R \o L \o D \o B
  BY DEF Fragments
<1>2. /\ DOMAIN R = 1..Len(c.repos) /\ DOMAIN L = 1..Len(c.clouds) /\ DOMAIN D = 1..Len(c.databases)
      /\ Len(c.repos) \in Nat /\ Len(c.clouds) \in Nat /\ Len(c.databases) \in Nat
  BY ListIs DEF Listed
<1>3. /\ \A i \in DOMAIN R : R[i] \in S
      /\ \A i \in DOMAIN L : L[i] \in S
      /\ \A i \in DOMAIN D : D[i] \in S
  BY DEF RepoFragments, CloudFragments, DatabaseFragments
<1>4. R = [i \in DOMAIN R |-> R[i]] /\ L = [i \in DOMAIN L |-> L[i]] /\ D = [i \in DOMAIN D |-> D[i]]
  OBVIOUS
<1>5. /\ \A x \in RepoFragments(c) : \E i \in DOMAIN R : R[i] = x
      /\ \A x \in DatabaseFragments(c) : \E i \in DOMAIN D : D[i] = x
  BY DEF RepoFragments, DatabaseFragments
<1>6. BillingFragment \in S
  OBVIOUS
<1> HIDE DEF R, L, D, S
<1>7. R \in Seq(S) /\ L \in Seq(S) /\ D \in Seq(S)
  <2>1. R \in [1..Len(c.repos) -> S] /\ L \in [1..Len(c.clouds) -> S] /\ D \in [1..Len(c.databases) -> S]
    BY <1>2, <1>3, <1>4
  <2> QED
    BY <1>2, <2>1, IsListOf
<1>8. B \in Seq(S)
  BY <1>6
<1> HIDE DEF B
<1> DEFINE RL == R \o L
           RLD == RL \o D
<1>9. RL \in Seq(S) /\ Holds(RL, R)
  BY <1>7, ConcatHolds
<1> HIDE DEF RL
<1>10. RLD \in Seq(S) /\ Holds(RLD, RL) /\ Holds(RLD, D)
  BY <1>7, <1>9, ConcatHolds
<1>11. Fragments(c) = RLD \o B
  BY <1>1 DEF RL
<1> HIDE DEF RLD
<1>12. Fragments(c) \in Seq(S) /\ Holds(Fragments(c), RLD)
  BY <1>8, <1>10, <1>11, ConcatHolds
<1>13. Holds(Fragments(c), R) /\ Holds(Fragments(c), D)
  BY <1>9, <1>10, <1>12 DEF Holds
<1> QED
  BY <1>5, <1>12, <1>13 DEF S, Holds

LEMMA FragmentsAre ==
  ASSUME NEW c, Listed(c)
  PROVE  /\ Len(Fragments(c)) \in Nat
         /\ IsFiniteSet(DOMAIN Fragments(c)) /\ DOMAIN Fragments(c) \subseteq Nat
         /\ \A f \in DOMAIN Fragments(c) : Fragment(Fragments(c)[f])
<1> DEFINE S == RepoFragments(c) \cup CloudFragments(c) \cup DatabaseFragments(c)
                  \cup {BillingFragment}
<1>1. \A f \in S : Fragment(f)
  BY RepoIsFragment, CloudIsFragment, DatabaseIsFragment, BillingIsFragment
     DEF Listed, RepoFragments, CloudFragments, DatabaseFragments
<1>2. Fragments(c) \in Seq(S)
  BY FragmentsList
<1> HIDE DEF S
<1>3. Len(Fragments(c)) \in Nat /\ DOMAIN Fragments(c) = 1..Len(Fragments(c))
      /\ \A f \in DOMAIN Fragments(c) : Fragments(c)[f] \in S
  BY <1>2
<1>4. IsFiniteSet(1..Len(Fragments(c)))
  BY <1>3, FS_Interval
<1> QED
  BY <1>1, <1>3, <1>4

LEMMA ComponentsAre ==
  ASSUME NEW c, Listed(c)
  PROVE  /\ IsFiniteSet(AiComponents(c)) /\ Placed(AiComponents(c))
         /\ \A a \in AiComponents(c) : a.kind \in AiKinds
<1> DEFINE D == DOMAIN c.repos
           f == [r \in D |-> ComponentsOf(c, r)]
           U == {f[r] : r \in D}
<1>1. IsFiniteSet(D) /\ D \subseteq Nat /\ D \in SUBSET D /\ Len(Fragments(c)) \in Nat
  BY ListIs, FragmentsAre DEF Listed
<1>2. ASSUME NEW r \in D
      PROVE  IsFiniteSet(f[r]) /\ \A a \in f[r] : a.at \in Nat \X Nat /\ a.kind \in AiKinds
  <2> DEFINE E == DOMAIN c.repos[r].ai
             g == [i \in E |-> [id |-> c.repos[r].ai[i].id, kind |-> c.repos[r].ai[i].kind,
                                at |-> <<Len(Fragments(c)) + r, i>>]]
  <2>1. IsFiniteSet(E) /\ E \subseteq Nat /\ E \in SUBSET E
        /\ \A i \in E : c.repos[r].ai[i].kind \in AiKinds
    BY ListIs DEF Listed
  <2>2. f[r] = {g[i] : i \in E}
    BY DEF ComponentsOf
  <2>3. \A i \in E : g[i].at \in Nat \X Nat /\ g[i].kind \in AiKinds
    BY <1>1, <2>1
  <2> HIDE DEF E, g, f
  <2>4. IsFiniteSet({g[i] : i \in E})
    BY <2>1, ImageFinite
  <2> QED
    BY <2>2, <2>3, <2>4
<1>3. AiComponents(c) = UNION U
  BY DEF AiComponents
<1> HIDE DEF f, D
<1>4. IsFiniteSet(U) /\ \A S \in U : IsFiniteSet(S)
  BY <1>1, <1>2, ImageFinite
<1>5. \A a \in UNION U : a.at \in Nat \X Nat /\ a.kind \in AiKinds
  BY <1>2
<1> HIDE DEF U
<1>6. IsFiniteSet(UNION U)
  BY <1>4, FS_UNION
<1> QED
  BY <1>3, <1>5, <1>6 DEF Placed

LEMMA BuiltIsProper ==
  ASSUME NEW c, Listed(c)
  PROVE  ProperGraph(BuildSystemGraph(c)) /\ Supported(BuildSystemGraph(c))
<1> DEFINE merged == MergeFragments(Fragments(c))
           deduped == DedupeEstimated(merged)
           connected == ConnectOrphans(deduped)
<1>1. ProperGraph(merged)
  BY FragmentsAre, MergeIsProper DEF Fragment
<1>2. ProperGraph(deduped)
  BY <1>1, DedupeIsProper
<1>3. ProperGraph(connected) /\ Supported(connected)
  BY <1>2, OrphansAreConnected
<1>4. /\ ProperGraph(AttachAiComponents(connected, AiComponents(c)))
      /\ Supported(AttachAiComponents(connected, AiComponents(c)))
  BY <1>3, ComponentsAre, AttachIsProper
<1> QED
  BY <1>4 DEF BuildSystemGraph

LEMMA SourcesAreListed == ASSUME NEW s \in Sources PROVE Listed(s)
<1>1. CASE s = NoSources
  <2>1. IsList(<<>>)
    BY DEF IsList
  <2> QED
    BY <1>1, <2>1 DEF NoSources, Listed
<1>2. CASE s # NoSources
  BY <1>2, AssessmentAssumption DEF AssessmentAssumption, Sources, Listed
<1> QED
  BY <1>1, <1>2

LEMMA GraphIsProper ==
  ASSUME NEW s \in Sources
  PROVE  ProperGraph(GraphOf[s]) /\ Supported(GraphOf[s])
BY SourcesAreListed, BuiltIsProper DEF GraphOf

LEMMA EveryGraphIsWired == ASSUME NEW s \in Sources PROVE Wiring[s]
<1>1. ProperGraph(GraphOf[s]) /\ Supported(GraphOf[s])
  BY GraphIsProper
<1>2. \A o \in Overlays : WellFormed(ApplyOverlay(GraphOf[s], o))
  BY <1>1, OverlayIsWellFormed, AssessmentAssumption DEF AssessmentAssumption, Placed
<1>3. WiredOn(GraphOf[s])
  BY <1>1, <1>2 DEF WiredOn, ProperGraph, Supported
<1> QED
  BY <1>3 DEF Wiring

-----------------------------------------------------------------------------
(* What the nodes of the fragments say.                                    *)
LEMMA NodesSay ==
  ASSUME NEW r, NEW d
  PROVE  /\ FrontendNode(r).id = FrontendId(r)
         /\ ApiNode(r).id = ApiId(r)
         /\ DatabaseNode(d).id = DatabaseId(d) /\ DatabaseNode(d).kind = "database"
         /\ DatabaseNode(d).estimated = FALSE /\ DatabaseNode(d).hasBackup = d.hasBackup
         /\ \A n \in BillingFragment.nodes : n.id = "stripe"
<1>1. FrontendNode(r).id = FrontendId(r) /\ ApiNode(r).id = ApiId(r)
  BY DEF FrontendNode, ApiNode, PlainNode
<1>2. /\ DatabaseNode(d).id = DatabaseId(d) /\ DatabaseNode(d).kind = "database"
      /\ DatabaseNode(d).estimated = FALSE /\ DatabaseNode(d).hasBackup = d.hasBackup
  BY DEF DatabaseNode, PlainNode
<1> DEFINE b == [PlainNode("stripe", "external_api") EXCEPT
                   !.provider = "stripe", !.hasRateLimit = "yes", !.hasAuth = "yes"]
<1>3. b.id = "stripe"
  BY DEF PlainNode
<1>4. BillingFragment.nodes = {b}
  BY DEF BillingFragment
<1> HIDE DEF b
<1> QED
  BY <1>1, <1>2, <1>3, <1>4

LEMMA HintsSay ==
  /\ \A h \in ServiceHints : h.id = "postgres" =>
        h.kind = "database" /\ h.provider = "none" /\ h.hasBackup = "no"
  /\ \E h \in ServiceHints : h.id = "postgres"
  /\ \E h \in ServiceHints : h.id = "stripe"
<1> DEFINE is(h, id, kind, provider, backup) ==
             h.id = id /\ h.kind = kind /\ h.provider = provider /\ h.hasBackup = backup
<1>1. ASSUME NEW place, NEW id, NEW kind, NEW provider, NEW backup, NEW rate, NEW redundant
      PROVE  is(Hint(place, id, kind, provider, backup, rate, redundant), id, kind, provider, backup)
  BY DEF Hint, PlainNode
<1> QED
  BY <1>1 DEF ServiceHints

(* A node that says its database has no backup, and that nothing replaces. *)
UnsafeNode(n) == n.kind = "database" /\ n.hasBackup = "no"

(* All that is said of an id comes from databases, none of which could be  *)
(* taken for a provider's, and one of them says there is no backup.        *)
Unsafe(C, id) ==
    LET said == {n \in C : n.id = id}
    IN  /\ \A n \in said : n.kind = "database" /\ (n.estimated => n.provider = "none")
        /\ (\A n \in said : ~n.estimated) \/ (\A n \in said : n.provider = "none")
        /\ \E n \in said : n.hasBackup = "no"

LEMMA MergeKeepsUnsafe ==
  ASSUME NEW C, Noded(C), NEW id, Unsafe(C, id)
  PROVE  \E n \in MergeNodes(C) :
            n.id = id /\ UnsafeNode(n) /\ (n.estimated => n.provider = "none")
<1> DEFINE said == {n \in C : n.id = id}
           n == MergeNode(id, said)
<1>1. /\ said # {} /\ IsFiniteSet(said) /\ Placed(said)
      /\ \A m \in said : m.kind = "database"
      /\ (\A m \in said : ~m.estimated) \/ (\A m \in said : m.provider = "none")
      /\ \E m \in said : m.hasBackup = "no"
  <2>1. IsFiniteSet(said)
    BY FS_Subset DEF Noded
  <2> QED
    BY <2>1 DEF Unsafe, Noded, Placed
<1>2. n \in MergeNodes(C)
  BY <1>1 DEF MergeNodes
<1> HIDE DEF said
<1>3. n.id = id /\ n.kind = Last(said).kind /\ n.hasBackup = Agreed(said, "hasBackup")
      /\ n.provider = Latest(said, "provider") /\ n.estimated = (\E m \in said : m.estimated)
  BY DEF MergeNode
<1> HIDE DEF n
<1>4. n.kind = "database"
  BY <1>1, <1>3, LastIsMember
<1>5. n.hasBackup = "no"
  BY <1>1, <1>3 DEF Agreed
<1>6. n.estimated => n.provider = "none"
  BY <1>1, <1>3 DEF Latest
<1> QED
  BY <1>2, <1>3, <1>4, <1>5, <1>6 DEF UnsafeNode

LEMMA DedupeKeepsUnsafe ==
  ASSUME NEW g, ProperGraph(g), NEW n \in g.nodes, UnsafeNode(n), n.estimated => n.provider = "none"
  PROVE  \E m \in DedupeEstimated(g).nodes : m.id = n.id /\ UnsafeNode(m)
<1> DEFINE twins == {e \in Remapped(g) : Twin(g, e) = n}
           m == Fill(n, twins)
<1>1. n.estimated => Twins(g, n) = {}
  BY DEF Twins, UnsafeNode, SingletonKinds
<1>2. n \in g.nodes \ Remapped(g)
  BY <1>1 DEF Remapped
<1>3. m \in DedupeEstimated(g).nodes
  BY <1>2 DEF DedupeEstimated
<1>4. DOMAIN n = Attributes
  BY DEF ProperGraph, Noded
<1>5. m.id = n.id /\ m.kind = n.kind /\ m.hasBackup = FillGap(n, twins, "hasBackup")
  BY <1>4, FillKeeps
<1>6. m.hasBackup = "no"
  BY <1>5 DEF FillGap, UnsafeNode, Unset
<1> HIDE DEF m
<1> QED
  BY <1>3, <1>5, <1>6 DEF UnsafeNode

LEMMA BuiltKeepsUnsafe ==
  ASSUME NEW c, Listed(c), NEW id, Unsafe(Contributed(Fragments(c)), id)
  PROVE  \E n \in BuildSystemGraph(c).nodes : n.id = id /\ UnsafeNode(n)
<1> DEFINE frags == Fragments(c)
           merged == MergeFragments(frags)
           deduped == DedupeEstimated(merged)
<1>1. ProperGraph(merged) /\ Noded(Contributed(frags))
  BY FragmentsAre, MergeIsProper, ContributedNoded DEF Fragment
<1>2. PICK n \in merged.nodes : n.id = id /\ UnsafeNode(n) /\ (n.estimated => n.provider = "none")
  <2>1. merged.nodes = MergeNodes(Contributed(frags))
    BY DEF MergeFragments
  <2> HIDE DEF merged
  <2> QED
    BY <1>1, <2>1, MergeKeepsUnsafe
<1>3. ProperGraph(deduped) /\ \E m \in deduped.nodes : m.id = id /\ UnsafeNode(m)
  BY <1>1, <1>2, DedupeIsProper, DedupeKeepsUnsafe
<1> HIDE DEF deduped
<1>4. ConnectOrphans(deduped).nodes = deduped.nodes
  BY <1>3, OrphansAreConnected
<1> QED
  BY <1>3, <1>4 DEF BuildSystemGraph, AttachAiComponents, deduped

(* What the contributions are: placed copies of the nodes of fragments.    *)
LEMMA ContributionIs ==
  ASSUME NEW c, Listed(c), NEW n \in Contributed(Fragments(c))
  PROVE  \E f \in DOMAIN Fragments(c) : \E m \in Fragments(c)[f].nodes :
            /\ n.id = m.id /\ n.kind = m.kind /\ n.provider = m.provider
            /\ n.estimated = m.estimated /\ n.hasBackup = m.hasBackup
<1>1. PICK f \in DOMAIN Fragments(c) : n \in PlacedAt(f, Fragments(c)[f].nodes)
  BY DEF Contributed
<1>2. PICK m \in Fragments(c)[f].nodes : n = [m EXCEPT !.at = <<f, m.at[2]>>]
  BY <1>1 DEF PlacedAt
<1>3. DOMAIN m = Attributes
  BY <1>2, FragmentsAre DEF Fragment, Noded
<1> QED
  BY <1>2, <1>3 DEF Attributes

LEMMA FragmentContributes ==
  ASSUME NEW c, Listed(c), NEW f \in DOMAIN Fragments(c), NEW m \in Fragments(c)[f].nodes
  PROVE  \E n \in Contributed(Fragments(c)) :
            /\ n.id = m.id /\ n.hasBackup = m.hasBackup
<1> DEFINE n == [m EXCEPT !.at = <<f, m.at[2]>>]
<1>1. DOMAIN m = Attributes
  BY FragmentsAre DEF Fragment, Noded
<1>2. n \in PlacedAt(f, Fragments(c)[f].nodes)
  BY DEF PlacedAt
<1>3. n \in Contributed(Fragments(c))
  BY <1>2 DEF Contributed
<1>4. n.id = m.id /\ n.hasBackup = m.hasBackup
  BY <1>1 DEF Attributes
<1> QED
  BY <1>3, <1>4

(* What a scan says of a database it was told of, or inferred, that has no *)
(* backup.                                                                 *)
LEMMA FragmentIs ==
  ASSUME NEW c, Listed(c), NEW f \in DOMAIN Fragments(c)
  PROVE  \/ \E i \in DOMAIN c.repos : Fragments(c)[f] = RepoFragment(c.repos[i])
         \/ \E i \in DOMAIN c.clouds : Fragments(c)[f] = CloudFragment(c.clouds[i])
         \/ \E i \in DOMAIN c.databases : Fragments(c)[f] = DatabaseFragment(c.databases[i])
         \/ Fragments(c)[f] = BillingFragment
<1> DEFINE S == RepoFragments(c) \cup CloudFragments(c) \cup DatabaseFragments(c)
                  \cup {BillingFragment}
<1>1. Fragments(c) \in Seq(S)
  BY FragmentsList
<1>2. Fragments(c)[f] \in S
  <2> HIDE DEF S
  <2> QED
    BY <1>1
<1> QED
  BY <1>2 DEF RepoFragments, CloudFragments, DatabaseFragments

LEMMA DatabaseIsSaid ==
  ASSUME NEW c, Listed(c), NEW i \in DOMAIN c.databases
  PROVE  \E n \in Contributed(Fragments(c)) :
            n.id = DatabaseId(c.databases[i]) /\ n.hasBackup = c.databases[i].hasBackup
<1> DEFINE d == c.databases[i]
           m == DatabaseNode(d)
<1>1. PICK f \in DOMAIN Fragments(c) : Fragments(c)[f] = DatabaseFragment(d)
  BY FragmentsList DEF DatabaseFragments
<1>2. m \in Fragments(c)[f].nodes
  BY <1>1 DEF DatabaseFragment
<1>3. m.id = DatabaseId(d) /\ m.hasBackup = d.hasBackup
  BY NodesSay
<1> HIDE DEF m
<1> QED
  BY <1>2, <1>3, FragmentContributes

LEMMA PostgresIsSaid ==
  ASSUME NEW c, Listed(c), NEW r \in DOMAIN c.repos, "postgres" \in c.repos[r].services
  PROVE  \E n \in Contributed(Fragments(c)) : n.id = "postgres" /\ n.hasBackup = "no"
<1>1. PICK f \in DOMAIN Fragments(c) : Fragments(c)[f] = RepoFragment(c.repos[r])
  BY FragmentsList DEF RepoFragments
<1>2. PICK m \in ServiceHints : m.id = "postgres" /\ m.hasBackup = "no"
  BY HintsSay
<1>3. m \in Fragments(c)[f].nodes
  BY <1>1, <1>2 DEF RepoFragment, Backing
<1> QED
  BY <1>2, <1>3, FragmentContributes

(* No hint speaks of a database that a provider listed.                    *)
LEMMA DatabaseIsNoHint ==
  ASSUME NEW s \in Sources
  PROVE  \A i \in DOMAIN s.databases : \A h \in ServiceHints : h.id # DatabaseId(s.databases[i])
<1>1. CASE s = NoSources
  BY <1>1 DEF NoSources
<1>2. CASE s # NoSources
  <2>1. s.databases \in DatabaseLists
    BY <1>2 DEF Sources
  <2>2. \A i \in DOMAIN s.databases : DatabaseId(s.databases[i]) \in DatabaseIds
    BY <2>1 DEF Members, DatabaseIds
  <2> QED
    BY <2>2, DatabasesHaveAPrefix DEF DatabasesHaveAPrefix
<1> QED
  BY <1>1, <1>2

LEMMA DatabaseIsUnsafe ==
  ASSUME NEW s \in Sources, NEW i \in DOMAIN s.databases, s.databases[i].hasBackup = "no",
         ~TakenForAnother(s, DatabaseId(s.databases[i]))
  PROVE  Unsafe(Contributed(Fragments(s)), DatabaseId(s.databases[i]))
<1> DEFINE id == DatabaseId(s.databases[i])
           C == Contributed(Fragments(s))
<1>1. Listed(s)
  BY SourcesAreListed
<1>2. \A h \in ServiceHints : h.id # id
  BY DatabaseIsNoHint
<1>3. ASSUME NEW n \in C, n.id = id
      PROVE  n.kind = "database" /\ ~n.estimated
  <2>1. PICK f \in DOMAIN Fragments(s) : \E m \in Fragments(s)[f].nodes :
            n.id = m.id /\ n.kind = m.kind /\ n.estimated = m.estimated
    BY <1>1, ContributionIs
  <2>2. PICK m \in Fragments(s)[f].nodes :
            n.id = m.id /\ n.kind = m.kind /\ n.estimated = m.estimated
    BY <2>1
  <2>3. ASSUME NEW r \in DOMAIN s.repos, Fragments(s)[f] = RepoFragment(s.repos[r]) PROVE FALSE
    <3>1. id # FrontendId(s.repos[r]) /\ id # ApiId(s.repos[r])
      BY DEF TakenForAnother
    <3>2. FrontendNode(s.repos[r]).id = FrontendId(s.repos[r]) /\ ApiNode(s.repos[r]).id = ApiId(s.repos[r])
      BY NodesSay
    <3>3. m \in ServiceHints \/ m = FrontendNode(s.repos[r]) \/ m = ApiNode(s.repos[r])
      BY <2>2, <2>3 DEF RepoFragment, Backing
    <3> QED
      BY <1>2, <1>3, <2>2, <3>1, <3>2, <3>3
  <2>4. ASSUME NEW k \in DOMAIN s.clouds, Fragments(s)[f] = CloudFragment(s.clouds[k])
        PROVE  m.kind = "database" /\ ~m.estimated
    <3>1. PICK j \in DOMAIN s.clouds[k].services : m = CloudNode(s.clouds[k], j)
      BY <2>2, <2>4 DEF CloudFragment
    <3>2. /\ m.id = s.clouds[k].services[j].id /\ m.kind = s.clouds[k].services[j].kind
          /\ ~m.estimated
      BY <3>1 DEF CloudNode, PlainNode
    <3> QED
      BY <1>3, <2>2, <3>2 DEF TakenForAnother
  <2>5. ASSUME NEW k \in DOMAIN s.databases, Fragments(s)[f] = DatabaseFragment(s.databases[k])
        PROVE  m.kind = "database" /\ ~m.estimated
    <3>1. m = DatabaseNode(s.databases[k])
      BY <2>2, <2>5 DEF DatabaseFragment
    <3> QED
      BY <3>1, NodesSay
  <2>6. ASSUME Fragments(s)[f] = BillingFragment PROVE FALSE
    <3>1. m.id = "stripe"
      BY <2>2, <2>6, NodesSay
    <3> QED
      BY <1>2, <1>3, <2>2, <3>1, HintsSay
  <2> QED
    BY <1>1, <2>2, <2>3, <2>4, <2>5, <2>6, FragmentIs
<1>4. \E n \in C : n.id = id /\ n.hasBackup = "no"
  BY <1>1, DatabaseIsSaid
<1> QED
  BY <1>3, <1>4 DEF Unsafe

LEMMA PostgresIsUnsafe ==
  ASSUME NEW s \in Sources, NEW r \in DOMAIN s.repos, "postgres" \in s.repos[r].services,
         ~TakenForAnother(s, "postgres")
  PROVE  Unsafe(Contributed(Fragments(s)), "postgres")
<1> DEFINE C == Contributed(Fragments(s))
<1>1. Listed(s)
  BY SourcesAreListed
<1>2. \A i \in DOMAIN s.databases : DatabaseId(s.databases[i]) # "postgres"
  BY HintsSay, DatabaseIsNoHint
<1>3. ASSUME NEW n \in C, n.id = "postgres"
      PROVE  n.kind = "database" /\ n.provider = "none"
  <2>1. PICK f \in DOMAIN Fragments(s) : \E m \in Fragments(s)[f].nodes :
            n.id = m.id /\ n.kind = m.kind /\ n.provider = m.provider
    BY <1>1, ContributionIs
  <2>2. PICK m \in Fragments(s)[f].nodes :
            n.id = m.id /\ n.kind = m.kind /\ n.provider = m.provider
    BY <2>1
  <2>3. ASSUME NEW k \in DOMAIN s.repos, Fragments(s)[f] = RepoFragment(s.repos[k])
        PROVE  m.kind = "database" /\ m.provider = "none"
    <3>1. "postgres" # FrontendId(s.repos[k]) /\ "postgres" # ApiId(s.repos[k])
      BY DEF TakenForAnother
    <3>2. FrontendNode(s.repos[k]).id = FrontendId(s.repos[k]) /\ ApiNode(s.repos[k]).id = ApiId(s.repos[k])
      BY NodesSay
    <3>3. m \in ServiceHints \/ m = FrontendNode(s.repos[k]) \/ m = ApiNode(s.repos[k])
      BY <2>2, <2>3 DEF RepoFragment, Backing
    <3>4. m \in ServiceHints
      BY <1>2, <1>3, <2>2, <3>1, <3>2, <3>3
    <3> QED
      BY <1>3, <2>2, <3>4, HintsSay
  <2>4. ASSUME NEW k \in DOMAIN s.clouds, Fragments(s)[f] = CloudFragment(s.clouds[k]) PROVE FALSE
    <3>1. PICK j \in DOMAIN s.clouds[k].services : m = CloudNode(s.clouds[k], j)
      BY <2>2, <2>4 DEF CloudFragment
    <3>2. m.id = s.clouds[k].services[j].id
      BY <3>1 DEF CloudNode, PlainNode
    <3> QED
      BY <1>3, <2>2, <3>2 DEF TakenForAnother
  <2>5. ASSUME NEW k \in DOMAIN s.databases, Fragments(s)[f] = DatabaseFragment(s.databases[k])
        PROVE  FALSE
    <3>1. m = DatabaseNode(s.databases[k])
      BY <2>2, <2>5 DEF DatabaseFragment
    <3>2. m.id = DatabaseId(s.databases[k])
      BY <3>1, NodesSay
    <3> QED
      BY <1>2, <1>3, <2>2, <3>2
  <2>6. ASSUME Fragments(s)[f] = BillingFragment PROVE FALSE
    <3>1. m.id = "stripe"
      BY <2>2, <2>6, NodesSay
    <3> QED
      BY <1>3, <2>2, <3>1
  <2> QED
    BY <1>1, <2>2, <2>3, <2>4, <2>5, <2>6, FragmentIs
<1>4. \E n \in C : n.id = "postgres" /\ n.hasBackup = "no"
  BY <1>1, PostgresIsSaid
<1> QED
  BY <1>3, <1>4 DEF Unsafe

LEMMA UnsafeIsFound ==
  ASSUME NEW s \in Sources, NEW id, Unsafe(Contributed(Fragments(s)), id)
  PROVE  \E f \in TopologyOf[s] : f.node = id /\ f.category = "backup" /\ f.severity = "critical"
<1>1. PICK n \in GraphOf[s].nodes : n.id = id /\ UnsafeNode(n)
  BY SourcesAreListed, BuiltKeepsUnsafe DEF GraphOf
<1> DEFINE f == Topology("backup", n, 18, "critical")
<1>2. f \in TopologyFindings(GraphOf[s])
  BY <1>1 DEF TopologyFindings, UnsafeNode
<1>3. f.node = id /\ f.category = "backup" /\ f.severity = "critical"
  BY <1>1 DEF Topology
<1> QED
  BY <1>2, <1>3 DEF TopologyOf

LEMMA NoRiskIsHidden == TypeOK => NoRiskHidden
<1> SUFFICES ASSUME TypeOK PROVE NoRiskHidden
  OBVIOUS
<1>1. scan.sources \in Sources
  BY DEF TypeOK, NoScan, Sources
<1> DEFINE from == scan.sources
           asked == {i \in DOMAIN from.databases : from.databases[i].hasBackup = "no"}
           inferred == {s \in {"postgres"} : \E r \in DOMAIN from.repos : s \in from.repos[r].services}
<1>2. \A i \in asked :
        \/ TakenForAnother(from, DatabaseId(from.databases[i]))
        \/ Unsafe(Contributed(Fragments(from)), DatabaseId(from.databases[i]))
  BY <1>1, DatabaseIsUnsafe
<1>3. \A id \in inferred : TakenForAnother(from, id) \/ Unsafe(Contributed(Fragments(from)), id)
  BY <1>1, PostgresIsUnsafe
<1>4. ASSUME NEW id, Unsafe(Contributed(Fragments(from)), id)
      PROVE  \E f \in Findings : f.node = id /\ f.category = "backup" /\ f.severity = "critical"
  BY <1>1, <1>4, UnsafeIsFound DEF Findings
<1> QED
  BY <1>2, <1>3, <1>4 DEF NoRiskHidden

-----------------------------------------------------------------------------
(* What the pages are computed from is finite and weighed.                 *)

LEMMA TopologyWeighable ==
  ASSUME NEW g, IsFiniteSet(g.nodes)
  PROVE  Weighable(TopologyFindings(g))
<1> DEFINE N == g.nodes
           SpofWeight(n) == IF n.kind = "database" THEN 22 ELSE 14
           IsApi(n) == n.kind \in {"api", "external_api"}
           A == {m \in N : IsSpof(g, m)}
           B == {m \in N : m.kind = "database" /\ m.hasBackup = "no"}
           C == {m \in N : IsApi(m) /\ m.hasRateLimit = "no"}
           D == {m \in N : m.kind \in {"cache", "queue"} /\ m.redundant = "no"}
           E == {m \in N : m.provider \in VendorLockProviders}
           fA == [n \in N |-> Topology("spof", n, SpofWeight(n), SeverityFromWeight(SpofWeight(n)))]
           fB == [n \in N |-> Topology("backup", n, 18, "critical")]
           fC == [n \in N |-> Topology("rate_limit", n, 8, "medium")]
           fD == [n \in N |-> Topology("redundancy", n, 12, "high")]
           fE == [n \in N |-> Topology("vendor_lock_in", n, 4, "low")]
<1>1. TopologyFindings(g) = {fA[n] : n \in A} \cup {fB[n] : n \in B} \cup {fC[n] : n \in C}
                              \cup {fD[n] : n \in D} \cup {fE[n] : n \in E}
  BY DEF TopologyFindings, SinglePointsOfFailure
<1>2. /\ A \in SUBSET N /\ B \in SUBSET N /\ C \in SUBSET N /\ D \in SUBSET N /\ E \in SUBSET N
  OBVIOUS
<1>3. /\ \A n \in A : fA[n].weight \in Nat
      /\ \A n \in B : fB[n].weight \in Nat
      /\ \A n \in C : fC[n].weight \in Nat
      /\ \A n \in D : fD[n].weight \in Nat
      /\ \A n \in E : fE[n].weight \in Nat
  BY DEF Topology
<1> HIDE DEF A, B, C, D, E, fA, fB, fC, fD, fE, N
<1>4. /\ IsFiniteSet({fA[n] : n \in A}) /\ IsFiniteSet({fB[n] : n \in B})
      /\ IsFiniteSet({fC[n] : n \in C}) /\ IsFiniteSet({fD[n] : n \in D})
      /\ IsFiniteSet({fE[n] : n \in E})
  <2>1. IsFiniteSet(N)
    BY DEF N
  <2> QED
    BY <1>2, <2>1, ImageFinite
<1>5. IsFiniteSet(TopologyFindings(g))
  <2> DEFINE I == {fA[n] : n \in A}
             J == {fB[n] : n \in B}
             K == {fC[n] : n \in C}
             L == {fD[n] : n \in D}
             M == {fE[n] : n \in E}
  <2>1. \A S, T : IsFiniteSet(S) /\ IsFiniteSet(T) => IsFiniteSet(S \cup T)
    BY FS_Union
  <2>2. IsFiniteSet(I) /\ IsFiniteSet(J) /\ IsFiniteSet(K) /\ IsFiniteSet(L) /\ IsFiniteSet(M)
    BY <1>4
  <2>3. TopologyFindings(g) = I \cup J \cup K \cup L \cup M
    BY <1>1
  <2> HIDE DEF I, J, K, L, M
  <2> QED
    BY <2>1, <2>2, <2>3
<1>6. \A f \in TopologyFindings(g) : f.weight \in Nat
  BY <1>1, <1>3
<1> QED
  BY <1>5, <1>6 DEF Weighable

LEMMA AdvisoriesWeighable ==
  ASSUME NEW V, IsFiniteSet(V), \A v \in V : v.severity \in Severities
  PROVE  Weighable(VulnerabilitiesToFindings(V))
<1> DEFINE f == [v \in V |->
             [category |-> "security", severity |-> v.severity,
              weight |-> VulnerabilityWeight[v.severity], title |-> v.id, node |-> "none",
              rule |-> "none", file |-> "none", line |-> 0, confidence |-> "verified"]]
<1>1. VulnerabilitiesToFindings(V) = {f[v] : v \in V}
  BY DEF VulnerabilitiesToFindings
<1>2. \A v \in V : f[v].weight \in Nat
  <2>1. \A s \in Severities : VulnerabilityWeight[s] \in Nat
    BY DEF Severities, VulnerabilityWeight
  <2> QED
    BY <2>1
<1> HIDE DEF f
<1>3. IsFiniteSet({f[v] : v \in V})
  <2>1. V \in SUBSET V
    OBVIOUS
  <2> QED
    BY <2>1, ImageFinite
<1> QED
  BY <1>1, <1>2, <1>3 DEF Weighable

AssessmentTyped ==
    scan = NoScan \/ (scan.sources \in Sources /\ scan.code \in Codes)

LEMMA ScannedCode ==
  ASSUME AssessmentTyped
  PROVE  /\ scan.sources \in Sources
         /\ Weighable(scan.code.findings)
         /\ IsFiniteSet(scan.code.vulns) /\ \A v \in scan.code.vulns : v.severity \in Severities
         /\ scan.code.quality \in Int
<1>1. CASE scan = NoScan
  <2>1. scan.sources = NoSources /\ scan.code.findings = {} /\ scan.code.vulns = {}
          /\ scan.code.quality = -1
    BY <1>1 DEF NoScan
  <2>2. NoSources \in Sources
    BY DEF Sources
  <2>3. IsFiniteSet({})
    BY FS_EmptySet
  <2> QED
    BY <2>1, <2>2, <2>3 DEF Weighable
<1>2. CASE scan.sources \in Sources /\ scan.code \in Codes
  BY <1>2, AssessmentAssumption DEF Weighable
<1> QED
  BY <1>1, <1>2 DEF AssessmentTyped

LEMMA InputsImprove ==
  ASSUME AssessmentTyped, NEW t, NEW u, InputWith(u).findings \subseteq InputWith(t).findings
  PROVE  Improved(InputWith(t), InputWith(u))
<1>1. IsFiniteSet(Graph.nodes)
  BY ScannedCode, GraphIsProper DEF Graph, ProperGraph, Noded
<1>2. TopologyOf[scan.sources] = TopologyFindings(Graph)
  BY ScannedCode DEF TopologyOf, Graph
<1>3. Weighable(TopologyOf[scan.sources])
  BY <1>1, <1>2, TopologyWeighable
<1>4. Weighable(VulnerabilitiesToFindings(scan.code.vulns)) /\ Weighable(scan.code.findings)
  BY ScannedCode, AdvisoriesWeighable
<1>5. Weighable(Findings)
  <2>1. \A S, T : Weighable(S) /\ Weighable(T) => Weighable(S \cup T)
    BY FS_Union DEF Weighable
  <2> QED
    BY <1>3, <1>4, <2>1 DEF Findings, Code
<1>6. Open(Findings, t) \in SUBSET Findings
  BY DEF Open
<1>7. Weighable(InputWith(t).findings)
  BY <1>5, <1>6, FewerWeighLess DEF InputWith
<1> QED
  BY <1>7, ScannedCode DEF InputWith, Improved, Input2

-----------------------------------------------------------------------------

LEMMA MarkedAnew ==
  ASSUME NEW c, NEW b, NEW d
  PROVE  [[c EXCEPT !.afterScan = b] EXCEPT !.afterScan = d] = [c EXCEPT !.afterScan = d]
  OBVIOUS

(* The state is made of values the engines accept.                         *)
THEOREM AssessmentTypeCorrect == Spec => []TypeOK
<1>1. Init => TypeOK
  BY DEF Init, TypeOK
<1>2. TypeOK /\ [Next]_vars => TypeOK'
  <2> SUFFICES ASSUME TypeOK, [Next]_vars PROVE TypeOK'
    OBVIOUS
  <2>1. CASE Scan
    <3>1. scan'.sources \in Sources /\ scan'.code \in Codes
      BY <2>1 DEF Scan
    <3>2. \A c \in recent' : [c EXCEPT !.afterScan = FALSE] \in Commits
      <4> SUFFICES ASSUME NEW c \in recent
                   PROVE  [[c EXCEPT !.afterScan = FALSE] EXCEPT !.afterScan = FALSE] \in Commits
        BY <2>1 DEF Scan
      <4> QED
        BY MarkedAnew DEF TypeOK
    <3> QED
      BY <2>1, <3>1, <3>2 DEF Scan, TypeOK
  <2>2. CASE Triage
    BY <2>2 DEF Triage, TypeOK
  <2>3. CASE Commit
    <3>1. PICK c \in Commits : recent' = recent \cup {[c EXCEPT !.afterScan = TRUE]}
      BY <2>3 DEF Commit
    <3>2. [[c EXCEPT !.afterScan = TRUE] EXCEPT !.afterScan = FALSE] \in Commits
      BY MarkedAnew, AssessmentAssumption
    <3>3. \A d \in recent' : [d EXCEPT !.afterScan = FALSE] \in Commits
      BY <3>1, <3>2 DEF TypeOK
    <3> QED
      BY <2>3, <3>3 DEF Commit, TypeOK
  <2>4. CASE Week
    BY <2>4 DEF Week, TypeOK
  <2>5. CASE UNCHANGED vars
    BY <2>5 DEF vars, TypeOK
  <2> QED
    BY <2>1, <2>2, <2>3, <2>4, <2>5 DEF Next
<1> QED
  BY <1>1, <1>2, PTL DEF Spec

(* Whatever was read of whichever sources, the graph the engines are given *)
(* and every correction of it are well formed, no node depends on itself   *)
(* and no backing service is left without a caller.                        *)
THEOREM GraphsAreWired == Spec => []GraphWired
<1>1. TypeOK => GraphWired
  <2> SUFFICES ASSUME TypeOK PROVE GraphWired
    OBVIOUS
  <2>1. scan.sources \in Sources
    BY DEF TypeOK, NoScan, Sources
  <2> QED
    BY <2>1, EveryGraphIsWired DEF GraphWired
<1> QED
  BY <1>1, AssessmentTypeCorrect, PTL

(* A database that is known to have no backup is always found critical,    *)
(* whatever else was connected.                                            *)
THEOREM RisksAreNotHidden == Spec => []NoRiskHidden
BY NoRiskIsHidden, AssessmentTypeCorrect, PTL

(* Dismissing or resolving a finding never makes a dimension, the posture  *)
(* or the release look worse.                                              *)
THEOREM ClosingFindingsHelps == Spec => TriageHelps
<1> DEFINE Helps(old, new) ==
        new.findings \subseteq old.findings =>
           /\ \A d \in Measured(new) : Health(new, d) >= Health(old, d)
           /\ Measured(new) = Measured(old) =>
                 /\ PostureScore(new) >= PostureScore(old)
                 /\ SeverityOrder[PostureBand(new)] <= SeverityOrder[PostureBand(old)]
           /\ ReadinessScore(new) >= ReadinessScore(old)
           /\ Verdict(new) = "blocked" => Verdict(old) = "blocked"
<1>1. ASSUME NEW old, NEW new, Improved(old, new) PROVE Helps(old, new)
  <2>1. \A d \in Measured(new) : Health(new, d) >= Health(old, d)
    BY <1>1, HealthImproves
  <2>2. ASSUME Measured(new) = Measured(old)
        PROVE  /\ PostureScore(new) >= PostureScore(old)
               /\ SeverityOrder[PostureBand(new)] <= SeverityOrder[PostureBand(old)]
    <3> DEFINE a == \E f \in old.findings : f.severity = "critical"
               b == \E f \in new.findings : f.severity = "critical"
    <3>1. a \in BOOLEAN /\ b \in BOOLEAN /\ (b => a)
      BY <1>1 DEF Improved
    <3>2. PostureBand(old) = BandFor(PostureScore(old), a) /\ PostureBand(new) = BandFor(PostureScore(new), b)
      BY DEF PostureBand
    <3> HIDE DEF a, b
    <3>3. PostureScore(new) >= PostureScore(old)
      BY <1>1, <2>2, PostureImproves
    <3>4. CASE Measured(old) = {}
      <4>1. PostureScore(old) = -1 /\ PostureScore(new) = -1
        BY <1>1, <2>2, <3>4, PostureImproves
      <4>2. \A c : BandFor(-1, c) = "medium"
        BY DEF BandFor
      <4>3. SeverityOrder["medium"] = 2
        BY DEF SeverityOrder
      <4>4. SeverityOrder[PostureBand(old)] = 2 /\ SeverityOrder[PostureBand(new)] = 2
        BY <3>2, <4>1, <4>2, <4>3
      <4> QED
        BY <3>3, <4>4
    <3>5. CASE Measured(old) # {}
      <4>1. PostureScore(old) \in Nat /\ PostureScore(new) \in Nat
        BY <1>1, <2>2, <3>5, PostureImproves
      <4>2. PostureScore(old) <= PostureScore(new)
        BY <3>3, <4>1
      <4> QED
        BY <3>1, <3>2, <3>3, <4>1, <4>2, BandImproves
    <3> QED
      BY <3>4, <3>5
  <2>3. /\ ReadinessScore(new) >= ReadinessScore(old)
        /\ Verdict(new) = "blocked" => Verdict(old) = "blocked"
    BY <1>1, ReadinessImproves
  <2> QED
    BY <2>1, <2>2, <2>3
<1>2. ASSUME TypeOK, NEW t PROVE Helps(Input, InputWith(t))
  <2>1. AssessmentTyped
    BY <1>2 DEF TypeOK, AssessmentTyped
  <2> SUFFICES ASSUME InputWith(t).findings \subseteq Input.findings PROVE Helps(Input, InputWith(t))
    OBVIOUS
  <2>2. Improved(Input, InputWith(t))
    BY <2>1, InputsImprove DEF Input
  <2> QED
    BY <1>1, <2>2
<1>3. TypeOK => [ triage' # triage =>
                    \A old \in {Input}, new \in {InputWith(triage')} : Helps(old, new) ]_vars
  BY <1>2
<1> QED
  BY <1>3, AssessmentTypeCorrect, PTL DEF TriageHelps

-----------------------------------------------------------------------------

LEMMA FailedGateBlocker ==
  ASSUME NEW in, "fail" \in Gates(in) PROVE Verdict(in) = "blocked"
<1>1. in.analyzed
  BY DEF Gates
<1> SUFFICES Blockers(in) # {}
  BY <1>1 DEF Verdict
<1>2. CASE CriticalRisksGate(in) = "fail"
  BY <1>2 DEF CriticalRisksGate
<1>3. CASE ChangesGate(in) = "fail"
  <2>1. ChangedAt(in, "critical")
    BY <1>3 DEF ChangesGate
  <2> QED BY <2>1 DEF Blockers, Item
<1>4. ASSUME NEW d \in Dimensions, Gate(in, d) = "fail" PROVE Blockers(in) # {}
  <2>1. DimensionAt(in, d, "critical")
    BY <1>4 DEF Gate
  <2>2. PICK f \in in.findings : f.severity = "critical"
    BY <2>1 DEF DimensionAt, Has, OfDimension
  <2>3. SecurityAt(in, "critical") \/ OtherCriticals(in)
    BY <2>2 DEF SecurityAt, OtherCriticals, Has
  <2> QED BY <2>3 DEF Blockers, Item
<1> QED BY <1>1, <1>2, <1>3, <1>4 DEF Gates

(* Whatever the scan found, the customer decided and was committed, a gate *)
(* that fails comes with a blocker.                                        *)
THEOREM FailedGatesBlock == Spec => []FailedGateBlocks
<1>1. FailedGateBlocks
  BY FailedGateBlocker DEF FailedGateBlocks
<1> QED BY <1>1, PTL

-----------------------------------------------------------------------------
(* What spreads through a graph: the loops of graph.ts climb to the least  *)
(* closed set of nodes.                                                    *)

Grows(up, U) ==
    /\ up \in [SUBSET U -> SUBSET U]
    /\ \A S, T \in SUBSET U : S \subseteq T => up[S] \subseteq up[T]
Climbs(f, up, U) ==
    f = [S \in SUBSET U |-> IF up[S] \subseteq S THEN S ELSE f[S \cup up[S]]]
Closure(up, U, S) == {x \in U : \A T \in SUBSET U : S \subseteq T /\ up[T] \subseteq T => x \in T}

(* The least closed set that contains S is S itself when S is closed, and  *)
(* otherwise that of what one step from S gives.                           *)
LEMMA ClosureStep ==
  ASSUME NEW U, NEW up, Grows(up, U), NEW S \in SUBSET U
  PROVE  /\ up[S] \subseteq S => Closure(up, U, S) = S
         /\ Closure(up, U, S \cup up[S]) = Closure(up, U, S)
         /\ up[S] \in SUBSET U
<1>1. up[S] \in SUBSET U
  BY DEF Grows
<1>2. \A T \in SUBSET U : S \subseteq T /\ up[T] \subseteq T => S \cup up[S] \subseteq T
  BY DEF Grows
<1>3. Closure(up, U, S \cup up[S]) = Closure(up, U, S)
  BY <1>1, <1>2 DEF Closure
<1>4. up[S] \subseteq S => Closure(up, U, S) = S
  BY DEF Closure
<1> QED
  BY <1>1, <1>3, <1>4

LEMMA ClosureClimbs ==
  ASSUME NEW U, NEW up, Grows(up, U)
  PROVE  Climbs([S \in SUBSET U |-> Closure(up, U, S)], up, U)
<1> DEFINE c == [S \in SUBSET U |-> Closure(up, U, S)]
<1>1. ASSUME NEW S \in SUBSET U
      PROVE  c[S] = IF up[S] \subseteq S THEN S ELSE c[S \cup up[S]]
  <2>1. S \cup up[S] \in SUBSET U
    BY ClosureStep
  <2>2. c[S] = Closure(up, U, S) /\ c[S \cup up[S]] = Closure(up, U, S \cup up[S])
    BY <2>1
  <2> QED
    BY <2>2, ClosureStep
<1>2. c = [S \in SUBSET U |-> c[S]]
  OBVIOUS
<1> HIDE DEF c
<1>3. Climbs(c, up, U)
  BY <1>1, <1>2 DEF Climbs
<1> QED
  BY <1>3 DEF c

(* A climb that stops when a step gives nothing new ends in the least      *)
(* closed set: by induction on what is still outside.                      *)
LEMMA ClimbIsClosure ==
  ASSUME NEW U, IsFiniteSet(U), NEW up, Grows(up, U), NEW f, Climbs(f, up, U), NEW S \in SUBSET U
  PROVE  f[S] = Closure(up, U, S)
<1> DEFINE F == {V \in SUBSET U : f[U \ V] # Closure(up, U, U \ V)}
<1>1. SUFFICES ASSUME F # {} PROVE FALSE
  <2>1. U \ (U \ S) = S /\ U \ S \in SUBSET U
    OBVIOUS
  <2> QED
    BY <2>1
<1>2. F \subseteq SUBSET U
  OBVIOUS
<1>3. PICK V \in F : \A W \in F : W \subseteq V => W = V
  <2> HIDE DEF F
  <2> QED
    BY <1>1, <1>2, SmallestSubset
<1> DEFINE A == U \ V
           B == A \cup up[A]
<1>4. A \in SUBSET U /\ f[A] # Closure(up, U, A)
  BY <1>3
<1>5. f[A] = IF up[A] \subseteq A THEN A ELSE f[B]
  BY <1>4 DEF Climbs
<1>6. /\ up[A] \subseteq A => Closure(up, U, A) = A
      /\ Closure(up, U, B) = Closure(up, U, A)
      /\ up[A] \in SUBSET U
  <2> HIDE DEF A
  <2> QED
    BY <1>4, ClosureStep
<1>7. ~(up[A] \subseteq A) /\ f[B] # Closure(up, U, B)
  BY <1>4, <1>5, <1>6
<1>8. U \ (U \ B) = B /\ U \ B \in SUBSET U
  BY <1>6
<1>9. U \ B \in F
  BY <1>7, <1>8
<1>10. U \ B \subseteq V /\ U \ B # V
  BY <1>3, <1>6, <1>7
<1> QED
  BY <1>3, <1>9, <1>10

LEMMA ChosenClimb ==
  ASSUME NEW U, IsFiniteSet(U), NEW up, Grows(up, U), NEW f,
         f = CHOOSE h : Climbs(h, up, U), NEW S \in SUBSET U
  PROVE  f[S] = Closure(up, U, S)
<1>1. Climbs(f, up, U)
  BY ClosureClimbs
<1> QED
  BY <1>1, ClimbIsClosure

LEMMA ClosureIs ==
  ASSUME NEW U, NEW up, Grows(up, U), NEW S \in SUBSET U
  PROVE  /\ Closure(up, U, S) \in SUBSET U
         /\ S \subseteq Closure(up, U, S)
         /\ up[Closure(up, U, S)] \subseteq Closure(up, U, S)
         /\ \A T \in SUBSET U : S \subseteq T => Closure(up, U, S) \subseteq Closure(up, U, T)
<1> DEFINE C == Closure(up, U, S)
<1>1. C \in SUBSET U /\ S \subseteq C
  BY DEF Closure
<1>2. \A T \in SUBSET U : S \subseteq T /\ up[T] \subseteq T => C \subseteq T
  BY DEF Closure
<1>3. ASSUME NEW T \in SUBSET U, S \subseteq T, up[T] \subseteq T PROVE up[C] \subseteq T
  BY <1>1, <1>2, <1>3 DEF Grows
<1>4. up[C] \subseteq U
  BY <1>1 DEF Grows
<1>5. up[C] \subseteq C
  <2>1. ASSUME NEW x \in up[C] PROVE x \in C
    BY <1>3, <1>4, <2>1 DEF Closure
  <2> QED
    BY <2>1
<1>6. \A T \in SUBSET U : S \subseteq T => C \subseteq Closure(up, U, T)
  BY DEF Closure
<1> QED
  BY <1>1, <1>5, <1>6
(* What critically depends on a set of nodes, as a climb within the graph. *)
Ups(g) == [S \in SUBSET NodeIds(g) |-> Upstream(g, S)]

LEMMA IdsCounted ==
  ASSUME NEW g, ProperGraph(g)
  PROVE  /\ IsFiniteSet(NodeIds(g))
         /\ Cardinality(NodeIds(g)) <= Cardinality(g.nodes)
         /\ Cardinality(g.nodes) \in Nat
<1> DEFINE h == [n \in g.nodes |-> n.id]
<1>1. IsFiniteSet(g.nodes)
  BY DEF ProperGraph, Noded
<1>2. h \in Surjection(g.nodes, NodeIds(g))
  BY DEF Surjection, NodeIds
<1> HIDE DEF h
<1> QED
  BY <1>1, <1>2, FS_Surjection, FS_CardinalityType

LEMMA UpsGrow ==
  ASSUME NEW g, ProperGraph(g)
  PROVE  Grows(Ups(g), NodeIds(g)) /\ IsFiniteSet(NodeIds(g))
<1>1. \A e \in g.edges : e.from \in NodeIds(g) /\ e.to \in NodeIds(g)
  BY DEF ProperGraph, WellFormed
<1>2. \A S : Upstream(g, S) \subseteq NodeIds(g)
  BY <1>1 DEF Upstream
<1>3. \A S, T : S \subseteq T => Upstream(g, S) \subseteq Upstream(g, T)
  BY DEF Upstream
<1>4. Grows(Ups(g), NodeIds(g))
  BY <1>2, <1>3 DEF Grows, Ups
<1> QED
  BY <1>4, IdsCounted

LEMMA FailureIsClosure ==
  ASSUME NEW g, ProperGraph(g), NEW failed \in SUBSET NodeIds(g)
  PROVE  FailureImpact(g, failed) = Closure(Ups(g), NodeIds(g), failed)
<1> DEFINE U == NodeIds(g) \cup failed
           down[S \in SUBSET U] ==
              IF Upstream(g, S) \subseteq S THEN S ELSE down[S \cup Upstream(g, S)]
           Downs(h) == h = [S \in SUBSET U |->
              IF Upstream(g, S) \subseteq S THEN S ELSE h[S \cup Upstream(g, S)]]
<1>1. FailureImpact(g, failed) = down[failed]
  BY DEF FailureImpact
<1>2. down = CHOOSE h : Downs(h)
  OBVIOUS
<1>3. U = NodeIds(g)
  OBVIOUS
<1> HIDE DEF down, U
<1>4. \A h : Downs(h) <=> Climbs(h, Ups(g), U)
  BY <1>3 DEF Climbs, Ups
<1>5. (CHOOSE h : Downs(h)) = CHOOSE h : Climbs(h, Ups(g), U)
  <2> HIDE DEF Downs
  <2> QED
    BY <1>4
<1>6. down = CHOOSE h : Climbs(h, Ups(g), U)
  BY <1>2, <1>5
<1> QED
  BY <1>1, <1>3, <1>6, UpsGrow, ChosenClimb

(* What a failure takes down is in the graph, contains what failed and     *)
(* whatever critically depends on it, and grows with what failed.          *)
LEMMA FailureSpreads ==
  ASSUME NEW g, ProperGraph(g), NEW failed \in SUBSET NodeIds(g)
  PROVE  /\ FailureImpact(g, failed) \in SUBSET NodeIds(g)
         /\ failed \subseteq FailureImpact(g, failed)
         /\ Upstream(g, FailureImpact(g, failed)) \subseteq FailureImpact(g, failed)
         /\ \A more \in SUBSET NodeIds(g) :
               failed \subseteq more => FailureImpact(g, failed) \subseteq FailureImpact(g, more)
<1> DEFINE C == Closure(Ups(g), NodeIds(g), failed)
<1>1. FailureImpact(g, failed) = C
  BY FailureIsClosure
<1>2. /\ C \in SUBSET NodeIds(g) /\ failed \subseteq C /\ Ups(g)[C] \subseteq C
      /\ \A T \in SUBSET NodeIds(g) :
            failed \subseteq T => C \subseteq Closure(Ups(g), NodeIds(g), T)
  BY UpsGrow, ClosureIs
<1>3. Upstream(g, C) \subseteq C
  BY <1>2 DEF Ups
<1>4. \A T \in SUBSET NodeIds(g) : FailureImpact(g, T) = Closure(Ups(g), NodeIds(g), T)
  BY FailureIsClosure
<1> HIDE DEF C
<1> QED
  BY <1>1, <1>2, <1>3, <1>4

LEMMA ReachableAreNodes ==
  ASSUME NEW g, ProperGraph(g), NEW roots \in SUBSET NodeIds(g)
  PROVE  ReachableFrom(g, roots, {}) \in SUBSET NodeIds(g)
<1> DEFINE U == NodeIds(g) \cup roots
           next(S) == {e.to : e \in {d \in g.edges : d.from \in S /\ d.to \notin {}}}
           on == [S \in SUBSET U |-> next(S)]
           seen[S \in SUBSET U] == IF next(S) \subseteq S THEN S ELSE seen[S \cup next(S)]
           Sees(h) == h = [S \in SUBSET U |-> IF next(S) \subseteq S THEN S ELSE h[S \cup next(S)]]
<1>1. ReachableFrom(g, roots, {}) = seen[roots \ {}]
  BY DEF ReachableFrom
<1>2. seen = CHOOSE h : Sees(h)
  OBVIOUS
<1>3. U = NodeIds(g) /\ roots \ {} = roots
  OBVIOUS
<1>4. \A S : next(S) \subseteq NodeIds(g)
  BY DEF ProperGraph, WellFormed
<1>5. \A S, T : S \subseteq T => next(S) \subseteq next(T)
  OBVIOUS
<1> HIDE DEF seen, U, next
<1>6. Grows(on, U)
  BY <1>3, <1>4, <1>5 DEF Grows
<1>7. \A h : Sees(h) <=> Climbs(h, on, U)
  BY DEF Climbs
<1>8. (CHOOSE h : Sees(h)) = CHOOSE h : Climbs(h, on, U)
  <2> HIDE DEF Sees, on
  <2> QED
    BY <1>7
<1>9. seen = CHOOSE h : Climbs(h, on, U)
  BY <1>2, <1>8
<1> HIDE DEF on
<1>10. IsFiniteSet(U) /\ roots \in SUBSET U
  BY <1>3, UpsGrow
<1>11. seen[roots] = Closure(on, U, roots)
  BY <1>6, <1>9, <1>10, ChosenClimb
<1> QED
  BY <1>1, <1>3, <1>6, <1>10, <1>11, ClosureIs

-----------------------------------------------------------------------------
(* A node that something critically depends on takes that down with it, so *)
(* the database the predictions warn of is a single point of failure.      *)

LEMMA CriticalEdgeSpreads ==
  ASSUME NEW g, ProperGraph(g), NEW n \in g.nodes, NEW e \in g.edges,
         e.to = n.id, e.crit >= CriticalThreshold
  PROVE  /\ e.from \in FailureImpact(g, {n.id}) /\ e.from # n.id
         /\ FailureImpact(g, {n.id}) # {n.id}
         /\ Cardinality(FailureImpact(g, {n.id})) > 1
<1> DEFINE I == FailureImpact(g, {n.id})
<1>1. {n.id} \in SUBSET NodeIds(g)
  BY DEF NodeIds
<1>2. I \in SUBSET NodeIds(g) /\ {n.id} \subseteq I /\ Upstream(g, I) \subseteq I
  BY <1>1, FailureSpreads
<1> HIDE DEF I
<1>3. e.from \in I
  BY <1>2 DEF Upstream
<1>4. e.from # n.id
  BY DEF ProperGraph
<1>5. {n.id, e.from} \subseteq I /\ IsFiniteSet(I)
  BY <1>2, <1>3, IdsCounted, FS_Subset
<1>6. Cardinality({n.id, e.from}) = 2
  <2>1. Cardinality({n.id}) = 1 /\ IsFiniteSet({n.id})
    BY FS_Singleton
  <2>2. Cardinality({n.id} \cup {e.from}) = 2
    BY <1>4, <2>1, FS_AddElement
  <2>3. {n.id} \cup {e.from} = {n.id, e.from}
    OBVIOUS
  <2> QED
    BY <2>2, <2>3
<1>7. Cardinality({n.id, e.from}) <= Cardinality(I)
  BY <1>5, FS_Subset
<1>8. Cardinality(I) \in Nat
  BY <1>5, FS_CardinalityType
<1>9. I # {n.id}
  BY <1>3, <1>4
<1> QED
  BY <1>3, <1>4, <1>6, <1>7, <1>8, <1>9 DEF I

LEMMA PredictedAre ==
  ASSUME NEW g, NEW p \in PredictFailures(g), p.category = "bottleneck"
  PROVE  \E n \in g.nodes :
            /\ p.node = n.id /\ n.kind = "database" /\ n.redundant # "yes"
            /\ OnCriticalPath(g, n)
<1>1. \A i, s, l : Prediction("none", "scaling", s, l).category # "bottleneck"
  BY DEF Prediction
<1>2. PICK n \in g.nodes : p \in NodePredictions(g, n)
  BY <1>1 DEF PredictFailures
<1>3. \A i, c, s, l : Prediction(i, c, s, l).category = c /\ Prediction(i, c, s, l).node = i
  BY DEF Prediction
<1>4. /\ p = Prediction(n.id, "bottleneck", "high", 70)
      /\ n.kind \in {"database"} /\ n.redundant # "yes" /\ OnCriticalPath(g, n)
  <2> DEFINE single == n.redundant # "yes" /\ OnCriticalPath(g, n)
             P(kinds, condition, category, severity, likelihood) ==
               IF n.kind \in kinds /\ condition
               THEN {Prediction(n.id, category, severity, likelihood)} ELSE {}
  <2>1. p \in P({"database"}, single, "bottleneck", "high", 70)
          \cup P({"api"}, single, "scaling", "medium", 60)
          \cup P({"api", "external_api"}, n.hasRateLimit = "no", "security", "medium", 55)
          \cup P({"cache"}, single, "architecture", "medium", 45)
          \cup P({"external_api"}, OnCriticalPath(g, n) /\ n.provider \in {"stripe", "openai"},
                 "architecture", "low", 40)
    BY <1>2 DEF NodePredictions
  <2>2. \A k, b, c, s, l : p \in P(k, b, c, s, l) =>
           n.kind \in k /\ b /\ p = Prediction(n.id, c, s, l)
    OBVIOUS
  <2>3. \A k, b, c, s, l : p \in P(k, b, c, s, l) => c = "bottleneck"
    BY <1>3, <2>2
  <2> HIDE DEF P
  <2>4. p \in P({"database"}, single, "bottleneck", "high", 70)
    BY <2>1, <2>3
  <2> QED
    BY <2>2, <2>4
<1> QED
  BY <1>3, <1>4

LEMMA BottleneckIsSpof ==
  ASSUME NEW g, ProperGraph(g), NEW p \in PredictFailures(g), p.category = "bottleneck"
  PROVE  /\ \E f \in TopologyFindings(g) : f.category = "spof" /\ f.node = p.node
         /\ FailureImpact(g, {p.node}) # {p.node}
<1>1. PICK n \in g.nodes : /\ p.node = n.id /\ n.kind = "database" /\ n.redundant # "yes"
                           /\ OnCriticalPath(g, n)
  BY PredictedAre
<1>2. PICK e \in g.edges : e.to = n.id /\ e.crit >= CriticalThreshold
  BY <1>1 DEF OnCriticalPath, IncomingEdges
<1>3. FailureImpact(g, {n.id}) # {n.id} /\ Cardinality(FailureImpact(g, {n.id})) > 1
  BY <1>2, CriticalEdgeSpreads
<1>4. n.id \notin Entrypoints(g)
  <2>1. \A m \in g.nodes : m.id = n.id => m = n
    BY DEF ProperGraph, WellFormed
  <2>2. n.id \notin {m.id : m \in {k \in g.nodes : k.kind \in {"frontend", "api"}}}
    BY <1>1, <2>1
  <2>3. IncomingEdges(g, n.id) # {}
    BY <1>2 DEF IncomingEdges
  <2> QED
    BY <2>2, <2>3 DEF Entrypoints
<1>5. n \in SinglePointsOfFailure(g)
  BY <1>1, <1>3, <1>4 DEF SinglePointsOfFailure, IsSpof
<1>6. Topology("spof", n, 22, SeverityFromWeight(22)) \in TopologyFindings(g)
  BY <1>1, <1>5 DEF TopologyFindings
<1>7. Topology("spof", n, 22, SeverityFromWeight(22)).category = "spof"
      /\ Topology("spof", n, 22, SeverityFromWeight(22)).node = n.id
  BY DEF Topology
<1> QED
  BY <1>1, <1>3, <1>6, <1>7

(* A region takes down what each of its nodes does, and an attack reaches  *)
(* nodes of the graph only.                                                *)
LEMMA OutageAffects ==
  ASSUME NEW g, ProperGraph(g), NEW type, NEW removed \in SUBSET NodeIds(g)
  PROVE  /\ Outage(g, type, removed).affected \in SUBSET NodeIds(g)
         /\ removed # {} => Outage(g, type, removed).affected = FailureImpact(g, removed)
<1>1. FailureImpact(g, removed) \in SUBSET NodeIds(g)
  BY FailureSpreads
<1> QED
  BY <1>1 DEF Outage, Result, NoResult

LEMMA RegionTakesDownItsNodes ==
  ASSUME NEW g, ProperGraph(g), NEW r, NEW n \in g.nodes, n.region = r
  PROVE  FailureImpact(g, {n.id}) \subseteq RegionOutage(g, r).affected
<1> DEFINE R == {m.id : m \in {k \in g.nodes : k.region = r}}
<1>1. R \in SUBSET NodeIds(g) /\ {n.id} \subseteq R /\ {n.id} \in SUBSET NodeIds(g)
  BY DEF NodeIds
<1>2. RegionOutage(g, r).affected = Outage(g, "infra_region", R).affected
  BY DEF RegionOutage
<1> HIDE DEF R
<1> QED
  BY <1>1, <1>2, FailureSpreads, OutageAffects

Attacks == {"ddos", "api_abuse", "credential_leak", "github_token_leak", "jwt_secret_leak"}

LEMMA AttackStaysInside ==
  ASSUME NEW g, ProperGraph(g), NEW a \in Attacks
  PROVE  AttackSimulation(g, a).affected \subseteq NodeIds(g)
<1> DEFINE entry  == IdsWhere(g, LAMBDA n : n.kind \in {"frontend", "cdn", "dns"})
           public == IdsWhere(g, LAMBDA n : n.kind \in {"api", "frontend"})
           openApi == IdsWhere(g, LAMBDA n : n.kind \in {"api", "frontend"} /\ ~(n.hasRateLimit = "yes"))
           data   == IdsWhere(g, LAMBDA n : n.kind \in {"database", "storage"})
           auth   == IdsWhere(g, LAMBDA n : n.hasAuth = "yes" \/ n.kind = "api")
<1>1. /\ entry \in SUBSET NodeIds(g) /\ public \in SUBSET NodeIds(g)
      /\ openApi \in SUBSET NodeIds(g) /\ data \in SUBSET NodeIds(g)
      /\ auth \in SUBSET NodeIds(g)
  BY DEF IdsWhere, NodeIds
<1>2. AttackSimulation(g, a).affected \in
        {Downstream(g, entry), entry, Downstream(g, openApi), public,
         Downstream(g, auth) \cup data, NodeIds(g), {}}
  BY DEF AttackSimulation, Attacks
<1> HIDE DEF entry, public, openApi, data, auth
<1>3. \A S \in SUBSET NodeIds(g) : Downstream(g, S) \in SUBSET NodeIds(g)
  BY ReachableAreNodes DEF Downstream
<1> QED
  BY <1>1, <1>2, <1>3

-----------------------------------------------------------------------------
(* The report: its scores and what it lists beside them.                   *)

ExposureSum(S) == MapThenSumSet(LAMBDA f : f.weight, S)
PlainWeights(S) == [f \in S |-> f.weight]

LEMMA ExposureSumIsTotal ==
  ASSUME NEW S, IsFiniteSet(S)
  PROVE  ExposureSum(S) = Total(PlainWeights(S), S)
<1> DEFINE iter[s \in SUBSET S] ==
             IF s = {} THEN 0 ELSE LET x == CHOOSE x \in s : TRUE IN x.weight + iter[s \ {x}]
           Folds(h) == h = [s \in SUBSET S |->
             IF s = {} THEN 0 ELSE LET x == CHOOSE x \in s : TRUE IN x.weight + h[s \ {x}]]
<1>1. ExposureSum(S) = iter[S]
  BY DEF ExposureSum, MapThenSumSet, MapThenFoldSet
<1>2. iter = CHOOSE h : Folds(h)
  OBVIOUS
<1>3. \A s \in SUBSET S : s # {} => PlainWeights(S)[ItemOf(s)] = ItemOf(s).weight
  BY DEF PlainWeights, ItemOf
<1>4. \A h : IsSum(h, PlainWeights(S), S) <=> Folds(h)
  BY <1>3 DEF IsSum, ItemOf
<1> HIDE DEF iter, Folds
<1>5. IsSum(iter, PlainWeights(S), S)
  BY <1>2, <1>4, SumExists
<1> QED
  BY <1>1, <1>5, SumGivesTotals

LEMMA SecurityFindingsAre ==
  ASSUME NEW g, ProperGraph(g)
  PROVE  /\ IsFiniteSet(SecurityFindings(g))
         /\ \A f \in SecurityFindings(g) : f.weight \in {16, 10, 14}
         /\ SecurityFindings(g) = {} <=> Exposures(g) = {}
<1> DEFINE dos == IF DdosExposed(g)
                  THEN {[Topology("security", [id |-> "none"], 16, "high") EXCEPT !.title = "ddos"]} ELSE {}
           rate == [n \in g.nodes |-> [Topology("security", n, 10, "medium") EXCEPT !.title = "no rate limit"]]
           auth == [n \in g.nodes |-> [Topology("security", n, 14, "high") EXCEPT !.title = "no auth"]]
           R == Without(g, "hasRateLimit")
           A == Without(g, "hasAuth")
<1>1. R \in SUBSET g.nodes /\ A \in SUBSET g.nodes
  BY DEF Without, PublicApis
<1>2. SecurityFindings(g) = dos \cup {rate[n] : n \in R} \cup {auth[n] : n \in A}
  BY <1>1 DEF SecurityFindings
<1>3. /\ IsFiniteSet(dos) /\ \A f \in dos : f.weight = 16
      /\ dos = {} <=> ~DdosExposed(g)
  BY FS_Singleton, FS_EmptySet DEF Topology
<1>4. \A n \in g.nodes : rate[n].weight = 10 /\ auth[n].weight = 14
  BY DEF Topology
<1>5. Exposures(g) = {} <=> ~DdosExposed(g) /\ R = {} /\ A = {}
  <2> HIDE DEF R, A, dos
  <2>1. DdosExposed(g) => "ddos" \in Exposures(g)
    BY DEF Exposures
  <2>2. R # {} => "brute_force" \in Exposures(g)
    BY DEF Exposures, R
  <2>3. A # {} => "session_hijacking" \in Exposures(g)
    BY DEF Exposures, A
  <2>4. ~DdosExposed(g) /\ R = {} /\ A = {} => Exposures(g) = {}
    BY DEF Exposures, R, A
  <2> QED
    BY <2>1, <2>2, <2>3, <2>4
<1> HIDE DEF dos, rate, auth, R, A
<1>6. IsFiniteSet({rate[n] : n \in R}) /\ IsFiniteSet({auth[n] : n \in A})
  BY <1>1, ImageFinite DEF ProperGraph, Noded
<1>7. IsFiniteSet(SecurityFindings(g))
  <2> DEFINE I == {rate[n] : n \in R}
             J == {auth[n] : n \in A}
  <2>1. IsFiniteSet(I) /\ IsFiniteSet(J) /\ SecurityFindings(g) = (dos \cup I) \cup J
    BY <1>2, <1>6
  <2> HIDE DEF I, J
  <2> QED
    BY <1>3, <2>1, FS_Union
<1>8. \A f \in SecurityFindings(g) : f.weight \in {16, 10, 14}
  BY <1>1, <1>2, <1>3, <1>4
<1>9. SecurityFindings(g) = {} <=> Exposures(g) = {}
  BY <1>2, <1>3, <1>5
<1> QED
  BY <1>7, <1>8, <1>9

LEMMA PerfectIsUnexposed ==
  ASSUME NEW g, ProperGraph(g)
  PROVE  (SecurityScore(g) = 100) = (Exposures(g) = {})
<1> DEFINE F == SecurityFindings(g)
           w == PlainWeights(F)
<1>1. /\ IsFiniteSet(F)
      /\ \A f \in F : f.weight \in {16, 10, 14}
      /\ F = {} <=> Exposures(g) = {}
  BY SecurityFindingsAre
<1>2. SecurityScore(g) = Clamp(100 - ExposureSum(F), 0, 100)
  BY DEF SecurityScore, ExposureSum
<1> HIDE DEF F
<1>3. ExposureSum(F) = Total(w, F)
  BY <1>1, ExposureSumIsTotal
<1>4. \A f \in F : w[f] \in Nat /\ w[f] >= 10
  BY <1>1 DEF PlainWeights
<1> HIDE DEF w
<1>5. Total(w, F) \in Nat
  BY <1>1, <1>4, TotalNat
<1>6. F = {} => Total(w, F) = 0
  BY TotalEmpty
<1>7. F # {} => Total(w, F) >= 10
  <2> SUFFICES ASSUME NEW f \in F PROVE Total(w, F) >= 10
    OBVIOUS
  <2>1. Total(w, F) = w[f] + Total(w, F \ {f})
    BY <1>1, <1>4, TotalTakeOut
  <2>2. Total(w, F \ {f}) \in Nat
    BY <1>1, <1>4, TotalNat, FS_Subset
  <2> QED
    BY <1>4, <2>1, <2>2
<1>8. SecurityScore(g) = 100 <=> Total(w, F) = 0
  BY <1>2, <1>3, <1>5, <1>6, <1>7 DEF Clamp, Least
<1>9. SecurityScore(g) = 100 <=> Exposures(g) = {}
  BY <1>1, <1>6, <1>7, <1>8
<1> QED
  BY <1>9

LEMMA FlawlessIsReliable ==
  ASSUME NEW g, TopologyFindings(g) = {}
  PROVE  ReliabilityScore(g, {}) = 100
<1>1. Weighted({}) = 0
  <2>1. Weighted({}) = Total(Points({}), {})
    BY WeightedIsTotal, FS_EmptySet
  <2> QED
    BY <2>1, TotalEmpty
<1> QED
  BY <1>1 DEF ReliabilityScore, Clamp, Least, TopologyPenaltyCap, CodePenaltyCap
(* Recommendations are about findings that can be ranked.                  *)
Rated(F) ==
    /\ IsFiniteSet(F)
    /\ \A f \in F : f.severity \in Severities /\ f.category \in DOMAIN Playbook

LEMMA TopologyRated ==
  ASSUME NEW g, ProperGraph(g)
  PROVE  Rated(TopologyFindings(g))
<1>1. IsFiniteSet(TopologyFindings(g))
  BY TopologyWeighable DEF Weighable, ProperGraph, Noded
<1>2. \A w : SeverityFromWeight(w) \in Severities
  BY DEF SeverityFromWeight, Severities
<1>3. \A c, n, w, s : Topology(c, n, w, s).category = c /\ Topology(c, n, w, s).severity = s
  BY DEF Topology
<1>4. {"spof", "backup", "rate_limit", "redundancy", "vendor_lock_in"} \subseteq DOMAIN Playbook
  BY DEF Playbook
<1>5. {"critical", "medium", "high", "low"} \subseteq Severities
  BY DEF Severities
<1>6. \A f \in TopologyFindings(g) : f.severity \in Severities /\ f.category \in DOMAIN Playbook
  BY <1>2, <1>3, <1>4, <1>5 DEF TopologyFindings
<1> QED
  BY <1>1, <1>6 DEF Rated

(* The foremost finding is one of the findings, and critical if any is.    *)
LEMMA ForemostIs ==
  ASSUME NEW F, Rated(F), F # {}
  PROVE  \E f \in F :
            /\ Foremost(F) = {f}
            /\ (\E e \in F : e.severity = "critical") => f.severity = "critical"
<1> DEFINE rank == [f \in F |-> 100 * SeverityOrder[f.severity] + Playbook[f.category]]
<1>1. \A s \in Severities : SeverityOrder[s] \in 1 .. 4 /\ (SeverityOrder[s] = 4 => s = "critical")
  BY DEF Severities, SeverityOrder
<1>2. \A c \in DOMAIN Playbook : Playbook[c] \in 0 .. 99
  BY DEF Playbook
<1>3. \A f \in F : /\ SeverityOrder[f.severity] \in 1 .. 4
                   /\ SeverityOrder[f.severity] = 4 => f.severity = "critical"
                   /\ Playbook[f.category] \in 0 .. 99
  BY <1>1, <1>2 DEF Rated
<1>4. \A f \in F : rank[f] \in Nat
  BY <1>3
<1>5. \A e, f \in F : ListedAbove(e, f) => ~(rank[e] <= rank[f])
  <2>1. \A a, b \in 1 .. 4, p, q \in 0 .. 99 :
           (a > b \/ (a = b /\ p > q)) => ~(100 * a + p <= 100 * b + q)
    OBVIOUS
  <2> SUFFICES ASSUME NEW e \in F, NEW f \in F, ListedAbove(e, f) PROVE ~(rank[e] <= rank[f])
    OBVIOUS
  <2>2. \/ SeverityOrder[e.severity] > SeverityOrder[f.severity]
        \/ /\ SeverityOrder[e.severity] = SeverityOrder[f.severity]
           /\ Playbook[e.category] > Playbook[f.category]
    BY DEF ListedAbove
  <2> QED
    BY <1>3, <2>1, <2>2
<1>6. PICK t \in F : \A e \in F : rank[e] <= rank[t]
  <2> HIDE DEF rank
  <2> QED
    BY <1>4, LargestExists DEF Rated
<1>7. \A e \in F : ~ListedAbove(e, t)
  BY <1>5, <1>6
<1> DEFINE c == CHOOSE f \in F : \A e \in F : ~ListedAbove(e, f)
<1>8. c \in F /\ \A e \in F : ~ListedAbove(e, c)
  BY <1>7
<1>9. Foremost(F) = {c}
  BY DEF Foremost
<1> HIDE DEF c
<1>10. ASSUME NEW e \in F, e.severity = "critical" PROVE c.severity = "critical"
  <2>1. ~(SeverityOrder[e.severity] > SeverityOrder[c.severity])
    BY <1>8 DEF ListedAbove
  <2>2. SeverityOrder[e.severity] = 4
    BY <1>10 DEF SeverityOrder
  <2> QED
    BY <1>3, <1>8, <2>1, <2>2
<1> QED
  BY <1>8, <1>9, <1>10

(* The list is built one after the other: unfolded, up to the third.       *)
LEMMA ForemostIsShown ==
  ASSUME NEW F
  PROVE  Foremost(F) \subseteq Recommended(F, 3)
<1> DEFINE first[k \in 0 .. 3] ==
              IF k = 0 THEN {} ELSE first[k - 1] \cup Foremost(F \ first[k - 1])
           Firsts(h) == h = [k \in 0 .. 3 |->
              IF k = 0 THEN {} ELSE h[k - 1] \cup Foremost(F \ h[k - 1])]
           Add(S) == S \cup Foremost(F \ S)
           h == [k \in 0 .. 3 |-> IF k = 0 THEN {} ELSE IF k = 1 THEN Add({})
                                  ELSE IF k = 2 THEN Add(Add({})) ELSE Add(Add(Add({})))]
<1>1. Recommended(F, 3) = first[3]
  BY DEF Recommended
<1>2. first = CHOOSE d : Firsts(d)
  OBVIOUS
<1>3. Firsts(h)
  <2>1. \A k \in 0 .. 3 : k = 0 \/ k = 1 \/ k = 2 \/ k = 3
    OBVIOUS
  <2>2. h[0] = {} /\ h[1] = Add(h[0]) /\ h[2] = Add(h[1]) /\ h[3] = Add(h[2])
    <3> HIDE DEF Add
    <3> QED
      OBVIOUS
  <2>3. \A k \in 0 .. 3 : h[k] = IF k = 0 THEN {} ELSE h[k - 1] \cup Foremost(F \ h[k - 1])
    <3> HIDE DEF h, Firsts
    <3> SUFFICES ASSUME NEW k \in 0 .. 3, k # 0 PROVE h[k] = h[k - 1] \cup Foremost(F \ h[k - 1])
      BY <2>2
    <3>1. k = 1 \/ k = 2 \/ k = 3
      BY <2>1
    <3>2. h[k] = Add(h[k - 1])
      <4> HIDE DEF Add
      <4>1. CASE k = 1
        BY <2>2, <4>1
      <4>2. CASE k = 2
        BY <2>2, <4>2
      <4>3. CASE k = 3
        BY <2>2, <4>3
      <4> QED
        BY <3>1, <4>1, <4>2, <4>3
    <3> QED
      BY <3>2
  <2>4. h = [k \in 0 .. 3 |-> h[k]]
    OBVIOUS
  <2> HIDE DEF h
  <2> QED
    BY <2>3, <2>4
<1> HIDE DEF first
<1>4. Firsts(first)
  <2> HIDE DEF Firsts, h
  <2> QED
    BY <1>2, <1>3
<1>5. \A k \in 0 .. 3 :
         first[k] = IF k = 0 THEN {} ELSE first[k - 1] \cup Foremost(F \ first[k - 1])
  BY <1>4
<1>6. /\ first[0] = {}
      /\ first[1] = first[0] \cup Foremost(F \ first[0])
      /\ first[2] = first[1] \cup Foremost(F \ first[1])
      /\ first[3] = first[2] \cup Foremost(F \ first[2])
  <2>1. /\ first[1] = first[1 - 1] \cup Foremost(F \ first[1 - 1])
        /\ first[2] = first[2 - 1] \cup Foremost(F \ first[2 - 1])
        /\ first[3] = first[3 - 1] \cup Foremost(F \ first[3 - 1])
    BY <1>5
  <2>2. 1 - 1 = 0 /\ 2 - 1 = 1 /\ 3 - 1 = 2 /\ first[0] = {}
    BY <1>5
  <2> QED
    BY <2>1, <2>2
<1>7. F \ {} = F
  OBVIOUS
<1> HIDE DEF Firsts, h
<1> QED
  BY <1>1, <1>6, <1>7

-----------------------------------------------------------------------------
(* What a simulation may answer, and the prices that follow from it.       *)

ImpactNames == {"none", "degraded", "partial_outage", "full_outage"}

LEMMA ImpactRanks ==
  /\ ImpactRank("none") = 1 /\ ImpactRank("degraded") = 2
  /\ ImpactRank("partial_outage") = 3 /\ ImpactRank("full_outage") = 4
<1>1. DOMAIN Impacts = 1 .. 4
  BY DEF Impacts
<1>2. /\ Impacts[1] = "none" /\ Impacts[2] = "degraded"
      /\ Impacts[3] = "partial_outage" /\ Impacts[4] = "full_outage"
  BY DEF Impacts
<1>3. \A i \in 1 .. 4 : i = 1 \/ i = 2 \/ i = 3 \/ i = 4
  OBVIOUS
<1>4. \A k \in 1 .. 4 : \A i \in 1 .. 4 : Impacts[i] = Impacts[k] => i = k
  BY <1>2, <1>3
<1>5. \A k \in 1 .. 4 : ImpactRank(Impacts[k]) = k
  BY <1>1, <1>4 DEF ImpactRank
<1> QED
  BY <1>2, <1>5

(* A result the rest can be computed from: it reaches nodes of the graph   *)
(* only, its radius is a percentage, and it is full when its impact is.    *)
Sound(g, r) ==
    /\ r.affected \in SUBSET NodeIds(g)
    /\ r.impact \in ImpactNames
    /\ r.radius \in 0 .. 100
    /\ r.full \in BOOLEAN
    /\ r.full <=> r.impact = "full_outage"

LEMMA ShareIsPercentage ==
  ASSUME NEW g, ProperGraph(g), NEW S \in SUBSET NodeIds(g)
  PROVE  Share(g, S) \in 0 .. 100
<1> DEFINE n == Cardinality(g.nodes)
           c == Cardinality(S)
<1>1. CASE g.nodes = {}
  BY <1>1 DEF Share
<1>2. CASE g.nodes # {}
  <2>1. IsFiniteSet(g.nodes)
    BY DEF ProperGraph, Noded
  <2>2. n \in Nat /\ n # 0
    BY <1>2, <2>1, FS_CardinalityType, FS_EmptySet
  <2>3. IsFiniteSet(S) /\ c <= Cardinality(NodeIds(g)) /\ Cardinality(NodeIds(g)) <= n
    BY IdsCounted, FS_Subset
  <2>4. c \in Nat /\ Cardinality(NodeIds(g)) \in Nat
    BY <2>3, IdsCounted, FS_CardinalityType
  <2>5. Share(g, S) = (100 * c) \div n
    BY <1>2 DEF Share
  <2> HIDE DEF n, c
  <2>6. 100 * c \in Nat /\ 100 * n \in Nat /\ 100 * c <= 100 * n
    BY <2>2, <2>3, <2>4
  <2>7. (100 * c) \div n \in Nat /\ (100 * c) \div n <= (100 * n) \div n
    BY <2>2, <2>6, DivMonotone
  <2>8. (100 * n) \div n = 100
    BY <2>2
  <2> QED
    BY <2>5, <2>7, <2>8
<1> QED
  BY <1>1, <1>2

LEMMA OutageIsSound ==
  ASSUME NEW g, ProperGraph(g), NEW type, NEW removed \in SUBSET NodeIds(g)
  PROVE  Sound(g, Outage(g, type, removed)) /\ Outage(g, type, removed).type = type
<1> DEFINE hit == FailureImpact(g, removed)
           full == Entrypoints(g) # {} /\ Entrypoints(g) \subseteq hit
<1>1. hit \in SUBSET NodeIds(g)
  BY FailureSpreads
<1>2. Share(g, hit) \in 0 .. 100
  BY <1>1, ShareIsPercentage
<1>3. Classify(g, hit, full) \in ImpactNames /\ (full <=> Classify(g, hit, full) = "full_outage")
  BY DEF Classify, ImpactNames
<1>4. Outage(g, type, removed) =
        IF removed = {} THEN NoResult(type)
        ELSE Result(type, Classify(g, hit, full), hit, Share(g, hit), full)
  BY DEF Outage
<1>5. full \in BOOLEAN
  OBVIOUS
<1> HIDE DEF hit, full
<1>6. CASE removed = {}
  BY <1>4, <1>6 DEF NoResult, Result, Sound, ImpactNames
<1>7. CASE removed # {}
  BY <1>1, <1>2, <1>3, <1>4, <1>5, <1>7 DEF Result, Sound
<1> QED
  BY <1>6, <1>7

LEMMA MostUsedIsMember ==
  ASSUME NEW g, ProperGraph(g), NEW N \in SUBSET g.nodes, N # {}
  PROVE  MostUsed(g, N) \in N
<1> DEFINE in == [n \in N |-> Cardinality(IncomingEdges(g, n.id))]
           M == {n \in N : \A m \in N : in[m] <= in[n]}
<1>1. \A n \in N : in[n] \in Nat
  <2> SUFFICES ASSUME NEW n \in N PROVE Cardinality(IncomingEdges(g, n.id)) \in Nat
    OBVIOUS
  <2>1. IsFiniteSet(g.edges) /\ IncomingEdges(g, n.id) \subseteq g.edges
    BY DEF ProperGraph, Weighed, IncomingEdges
  <2> QED
    BY <2>1, FS_Subset, FS_CardinalityType
<1>2. M # {}
  <2>1. IsFiniteSet(N)
    BY FS_Subset DEF ProperGraph, Noded
  <2> HIDE DEF in
  <2>2. PICK a \in N : \A b \in N : in[b] <= in[a]
    BY <1>1, <2>1, LargestExists
  <2> QED
    BY <2>2
<1>3. Placed(M)
  BY DEF ProperGraph, Noded, Placed
<1>4. MostUsed(g, N) = First(M)
  BY DEF MostUsed
<1> HIDE DEF M
<1>5. First(M) \in M
  BY <1>2, <1>3, FirstIsMember
<1> QED
  BY <1>4, <1>5 DEF M

LEMMA TargetIsNode ==
  ASSUME NEW g, ProperGraph(g), NEW type
  PROVE  DefaultTarget(g, type) \in SUBSET NodeIds(g)
<1> DEFINE kinds == CASE type = "db_lock" -> {"database"} [] type = "cache" -> {"cache"}
                      [] type = "queue" -> {"queue"} [] OTHER -> {"service", "api"}
           N == OfKind(g, kinds)
<1>1. DefaultTarget(g, type) =
        IF N = {} THEN {} ELSE {(IF type = "infra_server" THEN MostUsed(g, N) ELSE First(N)).id}
  BY DEF DefaultTarget
<1>2. N \in SUBSET g.nodes
  BY DEF OfKind
<1> HIDE DEF N
<1>3. CASE N = {}
  BY <1>1, <1>3
<1>4. CASE N # {}
  <2>1. MostUsed(g, N) \in N
    BY <1>2, <1>4, MostUsedIsMember
  <2>2. Placed(N)
    BY <1>2 DEF ProperGraph, Noded, Placed
  <2>3. First(N) \in N
    BY <1>4, <2>2, FirstIsMember
  <2> QED
    BY <1>1, <1>2, <1>4, <2>1, <2>3 DEF NodeIds
<1> QED
  BY <1>3, <1>4

LEMMA EntrypointsAreNodes == \A g : Entrypoints(g) \in SUBSET NodeIds(g)
BY DEF Entrypoints, NodeIds

PricedTypes == SimulationTypes \ (BusinessScenarios \cup {"stripe_down"})

LEMMA SurgeIsSound ==
  ASSUME NEW g, ProperGraph(g), NEW type
  PROVE  Sound(g, TrafficSurge(g, type)) /\ TrafficSurge(g, type).type = type
<1> DEFINE hit  == {n.id : n \in Bottlenecks(g)}
           full == type = "traffic_100x" /\ \E n \in Bottlenecks(g) : n.kind = "database"
           impact == CASE full -> "full_outage"
                       [] ~full /\ hit # {} -> "partial_outage"
                       [] OTHER -> "degraded"
<1>1. TrafficSurge(g, type) = Result(type, impact, hit, Share(g, hit), full)
  BY DEF TrafficSurge
<1>2. hit \in SUBSET NodeIds(g)
  BY DEF Bottlenecks, NodeIds
<1>3. Share(g, hit) \in 0 .. 100
  BY <1>2, ShareIsPercentage
<1>4. full \in BOOLEAN
  OBVIOUS
<1> HIDE DEF full, hit
<1>5. impact \in ImpactNames /\ (full <=> impact = "full_outage")
  BY <1>4 DEF ImpactNames
<1> HIDE DEF impact
<1> QED
  BY <1>1, <1>2, <1>3, <1>4, <1>5 DEF Result, Sound

LEMMA ProviderIs ==
  ASSUME NEW g, ProperGraph(g), NEW type \in ProviderScenarios
  PROVE  /\ ProviderOutage(g, type).affected \in SUBSET NodeIds(g)
         /\ ProviderOutage(g, type).impact \in ImpactNames
         /\ type # "stripe_down" =>
              Sound(g, ProviderOutage(g, type)) /\ ProviderOutage(g, type).type = type
<1> DEFINE removed == {n.id : n \in {m \in g.nodes : m.provider = ProviderDown[type]}}
           out == Outage(g, type, removed)
<1>1. removed \in SUBSET NodeIds(g)
  BY DEF NodeIds
<1>2. ProviderOutage(g, type) = IF removed # {} /\ type = "stripe_down"
                                THEN [out EXCEPT !.impact = "partial_outage"] ELSE out
  BY DEF ProviderOutage
<1> HIDE DEF removed
<1>3. Sound(g, out) /\ out.type = type
  BY <1>1, OutageIsSound
<1>4. \E t, i, a, r, f : out = Result(t, i, a, r, f)
  BY DEF Outage, NoResult
<1> HIDE DEF out
<1>5. LET paid == [out EXCEPT !.impact = "partial_outage"]
      IN  paid.affected = out.affected /\ paid.impact = "partial_outage"
  BY <1>4 DEF Result
<1> QED
  BY <1>2, <1>3, <1>5 DEF Sound, ImpactNames

LEMMA PricedIsSound ==
  ASSUME NEW g, ProperGraph(g), NEW t \in PricedTypes
  PROVE  Sound(g, SimulateFailure(g, t)) /\ SimulateFailure(g, t).type = t
<1>1. CASE t \in NodeScenarios
  <2>1. SimulateFailure(g, t) = Outage(g, t, DefaultTarget(g, t))
    BY <1>1 DEF SimulateFailure, NodeScenarios, ProviderScenarios, TrafficScenarios,
                BusinessScenarios, NodeOutage
  <2> QED
    BY <2>1, TargetIsNode, OutageIsSound
<1>2. CASE t \in ProviderScenarios
  <2>1. SimulateFailure(g, t) = ProviderOutage(g, t)
    BY <1>2 DEF SimulateFailure, NodeScenarios, ProviderScenarios, TrafficScenarios,
                BusinessScenarios
  <2>2. t # "stripe_down"
    BY DEF PricedTypes
  <2> QED
    BY <1>2, <2>1, <2>2, ProviderIs
<1>3. CASE t \in TrafficScenarios
  <2>1. SimulateFailure(g, t) = TrafficSurge(g, t)
    BY <1>3 DEF SimulateFailure, NodeScenarios, ProviderScenarios, TrafficScenarios,
                BusinessScenarios
  <2> QED
    BY <2>1, SurgeIsSound
<1>4. CASE t = "infra_region"
  <2>1. SimulateFailure(g, t) = RegionOutage(g, FailedRegion(g))
    BY <1>4 DEF SimulateFailure, NodeScenarios, ProviderScenarios, TrafficScenarios,
                BusinessScenarios
  <2> DEFINE R == {n.id : n \in {m \in g.nodes : m.region = FailedRegion(g)}}
  <2>2. R \in SUBSET NodeIds(g)
    BY DEF NodeIds
  <2>3. RegionOutage(g, FailedRegion(g)) = Outage(g, "infra_region", R)
    BY DEF RegionOutage
  <2> HIDE DEF R
  <2> QED
    BY <1>4, <2>1, <2>2, <2>3, OutageIsSound
<1>5. CASE t = "dns"
  <2>1. SimulateFailure(g, t) = Result("dns", "full_outage", Entrypoints(g), 100, TRUE)
    BY <1>5 DEF SimulateFailure, NodeScenarios, ProviderScenarios, TrafficScenarios,
                BusinessScenarios, DnsOutage
  <2> DEFINE r == SimulateFailure(g, t)
  <2>2. /\ r.type = "dns" /\ r.impact = "full_outage" /\ r.affected = Entrypoints(g)
        /\ r.radius = 100 /\ r.full = TRUE
    BY <2>1 DEF Result
  <2> HIDE DEF r
  <2>3. Sound(g, r)
    <3>1. r.affected \in SUBSET NodeIds(g)
      BY <2>2, EntrypointsAreNodes
    <3>2. r.radius \in 0 .. 100
      BY <2>2
    <3>3. r.full \in BOOLEAN /\ (r.full <=> r.impact = "full_outage")
      BY <2>2
    <3> QED
      BY <2>2, <3>1, <3>2, <3>3 DEF Sound, ImpactNames
  <2> QED
    BY <1>5, <2>2, <2>3 DEF r
<1>6. \/ t \in NodeScenarios \/ t \in ProviderScenarios \/ t \in TrafficScenarios
      \/ t = "infra_region" \/ t = "dns"
  BY DEF PricedTypes, SimulationTypes
<1> QED
  BY <1>1, <1>2, <1>3, <1>4, <1>5, <1>6

LEMMA HeadlineIs ==
  ASSUME NEW g, ProperGraph(g), NEW t \in HeadlineScenarios
  PROVE  /\ SimulateFailure(g, t).affected \in SUBSET NodeIds(g)
         /\ SimulateFailure(g, t).impact \in ImpactNames
         /\ t = "dns" => SimulateFailure(g, t).impact = "full_outage"
<1>1. t = "stripe_down" \/ t \in PricedTypes
  BY DEF HeadlineScenarios, PricedTypes, SimulationTypes, BusinessScenarios, NodeScenarios,
         ProviderScenarios
<1>2. CASE t = "stripe_down"
  <2>1. SimulateFailure(g, t) = ProviderOutage(g, t) /\ t \in ProviderScenarios
    BY <1>2 DEF SimulateFailure, NodeScenarios, ProviderScenarios, TrafficScenarios,
                BusinessScenarios
  <2> QED
    BY <1>2, <2>1, ProviderIs
<1>3. CASE t \in PricedTypes
  <2>1. SimulateFailure(g, "dns") = Result("dns", "full_outage", Entrypoints(g), 100, TRUE)
    BY DEF SimulateFailure, NodeScenarios, ProviderScenarios, TrafficScenarios,
           BusinessScenarios, DnsOutage
  <2>2. SimulateFailure(g, "dns").impact = "full_outage"
    BY <2>1 DEF Result
  <2> QED
    BY <1>3, <2>2, PricedIsSound DEF Sound
<1> QED
  BY <1>1, <1>2, <1>3
(* The scenario of a report is as bad as its worst step, the DNS outage.   *)
Crisis == {[type |-> t, hours |-> 1] : t \in HeadlineScenarios}

LEMMA CrisisIsTotal ==
  ASSUME NEW g, ProperGraph(g)
  PROVE  /\ WorstImpact(g, Crisis) = "full_outage"
         /\ ScenarioAffected(g, Crisis) \subseteq NodeIds(g)
<1>1. ASSUME NEW s \in Crisis
      PROVE  /\ SimulateFailure(g, s.type).affected \in SUBSET NodeIds(g)
             /\ ImpactRank(SimulateFailure(g, s.type).impact) \in 1 .. 4
  <2>1. s.type \in HeadlineScenarios
    BY DEF Crisis
  <2> QED
    BY <2>1, HeadlineIs, ImpactRanks DEF ImpactNames
<1>2. ScenarioAffected(g, Crisis) \subseteq NodeIds(g)
  BY <1>1 DEF ScenarioAffected
<1> DEFINE R == {ImpactRank(SimulateFailure(g, s.type).impact) : s \in Crisis} \cup {1}
<1>3. R \subseteq 1 .. 4
  BY <1>1
<1>4. 4 \in R
  <2>1. "dns" \in HeadlineScenarios
    BY DEF HeadlineScenarios
  <2>2. [type |-> "dns", hours |-> 1] \in Crisis /\ [type |-> "dns", hours |-> 1].type = "dns"
    BY <2>1 DEF Crisis
  <2>3. ImpactRank(SimulateFailure(g, "dns").impact) = 4
    BY <2>1, HeadlineIs, ImpactRanks
  <2> QED
    BY <2>2, <2>3
<1>5. WorstImpact(g, Crisis) = Impacts[Max(R)]
  BY DEF WorstImpact
<1> HIDE DEF R
<1>6. Max(R) = 4
  <2>1. \A x \in R : x \in 1 .. 4
    BY <1>3
  <2>2. \A x \in R : (\A y \in R : x >= y) <=> x = 4
    BY <1>4, <2>1
  <2> QED
    BY <1>4, <2>2 DEF Max
<1>7. Impacts[4] = "full_outage"
  BY DEF Impacts
<1> QED
  BY <1>2, <1>5, <1>6, <1>7
(* An hour costs 0, 2410, 8220 to 8920 or 16120, by impact: worse impacts  *)
(* never overlap with better ones.                                         *)
Business == [checkoutShare |-> 150, slaRate |-> 1]

LEMMA CostOfAnHour ==
  ASSUME NEW g, NEW r, Sound(g, r), r.type \in PricedTypes
  PROVE  LET cost == RevenueImpact(r, Business, 1)
         IN  /\ r.impact = "none" => cost = 0
             /\ r.impact = "degraded" => cost = 2410
             /\ r.impact = "partial_outage" => cost \in 8220 .. 8920
             /\ r.impact = "full_outage" => cost = 16120
<1>1. /\ r.type # "stripe_down" /\ r.type # "payment_failure"
      /\ r.type # "churn_wave" /\ r.type # "refund_spike"
  BY DEF PricedTypes, BusinessScenarios
<1> DEFINE credits == IF r.full \/ r.impact = "partial_outage" THEN 720 ELSE 0
<1>2. RevenueImpact(r, Business, 1) = 1 * RevenueFactor(r) + 0 + credits + 720 * ChurnFactor(r)
  BY <1>1 DEF RevenueImpact, Business
<1>3. ChurnFactor(r) = [none |-> 0, degraded |-> 3, partial_outage |-> 10, full_outage |-> 20][r.impact]
  BY <1>1 DEF ChurnFactor
<1>4. r.radius \in 0 .. 100
  BY DEF Sound
<1>5. CASE r.impact = "none"
  <2>1. RevenueFactor(r) = 0 /\ credits = 0 /\ ChurnFactor(r) = 0
    BY <1>3, <1>5 DEF RevenueFactor, Sound
  <2> QED
    BY <1>2, <1>5, <2>1
<1>6. CASE r.impact = "degraded"
  <2>1. RevenueFactor(r) = 250 /\ credits = 0 /\ ChurnFactor(r) = 3
    BY <1>3, <1>6 DEF RevenueFactor, Sound
  <2> QED
    BY <1>2, <1>6, <2>1
<1>7. CASE r.impact = "partial_outage"
  <2>1. RevenueFactor(r) \in 300 .. 1000
    BY <1>4, <1>7 DEF RevenueFactor
  <2>2. credits = 720 /\ ChurnFactor(r) = 10
    BY <1>3, <1>7
  <2> HIDE DEF credits
  <2> QED
    BY <1>2, <1>7, <2>1, <2>2
<1>8. CASE r.impact = "full_outage"
  <2>1. RevenueFactor(r) = 1000 /\ credits = 720 /\ ChurnFactor(r) = 20
    BY <1>3, <1>8 DEF RevenueFactor, Sound
  <2> QED
    BY <1>2, <1>8, <2>1
<1> QED
  BY <1>5, <1>6, <1>7, <1>8 DEF Sound, ImpactNames

LEMMA CostFollows ==
  ASSUME NEW g, ProperGraph(g)
  PROVE  CostFollowsImpactOn(g)
<1> DEFINE results == {SimulateFailure(g, t) : t \in PricedTypes}
<1>1. ASSUME NEW r \in results, NEW s \in results,
             ImpactRank(r.impact) < ImpactRank(s.impact)
      PROVE  RevenueImpact(r, Business, 1) <= RevenueImpact(s, Business, 1)
  <2>1. /\ Sound(g, r) /\ r.type \in PricedTypes
        /\ Sound(g, s) /\ s.type \in PricedTypes
    BY PricedIsSound
  <2> DEFINE c == RevenueImpact(r, Business, 1)
             d == RevenueImpact(s, Business, 1)
  <2>2. /\ r.impact = "none" => c = 0
        /\ r.impact = "degraded" => c = 2410
        /\ r.impact = "partial_outage" => c \in 8220 .. 8920
        /\ r.impact = "full_outage" => c = 16120
    BY <2>1, CostOfAnHour
  <2>3. /\ s.impact = "none" => d = 0
        /\ s.impact = "degraded" => d = 2410
        /\ s.impact = "partial_outage" => d \in 8220 .. 8920
        /\ s.impact = "full_outage" => d = 16120
    BY <2>1, CostOfAnHour
  <2>4. r.impact \in ImpactNames /\ s.impact \in ImpactNames
    BY <2>1 DEF Sound
  <2> HIDE DEF c, d
  <2>5. c <= d
    BY <1>1, <2>2, <2>3, <2>4, ImpactRanks DEF ImpactNames
  <2> QED
    BY <2>5 DEF c, d
<1> HIDE DEF results
<1>2. \A r, s \in results : ImpactRank(r.impact) < ImpactRank(s.impact) =>
         RevenueImpact(r, Business, 1) <= RevenueImpact(s, Business, 1)
  BY <1>1
<1> QED
  BY <1>2 DEF CostFollowsImpactOn, results, PricedTypes, Business
LEMMA ReportAgrees ==
  ASSUME NEW g, ProperGraph(g)
  PROVE  /\ (Report(g, {}).security = 100) = (Report(g, {}).exposed = {})
         /\ Report(g, {}).reliability < 100 => Report(g, {}).top # {}
         /\ (\E f \in TopologyFindings(g) : f.severity = "critical")
              => \E f \in Report(g, {}).top : f.severity = "critical"
<1> DEFINE T == TopologyFindings(g)
<1>1. /\ Report(g, {}).security = SecurityScore(g)
      /\ Report(g, {}).exposed = Exposures(g)
      /\ Report(g, {}).reliability = ReliabilityScore(g, {})
      /\ Report(g, {}).top = Recommended(ReliabilityFindings(g, {}), 3)
  BY DEF Report
<1>2. ReliabilityFindings(g, {}) = T
  BY DEF ReliabilityFindings
<1>3. Rated(T)
  BY TopologyRated
<1>4. Foremost(T) \subseteq Recommended(T, 3)
  BY ForemostIsShown
<1>5. T # {} => \E f \in T : /\ f \in Recommended(T, 3)
                             /\ (\E e \in T : e.severity = "critical") => f.severity = "critical"
  <2> HIDE DEF T
  <2> SUFFICES ASSUME T # {}
               PROVE  \E f \in T : /\ f \in Recommended(T, 3)
                                   /\ (\E e \in T : e.severity = "critical") => f.severity = "critical"
    OBVIOUS
  <2>1. PICK f \in T : /\ Foremost(T) = {f}
                       /\ (\E e \in T : e.severity = "critical") => f.severity = "critical"
    BY <1>3, ForemostIs
  <2> QED
    BY <1>4, <2>1
<1>6. T = {} => ReliabilityScore(g, {}) = 100
  BY FlawlessIsReliable
<1>7. (SecurityScore(g) = 100) = (Exposures(g) = {})
  BY PerfectIsUnexposed
<1> HIDE DEF T
<1>8. ReliabilityScore(g, {}) < 100 => Recommended(T, 3) # {}
  <2>1. ~(100 < 100)
    OBVIOUS
  <2> QED
    BY <1>5, <1>6, <2>1
<1>9. (\E f \in T : f.severity = "critical") => \E f \in Recommended(T, 3) : f.severity = "critical"
  BY <1>5
<1> QED
  BY <1>1, <1>2, <1>7, <1>8, <1>9 DEF T

LEMMA EnginesAgreeOn ==
  ASSUME NEW g, ProperGraph(g)
  PROVE  AgreeOn(g)
<1>1. \A p \in PredictFailures(g) : p.category = "bottleneck" =>
         /\ \E f \in TopologyFindings(g) : f.category = "spof" /\ f.node = p.node
         /\ FailureImpact(g, {p.node}) # {p.node}
  BY BottleneckIsSpof
<1>2. \A r : \A n \in g.nodes :
         n.region = r => FailureImpact(g, {n.id}) \subseteq RegionOutage(g, r).affected
  BY RegionTakesDownItsNodes
<1>3. \A a \in Attacks : AttackSimulation(g, a).affected \subseteq NodeIds(g)
  BY AttackStaysInside
<1>4. /\ WorstImpact(g, Crisis) = "full_outage"
      /\ ScenarioAffected(g, Crisis) \subseteq NodeIds(g)
  BY CrisisIsTotal
<1>5. /\ (Report(g, {}).security = 100) = (Report(g, {}).exposed = {})
      /\ Report(g, {}).reliability < 100 => Report(g, {}).top # {}
      /\ (\E f \in TopologyFindings(g) : f.severity = "critical")
           => \E f \in Report(g, {}).top : f.severity = "critical"
  BY ReportAgrees
<1> QED
  BY <1>1, <1>2, <1>3, <1>4, <1>5 DEF AgreeOn, Attacks, Crisis

LEMMA EveryGraphIsAgreedOn ==
  ASSUME NEW s \in Sources
  PROVE  Agreement[s] /\ Pricing[s]
<1>1. ProperGraph(GraphOf[s])
  BY GraphIsProper
<1>2. AgreeOn(GraphOf[s]) /\ CostFollowsImpactOn(GraphOf[s])
  BY <1>1, EnginesAgreeOn, CostFollows
<1> QED
  BY <1>2 DEF Agreement, Pricing

(* The predictions, the reliability score, the simulations, the report and *)
(* the prices agree with one another on every graph that a scan builds.    *)
THEOREM EnginesTellOneStory == Spec => []EnginesAgree
<1>1. TypeOK => EnginesAgree
  BY EveryGraphIsAgreedOn DEF TypeOK, EnginesAgree, NoScan, Sources
<1> QED
  BY <1>1, AssessmentTypeCorrect, PTL
=============================================================================
