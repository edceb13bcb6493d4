--------------------------- MODULE PartitionProofs ---------------------------
(***************************************************************************)
(* Proofs about how a workload is cut into tiles (module Partition), for   *)
(* any total and any weights.  Totals and turns are folds over finite      *)
(* sets: the first part shows, by induction over the subsets of a set,     *)
(* what a fold and a sum are.                                              *)
(***************************************************************************)
EXTENDS Partition, FiniteSetTheorems, FunctionTheorems, WellFoundedInduction, TLAPS

(* Induction and folds. *)

\* What holds of the empty set, and of every subset of S of which it holds without any one of its
\* elements, holds of S.
LEMMA FiniteInduction ==
  ASSUME NEW S, IsFiniteSet(S), NEW Q, {} \in Q,
         \A T \in SUBSET S : T # {} /\ (\A x \in T : T \ {x} \in Q) => T \in Q
  PROVE  S \in Q
<1>. DEFINE Bad == {T \in SUBSET S : T \notin Q}
            R == StrictSubsetOrdering(S)
            F == FiniteSubsetsOf(S)
<1>. SUFFICES ASSUME S \notin Q PROVE FALSE
  OBVIOUS
<1>1. Bad \subseteq F /\ Bad # {}
  BY FS_FiniteSubsetsOfFinite
<1>2. IsWellFoundedOn(R, F)
  BY FS_StrictSubsetOrderingWellFounded
<1>3. \E T \in Bad : \A U \in Bad : ~ (<<U, T>> \in R)
  <2>. HIDE DEF Bad, R, F
  <2>. QED  BY <1>1, <1>2, WFMin
<1>4. PICK T \in Bad : \A U \in Bad : ~ (<<U, T>> \in R)
  BY <1>3
<1>5. ASSUME NEW x \in T PROVE T \ {x} \in Q
  <2>1. T \ {x} \in SUBSET S /\ T \in SUBSET S /\ T \ {x} \subseteq T /\ T \ {x} # T
    OBVIOUS
  <2>2. <<T \ {x}, T>> \in R
    BY <2>1 DEF StrictSubsetOrdering
  <2>. QED  BY <1>4, <2>1, <2>2
<1>. QED  BY <1>4, <1>5

\* The same for the numbers up to one.
LEMMA UpwardInduction ==
  ASSUME NEW k \in Nat, NEW Q, 0 \in Q, \A i \in 0..(k - 1) : i \in Q => i + 1 \in Q
  PROVE  k \in Q
<1>. DEFINE Good == {T \in SUBSET (1..k) : \A i \in 0..k : T = 1..i => i \in Q}
<1>1. {} \in Good
  OBVIOUS
<1>2. ASSUME NEW T \in SUBSET (1..k), T # {}, \A x \in T : T \ {x} \in Good
      PROVE  T \in Good
  <2>. SUFFICES ASSUME NEW i \in 0..k, T = 1..i PROVE i \in Q
    OBVIOUS
  <2>1. i \in 1..k /\ T \ {i} = 1..(i - 1) /\ i - 1 \in 0..(k - 1) /\ i - 1 \in 0..k
    BY <1>2
  <2>2. i - 1 \in Q
    BY <1>2, <2>1
  <2>3. (i - 1) + 1 = i
    BY <2>1
  <2>. QED  BY <2>1, <2>2, <2>3
<1>3. IsFiniteSet(1..k)
  BY FS_Interval
<1>4. 1..k \in Good
  <2>. HIDE DEF Good
  <2>. QED  BY <1>1, <1>2, <1>3, FiniteInduction
<1>. QED  BY <1>4

\* What MapThenFoldSet computes on the subsets of D: base for the empty one, and op of a picked
\* element and the rest for another.
Folding(g, D, base, op, pick) ==
  g = [s \in SUBSET D |-> IF s = {} THEN base ELSE op[<<pick[s], g[s \ {pick[s]}]>>]]

\* There is such a function.  It is the least relation that holds what it must.
LEMMA FoldExists ==
  ASSUME NEW D, IsFiniteSet(D), NEW V, NEW base \in V, NEW op \in [D \X V -> V],
         NEW pick, \A s \in SUBSET D : s # {} => pick[s] \in s
  PROVE  \E g \in [SUBSET D -> V] : Folding(g, D, base, op, pick)
<1>. DEFINE Rest(s) == s \ {pick[s]}
            Closed(G) == /\ <<{}, base>> \in G
                         /\ \A s \in SUBSET D, v \in V :
                              s # {} /\ <<Rest(s), v>> \in G => <<s, op[<<pick[s], v>>]>> \in G
            Smallest == {p \in (SUBSET D) \X V : \A G \in SUBSET ((SUBSET D) \X V) : Closed(G) => p \in G}
            Only(s, v) == \A u \in V : <<s, u>> \in Smallest <=> u = v
            Valued == {s \in SUBSET D : \E v \in V : Only(s, v)}
<1>1. \A s \in SUBSET D, v \in V : s # {} => Rest(s) \in SUBSET D /\ op[<<pick[s], v>>] \in V
  OBVIOUS
<1>2. Closed(Smallest)
  BY <1>1
<1>3. \A G \in SUBSET ((SUBSET D) \X V) : Closed(G) => Smallest \subseteq G
  OBVIOUS
<1>. HIDE DEF Smallest
<1>4. Smallest \subseteq (SUBSET D) \X V
  BY DEF Smallest
<1>5. Only({}, base)
  <2>1. ASSUME NEW u \in V, <<{}, u>> \in Smallest, u # base PROVE FALSE
    <3>. DEFINE G == Smallest \ {<<{}, u>>}
    <3>1. Closed(G)
      BY <1>2, <2>1
    <3>2. G \in SUBSET ((SUBSET D) \X V)
      BY <1>4
    <3>. QED  BY <1>3, <2>1, <3>1, <3>2
  <2>. QED  BY <1>2, <2>1
<1>6. ASSUME NEW s \in SUBSET D, s # {}, NEW v \in V, Only(Rest(s), v)
      PROVE  Only(s, op[<<pick[s], v>>])
  <2>. DEFINE w == op[<<pick[s], v>>]
  <2>1. <<s, w>> \in Smallest
    BY <1>2, <1>6
  <2>2. ASSUME NEW u \in V, <<s, u>> \in Smallest, u # w PROVE FALSE
    <3>. DEFINE G == Smallest \ {<<s, u>>}
    <3>1. <<{}, base>> \in G
      BY <1>2, <1>6
    <3>2. ASSUME NEW t \in SUBSET D, NEW x \in V, t # {}, <<Rest(t), x>> \in G
          PROVE  <<t, op[<<pick[t], x>>]>> \in G
      <4>1. <<t, op[<<pick[t], x>>]>> \in Smallest
        BY <1>2, <3>2
      <4>2. CASE t # s
        BY <4>1, <4>2
      <4>3. CASE t = s
        BY <1>6, <2>2, <3>2, <4>1, <4>3
      <4>. QED  BY <4>2, <4>3
    <3>3. Closed(G) /\ G \in SUBSET ((SUBSET D) \X V)
      BY <1>4, <3>1, <3>2
    <3>. QED  BY <1>3, <2>2, <3>3
  <2>. QED  BY <2>1, <2>2
<1>7. ASSUME NEW s \in SUBSET D PROVE s \in Valued
  <2>1. IsFiniteSet(s)
    BY FS_Subset
  <2>2. {} \in Valued
    BY <1>5
  <2>3. ASSUME NEW t \in SUBSET s, t # {}, \A x \in t : t \ {x} \in Valued
        PROVE  t \in Valued
    <3>1. Rest(t) \in Valued /\ t \in SUBSET D
      BY <2>3
    <3>2. PICK v \in V : Only(Rest(t), v)
      BY <3>1
    <3>3. Only(t, op[<<pick[t], v>>]) /\ op[<<pick[t], v>>] \in V
      <4>. HIDE DEF Only, Rest
      <4>. QED  BY <1>1, <1>6, <2>3, <3>1, <3>2
    <3>. QED  BY <3>1, <3>3
  <2>. HIDE DEF Valued
  <2>. QED  BY <2>1, <2>2, <2>3, FiniteInduction
<1>. DEFINE g == [s \in SUBSET D |-> CHOOSE v \in V : Only(s, v)]
<1>8. \A s \in SUBSET D : g[s] \in V /\ Only(s, g[s])
  <2>. HIDE DEF Only
  <2>. QED  BY <1>7
<1>9. \A s \in SUBSET D, u, v \in V : Only(s, u) /\ Only(s, v) => u = v
  OBVIOUS
<1>10. g[{}] = base
  BY <1>5, <1>8, <1>9
<1>11. ASSUME NEW s \in SUBSET D, s # {} PROVE g[s] = op[<<pick[s], g[Rest(s)]>>]
  <2>1. Rest(s) \in SUBSET D /\ g[Rest(s)] \in V /\ Only(Rest(s), g[Rest(s)])
    BY <1>1, <1>8, <1>11
  <2>2. Only(s, op[<<pick[s], g[Rest(s)]>>]) /\ op[<<pick[s], g[Rest(s)]>>] \in V
    <3>. HIDE DEF Only, Rest, g
    <3>. QED  BY <1>1, <1>6, <1>11, <2>1
  <2>. HIDE DEF Only, Rest, g
  <2>. QED  BY <1>8, <1>9, <2>2
<1>12. g \in [SUBSET D -> V]
  BY <1>8
<1>13. Folding(g, D, base, op, pick)
  <2>1. g = [s \in SUBSET D |-> g[s]]
    OBVIOUS
  <2>2. ASSUME NEW s \in SUBSET D
        PROVE  g[s] = IF s = {} THEN base ELSE op[<<pick[s], g[s \ {pick[s]}]>>]
    <3>. HIDE DEF g
    <3>1. CASE s = {}
      BY <1>10, <3>1
    <3>2. CASE s # {}
      BY <1>11, <3>2
    <3>. QED  BY <3>1, <3>2
  <2>. HIDE DEF g
  <2>. QED  BY <2>1, <2>2 DEF Folding
<1>. QED  BY <1>12, <1>13

-----------------------------------------------------------------------------
(* Sums. *)

\* What Total computes on the subsets of its argument's domain.
Adding(g, f, D) ==
  g = [s \in SUBSET D |-> IF s = {} THEN 0 ELSE LET x == CHOOSE x \in s : TRUE IN f[x] + g[s \ {x}]]

LEMMA TotalIsAdding ==
  ASSUME NEW f
  PROVE  Total(f) = (CHOOSE g : Adding(g, f, DOMAIN f))[DOMAIN f]
BY DEF Total, FoldFunction, FoldFunctionOnSet, MapThenFoldSet, Adding

LEMMA AddingExists ==
  ASSUME NEW D, IsFiniteSet(D), NEW f \in [D -> Int]
  PROVE  \E g \in [SUBSET D -> Int] : Adding(g, f, D)
<1>. DEFINE op == [p \in D \X Int |-> f[p[1]] + p[2]]
            pick == [s \in SUBSET D |-> CHOOSE x \in s : TRUE]
<1>1. op \in [D \X Int -> Int] /\ \A s \in SUBSET D : s # {} => pick[s] \in s
  OBVIOUS
<1>2. \A x \in D, v \in Int : op[<<x, v>>] = f[x] + v
  OBVIOUS
<1>3. \A s \in SUBSET D : pick[s] = CHOOSE x \in s : TRUE
  OBVIOUS
<1>. HIDE DEF op, pick
<1>4. PICK g \in [SUBSET D -> Int] : Folding(g, D, 0, op, pick)
  <2>1. 0 \in Int
    OBVIOUS
  <2>. HIDE DEF Folding
  <2>. QED  BY <1>1, <2>1, FoldExists, Zenon
<1>5. ASSUME NEW s \in SUBSET D, s # {}
      PROVE  op[<<pick[s], g[s \ {pick[s]}]>>] = f[CHOOSE x \in s : TRUE] + g[s \ {CHOOSE x \in s : TRUE}]
  <2>1. pick[s] \in D /\ s \ {pick[s]} \in SUBSET D
    BY <1>1, <1>5
  <2>2. g[s \ {pick[s]}] \in Int
    BY <2>1
  <2>. QED  BY <1>2, <1>3, <2>1, <2>2
<1>6. \A s \in SUBSET D :
        g[s] = IF s = {} THEN 0 ELSE f[CHOOSE x \in s : TRUE] + g[s \ {CHOOSE x \in s : TRUE}]
  <2>1. \A s \in SUBSET D : g[s] = IF s = {} THEN 0 ELSE op[<<pick[s], g[s \ {pick[s]}]>>]
    BY <1>4 DEF Folding
  <2>. QED  BY <1>5, <2>1
<1>7. g = [s \in SUBSET D |-> g[s]]
  OBVIOUS
<1>. QED  BY <1>6, <1>7 DEF Adding

\* What is added depends on the elements alone.
LEMMA AddingAgrees ==
  ASSUME NEW D, NEW f, NEW g, Adding(g, f, D), NEW E, NEW e, NEW h, Adding(h, e, E),
         NEW T, IsFiniteSet(T), T \subseteq D, T \subseteq E, \A x \in T : f[x] = e[x]
  PROVE  g[T] = h[T]
<1>. DEFINE Q == {U \in SUBSET T : g[U] = h[U]}
<1>1. \A s \in SUBSET D :
        g[s] = IF s = {} THEN 0 ELSE f[CHOOSE x \in s : TRUE] + g[s \ {CHOOSE x \in s : TRUE}]
  BY DEF Adding
<1>2. \A s \in SUBSET E :
        h[s] = IF s = {} THEN 0 ELSE e[CHOOSE x \in s : TRUE] + h[s \ {CHOOSE x \in s : TRUE}]
  BY DEF Adding
<1>3. {} \in Q
  BY <1>1, <1>2
<1>4. ASSUME NEW U \in SUBSET T, U # {}, \A x \in U : U \ {x} \in Q PROVE U \in Q
  <2>1. PICK y : y = CHOOSE x \in U : TRUE
    OBVIOUS
  <2>2. y \in U
    BY <1>4, <2>1
  <2>3. g[U] = f[y] + g[U \ {y}] /\ h[U] = e[y] + h[U \ {y}]
    BY <1>1, <1>2, <1>4, <2>1
  <2>4. f[y] = e[y] /\ g[U \ {y}] = h[U \ {y}]
    BY <1>4, <2>2
  <2>. QED  BY <2>3, <2>4
<1>5. T \in Q
  <2>. HIDE DEF Q
  <2>. QED  BY <1>3, <1>4, FiniteInduction
<1>. QED  BY <1>5

\* The sum over a part of a function's domain.
Part(f, T) == Total([x \in T |-> f[x]])

LEMMA PartIsAdding ==
  ASSUME NEW D, IsFiniteSet(D), NEW f \in [D -> Int], NEW T \in SUBSET D,
         NEW g, Adding(g, f, D)
  PROVE  Part(f, T) = g[T]
<1>. DEFINE e == [x \in T |-> f[x]]
            h == CHOOSE h : Adding(h, e, T)
<1>1. IsFiniteSet(T)
  BY FS_Subset
<1>2. e \in [T -> Int] /\ DOMAIN e = T /\ \A x \in T : f[x] = e[x]
  OBVIOUS
<1>. HIDE DEF e
<1>3. Adding(h, e, T)
  BY <1>1, <1>2, AddingExists
<1>4. Total(e) = h[T]
  BY <1>2, TotalIsAdding
<1>. HIDE DEF h
<1>5. g[T] = h[T]
  BY <1>1, <1>2, <1>3, AddingAgrees
<1>. QED  BY <1>4, <1>5 DEF Part, e

LEMMA PartOfAll ==
  ASSUME NEW D, NEW f \in [D -> Int]
  PROVE  Part(f, D) = Total(f)
<1>1. f = [x \in D |-> f[x]]
  OBVIOUS
<1>. QED  BY <1>1 DEF Part

\* A sum is a number, nothing adds up to zero, and any element may be taken out first.
LEMMA PartFacts ==
  ASSUME NEW D, IsFiniteSet(D), NEW f \in [D -> Int]
  PROVE  /\ Part(f, {}) = 0
         /\ \A T \in SUBSET D : Part(f, T) \in Int
         /\ \A T \in SUBSET D : \A x \in T : Part(f, T) = f[x] + Part(f, T \ {x})
<1>1. PICK g \in [SUBSET D -> Int] : Adding(g, f, D)
  BY AddingExists
<1>2. \A T \in SUBSET D : Part(f, T) = g[T] /\ g[T] \in Int
  BY <1>1, PartIsAdding
<1>3. \A s \in SUBSET D :
        g[s] = IF s = {} THEN 0 ELSE f[CHOOSE x \in s : TRUE] + g[s \ {CHOOSE x \in s : TRUE}]
  BY <1>1 DEF Adding
<1>4. g[{}] = 0
  BY <1>3
<1>5. ASSUME NEW T \in SUBSET D PROVE \A x \in T : g[T] = f[x] + g[T \ {x}]
  <2>. DEFINE Q == {U \in SUBSET T : \A x \in U : g[U] = f[x] + g[U \ {x}]}
  <2>1. {} \in Q /\ IsFiniteSet(T)
    BY FS_Subset
  <2>2. ASSUME NEW U \in SUBSET T, U # {}, \A x \in U : U \ {x} \in Q PROVE U \in Q
    <3>. SUFFICES ASSUME NEW x \in U PROVE g[U] = f[x] + g[U \ {x}]
      OBVIOUS
    <3>1. PICK y : y = CHOOSE z \in U : TRUE
      OBVIOUS
    <3>2. y \in U /\ U \in SUBSET D
      BY <2>2, <3>1
    <3>3. g[U] = f[y] + g[U \ {y}]
      BY <1>3, <2>2, <3>1, <3>2
    <3>4. CASE x # y
      <4>1. g[U \ {y}] = f[x] + g[(U \ {y}) \ {x}]
        BY <2>2, <3>2, <3>4
      <4>2. g[U \ {x}] = f[y] + g[(U \ {x}) \ {y}]
        BY <2>2, <3>2, <3>4
      <4>3. (U \ {x}) \ {y} = (U \ {y}) \ {x}
        OBVIOUS
      <4>4. PICK r \in Int : r = g[(U \ {y}) \ {x}]
        BY <3>2
      <4>5. PICK a, b \in Int : a = f[x] /\ b = f[y]
        BY <3>2
      <4>6. g[U] = b + (a + r) /\ g[U \ {x}] = b + r
        BY <3>3, <4>1, <4>2, <4>3, <4>4, <4>5, Zenon
      <4>. QED  BY <4>4, <4>5, <4>6
    <3>. QED  BY <3>3, <3>4
  <2>3. T \in Q
    <3>. HIDE DEF Q
    <3>. QED  BY <2>1, <2>2, FiniteInduction
  <2>. QED  BY <2>3
<1>6. \A T \in SUBSET D : \A x \in T : T \ {x} \in SUBSET D
  OBVIOUS
<1>. QED  BY <1>2, <1>4, <1>5, <1>6

LEMMA PartRemoval ==
  ASSUME NEW D, IsFiniteSet(D), NEW f \in [D -> Int], NEW T \in SUBSET D, NEW x \in T
  PROVE  Part(f, T) = f[x] + Part(f, T \ {x})
BY PartFacts

\* A part depends on its own elements alone.
LEMMA PartSame ==
  ASSUME NEW T, NEW f, NEW g, \A x \in T : f[x] = g[x]
  PROVE  Part(f, T) = Part(g, T)
<1>1. [x \in T |-> f[x]] = [x \in T |-> g[x]]
  OBVIOUS
<1>. QED  BY <1>1 DEF Part

LEMMA SumType ==
  ASSUME NEW D, IsFiniteSet(D), NEW f \in [D -> Int]
  PROVE  Total(f) \in Int
BY PartFacts, PartOfAll

\* Sums add up.
Added(h, f, g, D) == \A x \in D : h[x] = f[x] + g[x]

LEMMA SumAdds ==
  ASSUME NEW D, IsFiniteSet(D), NEW f \in [D -> Int], NEW g \in [D -> Int],
         NEW h \in [D -> Int], Added(h, f, g, D)
  PROVE  Total(h) = Total(f) + Total(g)
<1>. DEFINE Q == {T \in SUBSET D : Part(h, T) = Part(f, T) + Part(g, T)}
<1>1. \A x \in D : h[x] = f[x] + g[x] /\ f[x] \in Int /\ g[x] \in Int
  BY DEF Added
<1>2. {} \in Q
  BY <1>1, PartFacts
<1>3. ASSUME NEW T \in SUBSET D, T # {}, \A x \in T : T \ {x} \in Q PROVE T \in Q
  <2>1. PICK x \in T : TRUE
    BY <1>3
  <2>2. Part(h, T \ {x}) = Part(f, T \ {x}) + Part(g, T \ {x})
    BY <1>3
  <2>3. PICK a, b \in Int : a = Part(f, T \ {x}) /\ b = Part(g, T \ {x})
    BY PartFacts
  <2>4. /\ Part(h, T) = h[x] + Part(h, T \ {x})
        /\ Part(f, T) = f[x] + Part(f, T \ {x}) /\ Part(g, T) = g[x] + Part(g, T \ {x})
    BY PartRemoval
  <2>5. PICK c, d \in Int : c = f[x] /\ d = g[x]
    BY <1>1
  <2>6. Part(h, T) = (c + d) + (a + b) /\ Part(f, T) + Part(g, T) = (c + a) + (d + b)
    BY <1>1, <2>2, <2>3, <2>4, <2>5, Zenon
  <2>. QED  BY <2>3, <2>5, <2>6
<1>4. D \in Q
  <2>. HIDE DEF Q
  <2>. QED  BY <1>2, <1>3, FiniteInduction
<1>. QED  BY <1>4, PartOfAll

\* A common factor comes out of a sum.
LEMMA SumScales ==
  ASSUME NEW D, IsFiniteSet(D), NEW f \in [D -> Int], NEW c \in Int,
         NEW h \in [D -> Int], \A x \in D : h[x] = c * f[x]
  PROVE  Total(h) = c * Total(f)
<1>. DEFINE Q == {T \in SUBSET D : Part(h, T) = c * Part(f, T)}
<1>1. \A x \in D : h[x] = c * f[x] /\ f[x] \in Int
  OBVIOUS
<1>2. {} \in Q
  BY <1>1, PartFacts
<1>3. ASSUME NEW T \in SUBSET D, T # {}, \A x \in T : T \ {x} \in Q PROVE T \in Q
  <2>1. PICK x \in T : TRUE
    BY <1>3
  <2>2. PICK a, b \in Int : a = Part(f, T \ {x}) /\ b = f[x]
    BY <1>1, PartFacts
  <2>3. Part(h, T \ {x}) = c * a
    BY <1>3, <2>2
  <2>4. Part(h, T) = h[x] + Part(h, T \ {x}) /\ Part(f, T) = f[x] + Part(f, T \ {x})
    BY <1>1, PartFacts
  <2>5. Part(h, T) = c * b + c * a /\ Part(f, T) = b + a
    BY <1>1, <2>2, <2>3, <2>4
  <2>6. c * b + c * a = c * (b + a)
    BY <2>2
  <2>. QED  BY <2>5, <2>6
<1>4. D \in Q
  <2>. HIDE DEF Q
  <2>. QED  BY <1>2, <1>3, FiniteInduction
<1>. QED  BY <1>4, PartOfAll

Mixed(h, c, f, g, D) == \A x \in D : h[x] = c * f[x] + g[x]

LEMMA SumMixes ==
  ASSUME NEW D, IsFiniteSet(D), NEW f \in [D -> Int], NEW g \in [D -> Int], NEW c \in Int,
         NEW h \in [D -> Int], Mixed(h, c, f, g, D)
  PROVE  Total(h) = c * Total(f) + Total(g)
<1>1. PICK e \in [D -> Int] : \A x \in D : e[x] = c * f[x]
  <2>1. [x \in D |-> c * f[x]] \in [D -> Int]
    OBVIOUS
  <2>. QED  BY <2>1
<1>2. Total(e) = c * Total(f)
  BY <1>1, SumScales
<1>3. Added(h, e, g, D)
  BY <1>1 DEF Mixed, Added
<1>4. Total(h) = Total(e) + Total(g)
  BY <1>3, SumAdds
<1>. QED  BY <1>2, <1>4

\* A sum of larger numbers is larger.
LEMMA SumOrders ==
  ASSUME NEW D, IsFiniteSet(D), NEW f \in [D -> Int], NEW g \in [D -> Int],
         \A x \in D : f[x] <= g[x]
  PROVE  Total(f) <= Total(g)
<1>. DEFINE Q == {T \in SUBSET D : Part(f, T) <= Part(g, T)}
<1>1. \A x \in D : f[x] \in Int /\ g[x] \in Int
  OBVIOUS
<1>2. {} \in Q
  BY PartFacts
<1>3. ASSUME NEW T \in SUBSET D, T # {}, \A x \in T : T \ {x} \in Q PROVE T \in Q
  <2>1. PICK x \in T : TRUE
    BY <1>3
  <2>2. PICK a, b, c, d \in Int :
          a = Part(f, T \ {x}) /\ b = f[x] /\ c = Part(g, T \ {x}) /\ d = g[x]
    BY <1>1, PartFacts
  <2>3. Part(f, T) = b + a /\ Part(g, T) = d + c
    BY <2>2, PartFacts
  <2>4. a <= c /\ b <= d
    BY <1>3, <2>2
  <2>. QED  BY <2>2, <2>3, <2>4
<1>4. D \in Q
  <2>. HIDE DEF Q
  <2>. QED  BY <1>2, <1>3, FiniteInduction
<1>. QED  BY <1>4, PartOfAll

\* A sum of zeros and ones counts the ones.
LEMMA SumCounts ==
  ASSUME NEW D, IsFiniteSet(D), NEW f \in [D -> {0, 1}]
  PROVE  Total(f) = Cardinality({x \in D : f[x] = 1})
<1>. DEFINE ones(T) == {x \in T : f[x] = 1}
            Q == {T \in SUBSET D : Part(f, T) = Cardinality(ones(T))}
<1>1. f \in [D -> Int] /\ \A x \in D : f[x] \in {0, 1}
  OBVIOUS
<1>2. {} \in Q
  <2>1. ones({}) = {}
    OBVIOUS
  <2>. QED  BY <1>1, <2>1, PartFacts, FS_EmptySet
<1>3. ASSUME NEW T \in SUBSET D, T # {}, \A x \in T : T \ {x} \in Q PROVE T \in Q
  <2>1. PICK x \in T : TRUE
    BY <1>3
  <2>2. Part(f, T \ {x}) = Cardinality(ones(T \ {x}))
    BY <1>3
  <2>3. Part(f, T) = f[x] + Part(f, T \ {x})
    BY <1>1, PartFacts
  <2>4. IsFiniteSet(ones(T)) /\ Cardinality(ones(T)) \in Nat
    BY FS_Subset, FS_CardinalityType
  <2>5. CASE f[x] = 1
    <3>1. ones(T \ {x}) = ones(T) \ {x} /\ x \in ones(T)
      BY <2>5
    <3>2. Cardinality(ones(T) \ {x}) = Cardinality(ones(T)) - 1
      BY <2>4, <3>1, FS_RemoveElement
    <3>3. Part(f, T) = 1 + (Cardinality(ones(T)) - 1)
      <4>. HIDE DEF ones
      <4>. QED  BY <2>2, <2>3, <2>5, <3>1, <3>2, Zenon
    <3>. QED  BY <2>4, <3>3
  <2>6. CASE f[x] = 0
    <3>1. ones(T \ {x}) = ones(T)
      BY <2>6
    <3>. HIDE DEF ones
    <3>. QED  BY <2>2, <2>3, <2>4, <2>6, <3>1
  <2>7. f[x] = 0 \/ f[x] = 1
    BY <1>1
  <2>. QED  BY <2>5, <2>6, <2>7, Zenon
<1>4. D \in Q
  <2>. HIDE DEF Q
  <2>. QED  BY <1>2, <1>3, FiniteInduction
<1>. QED  BY <1>1, <1>4, PartOfAll

\* The items of the first tiles are those of the tiles before the last of them, and its own.
LEMMA PartGrows ==
  ASSUME NEW k \in Nat, NEW f \in [1..k -> Int], NEW i \in 1..k
  PROVE  /\ Part(f, 1..i) = Part(f, 1..(i - 1)) + f[i]
         /\ Part(f, 1..(i - 1)) \in Int /\ f[i] \in Int
<1>1. IsFiniteSet(1..k)
  BY FS_Interval
<1>2. 1..i \in SUBSET (1..k) /\ 1..(i - 1) \in SUBSET (1..k) /\ i \in 1..i /\ (1..i) \ {i} = 1..(i - 1)
  OBVIOUS
<1>3. Part(f, 1..i) = f[i] + Part(f, (1..i) \ {i})
  BY <1>1, <1>2, PartRemoval
<1>4. Part(f, 1..(i - 1)) \in Int /\ f[i] \in Int
  BY <1>1, <1>2, PartFacts
<1>5. Part(f, 1..i) = f[i] + Part(f, 1..(i - 1))
  BY <1>2, <1>3
<1>. QED  BY <1>4, <1>5

-----------------------------------------------------------------------------
(* Places in a strict order of finitely many elements, given as the sets of those before each. *)

Ordered(D, before) ==
  /\ before \in [D -> SUBSET D]
  /\ \A i \in D : i \notin before[i]
  /\ \A i, j \in D : i # j => i \in before[j] \/ j \in before[i]
  /\ \A i, j \in D : i \in before[j] => before[i] \subseteq before[j]

Place(before, i) == Cardinality(before[i])

\* Every place from the first to the last is taken, by one element.
LEMMA PlaceFacts ==
  ASSUME NEW D, IsFiniteSet(D), NEW before, Ordered(D, before)
  PROVE  /\ \A i \in D : Place(before, i) \in 0..(Cardinality(D) - 1)
         /\ \A i, j \in D : Place(before, i) < Place(before, j) <=> i \in before[j]
         /\ \A i, j \in D : Place(before, i) = Place(before, j) => i = j
         /\ \A p \in 0..(Cardinality(D) - 1) : \E i \in D : Place(before, i) = p
<1>. DEFINE place == [i \in D |-> Place(before, i)]
            N == Cardinality(D)
<1>1. N \in Nat
  BY FS_CardinalityType
<1>2. ASSUME NEW i \in D
      PROVE  /\ IsFiniteSet(before[i]) /\ before[i] \subseteq D /\ i \notin before[i]
             /\ Place(before, i) \in Nat /\ Place(before, i) < N
  <2>1. before[i] \in SUBSET D /\ i \notin before[i]
    BY DEF Ordered
  <2>2. IsFiniteSet(before[i]) /\ Cardinality(before[i]) \in Nat /\ Cardinality(before[i]) <= N
    BY <2>1, FS_Subset, FS_CardinalityType
  <2>3. Cardinality(before[i]) # N
    BY <2>1, FS_Subset
  <2>. QED  BY <1>1, <2>1, <2>2, <2>3 DEF Place
<1>3. ASSUME NEW i \in D, NEW j \in D, i \in before[j] PROVE Place(before, i) < Place(before, j)
  <2>1. before[i] \in SUBSET before[j] /\ before[i] # before[j]
    BY <1>2, <1>3 DEF Ordered
  <2>2. Cardinality(before[i]) <= Cardinality(before[j]) /\ Cardinality(before[i]) # Cardinality(before[j])
    BY <1>2, <2>1, FS_Subset
  <2>. QED  BY <1>2, <2>2 DEF Place
<1>4. ASSUME NEW i \in D, NEW j \in D, i # j PROVE i \in before[j] \/ j \in before[i]
  BY <1>4 DEF Ordered
<1>5. \A i, j \in D : Place(before, i) < Place(before, j) <=> i \in before[j]
  BY <1>2, <1>3, <1>4
<1>6. \A i, j \in D : Place(before, i) = Place(before, j) => i = j
  BY <1>2, <1>3, <1>4
<1>7. \A p \in 0..(N - 1) : \E i \in D : Place(before, i) = p
  <2>1. place \in [D -> 0..(N - 1)]
    BY <1>1, <1>2
  <2>2. \A i, j \in D : place[i] = place[j] => i = j
    BY <1>6
  <2>. HIDE DEF place
  <2>3. place \in Injection(D, 0..(N - 1))
    BY <2>1, <2>2, Fun_IsInj
  <2>4. IsFiniteSet(0..(N - 1)) /\ Cardinality(0..(N - 1)) = N
    BY <1>1, FS_Interval
  <2>5. place \in Surjection(D, 0..(N - 1))
    BY <2>3, <2>4, FS_Injection
  <2>6. \A p \in 0..(N - 1) : \E i \in D : place[i] = p
    BY <2>5 DEF Surjection
  <2>. QED  BY <2>6 DEF place
<1>8. \A i \in D : Place(before, i) \in 0..(N - 1)
  BY <1>1, <1>2
<1>. QED  BY <1>5, <1>6, <1>7, <1>8

Numbers(D) == \A i \in D : i \in Int

LEMMA UpTo ==
  ASSUME NEW n \in Nat
  PROVE  IsFiniteSet(1..n) /\ Cardinality(1..n) = n /\ Numbers(1..n)
BY FS_Interval DEF Numbers

\* Larger values first, of equal ones the earlier element.
Ranked(D, v) == [i \in D |-> {j \in D : v[j] > v[i] \/ (v[j] = v[i] /\ j < i)}]

LEMMA RankedIsOrdered ==
  ASSUME NEW D, Numbers(D), NEW v \in [D -> Int]
  PROVE  Ordered(D, Ranked(D, v))
<1>1. PICK before : before = Ranked(D, v)
  OBVIOUS
<1>2. \A i \in D : before[i] = {j \in D : v[j] > v[i] \/ (v[j] = v[i] /\ j < i)}
  BY <1>1 DEF Ranked
<1>3. before \in [D -> SUBSET D]
  <2>1. before = [i \in D |-> before[i]]
    BY <1>1 DEF Ranked
  <2>2. \A i \in D : before[i] \in SUBSET D
    BY <1>2
  <2>. QED  BY <2>1, <2>2
<1>4. \A i \in D : v[i] \in Int /\ i \in Int
  BY DEF Numbers
<1>5. \A i \in D : i \notin before[i]
  BY <1>2, <1>4
<1>6. \A i, j \in D : i # j => i \in before[j] \/ j \in before[i]
  BY <1>2, <1>4
<1>7. ASSUME NEW i \in D, NEW j \in D, i \in before[j] PROVE before[i] \subseteq before[j]
  <2>. SUFFICES ASSUME NEW m \in before[i] PROVE m \in before[j]
    OBVIOUS
  <2>1. m \in D /\ (v[m] > v[i] \/ (v[m] = v[i] /\ m < i))
    BY <1>2
  <2>2. v[i] > v[j] \/ (v[i] = v[j] /\ i < j)
    BY <1>2, <1>7
  <2>3. v[m] > v[j] \/ (v[m] = v[j] /\ m < j)
    BY <1>4, <2>1, <2>2
  <2>. QED  BY <1>2, <2>1, <2>3
<1>. QED  BY <1>1, <1>3, <1>5, <1>6, <1>7 DEF Ordered

\* Of finitely many values one is the first of the largest.
LEMMA FirstLargest ==
  ASSUME NEW D, IsFiniteSet(D), D # {}, Numbers(D), NEW v \in [D -> Int]
  PROVE  \E i \in D : \A j \in D : v[j] < v[i] \/ (v[j] = v[i] /\ i <= j)
<1>1. PICK before : before = Ranked(D, v) /\ Ordered(D, before)
  BY RankedIsOrdered
<1>2. Cardinality(D) \in Nat /\ Cardinality(D) # 0
  BY FS_CardinalityType, FS_EmptySet
<1>3. 0 \in 0..(Cardinality(D) - 1)
  BY <1>2
<1>4. PICK i \in D : Place(before, i) = 0
  BY <1>1, <1>3, PlaceFacts
<1>5. before[i] = {}
  <2>1. before[i] \in SUBSET D
    BY <1>1 DEF Ordered
  <2>2. IsFiniteSet(before[i])
    BY <2>1, FS_Subset
  <2>. QED  BY <1>4, <2>2, FS_EmptySet DEF Place
<1>6. \A j \in D : ~ (v[j] > v[i] \/ (v[j] = v[i] /\ j < i))
  BY <1>1, <1>5 DEF Ranked
<1>7. \A j \in D : v[j] \in Int /\ j \in Int
  BY DEF Numbers
<1>. QED  BY <1>6, <1>7

\* As many elements as that have a place among the first m.
LEMMA FirstPlaces ==
  ASSUME NEW D, IsFiniteSet(D), NEW before, Ordered(D, before), NEW m \in 0..Cardinality(D)
  PROVE  Cardinality({i \in D : Place(before, i) < m}) = m
<1>. DEFINE S == {i \in D : Place(before, i) < m}
            place == [i \in S |-> Place(before, i)]
<1>1. Cardinality(D) \in Nat
  BY FS_CardinalityType
<1>2. \A i \in D : Place(before, i) \in 0..(Cardinality(D) - 1)
  BY PlaceFacts
<1>3. place \in [S -> 0..(m - 1)]
  BY <1>1, <1>2
<1>4. \A i, j \in S : place[i] = place[j] => i = j
  BY PlaceFacts
<1>5. \A p \in 0..(m - 1) : \E i \in S : place[i] = p
  <2>. SUFFICES ASSUME NEW p \in 0..(m - 1) PROVE \E i \in S : place[i] = p
    OBVIOUS
  <2>1. p \in 0..(Cardinality(D) - 1) /\ p < m
    BY <1>1
  <2>2. PICK i \in D : Place(before, i) = p
    BY <2>1, PlaceFacts
  <2>. QED  BY <2>1, <2>2
<1>6. IsFiniteSet(0..(m - 1)) /\ Cardinality(0..(m - 1)) = m
  BY FS_Interval
<1>. HIDE DEF place, S
<1>7. place \in Injection(S, 0..(m - 1)) /\ place \in Surjection(S, 0..(m - 1))
  BY <1>3, <1>4, <1>5, Fun_IsInj, Fun_IsSurj
<1>8. Cardinality(S) = Cardinality(0..(m - 1))
  BY <1>6, <1>7, FS_Injection
<1>. QED  BY <1>6, <1>8 DEF S

-----------------------------------------------------------------------------
(* Even splits. *)

\* Division with a remainder.
LEMMA Division ==
  ASSUME NEW a \in Nat, NEW d \in Nat \ {0}
  PROVE  /\ a \div d \in Nat /\ (a % d) \in 0..(d - 1) /\ a = d * (a \div d) + (a % d)
BY SMT

\* Products with a neighbour of a factor, and of two factors in order.
LEMMA Products ==
  ASSUME NEW a \in Int, NEW b \in Nat
  PROVE  /\ (a + 1) * b = b * a + b /\ b * (a + 1) = b * a + b
         /\ (a - 1) * b = b * a - b /\ b * a \in Int
         /\ \A c \in Int : a <= c => b * a <= b * c
BY SMT

\* even_ranges: the tiles cover their total end to end, no two differ by more than one item, and
\* none is longer than one before it.
THEOREM EvenRangesCover ==
  ASSUME NEW total \in Nat, NEW k \in Nat \ {0}
  PROVE  LET ranges == EvenRanges(total, k)
             size(i) == ranges[i][2] - ranges[i][1]
         IN /\ ranges[1][1] = 0 /\ ranges[k][2] = total
            /\ \A i \in 1..(k - 1) : ranges[i][2] = ranges[i + 1][1]
            /\ \A i \in 1..k : size(i) \in {total \div k, total \div k + 1}
            /\ \A i, j \in 1..k : i < j => size(i) \in {size(j), size(j) + 1}
<1>. DEFINE base == total \div k
            extra == total % k
            ranges == EvenRanges(total, k)
            start(i) == EvenStart(total, k, i)
            size(i) == ranges[i][2] - ranges[i][1]
<1>1. base \in Nat /\ extra \in 0..(k - 1) /\ total = k * base + extra
  BY Division
<1>2. \A i \in 1..k : ranges[i][1] = start(i) /\ ranges[i][2] = start(i + 1)
  BY DEF EvenRanges
<1>3. \A i \in 1..(k + 1) : start(i) = (i - 1) * base + Least(i - 1, extra)
  BY DEF EvenStart
<1>. HIDE DEF base, extra, ranges, start
<1>4. start(1) = 0 /\ start(k + 1) = total
  <2>1. start(1) = 0 * base + Least(0, extra)
    BY <1>3
  <2>2. 1 \in 1..(k + 1) /\ k + 1 \in 1..(k + 1)
    OBVIOUS
  <2>3. start(k + 1) = k * base + Least(k, extra)
    BY <1>3, <2>2
  <2>. QED  BY <1>1, <2>1, <2>3 DEF Least
<1>5. \A i \in 1..k : size(i) = IF i <= extra THEN base + 1 ELSE base
  <2>. SUFFICES ASSUME NEW i \in 1..k PROVE size(i) = IF i <= extra THEN base + 1 ELSE base
    OBVIOUS
  <2>1. i \in 1..(k + 1) /\ i + 1 \in 1..(k + 1)
    OBVIOUS
  <2>2. start(i) = (i - 1) * base + Least(i - 1, extra)
    BY <1>3, <2>1
  <2>3. start(i + 1) = i * base + Least(i, extra)
    <3>1. start(i + 1) = ((i + 1) - 1) * base + Least((i + 1) - 1, extra)
      BY <1>3, <2>1
    <3>2. (i + 1) - 1 = i
      OBVIOUS
    <3>. QED  BY <3>1, <3>2
  <2>4. i * base = (i - 1) * base + base
    BY <1>1
  <2>5. (i - 1) * base \in Nat /\ i * base \in Nat
    BY <1>1
  <2>6. Least(i, extra) - Least(i - 1, extra) = IF i <= extra THEN 1 ELSE 0
    BY <1>1 DEF Least
  <2>7. Least(i, extra) \in Nat /\ Least(i - 1, extra) \in Nat
    BY <1>1 DEF Least
  <2>8. size(i) = start(i + 1) - start(i)
    BY <1>2
  <2>. HIDE DEF size
  <2>. QED  BY <1>1, <2>2, <2>3, <2>4, <2>5, <2>6, <2>7, <2>8
<1>6. ranges[1][1] = 0 /\ ranges[k][2] = total
  <2>1. 1 \in 1..k /\ k \in 1..k
    OBVIOUS
  <2>. QED  BY <1>2, <1>4, <2>1
<1>7. ASSUME NEW i \in 1..(k - 1) PROVE ranges[i][2] = ranges[i + 1][1]
  <2>1. i \in 1..k /\ i + 1 \in 1..k
    OBVIOUS
  <2>. QED  BY <1>2, <2>1
<1>. HIDE DEF size
<1>8. \A i \in 1..k : size(i) \in {base, base + 1}
  BY <1>5
<1>9. \A i, j \in 1..k : i < j => size(i) \in {size(j), size(j) + 1}
  BY <1>1, <1>5
<1>. QED  BY <1>6, <1>7, <1>8, <1>9 DEF base, size, ranges

-----------------------------------------------------------------------------
(* Weighted splits. *)

Floors(total, w) == [i \in DOMAIN w |-> (total * w[i]) \div Total(w)]
Rests(total, w) == [i \in DOMAIN w |-> (total * w[i]) % Total(w)]
Leftover(total, w) == total - Total(Floors(total, w))
Order(total, w) == [i \in DOMAIN w |-> Before(total, w, i)]

LEMMA WeightFacts ==
  ASSUME NEW total \in Nat, NEW D, IsFiniteSet(D), NEW w \in [D -> Nat], Total(w) > 0
  PROVE  /\ Total(w) \in Nat \ {0} /\ DOMAIN w = D
         /\ Floors(total, w) \in [D -> Nat]
         /\ Rests(total, w) \in [D -> 0..(Total(w) - 1)]
         /\ \A i \in D : total * w[i] = Total(w) * Floors(total, w)[i] + Rests(total, w)[i]
<1>1. DOMAIN w = D /\ w \in [D -> Int]
  OBVIOUS
<1>2. Total(w) \in Int
  BY <1>1, PartFacts, PartOfAll
<1>3. PICK sum \in Nat \ {0} : sum = Total(w)
  BY <1>2
<1>4. ASSUME NEW i \in D
      PROVE  /\ Floors(total, w)[i] \in Nat /\ Rests(total, w)[i] \in 0..(sum - 1)
             /\ total * w[i] = sum * Floors(total, w)[i] + Rests(total, w)[i]
  <2>1. PICK a \in Nat : a = total * w[i]
    OBVIOUS
  <2>2. Floors(total, w)[i] = a \div sum /\ Rests(total, w)[i] = a % sum
    BY <1>1, <1>3, <2>1 DEF Floors, Rests
  <2>. QED  BY <2>1, <2>2, Division
<1>5. /\ Floors(total, w) = [i \in D |-> Floors(total, w)[i]]
      /\ Rests(total, w) = [i \in D |-> Rests(total, w)[i]]
  BY <1>1 DEF Floors, Rests
<1>6. Floors(total, w) \in [D -> Nat] /\ Rests(total, w) \in [D -> 0..(sum - 1)]
  BY <1>4, <1>5
<1>. QED  BY <1>1, <1>3, <1>4, <1>6

\* What the floors of shares leave over is what their remainders add up to ...
LEMMA RestsAddUp ==
  ASSUME NEW D, IsFiniteSet(D), NEW w \in [D -> Int], NEW total \in Int,
         NEW floor \in [D -> Int], NEW rest \in [D -> Int], Total(w) \in Int,
         Mixed([i \in D |-> total * w[i]], Total(w), floor, rest, D)
  PROVE  Total(w) * (total - Total(floor)) = Total(rest)
<1>1. PICK share \in [D -> Int] : share = [i \in D |-> total * w[i]]
  <2>1. [i \in D |-> total * w[i]] \in [D -> Int]
    OBVIOUS
  <2>. QED  BY <2>1
<1>2. Mixed(share, Total(w), floor, rest, D)
  BY <1>1
<1>3. Total(share) = Total(w) * Total(floor) + Total(rest)
  BY <1>2, SumMixes
<1>4. \A i \in D : share[i] = total * w[i]
  BY <1>1
<1>5. Total(share) = total * Total(w)
  BY <1>4, SumScales
<1>6. PICK W, F, R \in Int : W = Total(w) /\ F = Total(floor) /\ R = Total(rest)
  BY SumType
<1>7. total * W = W * F + R
  BY <1>3, <1>5, <1>6, Zenon
<1>8. W * (total - F) = W * total - W * F /\ W * F \in Int /\ W * total = total * W
  BY <1>6
<1>9. W * (total - F) = R
  BY <1>6, <1>7, <1>8
<1>. QED  BY <1>6, <1>9

\* ... and so at most an item for every share that has a remainder.
LEMMA RestsAreShort ==
  ASSUME NEW D, IsFiniteSet(D), NEW sum \in Nat \ {0}, NEW rest \in [D -> 0..(sum - 1)]
  PROVE  /\ Total(rest) \in Nat
         /\ Total(rest) <= sum * Cardinality({i \in D : rest[i] > 0})
<1>1. PICK one \in [D -> {0, 1}] : \A i \in D : one[i] = IF rest[i] > 0 THEN 1 ELSE 0
  <2>1. [i \in D |-> IF rest[i] > 0 THEN 1 ELSE 0] \in [D -> {0, 1}]
    OBVIOUS
  <2>. QED  BY <2>1
<1>2. one \in [D -> Int] /\ rest \in [D -> Int]
  OBVIOUS
<1>3. PICK most \in [D -> Int] : \A i \in D : most[i] = sum * one[i]
  <2>1. [i \in D |-> sum * one[i]] \in [D -> Int]
    BY <1>2
  <2>. QED  BY <2>1
<1>4. PICK none \in [D -> Int] : \A i \in D : none[i] = 0 * rest[i]
  <2>1. [i \in D |-> 0 * rest[i]] \in [D -> Int]
    BY <1>2
  <2>. QED  BY <2>1
<1>5. PICK R \in Int : R = Total(rest)
  BY <1>2, SumType
<1>6. Total(none) = 0 * Total(rest)
  BY <1>2, <1>4, SumScales
<1>7. ASSUME NEW i \in D PROVE none[i] <= rest[i]
  <2>1. PICK r \in Nat : r = rest[i]
    OBVIOUS
  <2>2. none[i] = 0 * r
    BY <1>4, <2>1
  <2>3. 0 * r = 0
    OBVIOUS
  <2>. QED  BY <2>1, <2>2, <2>3
<1>8. Total(none) <= Total(rest)
  BY <1>2, <1>7, SumOrders
<1>9. Total(one) = Cardinality({i \in D : rest[i] > 0})
  <2>1. {i \in D : one[i] = 1} = {i \in D : rest[i] > 0}
    BY <1>1
  <2>2. Total(one) = Cardinality({i \in D : one[i] = 1})
    BY SumCounts
  <2>. QED  BY <2>1, <2>2
<1>10. Total(most) = sum * Total(one)
  BY <1>2, <1>3, SumScales
<1>11. \A i \in D : rest[i] <= most[i]
  <2>. SUFFICES ASSUME NEW i \in D PROVE rest[i] <= most[i]
    OBVIOUS
  <2>1. one[i] = 0 \/ one[i] = 1
    OBVIOUS
  <2>. QED  BY <1>1, <1>3, <2>1
<1>12. Total(rest) <= Total(most)
  BY <1>2, <1>11, SumOrders
<1>13. R >= 0
  BY <1>5, <1>6, <1>8
<1>. QED  BY <1>5, <1>9, <1>10, <1>12, <1>13

LEMMA LeftoverFacts ==
  ASSUME NEW total \in Nat, NEW D, IsFiniteSet(D), NEW w \in [D -> Nat], Total(w) > 0
  PROVE  /\ Leftover(total, w) \in Nat
         /\ Leftover(total, w) <= Cardinality({i \in D : Rests(total, w)[i] > 0})
         /\ Cardinality({i \in D : Rests(total, w)[i] > 0}) <= Cardinality(D)
<1>1. PICK floor, rest, sum :
        floor = Floors(total, w) /\ rest = Rests(total, w) /\ sum = Total(w)
  OBVIOUS
<1>2. w \in [D -> Int]
  OBVIOUS
<1>3. /\ sum \in Nat \ {0} /\ floor \in [D -> Nat] /\ rest \in [D -> 0..(sum - 1)]
      /\ \A i \in D : total * w[i] = sum * floor[i] + rest[i]
  BY <1>1, WeightFacts
<1>4. total \in Int /\ sum \in Int /\ floor \in [D -> Int] /\ rest \in [D -> Int]
  BY <1>3
<1>5. sum * (total - Total(floor)) = Total(rest)
  <2>1. Mixed([i \in D |-> total * w[i]], sum, floor, rest, D)
    BY <1>3 DEF Mixed
  <2>. QED  BY <1>1, <1>2, <1>4, <2>1, RestsAddUp
<1>6. PICK C : C = Cardinality({i \in D : rest[i] > 0})
  OBVIOUS
<1>7. C \in Nat /\ C <= Cardinality(D)
  <2>1. {i \in D : rest[i] > 0} \in SUBSET D
    OBVIOUS
  <2>. QED  BY <1>2, <1>6, <2>1, FS_Subset, FS_CardinalityType
<1>8. Total(rest) \in Nat /\ Total(rest) <= sum * C
  BY <1>2, <1>3, <1>6, RestsAreShort
<1>9. PICK L \in Int : L = total - Total(floor)
  BY <1>2, <1>4, SumType
<1>10. sum * L >= 0 /\ sum * L <= sum * C
  BY <1>5, <1>8, <1>9
<1>11. L >= 0 /\ L <= C
  BY <1>3, <1>7, <1>10
<1>12. L = Leftover(total, w)
  BY <1>1, <1>9 DEF Leftover
<1>. QED  BY <1>1, <1>6, <1>7, <1>11, <1>12

Extra(total, w) ==
  [i \in DOMAIN w |-> IF Place(Order(total, w), i) < Leftover(total, w) THEN 1 ELSE 0]

LEMMA OrderFacts ==
  ASSUME NEW total \in Nat, NEW D, IsFiniteSet(D), Numbers(D), NEW w \in [D -> Nat], Total(w) > 0
  PROVE  /\ Ordered(D, Order(total, w))
         /\ \A i, j \in D : i \in Order(total, w)[j] <=>
              \/ Rests(total, w)[i] > Rests(total, w)[j]
              \/ Rests(total, w)[i] = Rests(total, w)[j] /\ i < j
<1>1. DOMAIN w = D
  OBVIOUS
<1>2. PICK rest \in [D -> Nat] : rest = Rests(total, w)
  <2>1. Total(w) \in Nat \ {0} /\ Rests(total, w) \in [D -> 0..(Total(w) - 1)]
    BY WeightFacts
  <2>2. PICK sum \in Nat \ {0} : sum = Total(w)
    BY <2>1
  <2>3. 0..(sum - 1) \subseteq Nat
    OBVIOUS
  <2>. QED  BY <2>1, <2>2, <2>3
<1>3. Order(total, w) = Ranked(D, rest)
  BY <1>1, <1>2 DEF Order, Before, Ranked, Rests
<1>4. rest \in [D -> Int]
  OBVIOUS
<1>5. \A i, j \in D : i \in Ranked(D, rest)[j] <=> rest[i] > rest[j] \/ (rest[i] = rest[j] /\ i < j)
  BY DEF Ranked
<1>. QED  BY <1>2, <1>3, <1>4, <1>5, RankedIsOrdered

\* Who is given an item of the leftover had a remainder, and all of it is given.
LEMMA ExtraFacts ==
  ASSUME NEW total \in Nat, NEW D, IsFiniteSet(D), Numbers(D), NEW w \in [D -> Nat], Total(w) > 0
  PROVE  /\ Extra(total, w) \in [D -> {0, 1}]
         /\ \A i \in D : Extra(total, w)[i] = 1 => Rests(total, w)[i] > 0
         /\ \A i, j \in D : i \in Order(total, w)[j] => Extra(total, w)[i] >= Extra(total, w)[j]
         /\ Total(Extra(total, w)) = Leftover(total, w)
         /\ \A i \in D : WeightedSizes(total, w)[i] = Floors(total, w)[i] + Extra(total, w)[i]
<1>1. PICK before, extra, L, some :
        /\ before = Order(total, w) /\ extra = Extra(total, w) /\ L = Leftover(total, w)
        /\ some = {i \in D : Rests(total, w)[i] > 0}
  OBVIOUS
<1>2. DOMAIN w = D
  OBVIOUS
<1>3. \A i \in D : extra[i] = IF Place(before, i) < L THEN 1 ELSE 0
  BY <1>1, <1>2 DEF Extra
<1>4. extra \in [D -> {0, 1}]
  <2>1. extra = [i \in D |-> extra[i]]
    BY <1>1, <1>2 DEF Extra
  <2>2. \A i \in D : extra[i] \in {0, 1}
    BY <1>3
  <2>. QED  BY <2>1, <2>2
<1>5. Ordered(D, before)
  BY <1>1, OrderFacts
<1>6. L \in Nat /\ L <= Cardinality(some) /\ Cardinality(some) <= Cardinality(D)
  BY <1>1, LeftoverFacts
<1>7. Cardinality(D) \in Nat /\ Cardinality(some) \in Nat /\ IsFiniteSet(some)
  <2>1. some \in SUBSET D
    BY <1>1
  <2>. QED  BY <2>1, FS_Subset, FS_CardinalityType
<1>8. \A i \in D : Place(before, i) \in Nat
  BY <1>5, <1>7, PlaceFacts
<1>9. ASSUME NEW i \in D, extra[i] = 1 PROVE Rests(total, w)[i] > 0
  <2>1. Place(before, i) < L
    BY <1>3, <1>9
  <2>2. PICK rest \in [D -> Nat] : rest = Rests(total, w)
    <3>1. Total(w) \in Nat \ {0} /\ Rests(total, w) \in [D -> 0..(Total(w) - 1)]
      BY WeightFacts
    <3>2. PICK sum \in Nat \ {0} : sum = Total(w)
      BY <3>1
    <3>3. 0..(sum - 1) \subseteq Nat
      OBVIOUS
    <3>. QED  BY <3>1, <3>2, <3>3
  <2>3. ASSUME rest[i] = 0 PROVE FALSE
    <3>1. \A j \in some : rest[j] > rest[i]
      BY <1>1, <2>2, <2>3
    <3>2. \A j \in some : j \in D /\ j \in before[i]
      BY <1>1, <2>2, <3>1, OrderFacts
    <3>3. some \in SUBSET before[i] /\ IsFiniteSet(before[i])
      <4>1. before[i] \in SUBSET D
        BY <1>5 DEF Ordered
      <4>. QED  BY <3>2, <4>1, FS_Subset
    <3>4. Cardinality(some) <= Place(before, i)
      BY <3>3, FS_Subset DEF Place
    <3>. QED  BY <1>6, <1>7, <1>8, <2>1, <3>4
  <2>4. rest[i] \in Nat
    OBVIOUS
  <2>. QED  BY <2>2, <2>3, <2>4
<1>10. ASSUME NEW i \in D, NEW j \in D, i \in before[j] PROVE extra[i] >= extra[j]
  <2>1. Place(before, i) < Place(before, j)
    BY <1>5, <1>10, PlaceFacts
  <2>. QED  BY <1>3, <1>6, <1>8, <2>1
<1>11. Total(extra) = L
  <2>1. Total(extra) = Cardinality({i \in D : extra[i] = 1})
    BY <1>4, SumCounts
  <2>2. {i \in D : extra[i] = 1} = {i \in D : Place(before, i) < L}
    <3>1. \A i \in D : extra[i] = 1 <=> Place(before, i) < L
      BY <1>3
    <3>. QED  BY <3>1
  <2>3. L \in 0..Cardinality(D)
    BY <1>6, <1>7
  <2>4. Cardinality({i \in D : Place(before, i) < L}) = L
    BY <1>5, <2>3, FirstPlaces
  <2>. QED  BY <2>1, <2>2, <2>4
<1>12. \A i \in D : WeightedSizes(total, w)[i] = Floors(total, w)[i] + extra[i]
  BY <1>1, <1>2, <1>3 DEF WeightedSizes, Floors, Leftover, Place, Order
<1>. QED  BY <1>1, <1>4, <1>9, <1>10, <1>11, <1>12

\* The items of a weighted split are those there are.
LEMMA SizesAddUp ==
  ASSUME NEW total \in Nat, NEW D, IsFiniteSet(D), Numbers(D), NEW w \in [D -> Nat], Total(w) > 0
  PROVE  /\ WeightedSizes(total, w) \in [D -> Nat]
         /\ Total(WeightedSizes(total, w)) = total
<1>1. PICK sizes, floor, extra :
        /\ sizes = WeightedSizes(total, w) /\ floor = Floors(total, w) /\ extra = Extra(total, w)
  OBVIOUS
<1>2. \A i \in D : sizes[i] = floor[i] + extra[i]
  BY <1>1, ExtraFacts
<1>3. /\ floor \in [D -> Nat] /\ extra \in [D -> {0, 1}]
      /\ floor \in [D -> Int] /\ extra \in [D -> Int]
  <2>1. floor \in [D -> Nat]
    BY <1>1, WeightFacts
  <2>2. extra \in [D -> {0, 1}]
    BY <1>1, ExtraFacts
  <2>. QED  BY <2>1, <2>2
<1>4. sizes \in [D -> Nat] /\ sizes \in [D -> Int]
  <2>1. sizes = [i \in D |-> sizes[i]]
    <3>1. DOMAIN w = D
      OBVIOUS
    <3>. QED  BY <1>1, <3>1 DEF WeightedSizes
  <2>2. \A i \in D : sizes[i] \in Nat
    BY <1>2, <1>3
  <2>. QED  BY <2>1, <2>2
<1>5. Total(sizes) = Total(floor) + Total(extra)
  <2>1. Added(sizes, floor, extra, D)
    BY <1>2 DEF Added
  <2>2. floor \in [D -> Int] /\ extra \in [D -> Int] /\ sizes \in [D -> Int]
    BY <1>3, <1>4
  <2>. QED  BY <2>1, <2>2, SumAdds
<1>6. Total(extra) = total - Total(floor)
  BY <1>1, ExtraFacts DEF Leftover
<1>7. PICK F \in Int : F = Total(floor)
  BY <1>3, SumType
<1>8. Total(sizes) = F + (total - F)
  BY <1>5, <1>6, <1>7
<1>. QED  BY <1>1, <1>4, <1>7, <1>8

\* weighted_ranges and weighted_partition, before any share borrows: all items are handed out,
\* every share is within less than an item of the proportional one, and a heavier tile never gets
\* fewer than a lighter one.
THEOREM SharesAreFair ==
  ASSUME NEW total \in Nat, NEW k \in Nat, NEW w \in [1..k -> Nat], Total(w) > 0
  PROVE  LET sizes == WeightedSizes(total, w) IN
         /\ sizes \in [1..k -> Nat] /\ Total(sizes) = total
         /\ \A i \in 1..k : /\ sizes[i] * Total(w) < total * w[i] + Total(w)
                            /\ sizes[i] * Total(w) > total * w[i] - Total(w)
         /\ \A i, j \in 1..k : w[i] > w[j] => sizes[i] >= sizes[j]
<1>1. IsFiniteSet(1..k) /\ Numbers(1..k)
  BY FS_Interval DEF Numbers
<1>2. PICK sizes, floor, rest, extra, before :
        /\ sizes = WeightedSizes(total, w) /\ floor = Floors(total, w) /\ rest = Rests(total, w)
        /\ extra = Extra(total, w) /\ before = Order(total, w)
  OBVIOUS
<1>3. sizes \in [1..k -> Nat] /\ Total(sizes) = total
  BY <1>1, <1>2, SizesAddUp
<1>4. PICK sum \in Nat \ {0} : sum = Total(w)
  BY <1>1, WeightFacts
<1>5. \A i \in 1..k : floor[i] \in Nat /\ rest[i] \in 0..(sum - 1)
  <2>1. floor \in [1..k -> Nat]
    BY <1>1, <1>2, WeightFacts
  <2>2. rest \in [1..k -> 0..(sum - 1)]
    BY <1>1, <1>2, <1>4, WeightFacts
  <2>. QED  BY <2>1, <2>2
<1>6. \A i \in 1..k : total * w[i] = sum * floor[i] + rest[i]
  BY <1>1, <1>2, <1>4, WeightFacts
<1>7. \A i \in 1..k : extra[i] \in {0, 1}
  <2>1. extra \in [1..k -> {0, 1}]
    BY <1>1, <1>2, ExtraFacts
  <2>. QED  BY <2>1
<1>8. \A i \in 1..k : extra[i] = 1 => rest[i] > 0
  BY <1>1, <1>2, ExtraFacts
<1>9. \A i, j \in 1..k : i \in before[j] => extra[i] >= extra[j]
  BY <1>1, <1>2, ExtraFacts
<1>10. \A i \in 1..k : sizes[i] = floor[i] + extra[i]
  BY <1>1, <1>2, ExtraFacts
<1>11. \A i, j \in 1..k : rest[i] > rest[j] => i \in before[j]
  BY <1>1, <1>2, OrderFacts
<1>12. ASSUME NEW i \in 1..k
       PROVE  sizes[i] * sum < total * w[i] + sum /\ sizes[i] * sum > total * w[i] - sum
  <2>1. PICK f \in Nat, r \in 0..(sum - 1) : f = floor[i] /\ r = rest[i]
    BY <1>5
  <2>2. total * w[i] = sum * f + r
    BY <1>6, <2>1
  <2>3. f * sum = sum * f /\ (f + 1) * sum = sum * f + sum /\ sum * f \in Nat
    OBVIOUS
  <2>4. CASE extra[i] = 0
    <3>1. sizes[i] = f
      BY <1>10, <2>1, <2>4
    <3>. QED  BY <2>2, <2>3, <3>1
  <2>5. CASE extra[i] = 1
    <3>1. sizes[i] = f + 1 /\ r > 0
      BY <1>8, <1>10, <2>1, <2>5
    <3>. QED  BY <2>2, <2>3, <3>1
  <2>6. extra[i] = 0 \/ extra[i] = 1
    BY <1>7
  <2>. QED  BY <2>4, <2>5, <2>6
<1>13. ASSUME NEW i \in 1..k, NEW j \in 1..k, w[i] > w[j] PROVE sizes[i] >= sizes[j]
  <2>1. PICK f \in Nat, r \in 0..(sum - 1), g \in Nat, q \in 0..(sum - 1) :
          f = floor[i] /\ r = rest[i] /\ g = floor[j] /\ q = rest[j]
    BY <1>5
  <2>2. sum * f + r >= sum * g + q
    <3>1. total * w[i] >= total * w[j]
      <4>1. PICK a, b \in Nat : a = w[i] /\ b = w[j]
        OBVIOUS
      <4>2. total * b <= total * a
        <5>1. b <= a
          BY <1>13, <4>1
        <5>. QED  BY <4>1, <5>1, Products
      <4>. QED  BY <4>1, <4>2
    <3>2. total * w[i] = sum * f + r /\ total * w[j] = sum * g + q
      BY <1>6, <2>1
    <3>. QED  BY <3>1, <3>2
  <2>3. f >= g
    <3>. SUFFICES ASSUME f + 1 <= g PROVE FALSE
      OBVIOUS
    <3>1. sum * (f + 1) <= sum * g /\ sum * (f + 1) = sum * f + sum
      BY Products
    <3>2. sum * f \in Int /\ sum * g \in Int
      OBVIOUS
    <3>. QED  BY <2>2, <3>1, <3>2
  <2>4. PICK e, d \in {0, 1} : e = extra[i] /\ d = extra[j]
    BY <1>7
  <2>5. sizes[i] = f + e /\ sizes[j] = g + d
    BY <1>10, <2>1, <2>4
  <2>6. CASE f > g
    BY <2>6, <2>5
  <2>7. CASE f = g
    <3>1. r >= q
      BY <2>2, <2>7
    <3>2. CASE r > q
      <4>1. i \in before[j]
        BY <1>11, <2>1, <3>2
      <4>2. e >= d
        BY <1>9, <2>4, <4>1
      <4>. QED  BY <2>7, <2>5, <4>2
    <3>3. CASE r = q
      <4>1. total * w[i] = total * w[j]
        BY <1>6, <2>1, <2>7, <3>3
      <4>2. total = 0
        <5>1. PICK a, b \in Nat : a = w[i] /\ b = w[j]
          OBVIOUS
        <5>2. total * a = total * b /\ b + 1 <= a
          BY <1>13, <4>1, <5>1
        <5>3. total * (b + 1) <= total * a /\ total * (b + 1) = total * b + total
          BY <5>2, Products
        <5>4. total * a \in Int /\ total * b \in Int
          OBVIOUS
        <5>. QED  BY <5>2, <5>3, <5>4
      <4>3. q = 0 /\ r = 0
        <5>1. sum * f + r = 0 * w[i]
          BY <1>6, <2>1, <4>2
        <5>2. 0 * w[i] = 0 /\ sum * f \in Nat
          OBVIOUS
        <5>. QED  BY <3>3, <5>1, <5>2
      <4>4. extra[j] # 1
        <5>1. ~ (rest[j] > 0)
          BY <2>1, <4>3
        <5>. QED  BY <1>8, <5>1
      <4>. QED  BY <2>7, <2>4, <2>5, <4>4
    <3>. QED  BY <3>1, <3>2, <3>3
  <2>. QED  BY <2>3, <2>6, <2>7
<1>. QED  BY <1>2, <1>3, <1>4, <1>12, <1>13

\* weighted_ranges: the tiles cover their total end to end.
THEOREM WeightedRangesCover ==
  ASSUME NEW total \in Nat, NEW k \in Nat \ {0}, NEW w \in [1..k -> Nat], Total(w) > 0
  PROVE  LET ranges == WeightedRanges(total, w) IN
         /\ \A i \in 1..k : ranges[i][1] \in Nat /\ ranges[i][2] >= ranges[i][1] /\ ranges[i][2] \in Nat
         /\ ranges[1][1] = 0 /\ ranges[k][2] = total
         /\ \A i \in 1..(k - 1) : ranges[i][2] = ranges[i + 1][1]
<1>1. PICK sizes \in [1..k -> Nat] : sizes = WeightedSizes(total, w) /\ Total(sizes) = total
  BY SharesAreFair
<1>2. PICK ranges : ranges = WeightedRanges(total, w)
  OBVIOUS
<1>3. sizes \in [1..k -> Int] /\ \A i \in 1..k : sizes[i] \in Nat
  OBVIOUS
<1>. DEFINE before(i) == Part(sizes, 1..(i - 1))
<1>4. ASSUME NEW i \in 1..k PROVE ranges[i] = <<before(i), before(i) + sizes[i]>>
  <2>1. SubSeq(sizes, 1, i - 1) = [x \in 1..(i - 1) |-> sizes[x]]
    OBVIOUS
  <2>. QED  BY <1>1, <1>2, <2>1 DEF WeightedRanges, Part
<1>5. before(1) = 0
  <2>1. 1..(1 - 1) = {} /\ IsFiniteSet(1..k)
    BY FS_Interval
  <2>2. Part(sizes, {}) = 0
    BY <1>3, <2>1, PartFacts
  <2>. QED  BY <2>1, <2>2
<1>6. ASSUME NEW i \in 1..k PROVE before(i + 1) = before(i) + sizes[i] /\ before(i) \in Int
  <2>1. (i + 1) - 1 = i
    OBVIOUS
  <2>. QED  BY <1>3, <2>1, PartGrows
<1>7. before(k + 1) = total
  <2>1. (k + 1) - 1 = k
    OBVIOUS
  <2>. QED  BY <1>1, <1>3, <2>1, PartOfAll
<1>. HIDE DEF before
<1>8. \A i \in 0..k : before(i + 1) \in Nat
  <2>. SUFFICES ASSUME NEW i \in 0..k PROVE before(i + 1) \in Nat
    OBVIOUS
  <2>. DEFINE Q == {m \in Nat : m <= i => before(m + 1) \in Nat}
  <2>1. 0 \in Q
    BY <1>5
  <2>2. ASSUME NEW m \in 0..(i - 1), m \in Q PROVE m + 1 \in Q
    <3>1. m + 1 \in 1..k /\ before(m + 1) \in Nat /\ sizes[m + 1] \in Nat
      BY <1>3, <2>2
    <3>2. before((m + 1) + 1) = before(m + 1) + sizes[m + 1]
      BY <1>6, <3>1
    <3>. QED  BY <3>1, <3>2
  <2>3. i \in Q
    <3>. HIDE DEF Q
    <3>. QED  BY <2>1, <2>2, UpwardInduction
  <2>. QED  BY <2>3
<1>9. ASSUME NEW i \in 1..k
      PROVE  ranges[i][1] = before(i) /\ ranges[i][2] = before(i + 1) /\ before(i) \in Nat /\ before(i + 1) \in Nat
             /\ before(i + 1) >= before(i)
  <2>1. i - 1 \in 0..k /\ (i - 1) + 1 = i /\ i \in 0..k
    OBVIOUS
  <2>2. before(i) \in Nat /\ before(i + 1) \in Nat
    BY <1>8, <2>1
  <2>3. PICK a, b \in Nat, size \in Nat :
          a = before(i) /\ b = before(i + 1) /\ size = sizes[i] /\ b = a + size
    BY <1>3, <1>6, <2>2
  <2>4. ranges[i] = <<a, b>>
    BY <1>4, <2>3
  <2>. QED  BY <2>3, <2>4
<1>10. \A i \in 1..(k - 1) : i \in 1..k /\ i + 1 \in 1..k
  OBVIOUS
<1>11. 1 \in 1..k /\ k \in 1..k
  OBVIOUS
<1>. QED  BY <1>2, <1>5, <1>7, <1>9, <1>10, <1>11

-----------------------------------------------------------------------------
(* Borrowing. *)

Empty(counts) == {i \in DOMAIN counts : counts[i] = 0}

\* A unit that moves from one share to another leaves their sum as it is.
Moved(g, f, d, e) == g = [f EXCEPT ![d] = @ - 1, ![e] = @ + 1]

LEMMA MovedUnit ==
  ASSUME NEW D, IsFiniteSet(D), NEW f \in [D -> Int], NEW d \in D, NEW e \in D, d # e,
         NEW g, Moved(g, f, d, e)
  PROVE  Total(g) = Total(f)
<1>1. g \in [D -> Int] /\ g = [f EXCEPT ![d] = @ - 1, ![e] = @ + 1]
  BY DEF Moved
<1>2. g[d] = f[d] - 1 /\ g[e] = f[e] + 1 /\ \A x \in (D \ {d}) \ {e} : g[x] = f[x]
  BY <1>1
<1>3. PICK T : T = (D \ {d}) \ {e}
  OBVIOUS
<1>4. ASSUME NEW h \in [D -> Int] PROVE Total(h) = h[d] + (h[e] + Part(h, T))
  <2>1. D \in SUBSET D /\ D \ {d} \in SUBSET D /\ e \in D \ {d}
    OBVIOUS
  <2>2. Part(h, D) = h[d] + Part(h, D \ {d})
    BY <2>1, PartRemoval
  <2>3. Part(h, D \ {d}) = h[e] + Part(h, (D \ {d}) \ {e})
    BY <2>1, PartRemoval
  <2>4. Part(h, D) = Total(h)
    BY PartOfAll
  <2>. QED  BY <1>3, <2>2, <2>3, <2>4, Zenon
<1>5. Part(g, T) = Part(f, T)
  BY <1>2, <1>3, PartSame
<1>6. PICK a, b, p \in Int : a = f[d] /\ b = f[e] /\ p = Part(f, T)
  <2>1. T \in SUBSET D
    BY <1>3
  <2>2. Part(f, T) \in Int
    BY <2>1, PartFacts
  <2>. QED  BY <2>2
<1>7. Total(f) = a + (b + p)
  BY <1>4, <1>6
<1>8. Total(g) = (a - 1) + ((b + 1) + p)
  <2>1. Total(g) = g[d] + (g[e] + Part(g, T))
    BY <1>1, <1>4
  <2>. QED  BY <1>2, <1>5, <1>6, <2>1, Zenon
<1>. QED  BY <1>1, <1>6, <1>7, <1>8

\* Shares of at most a unit, one of them empty, come to fewer units than there are shares.
LEMMA SmallShares ==
  ASSUME NEW D, IsFiniteSet(D), NEW f \in [D -> Nat], \A x \in D : f[x] <= 1,
         NEW e \in D, f[e] = 0
  PROVE  Total(f) < Cardinality(D)
<1>1. f \in [D -> {0, 1}]
  OBVIOUS
<1>2. PICK ones : ones = {x \in D : f[x] = 1}
  OBVIOUS
<1>3. Total(f) = Cardinality(ones)
  BY <1>1, <1>2, SumCounts
<1>4. ones \in SUBSET D /\ ones # D
  BY <1>2
<1>5. Cardinality(ones) <= Cardinality(D) /\ Cardinality(ones) # Cardinality(D)
  BY <1>4, FS_Subset
<1>6. Cardinality(ones) \in Nat /\ Cardinality(D) \in Nat
  BY <1>4, FS_Subset, FS_CardinalityType
<1>. QED  BY <1>3, <1>5, <1>6

\* A turn leaves the counts alone, or moves a unit from one of the largest to an empty one.
LEMMA BorrowTurn ==
  ASSUME NEW D, IsFiniteSet(D), Numbers(D), NEW counts \in [D -> Nat]
  PROVE  \/ /\ Borrow(counts) = counts
            /\ Empty(counts) = {} \/ Total(counts) < Cardinality(D)
         \/ \E d \in D, e \in Empty(counts) :
              /\ counts[d] > 1 /\ \A j \in D : counts[j] <= counts[d]
              /\ Borrow(counts) = [counts EXCEPT ![d] = @ - 1, ![e] = @ + 1]
<1>1. PICK empty : empty = Empty(counts)
  OBVIOUS
<1>2. DOMAIN counts = D /\ empty = {i \in D : counts[i] = 0} /\ \A i \in D : counts[i] \in Nat
  BY <1>1 DEF Empty
<1>3. PICK donor : donor = CHOOSE i \in D : \A j \in D :
                             counts[j] < counts[i] \/ (counts[j] = counts[i] /\ i <= j)
  OBVIOUS
<1>4. PICK first : first = CHOOSE i \in empty : \A j \in empty : i <= j
  OBVIOUS
<1>5. Borrow(counts) = IF empty = {} \/ counts[donor] <= 1 THEN counts
                       ELSE [counts EXCEPT ![donor] = @ - 1, ![first] = @ + 1]
  BY <1>2, <1>3, <1>4 DEF Borrow
<1>6. CASE empty = {}
  BY <1>1, <1>5, <1>6
<1>7. CASE empty # {}
  <2>1. donor \in D /\ \A j \in D : counts[j] <= counts[donor]
    <3>1. D # {} /\ counts \in [D -> Int]
      BY <1>2, <1>7
    <3>2. \E i \in D : \A j \in D : counts[j] < counts[i] \/ (counts[j] = counts[i] /\ i <= j)
      BY <3>1, FirstLargest
    <3>3. donor \in D /\ \A j \in D : counts[j] < counts[donor] \/ (counts[j] = counts[donor] /\ donor <= j)
      BY <1>3, <3>2
    <3>. QED  BY <1>2, <3>3
  <2>2. first \in empty
    <3>1. IsFiniteSet(empty) /\ Numbers(empty)
      <4>1. empty \in SUBSET D
        BY <1>2
      <4>. QED  BY <4>1, FS_Subset DEF Numbers
    <3>2. [x \in empty |-> 0] \in [empty -> Int]
      OBVIOUS
    <3>3. PICK zero \in [empty -> Int] : \A x \in empty : zero[x] = 0
      BY <3>2
    <3>4. \E i \in empty : \A j \in empty : zero[j] < zero[i] \/ (zero[j] = zero[i] /\ i <= j)
      BY <1>7, <3>1, FirstLargest
    <3>5. \E i \in empty : \A j \in empty : i <= j
      BY <3>3, <3>4
    <3>. QED  BY <1>4, <3>5
  <2>3. CASE counts[donor] <= 1
    <3>1. \A x \in D : counts[x] <= 1
      BY <1>2, <2>1, <2>3
    <3>2. PICK e \in D : counts[e] = 0
      BY <1>2, <1>7
    <3>3. Total(counts) < Cardinality(D)
      BY <3>1, <3>2, SmallShares
    <3>. QED  BY <1>5, <2>3, <3>3
  <2>4. CASE ~ (counts[donor] <= 1)
    <3>1. Borrow(counts) = [counts EXCEPT ![donor] = @ - 1, ![first] = @ + 1]
      BY <1>5, <1>7, <2>4
    <3>2. counts[donor] > 1
      BY <1>2, <2>1, <2>4
    <3>. QED  BY <1>1, <2>1, <2>2, <3>1, <3>2
  <2>. QED  BY <2>3, <2>4
<1>. QED  BY <1>6, <1>7

\* What a turn keeps: the sum, and that no share is behind another by more than a unit; and as
\* long as there are enough units it fills an empty share.
LEMMA BorrowFacts ==
  ASSUME NEW D, IsFiniteSet(D), Numbers(D), NEW counts \in [D -> Nat]
  PROVE  /\ Borrow(counts) \in [D -> Nat]
         /\ Total(Borrow(counts)) = Total(counts)
         /\ \A i, j \in D : counts[i] >= counts[j] - 1 => Borrow(counts)[i] >= Borrow(counts)[j] - 1
         /\ Empty(counts) = {} => Borrow(counts) = counts
         /\ Empty(counts) # {} /\ Total(counts) >= Cardinality(D) =>
              \E e \in Empty(counts) : Empty(Borrow(counts)) = Empty(counts) \ {e}
<1>1. \A i \in D : counts[i] \in Nat
  OBVIOUS
<1>2. CASE /\ Borrow(counts) = counts
           /\ Empty(counts) = {} \/ Total(counts) < Cardinality(D)
  <2>1. Total(counts) \in Int /\ Cardinality(D) \in Nat
    <3>1. counts \in [D -> Int]
      OBVIOUS
    <3>. QED  BY <3>1, SumType, FS_CardinalityType
  <2>2. Empty(counts) # {} => ~ (Total(counts) >= Cardinality(D))
    BY <1>2, <2>1
  <2>. QED  BY <1>2, <2>2
<1>3. ASSUME NEW d \in D, NEW e \in Empty(counts), counts[d] > 1,
             \A j \in D : counts[j] <= counts[d],
             Borrow(counts) = [counts EXCEPT ![d] = @ - 1, ![e] = @ + 1]
      PROVE  /\ Borrow(counts) \in [D -> Nat]
             /\ Total(Borrow(counts)) = Total(counts)
             /\ \A i, j \in D : counts[i] >= counts[j] - 1 => Borrow(counts)[i] >= Borrow(counts)[j] - 1
             /\ Empty(counts) # {}
             /\ Empty(Borrow(counts)) = Empty(counts) \ {e}
  <2>1. e \in D /\ counts[e] = 0 /\ e # d /\ \A i \in Empty(counts) : i \in D
    BY <1>3 DEF Empty
  <2>2. PICK new : new = Borrow(counts)
    OBVIOUS
  <2>3. /\ DOMAIN new = D /\ new[d] = counts[d] - 1 /\ new[e] = 1
        /\ \A i \in D \ {d, e} : new[i] = counts[i]
    BY <1>3, <2>1, <2>2
  <2>4. new \in [D -> Nat]
    <3>1. \A i \in D : new[i] \in Nat
      BY <1>1, <1>3, <2>3
    <3>2. new = [i \in D |-> new[i]]
      BY <1>3, <2>2
    <3>. QED  BY <3>1, <3>2
  <2>5. Total(new) = Total(counts)
    <3>1. counts \in [D -> Int]
      OBVIOUS
    <3>2. d # e /\ e \in D
      BY <2>1
    <3>3. Moved(new, counts, d, e)
      BY <1>3, <2>2 DEF Moved
    <3>. QED  BY <3>1, <3>2, <3>3, MovedUnit
  <2>6. ASSUME NEW i \in D, NEW j \in D, counts[i] >= counts[j] - 1 PROVE new[i] >= new[j] - 1
    <3>1. new[i] \in Nat /\ new[j] \in Nat /\ counts[i] \in Nat /\ counts[j] \in Nat /\ counts[d] \in Nat
      BY <1>1, <2>4
    <3>2. new[i] >= counts[i] \/ (i = d /\ new[i] = counts[d] - 1)
      BY <2>1, <2>3, <3>1
    <3>3. new[j] <= counts[j] \/ new[j] = 1
      BY <2>1, <2>3, <3>1
    <3>4. counts[j] <= counts[d]
      BY <1>3
    <3>. QED  BY <2>6, <3>1, <3>2, <3>3, <3>4
  <2>7. Empty(new) = Empty(counts) \ {e}
    <3>1. \A i \in D : new[i] = 0 <=> counts[i] = 0 /\ i # e
      BY <1>1, <1>3, <2>1, <2>3
    <3>. QED  BY <2>3, <3>1 DEF Empty
  <2>. QED  BY <2>2, <2>4, <2>5, <2>6, <2>7
<1>. QED  BY <1>2, <1>3, BorrowTurn

\* What so many turns leave, for every set of turns.
Turns(g, D, sizes) ==
  g = [s \in SUBSET D |-> IF s = {} THEN sizes
                          ELSE LET x == CHOOSE x \in s : TRUE IN Borrow(g[s \ {x}])]

LEMMA TurnsExist ==
  ASSUME NEW D, IsFiniteSet(D), Numbers(D), NEW sizes \in [D -> Nat]
  PROVE  \E g \in [SUBSET D -> [D -> Nat]] : Turns(g, D, sizes)
<1>. DEFINE V == [D -> Nat]
            op == [p \in D \X V |-> Borrow(p[2])]
            pick == [s \in SUBSET D |-> CHOOSE x \in s : TRUE]
<1>1. \A v \in V : Borrow(v) \in V
  BY BorrowFacts
<1>2. sizes \in V
  OBVIOUS
<1>. HIDE DEF V
<1>3. op \in [D \X V -> V] /\ \A x \in D, v \in V : op[<<x, v>>] = Borrow(v)
  BY <1>1
<1>4. /\ \A s \in SUBSET D : s # {} => pick[s] \in s
      /\ \A s \in SUBSET D : pick[s] = CHOOSE x \in s : TRUE
  OBVIOUS
<1>. HIDE DEF op, pick
<1>5. PICK g \in [SUBSET D -> V] : Folding(g, D, sizes, op, pick)
  <2>1. op \in [D \X V -> V]
    BY <1>3
  <2>2. \A s \in SUBSET D : s # {} => pick[s] \in s
    BY <1>4
  <2>. QED  BY <1>2, <2>1, <2>2, FoldExists, Zenon
<1>6. \A s \in SUBSET D : g[s] = IF s = {} THEN sizes ELSE op[<<pick[s], g[s \ {pick[s]}]>>]
  BY <1>5 DEF Folding
<1>7. ASSUME NEW s \in SUBSET D, s # {}
      PROVE  op[<<pick[s], g[s \ {pick[s]}]>>] = Borrow(g[s \ {CHOOSE x \in s : TRUE}])
  <2>1. pick[s] \in D /\ g[s \ {pick[s]}] \in V /\ pick[s] = CHOOSE x \in s : TRUE
    BY <1>4, <1>7
  <2>2. op[<<pick[s], g[s \ {pick[s]}]>>] = Borrow(g[s \ {pick[s]}])
    BY <1>3, <2>1
  <2>. QED  BY <2>1, <2>2, Zenon
<1>8. \A s \in SUBSET D : g[s] = IF s = {} THEN sizes ELSE Borrow(g[s \ {CHOOSE x \in s : TRUE}])
  BY <1>6, <1>7
<1>9. g = [s \in SUBSET D |-> g[s]]
  OBVIOUS
<1>10. Turns(g, D, sizes)
  BY <1>8, <1>9 DEF Turns
<1>. QED  BY <1>10 DEF V

\* What the turns make of the sizes: what is kept in every turn, and that a turn fills an empty
\* share while there is one.
Borrowed(c, sizes, D) ==
  /\ c \in [D -> Nat] /\ Total(c) = Total(sizes)
  /\ \A i, j \in D : sizes[i] >= sizes[j] - 1 => c[i] >= c[j] - 1
  /\ Empty(sizes) = {} => c = sizes
  /\ Total(sizes) >= Cardinality(D) => Empty(c) = {}

LEMMA TurnsFacts ==
  ASSUME NEW D, IsFiniteSet(D), Numbers(D), NEW sizes \in [D -> Nat],
         NEW g, Turns(g, D, sizes)
  PROVE  Borrowed(g[D], sizes, D)
<1>. DEFINE Kept(c) == /\ c \in [D -> Nat] /\ Total(c) = Total(sizes)
                       /\ \A i, j \in D : sizes[i] >= sizes[j] - 1 => c[i] >= c[j] - 1
                       /\ Empty(sizes) = {} => c = sizes
            Fewer(c, s) == Total(sizes) >= Cardinality(D) =>
                             Cardinality(Empty(c)) <= Cardinality(D) - Cardinality(s)
            Q == {s \in SUBSET D : Kept(g[s]) /\ (Fewer(g[s], s) \/ Empty(g[s]) = {})}
<1>1. \A s \in SUBSET D : g[s] = IF s = {} THEN sizes ELSE Borrow(g[s \ {CHOOSE x \in s : TRUE}])
  BY DEF Turns
<1>2. ASSUME NEW c \in [D -> Nat]
      PROVE  /\ Empty(c) \in SUBSET D /\ IsFiniteSet(Empty(c)) /\ Cardinality(Empty(c)) \in Nat
             /\ Cardinality(Empty(c)) <= Cardinality(D)
  <2>1. Empty(c) \in SUBSET D
    BY DEF Empty
  <2>. QED  BY <2>1, FS_Subset, FS_CardinalityType
<1>3. Cardinality(D) \in Nat
  BY FS_CardinalityType
<1>4. {} \in Q
  <2>1. g[{}] = sizes
    BY <1>1
  <2>2. Kept(sizes)
    OBVIOUS
  <2>3. Fewer(sizes, {})
    BY <1>2, <1>3, FS_EmptySet
  <2>. HIDE DEF Kept, Fewer
  <2>. QED  BY <2>1, <2>2, <2>3
<1>5. ASSUME NEW s \in SUBSET D, s # {}, \A x \in s : s \ {x} \in Q PROVE s \in Q
  <2>1. PICK x \in s : x = CHOOSE y \in s : TRUE
    BY <1>5
  <2>2. PICK c : c = g[s \ {x}]
    OBVIOUS
  <2>3. g[s] = Borrow(c)
    BY <1>1, <1>5, <2>1, <2>2
  <2>4. Kept(c) /\ (Fewer(c, s \ {x}) \/ Empty(c) = {})
    BY <1>5, <2>2
  <2>5. c \in [D -> Nat]
    BY <2>4
  <2>6. /\ Borrow(c) \in [D -> Nat]
        /\ Total(Borrow(c)) = Total(c)
        /\ \A i, j \in D : c[i] >= c[j] - 1 => Borrow(c)[i] >= Borrow(c)[j] - 1
        /\ Empty(c) = {} => Borrow(c) = c
        /\ Empty(c) # {} /\ Total(c) >= Cardinality(D) =>
             \E e \in Empty(c) : Empty(Borrow(c)) = Empty(c) \ {e}
    BY <2>5, BorrowFacts
  <2>7. Kept(Borrow(c))
    BY <2>4, <2>6
  <2>8. CASE Empty(c) = {}
    <3>. HIDE DEF Kept, Fewer
    <3>. QED  BY <2>3, <2>6, <2>7, <2>8
  <2>9. CASE Empty(c) # {} /\ Total(sizes) >= Cardinality(D)
    <3>1. Fewer(c, s \ {x})
      BY <2>4, <2>9
    <3>2. PICK e \in Empty(c) : Empty(Borrow(c)) = Empty(c) \ {e}
      <4>1. Total(c) = Total(sizes)
        BY <2>4
      <4>. QED  BY <2>6, <2>9, <4>1
    <3>3. Cardinality(Empty(Borrow(c))) = Cardinality(Empty(c)) - 1
      <4>1. IsFiniteSet(Empty(c))
        BY <1>2, <2>5
      <4>2. Cardinality(Empty(c) \ {e}) = Cardinality(Empty(c)) - 1
        BY <4>1, FS_RemoveElement
      <4>. QED  BY <3>2, <4>2
    <3>4. Cardinality(s \ {x}) = Cardinality(s) - 1 /\ Cardinality(s) \in Nat
      BY FS_Subset, FS_RemoveElement, FS_CardinalityType
    <3>5. Cardinality(Empty(c)) <= Cardinality(D) - Cardinality(s \ {x})
      BY <2>9, <3>1
    <3>6. Cardinality(Empty(c)) \in Nat
      BY <1>2, <2>5
    <3>7. Cardinality(Empty(Borrow(c))) <= Cardinality(D) - Cardinality(s)
      BY <1>3, <3>3, <3>4, <3>5, <3>6
    <3>. HIDE DEF Kept
    <3>. QED  BY <2>3, <2>7, <3>7
  <2>10. CASE ~ (Total(sizes) >= Cardinality(D))
    <3>1. Fewer(Borrow(c), s)
      BY <2>10
    <3>. HIDE DEF Kept, Fewer
    <3>. QED  BY <2>3, <2>7, <3>1
  <2>. QED  BY <2>8, <2>9, <2>10, Zenon
<1>6. D \in Q
  <2>. HIDE DEF Q
  <2>. QED  BY <1>4, <1>5, FiniteInduction
<1>7. Kept(g[D]) /\ (Fewer(g[D], D) \/ Empty(g[D]) = {})
  BY <1>6
<1>8. Total(sizes) >= Cardinality(D) => Empty(g[D]) = {}
  <2>1. IsFiniteSet(Empty(g[D])) /\ Cardinality(Empty(g[D])) \in Nat
    BY <1>2, <1>7
  <2>2. CASE Fewer(g[D], D)
    <3>1. Total(sizes) >= Cardinality(D) => Cardinality(Empty(g[D])) = 0
      BY <1>3, <2>1, <2>2
    <3>. QED  BY <2>1, <3>1, FS_EmptySet
  <2>. HIDE DEF Kept, Fewer
  <2>. QED  BY <1>7, <2>2
<1>. QED  BY <1>7, <1>8 DEF Borrowed

LEMMA LastTurn ==
  ASSUME NEW D, IsFiniteSet(D), Numbers(D), NEW sizes \in [D -> Nat],
         NEW c, c = (CHOOSE g : Turns(g, D, sizes))[D]
  PROVE  Borrowed(c, sizes, D)
<1>1. PICK g : g = CHOOSE h : Turns(h, D, sizes)
  OBVIOUS
<1>2. Turns(g, D, sizes)
  <2>1. \E h \in [SUBSET D -> [D -> Nat]] : Turns(h, D, sizes)
    BY TurnsExist
  <2>. QED  BY <1>1, <2>1
<1>3. c = g[D]
  BY <1>1
<1>. QED  BY <1>2, <1>3, TurnsFacts

LEMMA PartitionIsTurns ==
  ASSUME NEW total, NEW w, ~ (total < Len(w))
  PROVE  WeightedPartition(total, w)
           = (CHOOSE g : Turns(g, DOMAIN w, WeightedSizes(total, w)))[DOMAIN w]
BY DEF WeightedPartition, FoldSet, MapThenFoldSet, Turns

\* weighted_partition: units are neither made nor lost, a share that is not behind another's before
\* the borrowing is behind it by at most a unit after, and none is empty if there are enough units.
LEMMA PartitionFacts ==
  ASSUME NEW total \in Nat, NEW w \in Seq(Nat), Total(w) > 0, NEW D, D = 1..Len(w),
         NEW sizes, sizes = WeightedSizes(total, w), NEW counts, counts = WeightedPartition(total, w)
  PROVE  /\ counts \in [D -> Nat] /\ Total(counts) = total
         /\ \A i, j \in D : sizes[i] >= sizes[j] => counts[i] >= counts[j] - 1
         /\ total >= Len(w) => \A i \in D : counts[i] > 0
         /\ (\A i \in D : sizes[i] > 0) \/ total < Len(w) => counts = sizes
<1>1. D = DOMAIN w /\ w \in [D -> Nat] /\ Len(w) \in Nat
  OBVIOUS
<1>2. IsFiniteSet(D) /\ Cardinality(D) = Len(w)
  BY <1>1, UpTo
<1>3. Numbers(D)
  BY <1>1, UpTo
<1>4. sizes \in [D -> Nat] /\ Total(sizes) = total
  BY <1>1, <1>2, <1>3, SizesAddUp
<1>5. \A i \in D : sizes[i] \in Nat
  BY <1>4
<1>6. CASE total < Len(w)
  <2>1. counts = sizes
    BY <1>6 DEF WeightedPartition
  <2>2. ~ (total >= Len(w))
    BY <1>1, <1>6
  <2>. QED  BY <1>4, <1>5, <2>1, <2>2
<1>7. CASE ~ (total < Len(w))
  <2>1. counts = (CHOOSE g : Turns(g, D, sizes))[D]
    BY <1>1, <1>7, PartitionIsTurns
  <2>2. /\ counts \in [D -> Nat] /\ Total(counts) = Total(sizes)
        /\ \A i, j \in D : sizes[i] >= sizes[j] - 1 => counts[i] >= counts[j] - 1
        /\ Empty(sizes) = {} => counts = sizes
        /\ Total(sizes) >= Cardinality(D) => Empty(counts) = {}
    <3>1. Borrowed(counts, sizes, D)
      BY <1>2, <1>3, <1>4, <2>1, LastTurn
    <3>. QED  BY <3>1 DEF Borrowed
  <2>3. \A i, j \in D : sizes[i] >= sizes[j] => sizes[i] >= sizes[j] - 1
    BY <1>5
  <2>4. Empty(counts) = {}
    BY <1>1, <1>2, <1>4, <1>7, <2>2
  <2>5. \A i \in D : counts[i] \in Nat /\ counts[i] # 0
    BY <2>2, <2>4 DEF Empty
  <2>6. (\A i \in D : sizes[i] > 0) => Empty(sizes) = {}
    BY <1>4, <1>5 DEF Empty
  <2>. QED  BY <1>4, <1>7, <2>2, <2>3, <2>5, <2>6
<1>. QED  BY <1>6, <1>7

\* "When all weights are equal this reduces to the same near-even split as even_ranges."
THEOREM EqualSharesAreEven ==
  ASSUME NEW total \in Nat, NEW k \in Nat \ {0}
  PROVE  LET counts == WeightedPartition(total, [i \in 1..k |-> 1]) IN
         \A i \in 1..k : counts[i] = EvenStart(total, k, i + 1) - EvenStart(total, k, i)
<1>1. PICK D, w : D = 1..k /\ w = [i \in D |-> 1]
  OBVIOUS
<1>2. w \in Seq(Nat) /\ Len(w) = k /\ w \in [D -> Nat] /\ DOMAIN w = D /\ w \in [D -> {0, 1}]
  BY <1>1
<1>3. IsFiniteSet(D) /\ Cardinality(D) = k
  BY <1>1, FS_Interval
<1>4. Numbers(D)
  BY <1>1 DEF Numbers
<1>5. Total(w) = k
  <2>1. {i \in D : w[i] = 1} = D
    BY <1>1
  <2>2. Total(w) = Cardinality({i \in D : w[i] = 1})
    BY <1>2, <1>3, SumCounts
  <2>. QED  BY <1>3, <2>1, <2>2
<1>6. PICK base \in Nat, extra \in 0..(k - 1) : base = total \div k /\ extra = total % k
  BY Division
<1>7. total = k * base + extra
  BY <1>6, Division
<1>8. \A i \in D : total * w[i] = total
  BY <1>1
<1>9. Floors(total, w) = [i \in D |-> base]
  BY <1>2, <1>5, <1>6, <1>8 DEF Floors
<1>10. Rests(total, w) = [i \in D |-> extra]
  BY <1>2, <1>5, <1>6, <1>8 DEF Rests
<1>11. Leftover(total, w) = extra
  <2>1. PICK f \in [D -> Int] : f = Floors(total, w) /\ \A i \in D : f[i] = base * w[i]
    <3>1. [i \in D |-> base] \in [D -> Int]
      OBVIOUS
    <3>2. \A i \in D : [j \in D |-> base][i] = base * w[i]
      BY <1>1
    <3>. QED  BY <1>9, <3>1, <3>2
  <2>2. w \in [D -> Int]
    BY <1>2
  <2>3. Total(f) = base * Total(w)
    BY <1>3, <2>1, <2>2, SumScales
  <2>4. Leftover(total, w) = total - base * k
    BY <1>5, <2>1, <2>3 DEF Leftover
  <2>5. base * k = k * base /\ k * base \in Int
    OBVIOUS
  <2>. QED  BY <1>7, <2>4, <2>5
<1>12. ASSUME NEW i \in D PROVE Place(Order(total, w), i) = i - 1
  <2>1. Order(total, w)[i] = 1..(i - 1)
    <3>1. Order(total, w)[i] \in SUBSET D
      <4>1. Ordered(D, Order(total, w))
        BY <1>2, <1>3, <1>4, <1>5, OrderFacts
      <4>. QED  BY <4>1 DEF Ordered
    <3>2. \A j \in D : j \in Order(total, w)[i] <=> j < i
      <4>. SUFFICES ASSUME NEW j \in D PROVE j \in Order(total, w)[i] <=> j < i
        OBVIOUS
      <4>1. j \in Order(total, w)[i] <=>
              \/ Rests(total, w)[j] > Rests(total, w)[i]
              \/ Rests(total, w)[j] = Rests(total, w)[i] /\ j < i
        BY <1>2, <1>3, <1>4, <1>5, OrderFacts, SMTT(30)
      <4>2. Rests(total, w)[j] = extra /\ Rests(total, w)[i] = extra
        BY <1>10
      <4>. QED  BY <4>1, <4>2
    <3>3. \A j \in D : j \in 1..(i - 1) <=> j < i
      BY <1>1
    <3>4. 1..(i - 1) \subseteq D
      BY <1>1
    <3>. QED  BY <3>1, <3>2, <3>3, <3>4
  <2>. QED  BY <1>1, <2>1, FS_Interval DEF Place
<1>13. PICK sizes : sizes = WeightedSizes(total, w)
  OBVIOUS
<1>14. \A i \in D : sizes[i] = IF i <= extra THEN base + 1 ELSE base
  <2>. SUFFICES ASSUME NEW i \in D PROVE sizes[i] = IF i <= extra THEN base + 1 ELSE base
    OBVIOUS
  <2>1. sizes[i] = Floors(total, w)[i] + Extra(total, w)[i]
    BY <1>2, <1>3, <1>4, <1>5, <1>13, ExtraFacts
  <2>2. Extra(total, w)[i] = IF i - 1 < extra THEN 1 ELSE 0
    BY <1>2, <1>11, <1>12 DEF Extra
  <2>3. i - 1 < extra <=> i <= extra
    BY <1>1
  <2>. QED  BY <1>9, <2>1, <2>2, <2>3
<1>15. PICK counts : counts = WeightedPartition(total, w)
  OBVIOUS
<1>16. counts = sizes
  <2>1. (\A i \in D : sizes[i] > 0) \/ total < Len(w) => counts = sizes
    BY <1>1, <1>2, <1>5, <1>13, <1>15, PartitionFacts
  <2>2. CASE base = 0
    <3>1. k * base = 0
      BY <2>2
    <3>. QED  BY <1>2, <1>7, <2>1, <3>1
  <2>3. CASE base > 0
    BY <1>14, <2>1, <2>3
  <2>. QED  BY <2>2, <2>3
<1>17. ASSUME NEW i \in D
       PROVE  EvenStart(total, k, i + 1) - EvenStart(total, k, i) = IF i <= extra THEN base + 1 ELSE base
  <2>1. EvenStart(total, k, i + 1) = i * base + Least(i, extra)
    <3>1. (i + 1) - 1 = i
      BY <1>1
    <3>. QED  BY <1>6, <3>1 DEF EvenStart
  <2>2. EvenStart(total, k, i) = (i - 1) * base + Least(i - 1, extra)
    BY <1>6 DEF EvenStart
  <2>3. i * base = (i - 1) * base + base /\ (i - 1) * base \in Int
    BY <1>1
  <2>4. Least(i, extra) - Least(i - 1, extra) = IF i <= extra THEN 1 ELSE 0
    BY <1>1 DEF Least
  <2>5. Least(i, extra) \in Int /\ Least(i - 1, extra) \in Int
    BY <1>1 DEF Least
  <2>. QED  BY <2>1, <2>2, <2>3, <2>4, <2>5
<1>. QED  BY <1>1, <1>14, <1>15, <1>16, <1>17

-----------------------------------------------------------------------------
(* The tiles that are not empty, in their order. *)

\* The numbers in increasing order, each once.
Listed(kept, place, N) ==
  /\ N \in Nat /\ place \in [1..N -> kept]
  /\ \A i, j \in 1..N : i < j => place[i] < place[j]
  /\ \A i \in kept : \E j \in 1..N : place[j] = i

LEMMA KeptPlaces ==
  ASSUME NEW kept, IsFiniteSet(kept), Numbers(kept)
  PROVE  Listed(kept, InOrder(kept), Cardinality(kept))
<1>1. \A i \in kept : i \in Int
  BY DEF Numbers
<1>2. PICK N \in Nat : N = Cardinality(kept)
  BY FS_CardinalityType
<1>3. PICK before : before = [i \in kept |-> {k \in kept : k < i}]
  OBVIOUS
<1>4. Ordered(kept, before)
  <2>1. before \in [kept -> SUBSET kept]
    BY <1>3
  <2>2. \A i, j \in kept : i \in before[j] <=> i < j
    BY <1>3
  <2>3. ASSUME NEW i \in kept, NEW j \in kept, i \in before[j] PROVE before[i] \subseteq before[j]
    <3>. SUFFICES ASSUME NEW m \in before[i] PROVE m \in before[j]
      OBVIOUS
    <3>1. m \in kept
      BY <2>1
    <3>2. m < i /\ i < j /\ m \in Int /\ i \in Int /\ j \in Int
      BY <1>1, <2>2, <2>3, <3>1
    <3>3. m < j
      BY <3>2
    <3>. QED  BY <2>2, <3>1, <3>3
  <2>4. /\ \A i \in kept : i \notin before[i]
        /\ \A i, j \in kept : i # j => i \in before[j] \/ j \in before[i]
    BY <1>1, <2>2
  <2>. QED  BY <2>1, <2>3, <2>4 DEF Ordered
<1>5. /\ \A i \in kept : Place(before, i) \in 0..(N - 1)
      /\ \A i, j \in kept : Place(before, i) < Place(before, j) <=> i \in before[j]
      /\ \A p \in 0..(N - 1) : \E i \in kept : Place(before, i) = p
  BY <1>2, <1>4, PlaceFacts
<1>. DEFINE place == InOrder(kept)
<1>6. ASSUME NEW j \in 1..N PROVE place[j] \in kept /\ Place(before, place[j]) = j - 1
  <2>1. j - 1 \in 0..(N - 1)
    BY <1>2
  <2>2. \E i \in kept : Cardinality({k \in kept : k < i}) = j - 1
    BY <1>3, <1>5, <2>1 DEF Place
  <2>3. place[j] = CHOOSE i \in kept : Cardinality({k \in kept : k < i}) = j - 1
    BY <1>2 DEF InOrder
  <2>. QED  BY <1>3, <2>2, <2>3 DEF Place
<1>7. place \in [1..N -> kept]
  BY <1>2, <1>6 DEF InOrder
<1>8. ASSUME NEW i \in 1..N, NEW j \in 1..N, i < j PROVE place[i] < place[j]
  <2>1. /\ Place(before, place[i]) = i - 1 /\ Place(before, place[j]) = j - 1 /\ i - 1 < j - 1
        /\ place[i] \in kept /\ place[j] \in kept
    BY <1>2, <1>6, <1>8
  <2>2. place[i] \in before[place[j]]
    BY <1>5, <2>1
  <2>. QED  BY <1>3, <2>1, <2>2
<1>9. ASSUME NEW i \in kept PROVE \E j \in 1..N : place[j] = i
  <2>1. PICK p \in 0..(N - 1) : Place(before, i) = p
    BY <1>5
  <2>2. p + 1 \in 1..N /\ (p + 1) - 1 = p
    BY <1>2, <2>1
  <2>3. Place(before, place[p + 1]) = p /\ place[p + 1] \in kept
    BY <1>6, <2>2
  <2>4. place[p + 1] = i
    <3>1. ~ (Place(before, place[p + 1]) < Place(before, i)) /\ ~ (Place(before, i) < Place(before, place[p + 1]))
      BY <2>1, <2>3
    <3>2. place[p + 1] \notin before[i] /\ i \notin before[place[p + 1]]
      BY <1>5, <2>3, <3>1
    <3>. QED  BY <1>4, <2>3, <3>2 DEF Ordered
  <2>. QED  BY <2>2, <2>4
<1>. HIDE DEF place
<1>10. Listed(kept, place, N)
  BY <1>7, <1>8, <1>9 DEF Listed
<1>. QED  BY <1>2, <1>10 DEF place

\* The borders of n tiles of so many items: tile i is from border i - 1 to border i.
Borders(c, n, total) ==
  /\ c \in [0..n -> Nat] /\ c[0] = 0 /\ c[n] = total
  /\ \A i \in 1..n : c[i - 1] <= c[i]

\* Across empty tiles nothing is passed over.
LEMMA EmptyTiles ==
  ASSUME NEW n \in Nat, NEW total \in Nat, NEW c, Borders(c, n, total),
         NEW a \in 0..n, NEW b \in a..n, \A i \in (a + 1)..b : c[i - 1] = c[i]
  PROVE  c[a] = c[b]
<1>. DEFINE Q == {d \in 0..(b - a) : c[a + d] = c[a]}
<1>1. 0 \in Q
  OBVIOUS
<1>2. ASSUME NEW d \in 0..((b - a) - 1), d \in Q PROVE d + 1 \in Q
  <2>1. a + (d + 1) \in (a + 1)..b /\ (a + (d + 1)) - 1 = a + d
    OBVIOUS
  <2>2. c[a + d] = c[a + (d + 1)]
    BY <2>1
  <2>. QED  BY <1>2, <2>2
<1>3. b - a \in Nat
  OBVIOUS
<1>4. b - a \in Q
  <2>. HIDE DEF Q
  <2>. QED  BY <1>1, <1>2, <1>3, UpwardInduction
<1>. QED  BY <1>4

\* The tiles that are not empty lie end to end, and are all there is.
Laid(place, N, c, n, total) ==
  /\ N \in Nat \ {0} /\ place \in [1..N -> 1..n]
  /\ \A i, j \in 1..N : place[i] = place[j] => i = j
  /\ \A j \in 1..N : c[place[j] - 1] < c[place[j]]
  /\ c[place[1] - 1] = 0 /\ c[place[N]] = total
  /\ \A j \in 1..(N - 1) : c[place[j]] = c[place[j + 1] - 1]

LEMMA KeptTiles ==
  ASSUME NEW n \in Nat, NEW total \in Nat \ {0}, NEW c, Borders(c, n, total),
         NEW kept, kept = {i \in 1..n : c[i - 1] < c[i]},
         NEW place, place = InOrder(kept), NEW N, N = Cardinality(kept)
  PROVE  Laid(place, N, c, n, total)
<1>1. /\ N \in Nat /\ place \in [1..N -> kept] /\ kept \in SUBSET (1..n)
      /\ \A i, j \in 1..N : i < j => place[i] < place[j]
      /\ \A i \in kept : \E j \in 1..N : place[j] = i
  <2>1. kept \in SUBSET (1..n)
    OBVIOUS
  <2>2. IsFiniteSet(kept) /\ Numbers(kept)
    BY <2>1, UpTo, FS_Subset DEF Numbers
  <2>3. Listed(kept, place, N)
    BY <2>2, KeptPlaces
  <2>. QED  BY <2>1, <2>3 DEF Listed
<1>2. \A j \in 1..N : place[j] \in 1..n /\ place[j] \in kept /\ place[j] \in Int
  BY <1>1
<1>3. \A i \in 0..n : c[i] \in Nat
  BY DEF Borders
<1>4. \A i \in 1..n : i \notin kept => c[i - 1] = c[i]
  <2>. SUFFICES ASSUME NEW i \in 1..n, i \notin kept PROVE c[i - 1] = c[i]
    OBVIOUS
  <2>1. i - 1 \in 0..n /\ i \in 0..n
    OBVIOUS
  <2>2. ~ (c[i - 1] < c[i]) /\ c[i - 1] <= c[i]
    BY DEF Borders
  <2>. QED  BY <1>3, <2>1, <2>2
<1>5. N # 0
  <2>. SUFFICES ASSUME N = 0 PROVE FALSE
    OBVIOUS
  <2>1. kept = {}
    <3>1. \A j \in 1..N : FALSE
      OBVIOUS
    <3>. QED  BY <1>1, <3>1
  <2>2. 0 \in 0..n /\ n \in 0..n /\ \A i \in (0 + 1)..n : c[i - 1] = c[i]
    BY <1>4, <2>1
  <2>3. c[0] = c[n]
    BY <2>2, EmptyTiles
  <2>. QED  BY <2>3 DEF Borders
<1>6. ASSUME NEW i \in 1..N, NEW j \in 1..N, place[i] = place[j] PROVE i = j
  <2>1. ~ (i < j) /\ ~ (j < i)
    BY <1>1, <1>2, <1>6
  <2>. QED  BY <1>1, <2>1
<1>7. c[place[1] - 1] = 0
  <2>1. 1 \in 1..N
    BY <1>1, <1>5
  <2>2. \A i \in 1..(place[1] - 1) : i \notin kept
    <3>. SUFFICES ASSUME NEW j \in 1..N, place[j] < place[1] PROVE FALSE
      BY <1>1, <1>2, <2>1, SMTT(30)
    <3>1. j = 1 \/ 1 < j
      BY <1>1
    <3>2. j = 1 \/ place[1] < place[j]
      BY <1>1, <2>1, <3>1
    <3>3. PICK a, b \in Int : a = place[j] /\ b = place[1] /\ a < b
      BY <1>2, <2>1
    <3>4. a = b \/ b < a
      BY <3>2, <3>3
    <3>. QED  BY ONLY a \in Int, b \in Int, <3>3, <3>4
  <2>3. place[1] - 1 \in 0..n /\ 0 \in 0..n
    BY <1>2, <2>1
  <2>4. \A i \in (0 + 1)..(place[1] - 1) : c[i - 1] = c[i]
    BY <1>2, <1>4, <2>1, <2>2
  <2>5. c[0] = c[place[1] - 1]
    BY <2>3, <2>4, EmptyTiles
  <2>. QED  BY <2>5 DEF Borders
<1>8. c[place[N]] = total
  <2>1. N \in 1..N
    BY <1>1, <1>5
  <2>2. \A i \in (place[N] + 1)..n : i \notin kept
    <3>. SUFFICES ASSUME NEW j \in 1..N, place[N] < place[j] PROVE FALSE
      BY <1>1, <1>2, <2>1
    <3>1. j = N \/ j < N
      BY <1>1
    <3>2. place[j] = place[N] \/ place[j] < place[N]
      BY <1>1, <2>1, <3>1
    <3>3. place[j] \in Int /\ place[N] \in Int
      BY <1>2, <2>1
    <3>. QED  BY <3>2, <3>3
  <2>3. place[N] \in 0..n /\ n \in place[N]..n
    BY <1>2, <2>1
  <2>4. \A i \in (place[N] + 1)..n : c[i - 1] = c[i]
    BY <1>2, <1>4, <2>1, <2>2
  <2>5. c[place[N]] = c[n]
    BY <2>3, <2>4, EmptyTiles
  <2>. QED  BY <2>5 DEF Borders
<1>9. ASSUME NEW j \in 1..(N - 1) PROVE c[place[j]] = c[place[j + 1] - 1]
  <2>1. j \in 1..N /\ j + 1 \in 1..N /\ j < j + 1
    BY <1>1
  <2>2. PICK p, q \in 1..n : p = place[j] /\ q = place[j + 1]
    BY <1>2, <2>1
  <2>3. p < q
    BY <1>1, <2>1, <2>2
  <2>4. ASSUME NEW m \in 1..N PROVE ~ (p < place[m] /\ place[m] < q)
    <3>1. m < j \/ m = j \/ m = j + 1 \/ j + 1 < m
      BY <1>1, <2>1
    <3>2. place[m] < p \/ place[m] = p \/ place[m] = q \/ q < place[m]
      BY <1>1, <2>1, <2>2, <3>1
    <3>3. place[m] \in Int
      BY <1>2
    <3>. QED  BY <3>2, <3>3
  <2>5. \A i \in (p + 1)..(q - 1) : i \notin kept
    <3>. SUFFICES ASSUME NEW i \in (p + 1)..(q - 1), i \in kept PROVE FALSE
      OBVIOUS
    <3>1. PICK m \in 1..N : place[m] = i
      BY <1>1
    <3>. QED  BY <2>4, <3>1
  <2>6. \A i \in (p + 1)..(q - 1) : c[i - 1] = c[i]
    BY <1>4, <2>5
  <2>7. p \in 0..n /\ q - 1 \in p..n
    BY <2>3
  <2>8. c[p] = c[q - 1]
    BY <2>6, <2>7, EmptyTiles
  <2>. QED  BY <2>2, <2>8
<1>. QED  BY <1>1, <1>2, <1>5, <1>6, <1>7, <1>8, <1>9 DEF Laid

\* Ranges that lie end to end, and the borders that they have.
EndToEnd(ranges, n, total) ==
  /\ \A i \in 1..n : ranges[i][1] \in Nat /\ ranges[i][2] \in Nat /\ ranges[i][1] <= ranges[i][2]
  /\ ranges[1][1] = 0 /\ ranges[n][2] = total
  /\ \A i \in 1..(n - 1) : ranges[i][2] = ranges[i + 1][1]

Bordered(ranges, n, total) ==
  \E c : /\ Borders(c, n, total)
         /\ \A i \in 1..n : ranges[i][1] = c[i - 1] /\ ranges[i][2] = c[i]

LEMMA RangesHaveBorders ==
  ASSUME NEW n \in Nat \ {0}, NEW total \in Nat, NEW ranges, EndToEnd(ranges, n, total)
  PROVE  Bordered(ranges, n, total)
<1>1. PICK c : c = [i \in 0..n |-> IF i = 0 THEN 0 ELSE ranges[i][2]]
  OBVIOUS
<1>2. c \in [0..n -> Nat] /\ c[0] = 0 /\ c[n] = total
  BY <1>1 DEF EndToEnd
<1>3. ASSUME NEW i \in 1..n PROVE ranges[i][1] = c[i - 1] /\ ranges[i][2] = c[i]
  <2>1. ranges[i][2] = c[i]
    BY <1>1
  <2>2. CASE i = 1
    BY <1>2, <2>1, <2>2 DEF EndToEnd
  <2>3. CASE i # 1
    <3>1. i - 1 \in 1..(n - 1) /\ (i - 1) + 1 = i /\ i - 1 \in 0..n /\ i - 1 # 0
      BY <2>3
    <3>2. ranges[i - 1][2] = ranges[i][1]
      BY <3>1 DEF EndToEnd
    <3>3. c[i - 1] = ranges[i - 1][2]
      BY <1>1, <3>1
    <3>. QED  BY <2>1, <3>2, <3>3
  <2>. QED  BY <2>2, <2>3
<1>4. \A i \in 1..n : c[i - 1] <= c[i]
  BY <1>3 DEF EndToEnd
<1>. QED  BY <1>2, <1>3, <1>4 DEF Borders, Bordered

\* Those of an even split.
LEMMA EvenBorders ==
  ASSUME NEW total \in Nat, NEW k \in Nat \ {0}
  PROVE  Bordered(EvenRanges(total, k), k, total)
<1>. DEFINE even == EvenRanges(total, k)
<1>1. /\ even[1][1] = 0 /\ even[k][2] = total
      /\ \A i \in 1..(k - 1) : even[i][2] = even[i + 1][1]
      /\ \A i \in 1..k : even[i][2] - even[i][1] \in {total \div k, total \div k + 1}
  BY EvenRangesCover
<1>2. PICK base \in Nat : base = total \div k
  BY Division
<1>3. \A i \in 1..(k + 1) : EvenStart(total, k, i) \in Nat
  <2>. SUFFICES ASSUME NEW i \in 1..(k + 1) PROVE EvenStart(total, k, i) \in Nat
    OBVIOUS
  <2>1. (i - 1) * base \in Nat
    OBVIOUS
  <2>2. (total % k) \in Nat
    BY Division
  <2>. QED  BY <1>2, <2>1, <2>2 DEF EvenStart, Least
<1>4. \A i \in 1..k : even[i][1] \in Nat /\ even[i][2] \in Nat
  BY <1>3 DEF EvenRanges
<1>. HIDE DEF even
<1>5. \A i \in 1..k : even[i][1] <= even[i][2]
  BY <1>1, <1>2, <1>4
<1>6. EndToEnd(even, k, total)
  BY <1>1, <1>4, <1>5 DEF EndToEnd
<1>7. Bordered(even, k, total)
  BY <1>6, RangesHaveBorders
<1>. QED  BY <1>7 DEF even

\* And of a weighted one.
LEMMA WeightedBorders ==
  ASSUME NEW total \in Nat, NEW k \in Nat \ {0}, NEW w \in [1..k -> Nat], Total(w) > 0
  PROVE  Bordered(WeightedRanges(total, w), k, total)
<1>. DEFINE ranges == WeightedRanges(total, w)
<1>1. /\ \A i \in 1..k : ranges[i][1] \in Nat /\ ranges[i][2] >= ranges[i][1] /\ ranges[i][2] \in Nat
      /\ ranges[1][1] = 0 /\ ranges[k][2] = total
      /\ \A i \in 1..(k - 1) : ranges[i][2] = ranges[i + 1][1]
  BY WeightedRangesCover
<1>. HIDE DEF ranges
<1>2. EndToEnd(ranges, k, total)
  BY <1>1 DEF EndToEnd
<1>3. Bordered(ranges, k, total)
  BY <1>2, RangesHaveBorders
<1>. QED  BY <1>3 DEF ranges

\* Weights by which a split is made, or none: then it is even.
Splittable(w, k) == w = NoWeights \/ (w \in [1..k -> Nat] /\ Total(w) > 0)

LEMMA SplitBorders ==
  ASSUME NEW total \in Nat, NEW k \in Nat \ {0}, NEW w, Splittable(w, k)
  PROVE  Bordered(IF w = NoWeights THEN EvenRanges(total, k) ELSE WeightedRanges(total, w), k, total)
<1>1. CASE w = NoWeights
  <2>1. Bordered(EvenRanges(total, k), k, total)
    BY EvenBorders
  <2>. QED  BY <1>1, <2>1
<1>2. CASE w # NoWeights
  <2>1. Bordered(WeightedRanges(total, w), k, total)
    BY <1>2, WeightedBorders DEF Splittable
  <2>. QED  BY <1>2, <2>1
<1>. QED  BY <1>1, <1>2

\* Positive weights are weights.
LEMMA PositiveWeights ==
  ASSUME NEW k \in Nat \ {0}, NEW w \in [1..k -> Nat \ {0}]
  PROVE  Splittable(w, k)
<1>1. PICK D : D = 1..k /\ IsFiniteSet(D) /\ Cardinality(D) = k
  BY UpTo
<1>2. w \in [D -> Int] /\ \A i \in D : w[i] \in Nat \ {0}
  BY <1>1
<1>3. PICK ones : ones = [i \in D |-> 1]
  OBVIOUS
<1>4. ones \in [D -> {0, 1}] /\ ones \in [D -> Int] /\ {i \in D : ones[i] = 1} = D
  BY <1>3
<1>5. Total(ones) = k
  BY <1>1, <1>4, SumCounts
<1>6. \A i \in D : ones[i] <= w[i]
  BY <1>2, <1>3
<1>7. Total(ones) <= Total(w) /\ Total(w) \in Int
  BY <1>1, <1>2, <1>4, <1>6, SumOrders, SumType
<1>. QED  BY <1>5, <1>7 DEF Splittable

-----------------------------------------------------------------------------
(* Folds, and sums of sizes. *)

\* Finitely many numbers have a largest and a smallest.
LEMMA Extremes ==
  ASSUME NEW S, IsFiniteSet(S), S # {}, Numbers(S)
  PROVE  /\ Max(S) \in S /\ \A i \in S : i <= Max(S)
         /\ Min(S) \in S /\ \A i \in S : Min(S) <= i
<1>1. \A i \in S : i \in Int
  BY DEF Numbers
<1>2. \E x \in S : \A y \in S : x >= y
  <2>1. PICK v : v = [i \in S |-> i]
    OBVIOUS
  <2>2. v \in [S -> Int]
    BY <1>1, <2>1
  <2>3. PICK i \in S : \A j \in S : v[j] < v[i] \/ (v[j] = v[i] /\ i <= j)
    BY <2>2, FirstLargest
  <2>. QED  BY <1>1, <2>1, <2>3
<1>3. \E x \in S : \A y \in S : x =< y
  <2>1. PICK v : v = [i \in S |-> 0 - i]
    OBVIOUS
  <2>2. v \in [S -> Int]
    BY <1>1, <2>1
  <2>3. PICK i \in S : \A j \in S : v[j] < v[i] \/ (v[j] = v[i] /\ i <= j)
    BY <2>2, FirstLargest
  <2>. QED  BY <1>1, <2>1, <2>3
<1>4. Max(S) \in S /\ \A i \in S : Max(S) >= i
  BY <1>2 DEF Max
<1>5. Min(S) \in S /\ \A i \in S : Min(S) =< i
  BY <1>3 DEF Min
<1>. QED  BY <1>1, <1>4, <1>5

\* The largest number of an initial range.
LEMMA MaxUpTo ==
  ASSUME NEW j \in Nat \ {0}
  PROVE  Max(1..j) = j
<1>1. IsFiniteSet(1..j) /\ Numbers(1..j) /\ j \in 1..j
  BY UpTo
<1>2. Max(1..j) \in 1..j /\ j <= Max(1..j)
  BY <1>1, Extremes
<1>. QED  BY <1>2

\* A fold from the left takes the largest index last.
LeftFolding(g, m, base, op) ==
  \A s \in SUBSET (1..m) : g[s] = IF s = {} THEN base ELSE op[<<Max(s), g[s \ {Max(s)}]>>]

\* There is such a fold, whatever is folded and into what.
LEMMA LeftFold ==
  ASSUME NEW m \in Nat, NEW V, NEW base \in V, NEW op \in [(1..m) \X V -> V]
  PROVE  \E g \in [SUBSET (1..m) -> V] : LeftFolding(g, m, base, op)
<1>1. PICK pick : pick = [s \in SUBSET (1..m) |-> Max(s)]
  OBVIOUS
<1>2. ASSUME NEW s \in SUBSET (1..m), s # {} PROVE pick[s] \in s
  <2>1. IsFiniteSet(s) /\ Numbers(s)
    BY UpTo, FS_Subset DEF Numbers
  <2>2. Max(s) \in s
    BY <1>2, <2>1, Extremes
  <2>. QED  BY <1>1, <2>2
<1>3. IsFiniteSet(1..m)
  BY UpTo
<1>4. PICK g \in [SUBSET (1..m) -> V] : Folding(g, 1..m, base, op, pick)
  <2>1. PICK D : D = 1..m
    OBVIOUS
  <2>2. op \in [D \X V -> V] /\ IsFiniteSet(D) /\ \A s \in SUBSET D : s # {} => pick[s] \in s
    BY <1>2, <1>3, <2>1
  <2>3. \E g \in [SUBSET D -> V] : Folding(g, D, base, op, pick)
    BY <2>2, FoldExists, Zenon
  <2>. QED  BY <2>1, <2>3
<1>5. \A s \in SUBSET (1..m) : g[s] = IF s = {} THEN base ELSE op[<<pick[s], g[s \ {pick[s]}]>>]
  BY <1>4 DEF Folding
<1>6. \A s \in SUBSET (1..m) : g[s] = IF s = {} THEN base ELSE op[<<Max(s), g[s \ {Max(s)}]>>]
  BY <1>1, <1>5
<1>. QED  BY <1>6 DEF LeftFolding

\* Sets of which no two have an element in common.
Separate(S, D) == \A i, j \in D : i # j => S[i] \cap S[j] = {}

\* Together they have as many elements as their sizes add up to.
LEMMA SumOfSizes ==
  ASSUME NEW D, IsFiniteSet(D), NEW S, \A i \in D : IsFiniteSet(S[i]), Separate(S, D),
         NEW f \in [D -> Int], \A i \in D : f[i] = Cardinality(S[i])
  PROVE  /\ IsFiniteSet(UNION {S[i] : i \in D})
         /\ Total(f) = Cardinality(UNION {S[i] : i \in D})
<1>. DEFINE All(T) == UNION {S[i] : i \in T}
            Q == {T \in SUBSET D : IsFiniteSet(All(T)) /\ Part(f, T) = Cardinality(All(T))}
<1>1. {} \in Q
  <2>1. All({}) = {}
    OBVIOUS
  <2>2. Part(f, {}) = 0
    BY PartFacts
  <2>. QED  BY <2>1, <2>2, FS_EmptySet
<1>2. ASSUME NEW T \in SUBSET D, T # {}, \A x \in T : T \ {x} \in Q PROVE T \in Q
  <2>1. PICK x \in T : TRUE
    BY <1>2
  <2>2. PICK U : U = T \ {x}
    OBVIOUS
  <2>3. U \in Q
    BY <1>2, <2>2
  <2>4. All(T) = All(U) \cup S[x] /\ All(U) \cap S[x] = {}
    BY <2>2 DEF Separate
  <2>5. IsFiniteSet(All(U)) /\ IsFiniteSet(S[x]) /\ Part(f, U) = Cardinality(All(U))
        /\ f[x] = Cardinality(S[x])
    BY <2>3
  <2>6. Part(f, T) = f[x] + Part(f, U)
    BY <2>2, PartRemoval
  <2>7. Cardinality(All(U)) \in Nat /\ Cardinality(S[x]) \in Nat
    BY <2>5, FS_CardinalityType
  <2>. HIDE DEF All
  <2>8. IsFiniteSet(All(T)) /\ Cardinality(All(T)) = Cardinality(All(U)) + Cardinality(S[x])
    <3>1. All(U) \cap S[x] = {} /\ Cardinality({}) = 0
      BY <2>4, FS_EmptySet
    <3>2. /\ IsFiniteSet(All(U) \cup S[x])
          /\ Cardinality(All(U) \cup S[x])
               = Cardinality(All(U)) + Cardinality(S[x]) - Cardinality(All(U) \cap S[x])
      BY <2>5, FS_Union
    <3>3. PICK a, b \in Nat : a = Cardinality(All(U)) /\ b = Cardinality(S[x])
      BY <2>7
    <3>4. Cardinality(All(U) \cup S[x]) = a + b
      <4>1. Cardinality(All(U) \cap S[x]) = 0
        BY <3>1
      <4>2. PICK c : c = Cardinality(All(U) \cap S[x])
        OBVIOUS
      <4>3. Cardinality(All(U) \cup S[x]) = a + b - c
        BY <3>2, <3>3, <4>2
      <4>. QED  BY <4>1, <4>2, <4>3
    <3>. QED  BY <2>4, <3>2, <3>3, <3>4
  <2>9. Part(f, T) = Cardinality(All(T))
    BY <2>5, <2>6, <2>7, <2>8
  <2>. QED  BY <2>8, <2>9
<1>3. D \in Q
  <2>. HIDE DEF Q
  <2>. QED  BY <1>1, <1>2, FiniteInduction
<1>4. Part(f, D) = Total(f)
  BY PartOfAll
<1>. QED  BY <1>3, <1>4

-----------------------------------------------------------------------------
(* Lists, and sequences that are joined. *)

\* One to one and onto: as many.
LEMMA SameCount ==
  ASSUME NEW D, IsFiniteSet(D), NEW T, NEW f \in [D -> T],
         \A i, j \in D : f[i] = f[j] => i = j, \A x \in T : \E i \in D : f[i] = x
  PROVE  IsFiniteSet(T) /\ Cardinality(T) = Cardinality(D)
<1>1. f \in Injection(D, T)
  BY Fun_IsInj
<1>2. f \in Surjection(D, T)
  BY Fun_IsSurj
<1>3. f \in Bijection(D, T)
  BY <1>1, <1>2 DEF Bijection
<1>4. ExistsBijection(D, T)
  BY <1>3, Fun_ExistsBij
<1>. QED  BY <1>4, FS_Bijection

\* There is one list of some numbers in increasing order.
LEMMA OneList ==
  ASSUME NEW kept, NEW place, NEW N, Listed(kept, place, N), Numbers(kept)
  PROVE  IsFiniteSet(kept) /\ Cardinality(kept) = N /\ InOrder(kept) = place
<1>1. /\ N \in Nat /\ place \in [1..N -> kept]
      /\ \A i, j \in 1..N : i < j => place[i] < place[j]
      /\ \A i \in kept : \E j \in 1..N : place[j] = i
  BY DEF Listed
<1>2. \A i \in 1..N : place[i] \in kept /\ place[i] \in Int
  BY <1>1 DEF Numbers
<1>3. ASSUME NEW i \in 1..N, NEW j \in 1..N, place[i] < place[j] PROVE i < j
  <2>. SUFFICES ASSUME ~ (i < j) PROVE FALSE
    OBVIOUS
  <2>1. j < i \/ i = j
    BY <1>1
  <2>2. PICK x, y \in Int : x = place[i] /\ y = place[j]
    BY <1>2
  <2>3. y < x \/ x = y
    BY <1>1, <2>1, <2>2
  <2>. QED  BY <1>3, <2>2, <2>3
<1>4. ASSUME NEW i \in 1..N, NEW j \in 1..N, place[i] = place[j] PROVE i = j
  <2>. SUFFICES ASSUME i # j PROVE FALSE
    OBVIOUS
  <2>1. i < j \/ j < i
    BY <1>1
  <2>2. PICK x \in Int : x = place[i] /\ x = place[j]
    BY <1>2, <1>4
  <2>3. x < x
    BY <1>1, <2>1, <2>2
  <2>. QED  BY <2>2, <2>3
<1>5. ASSUME NEW j \in 1..N
      PROVE  /\ IsFiniteSet({k \in kept : k < place[j]})
             /\ Cardinality({k \in kept : k < place[j]}) = j - 1
  <2>1. PICK m \in Nat : m = j - 1 /\ \A i : i \in 1..m <=> i \in 1..N /\ i < j
    BY <1>1
  <2>2. PICK T : T = {k \in kept : k < place[j]}
    OBVIOUS
  <2>3. PICK f : f = [i \in 1..m |-> place[i]]
    OBVIOUS
  <2>4. f \in [1..m -> T]
    BY <1>1, <1>2, <2>1, <2>2, <2>3
  <2>5. \A i, k \in 1..m : f[i] = f[k] => i = k
    BY <1>4, <2>1, <2>3
  <2>6. \A k \in T : \E i \in 1..m : f[i] = k
    <3>. SUFFICES ASSUME NEW k \in T PROVE \E i \in 1..m : f[i] = k
      OBVIOUS
    <3>1. PICK i \in 1..N : place[i] = k
      BY <1>1, <2>2
    <3>2. i < j
      BY <1>3, <2>2, <3>1
    <3>. QED  BY <2>1, <2>3, <3>1, <3>2
  <2>7. IsFiniteSet(1..m) /\ Cardinality(1..m) = m
    BY UpTo
  <2>9. IsFiniteSet(T) /\ Cardinality(T) = m
    BY <2>4, <2>5, <2>6, <2>7, SameCount
  <2>. QED  BY <2>1, <2>2, <2>9
<1>6. IsFiniteSet(kept) /\ Cardinality(kept) = N
  <2>1. IsFiniteSet(1..N) /\ Cardinality(1..N) = N
    BY <1>1, UpTo
  <2>. QED  BY <1>1, <1>4, <2>1, SameCount
<1>7. ASSUME NEW j \in 1..N PROVE InOrder(kept)[j] = place[j]
  <2>1. PICK c : c = CHOOSE i \in kept : Cardinality({k \in kept : k < i}) = j - 1
    OBVIOUS
  <2>2. c \in kept /\ Cardinality({k \in kept : k < c}) = j - 1
    BY <1>2, <1>5, <2>1
  <2>3. PICK i \in 1..N : place[i] = c
    BY <1>1, <2>2
  <2>4. i - 1 = j - 1
    BY <1>5, <2>2, <2>3
  <2>5. i = j
    BY <1>1, <2>4
  <2>6. InOrder(kept)[j] = c
    BY <1>6, <2>1 DEF InOrder
  <2>. QED  BY <2>3, <2>5, <2>6
<1>8. DOMAIN InOrder(kept) = 1..N /\ InOrder(kept) = [j \in 1..N |-> InOrder(kept)[j]]
  BY <1>6 DEF InOrder
<1>9. place = [j \in 1..N |-> place[j]]
  BY <1>1
<1>. QED  BY <1>6, <1>7, <1>8, <1>9

\* A list of numbers K goes on with the d numbers from a.
GoesOn(all, K, a, d) ==
  /\ Cardinality(K) \in Nat /\ Cardinality(all) = Cardinality(K) + d
  /\ \A k \in 1..Cardinality(K) : InOrder(all)[k] = InOrder(K)[k]
  /\ \A k \in 1..d : InOrder(all)[Cardinality(K) + k] = a + k - 1

\* If they are larger.
LEMMA ListGoesOn ==
  ASSUME NEW K, IsFiniteSet(K), Numbers(K), NEW a \in Int, NEW d \in Nat,
         \A x \in K : x < a, NEW all, all = K \cup (a..(a + d - 1))
  PROVE  GoesOn(all, K, a, d)
<1>1. PICK p, N : p = InOrder(K) /\ N = Cardinality(K)
  OBVIOUS
<1>2. /\ N \in Nat /\ p \in [1..N -> K]
      /\ \A i, j \in 1..N : i < j => p[i] < p[j]
      /\ \A i \in K : \E j \in 1..N : p[j] = i
  BY <1>1, KeptPlaces DEF Listed
<1>3. PICK q : q = [k \in 1..(N + d) |-> IF k <= N THEN p[k] ELSE a + (k - N) - 1]
  OBVIOUS
<1>4. \A k \in 1..N : q[k] = p[k] /\ p[k] \in K /\ p[k] \in Int
  BY <1>2, <1>3 DEF Numbers
<1>5. ASSUME NEW k \in 1..(N + d), k > N
      PROVE  q[k] = a + (k - N) - 1 /\ q[k] \in a..(a + d - 1)
  <2>1. q[k] = a + (k - N) - 1
    BY <1>2, <1>3, <1>5
  <2>2. PICK e \in Int : e = k - N /\ 1 <= e /\ e <= d
    BY <1>2, <1>5
  <2>3. q[k] = a + e - 1
    BY <2>1, <2>2
  <2>. QED  BY <2>1, <2>2, <2>3
<1>6. Numbers(all)
  BY DEF Numbers
<1>7. q \in [1..(N + d) -> all]
  <2>1. ASSUME NEW k \in 1..(N + d) PROVE q[k] \in all
    <3>1. CASE k <= N
      BY <1>2, <1>4, <3>1
    <3>2. CASE k > N
      BY <1>5, <3>2
    <3>. QED  BY <1>2, <3>1, <3>2
  <2>. QED  BY <1>3, <2>1
<1>8. ASSUME NEW i \in 1..(N + d), NEW j \in 1..(N + d), i < j PROVE q[i] < q[j]
  <2>1. CASE j <= N
    BY <1>2, <1>4, <1>8, <2>1
  <2>2. CASE i <= N /\ j > N
    <3>1. q[i] \in K /\ q[i] < a /\ q[i] \in Int
      BY <1>2, <1>4, <2>2
    <3>2. q[j] \in a..(a + d - 1)
      BY <1>5, <2>2
    <3>. QED  BY <3>1, <3>2
  <2>3. CASE i > N
    BY <1>2, <1>5, <1>8, <2>3
  <2>. QED  BY <1>2, <1>8, <2>1, <2>2, <2>3
<1>9. ASSUME NEW x \in all PROVE \E k \in 1..(N + d) : q[k] = x
  <2>1. CASE x \in K
    <3>1. PICK k \in 1..N : p[k] = x
      BY <1>2, <2>1
    <3>. QED  BY <1>2, <1>4, <3>1
  <2>2. CASE x \in a..(a + d - 1)
    <3>1. PICK e \in Int : e = x - a + 1 /\ 1 <= e /\ e <= d /\ x = a + e - 1
      BY <2>2
    <3>2. PICK k \in 1..(N + d) : k = N + e /\ k > N /\ k - N = e
      BY <1>2, <3>1
    <3>. QED  BY <1>5, <3>1, <3>2
  <2>. QED  BY <2>1, <2>2
<1>10. Listed(all, q, N + d)
  BY <1>2, <1>7, <1>8, <1>9 DEF Listed
<1>11. IsFiniteSet(all) /\ Cardinality(all) = N + d /\ InOrder(all) = q
  BY <1>6, <1>10, OneList
<1>12. ASSUME NEW k \in 1..d PROVE q[N + k] = a + k - 1
  <2>1. PICK j \in 1..(N + d) : j = N + k /\ j > N /\ j - N = k
    BY <1>2
  <2>. QED  BY <1>5, <2>1
<1>. QED  BY <1>1, <1>2, <1>4, <1>11, <1>12 DEF GoesOn

\* w is u, of length a, and after it v, of length b.
Follows(w, u, v, a, b) == w = [k \in 1..(a + b) |-> IF k <= a THEN u[k] ELSE v[k - a]]

\* One sequence after the other.
LEMMA Concatenated ==
  ASSUME NEW R, NEW u, u \in Seq(R), NEW v, v \in Seq(R), NEW a, a \in Nat, NEW b, b \in Nat,
         Len(u) = a, Len(v) = b
  PROVE  Follows(u \o v, u, v, a, b)
<1>1. /\ u \o v \in Seq(R) /\ Len(u \o v) = Len(u) + Len(v)
      /\ \A k \in 1..(Len(u) + Len(v)) : (u \o v)[k] = IF k <= Len(u) THEN u[k] ELSE v[k - Len(u)]
  OBVIOUS
<1>2. PICK cat : cat = u \o v
  OBVIOUS
<1>3. /\ cat \in Seq(R) /\ Len(cat) = a + b
      /\ \A k \in 1..(a + b) : cat[k] = IF k <= a THEN u[k] ELSE v[k - a]
  BY <1>1, <1>2
<1>4. cat = [k \in 1..(a + b) |-> cat[k]]
  <2>1. \A x \in Seq(R) : x = [k \in 1..Len(x) |-> x[k]]
    OBVIOUS
  <2>. QED  BY <1>3, <2>1
<1>. QED  BY <1>2, <1>3, <1>4 DEF Follows

\* What grows by one of the sequences after the other.
Grows(W, seqs, q) ==
  /\ q \in Nat \ {0} /\ Len(seqs) = q /\ W = [i \in 1..q |-> W[i]] /\ W[1] = seqs[1]
  /\ \A i \in 1..q : i # 1 => W[i] = W[i - 1] \o seqs[i]

\* FlattenSeq: it ends as all of them joined.
LEMMA Flattened ==
  ASSUME NEW q, NEW seqs, NEW W, Grows(W, seqs, q)
  PROVE  FlattenSeq(seqs) = W[q]
<1>. USE DEF Grows
<1>1. PICK f : f = CHOOSE g : g = [i \in 1..q |-> IF i = 1 THEN seqs[i] ELSE g[i - 1] \o seqs[i]]
  OBVIOUS
<1>2. W = [i \in 1..q |-> IF i = 1 THEN seqs[i] ELSE W[i - 1] \o seqs[i]]
  <2>1. ASSUME NEW i \in 1..q PROVE W[i] = IF i = 1 THEN seqs[i] ELSE W[i - 1] \o seqs[i]
    <3>1. CASE i = 1
      BY <3>1
    <3>2. CASE i # 1
      BY <3>2
    <3>. QED  BY <3>1, <3>2
  <2>. QED  BY <2>1
<1>3. f = [i \in 1..q |-> IF i = 1 THEN seqs[i] ELSE f[i - 1] \o seqs[i]]
  BY <1>1, <1>2
<1>4. FlattenSeq(seqs) = f[q]
  BY <1>1 DEF FlattenSeq
<1>. DEFINE Q == {i \in 0..q : i = 0 \/ f[i] = W[i]}
<1>5. 0 \in Q
  OBVIOUS
<1>6. ASSUME NEW i \in 0..(q - 1), i \in Q PROVE i + 1 \in Q
  <2>1. i + 1 \in 1..q
    OBVIOUS
  <2>2. CASE i = 0
    BY <1>3, <2>1, <2>2
  <2>3. CASE i # 0
    <3>1. PICK j \in 1..q : j = i + 1 /\ j - 1 = i /\ j # 1
      BY <2>1, <2>3
    <3>2. f[j] = f[j - 1] \o seqs[j]
      BY <1>3, <3>1
    <3>3. W[j] = W[j - 1] \o seqs[j] /\ f[i] = W[i]
      BY <1>6, <2>3, <3>1
    <3>4. f[j] = W[j]
      BY <3>1, <3>2, <3>3
    <3>5. j \in 0..q
      OBVIOUS
    <3>. QED  BY <3>1, <3>4, <3>5
  <2>. QED  BY <2>2, <2>3
<1>7. q \in Q
  <2>. HIDE DEF Q
  <2>. QED  BY <1>5, <1>6, UpwardInduction
<1>. QED  BY <1>4, <1>7

\* A list of elements of U, and which they are.
ListOf(list, U, all) == list \in Seq(U) /\ ToSet(list) = all

\* No list has nothing.
LEMMA NothingListed ==
  ASSUME NEW U
  PROVE  ListOf(<< >>, U, {}) /\ IsInjective(<< >>)
BY DEF ListOf, ToSet, IsInjective

\* One list after the other.
LEMMA ListsJoin ==
  ASSUME NEW U, NEW u, NEW A, ListOf(u, U, A), NEW v, NEW B, ListOf(v, U, B)
  PROVE  ListOf(u \o v, U, A \cup B)
<1>1. PICK a, b \in Nat : a = Len(u) /\ b = Len(v)
  BY DEF ListOf
<1>2. PICK w : w = u \o v
  OBVIOUS
<1>3. w \in Seq(U) /\ w = [k \in 1..(a + b) |-> IF k <= a THEN u[k] ELSE v[k - a]]
  <2>1. u \in Seq(U) /\ v \in Seq(U) /\ Len(u) = a /\ Len(v) = b
    BY <1>1 DEF ListOf
  <2>2. Follows(u \o v, u, v, a, b)
    BY ONLY <2>1, a \in Nat, b \in Nat, Concatenated
  <2>3. w \in Seq(U)
    BY <1>2, <2>1
  <2>. QED  BY <1>2, <2>2, <2>3 DEF Follows
<1>4. DOMAIN u = 1..a /\ DOMAIN v = 1..b /\ DOMAIN w = 1..(a + b)
  BY <1>1, <1>3 DEF ListOf
<1>5. ASSUME NEW k \in 1..a PROVE k \in 1..(a + b) /\ w[k] = u[k]
  BY <1>1, <1>3
<1>6. ASSUME NEW k \in 1..b PROVE a + k \in 1..(a + b) /\ w[a + k] = v[k]
  <2>1. PICK j \in 1..(a + b) : j = a + k /\ ~ (j <= a) /\ j - a = k
    BY <1>1
  <2>. QED  BY <1>3, <2>1
<1>7. ASSUME NEW k \in 1..(a + b) PROVE w[k] \in A \cup B
  <2>1. CASE k <= a
    BY <1>1, <1>4, <1>5, <2>1 DEF ListOf, ToSet
  <2>2. CASE k > a
    <3>1. PICK j \in 1..b : j = k - a /\ ~ (k <= a)
      BY <1>1, <2>2
    <3>2. w[k] = v[j]
      BY <1>3, <3>1
    <3>. QED  BY <1>4, <3>2 DEF ListOf, ToSet
  <2>. QED  BY <1>1, <2>1, <2>2
<1>8. ToSet(w) = A \cup B
  <2>1. ASSUME NEW x \in A PROVE x \in ToSet(w)
    <3>1. PICK k \in 1..a : u[k] = x
      BY <1>4 DEF ListOf, ToSet
    <3>. QED  BY <1>4, <1>5, <3>1 DEF ToSet
  <2>2. ASSUME NEW x \in B PROVE x \in ToSet(w)
    <3>1. PICK k \in 1..b : v[k] = x
      BY <1>4 DEF ListOf, ToSet
    <3>. QED  BY <1>4, <1>6, <3>1 DEF ToSet
  <2>. QED  BY <1>4, <1>7, <2>1, <2>2 DEF ToSet
<1>. QED  BY <1>2, <1>3, <1>8 DEF ListOf

\* One more at the end.
LEMMA ListsAppend ==
  ASSUME NEW U, NEW list, NEW A, ListOf(list, U, A), NEW x \in U
  PROVE  /\ Contains(list, x) <=> x \in A
         /\ ListOf(Append(list, x), U, A \cup {x})
         /\ IsInjective(list) /\ x \notin A => IsInjective(Append(list, x))
<1>1. PICK a \in Nat : a = Len(list) /\ DOMAIN list = 1..a
  BY DEF ListOf
<1>2. PICK w : w = Append(list, x)
  OBVIOUS
<1>3. /\ w \in Seq(U) /\ DOMAIN w = 1..(a + 1) /\ w[a + 1] = x
      /\ \A k \in 1..a : w[k] = list[k]
  BY <1>1, <1>2 DEF ListOf
<1>4. Contains(list, x) <=> x \in A
  BY <1>1 DEF Contains, ListOf, ToSet
<1>5. 1..(a + 1) = (1..a) \cup {a + 1}
  BY <1>1
<1>6. ToSet(w) = A \cup {x}
  BY <1>1, <1>3, <1>5 DEF ListOf, ToSet
<1>7. ASSUME IsInjective(list), x \notin A PROVE IsInjective(w)
  <2>1. \A k \in 1..a : w[k] # x
    BY <1>1, <1>3, <1>7 DEF ListOf, ToSet
  <2>2. \A j, k \in 1..a : w[j] = w[k] => j = k
    BY <1>1, <1>3, <1>7 DEF IsInjective
  <2>. QED  BY <1>3, <1>5, <2>1, <2>2 DEF IsInjective
<1>. QED  BY <1>2, <1>3, <1>4, <1>6, <1>7 DEF ListOf

-----------------------------------------------------------------------------
(* Sums by class. *)

\* The sums of two parts that have nothing in common add up.
LEMMA PartsAdd ==
  ASSUME NEW D, IsFiniteSet(D), NEW f \in [D -> Int], NEW A \in SUBSET D, NEW B \in SUBSET D,
         A \cap B = {}
  PROVE  Part(f, A \cup B) = Part(f, A) + Part(f, B)
<1>. DEFINE Q == {T \in SUBSET B : Part(f, A \cup T) = Part(f, A) + Part(f, T)}
<1>1. {} \in Q
  <2>1. A \cup {} = A
    OBVIOUS
  <2>2. Part(f, {}) = 0 /\ Part(f, A) \in Int
    BY PartFacts
  <2>. QED  BY <2>1, <2>2
<1>2. ASSUME NEW T \in SUBSET B, T # {}, \A x \in T : T \ {x} \in Q PROVE T \in Q
  <2>1. PICK x \in T : x \in D
    BY <1>2
  <2>2. PICK U \in SUBSET D : U = A \cup T /\ U \ {x} = A \cup (T \ {x}) /\ x \in U
    <3>1. x \notin A
      BY <2>1
    <3>2. (A \cup T) \ {x} = A \cup (T \ {x}) /\ x \in A \cup T /\ A \cup T \in SUBSET D
      BY <2>1, <3>1
    <3>. QED  BY <3>2
  <2>3. T \in SUBSET D /\ T \ {x} \in SUBSET D
    OBVIOUS
  <2>4. PICK a, b, c \in Int : a = Part(f, A) /\ b = Part(f, T \ {x}) /\ c = f[x]
    BY <2>1, <2>3, PartFacts
  <2>5. Part(f, T) = c + b
    BY <2>1, <2>3, <2>4, PartRemoval
  <2>6. Part(f, U) = c + Part(f, U \ {x})
    BY <2>2, <2>4, PartRemoval
  <2>7. Part(f, U \ {x}) = a + b
    BY <1>2, <2>2, <2>4
  <2>8. Part(f, U) = a + (c + b)
    BY <2>6, <2>7
  <2>. QED  BY <2>2, <2>4, <2>5, <2>8
<1>3. IsFiniteSet(B)
  BY FS_Subset
<1>4. B \in Q
  <2>. HIDE DEF Q
  <2>. QED  BY <1>1, <1>2, <1>3, FiniteInduction
<1>. QED  BY <1>4

\* The elements of D by their class.
Classed(at, class, D, C) ==
  class \in [D -> C] /\ \A c \in C : at[c] = {x \in D : class[x] = c}

\* What is summed class by class is summed.
LEMMA SumByClass ==
  ASSUME NEW D, IsFiniteSet(D), NEW f \in [D -> Int], NEW C, IsFiniteSet(C),
         NEW at, NEW class, Classed(at, class, D, C),
         NEW F \in [C -> Int], \A c \in C : F[c] = Part(f, at[c])
  PROVE  Total(F) = Total(f)
<1>. USE DEF Classed
<1>. DEFINE within(T) == {x \in D : class[x] \in T}
            Q == {T \in SUBSET C : Part(F, T) = Part(f, within(T))}
<1>1. {} \in Q
  <2>1. within({}) = {}
    OBVIOUS
  <2>2. Part(F, {}) = 0 /\ Part(f, {}) = 0
    BY PartFacts
  <2>. QED  BY <2>1, <2>2
<1>2. ASSUME NEW T \in SUBSET C, T # {}, \A c \in T : T \ {c} \in Q PROVE T \in Q
  <2>1. PICK c \in T : c \in C
    BY <1>2
  <2>2. PICK A, B \in SUBSET D : A = {x \in D : class[x] = c} /\ B = within(T \ {c})
    OBVIOUS
  <2>3. within(T) = A \cup B /\ A \cap B = {}
    BY <2>1, <2>2
  <2>4. Part(f, A \cup B) = Part(f, A) + Part(f, B)
    BY <2>3, PartsAdd
  <2>5. Part(F, T) = F[c] + Part(F, T \ {c})
    BY <2>1, PartRemoval
  <2>6. F[c] = Part(f, A) /\ Part(F, T \ {c}) = Part(f, B)
    BY <1>2, <2>1, <2>2
  <2>. QED  BY <2>3, <2>4, <2>5, <2>6
<1>3. C \in Q
  <2>. HIDE DEF Q
  <2>. QED  BY <1>1, <1>2, FiniteInduction
<1>4. within(C) = D
  OBVIOUS
<1>5. Part(F, C) = Part(f, D)
  BY <1>3, <1>4
<1>. QED  BY <1>5, PartOfAll

\* As often the same number.
LEMMA ConstantSum ==
  ASSUME NEW D, IsFiniteSet(D), NEW f \in [D -> Int], NEW A \in SUBSET D, NEW s \in Int,
         \A x \in A : f[x] = s
  PROVE  Part(f, A) = s * Cardinality(A)
<1>1. IsFiniteSet(A)
  BY FS_Subset
<1>2. PICK one, same : one = [x \in A |-> 1] /\ same = [x \in A |-> f[x]]
  OBVIOUS
<1>3. one \in [A -> {0, 1}] /\ one \in [A -> Int] /\ same \in [A -> Int]
  BY <1>2
<1>4. {x \in A : one[x] = 1} = A
  BY <1>2
<1>5. Total(one) = Cardinality(A)
  BY <1>1, <1>3, <1>4, SumCounts
<1>6. \A x \in A : same[x] = s * one[x]
  BY <1>2
<1>7. Total(same) = s * Total(one)
  BY <1>1, <1>3, <1>6, SumScales
<1>. QED  BY <1>2, <1>5, <1>7 DEF Part

\* The borders rise, and between the first and the last lies whatever does.
LEMMA BordersRise ==
  ASSUME NEW m \in Nat, NEW total \in Nat, NEW c, Borders(c, m, total)
  PROVE  /\ \A i, j \in 0..m : i <= j => c[i] <= c[j]
         /\ \A x \in 0..(total - 1) : \E i \in 1..m : c[i - 1] <= x /\ x < c[i]
<1>1. /\ \A i \in 0..m : c[i] \in Nat
      /\ c[0] = 0 /\ c[m] = total /\ \A i \in 1..m : c[i - 1] <= c[i]
  BY DEF Borders
<1>2. ASSUME NEW i \in 0..m, NEW j \in 0..m, i <= j PROVE c[i] <= c[j]
  <2>. DEFINE Q == {d \in 0..(j - i) : c[i] <= c[i + d]}
  <2>1. 0 \in Q
    <3>1. i + 0 = i /\ c[i] \in Nat /\ 0 \in 0..(j - i)
      BY <1>1, <1>2
    <3>2. c[i] <= c[i + 0]
      BY <3>1
    <3>. QED  BY <3>1, <3>2
  <2>2. ASSUME NEW d \in 0..((j - i) - 1), d \in Q PROVE d + 1 \in Q
    <3>1. i + (d + 1) \in 1..m /\ (i + (d + 1)) - 1 = i + d /\ i + d \in 0..m /\ i + (d + 1) \in 0..m
      OBVIOUS
    <3>2. c[i + d] <= c[i + (d + 1)]
      BY <1>1, <3>1
    <3>3. c[i] \in Nat /\ c[i + d] \in Nat /\ c[i + (d + 1)] \in Nat /\ c[i] <= c[i + d]
      BY <1>1, <2>2, <3>1
    <3>4. d + 1 \in 0..(j - i) /\ c[i] <= c[i + (d + 1)]
      BY <3>2, <3>3
    <3>. QED  BY <3>4
  <2>3. j - i \in Nat
    BY <1>2
  <2>4. j - i \in Q
    <3>. HIDE DEF Q
    <3>. QED  BY <2>1, <2>2, <2>3, UpwardInduction
  <2>. QED  BY <2>4
<1>3. ASSUME NEW x \in 0..(total - 1) PROVE \E i \in 1..m : c[i - 1] <= x /\ x < c[i]
  <2>. SUFFICES ASSUME \A i \in 1..m : c[i - 1] <= x => ~ (x < c[i]) PROVE FALSE
    OBVIOUS
  <2>. DEFINE Q == {d \in 0..m : c[d] <= x}
  <2>1. 0 \in Q
    BY <1>1
  <2>2. ASSUME NEW d \in 0..(m - 1), d \in Q PROVE d + 1 \in Q
    <3>1. d + 1 \in 1..m /\ (d + 1) - 1 = d /\ d + 1 \in 0..m
      OBVIOUS
    <3>2. c[d] <= x /\ c[d + 1] \in Nat
      BY <1>1, <2>2, <3>1
    <3>3. ~ (x < c[d + 1])
      BY <3>1, <3>2
    <3>4. c[d + 1] <= x
      BY <3>2, <3>3
    <3>. QED  BY <3>1, <3>4
  <2>3. m \in Q
    <3>. HIDE DEF Q
    <3>. QED  BY <2>1, <2>2, UpwardInduction
  <2>. QED  BY <1>1, <2>3
<1>. QED  BY <1>2, <1>3

=============================================================================
