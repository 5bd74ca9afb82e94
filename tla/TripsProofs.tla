---------------------------- MODULE TripsProofs ----------------------------
(***************************************************************************)
(* Theorems about Trips, for any shifts, hops, parts, times and bounds.    *)
(*                                                                         *)
(* The screens are sums, choices and folds over the rows, so the first     *)
(* half is about those: induction, stated over sets since an operator      *)
(* cannot be cited; the fold that exists; a sum and its groups. Then the   *)
(* rows of a shift in their order, the places where the SQL and the Node   *)
(* code cut them, that they cut them at the same ones, and last the feed,  *)
(* a page at a time while phones upload.                                   *)
(***************************************************************************)
EXTENDS Trips, FiniteSetTheorems, WellFoundedInduction, TLAPS

-----------------------------------------------------------------------------
(* Induction, as facts about sets: a set of subsets, of numbers.           *)
LEMMA LeastOne ==
    ASSUME NEW S, S \subseteq Nat, S # {}
    PROVE  \E n \in S : \A m \in S : ~(m < n)
<1>1. \E n \in S : \A m \in S : <<m, n>> \notin OpToRel(<, Nat)
    BY NatLessThanWellFounded, WFMin
<1> QED
    BY <1>1 DEF OpToRel

(* What holds of 0, and of n + 1 when of n, holds of every number.         *)
LEMMA NatInduct ==
    ASSUME NEW Good, 0 \in Good, \A n \in Nat : n \in Good => n + 1 \in Good
    PROVE  Nat \subseteq Good
<1> SUFFICES ASSUME Nat \ Good # {} PROVE FALSE
    OBVIOUS
<1>1. PICK n \in Nat \ Good : \A m \in Nat \ Good : ~(m < n)
    BY LeastOne
<1> QED
    <2>1. n # 0 /\ n - 1 \in Nat /\ n - 1 < n /\ (n - 1) + 1 = n
        BY <1>1
    <2> QED
        BY <1>1, <2>1

(* The same for the subsets of a finite set, one element more at a time.   *)
LEMMA SetInduct ==
    ASSUME NEW S, IsFiniteSet(S), NEW Good, {} \in Good,
           \A T \in SUBSET S : \A x \in S \ T : T \in Good => T \cup {x} \in Good
    PROVE  SUBSET S \subseteq Good
<1> SUFFICES ASSUME (SUBSET S) \ Good # {} PROVE FALSE
    OBVIOUS
<1> DEFINE Sizes == {Cardinality(T) : T \in (SUBSET S) \ Good}
<1>1. \A T \in SUBSET S : IsFiniteSet(T) /\ Cardinality(T) \in Nat
    BY FS_Subset, FS_CardinalityType
<1>2. PICK n \in Sizes : \A m \in Sizes : ~(m < n)
    <2>1. Sizes \subseteq Nat /\ Sizes # {}
        BY <1>1
    <2> QED
        BY <2>1, LeastOne
<1>3. PICK T \in (SUBSET S) \ Good : Cardinality(T) = n
    BY <1>2
<1>4. PICK x \in T : TRUE
    BY <1>3
<1>5. Cardinality(T \ {x}) = n - 1 /\ n \in Nat
    BY <1>1, <1>3, <1>4, FS_RemoveElement
<1>6. T \ {x} \in Good
    BY <1>2, <1>3, <1>5
<1> QED
    <2>1. T = (T \ {x}) \cup {x} /\ x \in S \ (T \ {x}) /\ T \ {x} \in SUBSET S
        BY <1>3, <1>4
    <2> QED
        BY <1>3, <1>6, <2>1

-----------------------------------------------------------------------------
(* A fold over the subsets of a finite set exists.                         *)
Foldable(S, V, base, g, c) ==
    /\ base \in V
    /\ \A x \in S : \A v \in V : g[x][v] \in V
    /\ \A s \in SUBSET S : s # {} => c[s] \in s

IsFold(fold, S, V, base, g, c) ==
    /\ fold \in [SUBSET S -> V]
    /\ \A s \in SUBSET S :
           fold[s] = IF s = {} THEN base ELSE g[c[s]][fold[s \ {c[s]}]]

(* By induction on the size of the subset.                                 *)
LEMMA FoldExists ==
    ASSUME NEW S, IsFiniteSet(S), NEW V, NEW base, NEW g, NEW c, Foldable(S, V, base, g, c)
    PROVE  \E fold : IsFold(fold, S, V, base, g, c)
<1> USE DEF Foldable
<1> DEFINE Upto(n) == {s \in SUBSET S : Cardinality(s) <= n}
           Folds(n) == {f \in [Upto(n) -> V] : \A s \in Upto(n) :
                           f[s] = IF s = {} THEN base ELSE g[c[s]][f[s \ {c[s]}]]}
           Good == {n \in Nat : Folds(n) # {}}
<1>1. \A s \in SUBSET S : IsFiniteSet(s) /\ Cardinality(s) \in Nat
    BY FS_Subset, FS_CardinalityType
<1>2. \A n \in Nat : \A s \in Upto(n + 1) : s # {} =>
          c[s] \in S /\ s \ {c[s]} \in Upto(n)
    <2> SUFFICES ASSUME NEW n \in Nat, NEW s \in Upto(n + 1), s # {}
                 PROVE  c[s] \in S /\ s \ {c[s]} \in Upto(n)
        OBVIOUS
    <2>1. c[s] \in s
        OBVIOUS
    <2>2. Cardinality(s \ {c[s]}) = Cardinality(s) - 1
        BY <1>1, <2>1, FS_RemoveElement
    <2> QED
        BY <1>1, <2>1, <2>2
<1>3. 0 \in Good
    <2>1. \A s \in Upto(0) : s = {}
        BY <1>1, FS_EmptySet
    <2>2. [s \in Upto(0) |-> base] \in Folds(0)
        BY <2>1
    <2> QED
        BY <2>2
<1>4. ASSUME NEW n \in Nat, Folds(n) # {} PROVE Folds(n + 1) # {}
    <2> PICK f \in Folds(n) : TRUE
        BY <1>4
    <2> DEFINE h == [s \in Upto(n + 1) |->
                        IF s = {} THEN base ELSE g[c[s]][f[s \ {c[s]}]]]
    <2>0. f \in [Upto(n) -> V]
        OBVIOUS
    <2>1. h \in [Upto(n + 1) -> V]
        <3>1. \A s \in Upto(n + 1) : s # {} => c[s] \in S /\ f[s \ {c[s]}] \in V
            BY <1>2, <2>0
        <3> QED
            BY <3>1
    <2>2. \A s \in Upto(n) : s \in Upto(n + 1)
        BY <1>1
    <2>3. \A s \in Upto(n) : h[s] = f[s]
        BY <2>2
    <2>4. \A s \in Upto(n + 1) :
              h[s] = IF s = {} THEN base ELSE g[c[s]][h[s \ {c[s]}]]
        BY <1>2, <2>3
    <2>5. h \in Folds(n + 1)
        BY <2>1, <2>4
    <2> QED
        BY <2>5
<1>5. Folds(Cardinality(S)) # {}
    <2> HIDE DEF Folds
    <2>1. \A n \in Nat : n \in Good => n + 1 \in Good
        BY <1>4
    <2>2. Nat \subseteq Good
        <3> HIDE DEF Good
        <3> QED BY <1>3, <2>1, NatInduct
    <2> QED
        BY <1>1, <2>2
<1>6. Upto(Cardinality(S)) = SUBSET S
    BY <1>1, FS_Subset
<1>7. PICK f : f \in Folds(Cardinality(S))
    <2> HIDE DEF Folds
    <2> QED
        BY <1>5
<1>8. /\ f \in [Upto(Cardinality(S)) -> V]
      /\ \A s \in Upto(Cardinality(S)) :
             f[s] = IF s = {} THEN base ELSE g[c[s]][f[s \ {c[s]}]]
    BY <1>7
<1> QED
    BY <1>6, <1>8 DEF IsFold

-----------------------------------------------------------------------------
(* Sums.                                                                   *)

Pick(s) == CHOOSE x \in s : TRUE

(* The element a sum takes next is one of those that are left.             *)
LEMMA PickIn == \A s : s # {} => Pick(s) \in s
BY DEF Pick

(* The recursion of a sum over the parts of S.                             *)
IsSum(sum, w, S) ==
    sum = [s \in SUBSET S |-> IF s = {} THEN 0 ELSE w[Pick(s)] + sum[s \ {Pick(s)}]]

(* There is a function that sums the terms of every subset.                *)
LEMMA SumExists ==
    ASSUME NEW S, IsFiniteSet(S), NEW w \in [S -> Int]
    PROVE  \E sum \in [SUBSET S -> Int] : IsSum(sum, w, S)
<1> DEFINE g == [x \in S |-> [v \in Int |-> w[x] + v]]
           c == [s \in SUBSET S |-> Pick(s)]
<1>1. Foldable(S, Int, 0, g, c)
    BY PickIn DEF Foldable
<1>2. \A s \in SUBSET S : s # {} => c[s] \in s
    BY PickIn
<1>3. PICK sum : IsFold(sum, S, Int, 0, g, c)
    <2> HIDE DEF g, c
    <2> QED
        BY <1>1, FoldExists
<1>4. \A s \in SUBSET S : s # {} =>
          /\ s \ {c[s]} \in SUBSET S
          /\ g[c[s]][sum[s \ {c[s]}]] = w[c[s]] + sum[s \ {c[s]}]
    BY <1>2, <1>3 DEF IsFold
<1>5. IsSum(sum, w, S)
    BY <1>3, <1>4 DEF IsSum, IsFold
<1> QED
    BY <1>3, <1>5 DEF IsFold

(* Two sums of the same terms.                                             *)
LEMMA SumUnique ==
    ASSUME NEW S, NEW T, NEW U, IsFiniteSet(U), U \subseteq S, U \subseteq T,
           NEW w, NEW v, \A x \in U : w[x] = v[x],
           NEW f, IsSum(f, w, S), NEW g, IsSum(g, v, T)
    PROVE  f[U] = g[U]
<1> DEFINE Good == {n \in Nat : \A s \in SUBSET U : Cardinality(s) = n => f[s] = g[s]}
<1>1. \A s \in SUBSET U : IsFiniteSet(s) /\ Cardinality(s) \in Nat
    BY FS_Subset, FS_CardinalityType
<1>2. 0 \in Good
    <2>1. \A s \in SUBSET U : Cardinality(s) = 0 => s = {}
        BY <1>1, FS_EmptySet
    <2> QED
        BY <2>1 DEF IsSum
<1>3. ASSUME NEW n \in Nat, n \in Good, NEW s \in SUBSET U, Cardinality(s) = n + 1
      PROVE  f[s] = g[s]
    <2>1. s # {}
        BY <1>1, <1>3, FS_EmptySet
    <2>2. Pick(s) \in s
        BY <2>1, PickIn
    <2>3. Cardinality(s \ {Pick(s)}) = n
        BY <1>1, <1>3, <2>2, FS_RemoveElement
    <2>4. f[s \ {Pick(s)}] = g[s \ {Pick(s)}]
        BY <1>3, <2>3
    <2>5. s \in SUBSET S /\ s \in SUBSET T
        OBVIOUS
    <2>6. f[s] = w[Pick(s)] + f[s \ {Pick(s)}]
        BY <2>1, <2>5 DEF IsSum
    <2>7. g[s] = v[Pick(s)] + g[s \ {Pick(s)}]
        BY <2>1, <2>5 DEF IsSum
    <2> QED
        BY <2>2, <2>4, <2>6, <2>7
<1>4. Nat \subseteq Good
    <2>1. ASSUME NEW n \in Nat, n \in Good PROVE n + 1 \in Good
        <3>1. \A s \in SUBSET U : Cardinality(s) = n + 1 => f[s] = g[s]
            BY <1>3, <2>1
        <3> QED
            BY <3>1
    <2> HIDE DEF Good
    <2> QED
        BY <1>2, <2>1, NatInduct
<1> QED
    BY <1>1, <1>4

(* SumOver is such a sum.                                                  *)
LEMMA SumIs ==
    ASSUME NEW S, IsFiniteSet(S), NEW w \in [S -> Int]
    PROVE  \E sum \in [SUBSET S -> Int] : IsSum(sum, w, S) /\ SumOver(w) = sum[S]
<1>1. PICK sum \in [SUBSET S -> Int] : IsSum(sum, w, S)
    BY SumExists
<1> DEFINE q == CHOOSE f : IsSum(f, w, S)
<1>2. IsSum(q, w, S)
    BY <1>1
<1>3. SumOver(w) = q[S]
    BY DEF SumOver, MapThenSumSet, MapThenFoldSet, IsSum, Pick
<1>4. q[S] = sum[S]
    <2> HIDE DEF q
    <2> QED
        BY <1>1, <1>2, SumUnique
<1> QED
    BY <1>1, <1>3, <1>4

(* The sum over some of the indices.                                       *)
Over(w, T) == SumOver([x \in T |-> w[x]])

(* A sum over some of the indices is read off the sum over more.           *)
LEMMA OverIs ==
    ASSUME NEW S, IsFiniteSet(S), NEW w \in [S -> Int],
           NEW f, IsSum(f, w, S), NEW T \in SUBSET S
    PROVE  Over(w, T) = f[T]
<1> DEFINE v == [x \in T |-> w[x]]
<1>1. IsFiniteSet(T) /\ v \in [T -> Int] /\ \A x \in T : v[x] = w[x]
    BY FS_Subset
<1>2. PICK g : IsSum(g, v, T) /\ SumOver(v) = g[T]
    <2> HIDE DEF v
    <2> QED
        BY <1>1, SumIs
<1>3. g[T] = f[T]
    <2> HIDE DEF v
    <2> QED
        BY <1>1, <1>2, SumUnique
<1> QED
    BY <1>2, <1>3 DEF Over

(* A sum is a number, 0 over nothing, and one term more with one index     *)
(* more.                                                                   *)
LEMMA SumFacts ==
    ASSUME NEW S, IsFiniteSet(S), NEW w \in [S -> Int]
    PROVE  /\ Over(w, S) = SumOver(w)
           /\ \A T \in SUBSET S : Over(w, T) \in Int
           /\ Over(w, {}) = 0
           /\ \A T \in SUBSET S : \A x \in T : Over(w, T) = w[x] + Over(w, T \ {x})
<1>1. PICK f \in [SUBSET S -> Int] : IsSum(f, w, S) /\ SumOver(w) = f[S]
    BY SumIs
<1>2. \A T \in SUBSET S : Over(w, T) = f[T]
    BY <1>1, OverIs
<1>3. f[{}] = 0
    BY <1>1 DEF IsSum
<1> DEFINE Good == {n \in Nat : \A T \in SUBSET S : Cardinality(T) = n =>
                        \A x \in T : f[T] = w[x] + f[T \ {x}]}
<1>4. \A T \in SUBSET S : IsFiniteSet(T) /\ Cardinality(T) \in Nat
    BY FS_Subset, FS_CardinalityType
<1>5. 0 \in Good
    <2>1. \A T \in SUBSET S : Cardinality(T) = 0 => T = {}
        BY <1>4, FS_EmptySet
    <2> QED
        BY <2>1
<1>6. ASSUME NEW n \in Nat, n \in Good, NEW T \in SUBSET S, Cardinality(T) = n + 1, NEW x \in T
      PROVE  f[T] = w[x] + f[T \ {x}]
    <2> DEFINE p == Pick(T)
    <2>1. p \in T
        BY PickIn
    <2>2. f[T] = w[p] + f[T \ {p}]
        BY <1>1 DEF IsSum
    <2> HIDE DEF p
    <2>3. CASE x = p
        BY <2>2, <2>3
    <2>4. CASE x # p
        <3>0. IsFiniteSet(T) /\ Cardinality(T) = n + 1 /\ n \in Nat
            BY <1>4, <1>6
        <3>1. Cardinality(T \ {x}) = n /\ Cardinality(T \ {p}) = n
            <4> HIDE DEF Good
            <4>1. \A z \in T : Cardinality(T \ {z}) = Cardinality(T) - 1
                BY <3>0, FS_RemoveElement
            <4> QED
                BY <3>0, <4>1, <2>1
        <3>2. f[T \ {p}] = w[x] + f[(T \ {p}) \ {x}]
            BY <1>6, <2>4, <3>1
        <3>3. f[T \ {x}] = w[p] + f[(T \ {x}) \ {p}]
            BY <1>6, <2>1, <2>4, <3>1
        <3>4. (T \ {p}) \ {x} = (T \ {x}) \ {p}
            OBVIOUS
        <3>5. w[x] \in Int /\ w[p] \in Int /\ f[(T \ {x}) \ {p}] \in Int
            BY <1>1, <2>1
        <3>6. f[T \ {p}] = w[x] + f[(T \ {x}) \ {p}]
            BY <3>2, <3>4
        <3> QED
            BY <2>2, <3>3, <3>5, <3>6
    <2> QED
        BY <2>3, <2>4
<1>7. Nat \subseteq Good
    <2>1. ASSUME NEW n \in Nat, n \in Good PROVE n + 1 \in Good
        <3>1. \A T \in SUBSET S : Cardinality(T) = n + 1 => \A x \in T : f[T] = w[x] + f[T \ {x}]
            BY <1>6, <2>1
        <3> QED
            BY <3>1
    <2> HIDE DEF Good
    <2> QED
        BY <1>5, <2>1, NatInduct
<1>8. \A T \in SUBSET S : \A x \in T : f[T] = w[x] + f[T \ {x}]
    BY <1>4, <1>7
<1>9. \A T \in SUBSET S : \A x \in T : T \ {x} \in SUBSET S
    OBVIOUS
<1> QED
    BY <1>1, <1>2, <1>3, <1>8, <1>9

(* The sum over two sets that have nothing in common.                      *)
LEMMA SumUnion ==
    ASSUME NEW S, IsFiniteSet(S), NEW w \in [S -> Int],
           NEW T \in SUBSET S, NEW U \in SUBSET S, T \cap U = {}
    PROVE  Over(w, T \cup U) = Over(w, T) + Over(w, U)
<1> DEFINE Good == {X \in SUBSET U : Over(w, T \cup X) = Over(w, T) + Over(w, X)}
<1>1. \A X \in SUBSET S : Over(w, X) \in Int
    BY SumFacts
<1>2. {} \in Good
    <2>1. T \cup {} = T /\ Over(w, {}) = 0 /\ Over(w, T) \in Int
        BY SumFacts
    <2> QED
        BY <2>1
<1>3. ASSUME NEW X \in SUBSET U, NEW x \in U \ X, X \in Good PROVE X \cup {x} \in Good
    <2>1. /\ (X \cup {x}) \ {x} = X /\ X \cup {x} \in SUBSET S /\ x \in X \cup {x}
          /\ (T \cup (X \cup {x})) \ {x} = T \cup X /\ T \cup (X \cup {x}) \in SUBSET S
          /\ x \in T \cup (X \cup {x})
        OBVIOUS
    <2>2. Over(w, X \cup {x}) = w[x] + Over(w, X)
        BY <2>1, SumFacts
    <2>3. Over(w, T \cup (X \cup {x})) = w[x] + Over(w, T \cup X)
        BY <2>1, SumFacts
    <2>4. Over(w, T \cup X) = Over(w, T) + Over(w, X)
        BY <1>3
    <2>5. w[x] \in Int /\ Over(w, T) \in Int /\ Over(w, X) \in Int
        BY <1>1
    <2>6. Over(w, T \cup (X \cup {x})) = Over(w, T) + Over(w, X \cup {x})
        BY <2>2, <2>3, <2>4, <2>5
    <2> QED
        BY <2>6
<1>4. SUBSET U \subseteq Good
    <2>1. IsFiniteSet(U)
        BY FS_Subset
    <2> HIDE DEF Good
    <2> QED
        BY <1>2, <1>3, <2>1, SetInduct
<1> QED
    BY <1>4

(* Sums by group add up to the sum.                                        *)
LEMMA SumGrouped ==
    ASSUME NEW S, IsFiniteSet(S), NEW w \in [S -> Int],
           NEW G, IsFiniteSet(G), NEW g \in [S -> G]
    PROVE  LET by == [v \in G |-> Over(w, {x \in S : g[x] = v})]
           IN  by \in [G -> Int] /\ SumOver(by) = SumOver(w)
<1> DEFINE by == [v \in G |-> Over(w, {x \in S : g[x] = v})]
           Of(V) == {x \in S : g[x] \in V}
           Good == {V \in SUBSET G : Over(by, V) = Over(w, Of(V))}
<1>1. by \in [G -> Int]
    BY SumFacts
<1>0. \A T \in SUBSET G : \A x \in T : Over(by, T) = by[x] + Over(by, T \ {x})
    <2> HIDE DEF by
    <2> QED
        BY <1>1, SumFacts
<1>2. {} \in Good
    <2>1. Of({}) = {}
        OBVIOUS
    <2>2. Over(w, {}) = 0
        BY SumFacts
    <2>3. Over(by, {}) = 0
        <3> HIDE DEF by
        <3> QED
            BY <1>1, SumFacts
    <2> QED
        BY <2>1, <2>2, <2>3
<1>3. ASSUME NEW V \in SUBSET G, NEW v \in G \ V, V \in Good PROVE V \cup {v} \in Good
    <2>1. Over(by, V \cup {v}) = by[v] + Over(by, V)
        <3> HIDE DEF by, Good
        <3>1. V \cup {v} \in SUBSET G /\ v \in V \cup {v} /\ (V \cup {v}) \ {v} = V
            OBVIOUS
        <3> QED
            BY <1>0, <3>1
    <2>2. Over(w, Of(V \cup {v})) = Over(w, Of({v})) + Over(w, Of(V))
        <3>1. Of(V \cup {v}) = Of({v}) \cup Of(V) /\ Of({v}) \cap Of(V) = {}
              /\ Of({v}) \in SUBSET S /\ Of(V) \in SUBSET S
            OBVIOUS
        <3> QED
            BY <3>1, SumUnion
    <2>3. by[v] = Over(w, Of({v}))
        <3>1. Of({v}) = {x \in S : g[x] = v}
            OBVIOUS
        <3> QED
            BY <3>1
    <2>4. Over(by, V) = Over(w, Of(V))
        BY <1>3
    <2>5. Over(by, V \cup {v}) = Over(w, Of(V \cup {v}))
        BY <2>1, <2>2, <2>3, <2>4
    <2> QED
        BY <2>5
<1>4. SUBSET G \subseteq Good
    <2> HIDE DEF Good
    <2> QED
        BY <1>2, <1>3, SetInduct
<1>5. Over(by, G) = Over(w, Of(G)) /\ Of(G) = S
    BY <1>4
<1>6. Over(by, G) = SumOver(by)
    <2> HIDE DEF by
    <2> QED
        BY <1>1, SumFacts
<1>7. Over(w, S) = SumOver(w)
    BY SumFacts
<1> QED
    BY <1>1, <1>5, <1>6, <1>7

-----------------------------------------------------------------------------
(* The rows of the ledger and their kilometres.                            *)

(* What a function reaches from a finite set is finite.                    *)
LEMMA FiniteImage ==
    ASSUME NEW S, IsFiniteSet(S), NEW f, NEW T, \A y \in T : \E x \in S : f[x] = y
    PROVE  IsFiniteSet(T)
<1> DEFINE D == {x \in S : f[x] \in T}
           g == [x \in D |-> f[x]]
<1>1. IsFiniteSet(D)
    BY FS_Subset
<1>2. g \in [D -> T] /\ \A y \in T : \E x \in D : g[x] = y
    OBVIOUS
<1>3. g \in Surjection(D, T)
    BY <1>2 DEF Surjection
<1> QED
    <2> HIDE DEF D, g
    <2> QED
        BY <1>1, <1>3, FS_Surjection

KmByPart == [p \in Part |-> Km(p)]

(* There are finitely many parts, each with its hop, its place in it, a    *)
(* length and a zone.                                                      *)
LEMMA PartFacts ==
    /\ IsFiniteSet(Part)
    /\ KmByPart \in [Part -> Int]
    /\ \A p \in Part : /\ p[1] \in Hops /\ p[2] \in 1 .. Len(HopParts[p[1]])
                       /\ p = <<p[1], p[2]>>
                       /\ Km(p) \in Nat \ {0} /\ ZoneOf(p) \in SegmentZones
                       /\ ShiftOf(p) \in Shifts
<1>1. ASSUME NEW h \in Hops
      PROVE  /\ Len(HopParts[h]) \in Nat /\ DOMAIN HopParts[h] = 1 .. Len(HopParts[h])
             /\ \A i \in 1 .. Len(HopParts[h]) :
                    HopParts[h][i] \in [zone : SegmentZones, km : Nat \ {0}]
    <2> DEFINE Like == [zone : SegmentZones, km : Nat \ {0}]
    <2>1. HopParts[h] \in Seq(Like)
        BY TripsAssumption
    <2> HIDE DEF Like
    <2>2. Len(HopParts[h]) \in Nat /\ DOMAIN HopParts[h] = 1 .. Len(HopParts[h])
          /\ \A i \in 1 .. Len(HopParts[h]) : HopParts[h][i] \in Like
        BY ONLY <2>1
    <2> QED
        BY <2>2 DEF Like
<1>2. ASSUME NEW h \in Hops PROVE IsFiniteSet(PartsOf(h))
    <2> DEFINE f == [i \in 1 .. Len(HopParts[h]) |-> <<h, i>>]
    <2>1. IsFiniteSet(1 .. Len(HopParts[h]))
        BY <1>1, FS_Interval
    <2>2. \A p \in PartsOf(h) : \E i \in 1 .. Len(HopParts[h]) : f[i] = p
        BY <1>1 DEF PartsOf
    <2> QED
        <3> HIDE DEF f
        <3> QED
            BY <2>1, <2>2, FiniteImage
<1>3. IsFiniteSet(Part)
    <2> DEFINE f == [h \in Hops |-> PartsOf(h)]
               T == {PartsOf(h) : h \in Hops}
    <2>1. \A y \in T : \E h \in Hops : f[h] = y
        OBVIOUS
    <2>2. IsFiniteSet(T)
        <3> HIDE DEF f, T
        <3> QED
            BY TripsAssumption, <2>1, FiniteImage
    <2>3. \A y \in T : IsFiniteSet(y)
        BY <1>2
    <2> QED
        BY <2>2, <2>3, FS_UNION DEF Part
<1>4. ASSUME NEW p \in Part
      PROVE  /\ p[1] \in Hops /\ p[2] \in 1 .. Len(HopParts[p[1]]) /\ p = <<p[1], p[2]>>
             /\ Km(p) \in Nat \ {0} /\ ZoneOf(p) \in SegmentZones /\ ShiftOf(p) \in Shifts
    <2>1. PICK h \in Hops : p \in PartsOf(h)
        BY DEF Part
    <2>2. PICK i \in 1 .. Len(HopParts[h]) : p = <<h, i>>
        BY <1>1, <2>1 DEF PartsOf
    <2> QED
        BY <1>1, <2>2, TripsAssumption DEF Km, ZoneOf, ShiftOf
<1>5. KmByPart \in [Part -> Int]
    BY <1>4 DEF KmByPart
<1> QED
    BY <1>3, <1>4, <1>5

(* The kilometres of some rows, as a sum over some of the parts.           *)
LEMMA KmOver ==
    ASSUME NEW S, S \subseteq Part
    PROVE  KmOf(S) = Over(KmByPart, S)
<1>1. [p \in S |-> Km(p)] = [p \in S |-> KmByPart[p]]
    BY DEF KmByPart
<1> QED
    BY <1>1 DEF KmOf, Over

(* Kilometres of rows that have nothing in common.                         *)
LEMMA KmFacts ==
    ASSUME NEW S, S \subseteq Part, NEW T, T \subseteq Part
    PROVE  /\ KmOf(S) \in Int
           /\ S \cap T = {} => KmOf(S \cup T) = KmOf(S) + KmOf(T)
           /\ KmOf({}) = 0
<1>1. KmOf(S) = Over(KmByPart, S) /\ KmOf(T) = Over(KmByPart, T) /\ KmOf({}) = Over(KmByPart, {})
      /\ KmOf(S \cup T) = Over(KmByPart, S \cup T)
    BY KmOver
<1>2. Over(KmByPart, S) \in Int /\ Over(KmByPart, {}) = 0
    BY PartFacts, SumFacts
<1>3. S \cap T = {} => Over(KmByPart, S \cup T) = Over(KmByPart, S) + Over(KmByPart, T)
    <2>1. S \in SUBSET Part /\ T \in SUBSET Part
        OBVIOUS
    <2>2. IsFiniteSet(Part) /\ KmByPart \in [Part -> Int]
        BY PartFacts
    <2>3. ASSUME S \cap T = {}
          PROVE  Over(KmByPart, S \cup T) = Over(KmByPart, S) + Over(KmByPart, T)
        BY ONLY <2>1, <2>2, <2>3, SumUnion
    <2> QED
        BY <2>3
<1> QED
    BY <1>1, <1>2, <1>3

(* However rows are grouped, the groups add up to all of them.             *)
LEMMA KmGrouped ==
    ASSUME NEW S, S \subseteq Part, NEW G, IsFiniteSet(G), NEW g \in [S -> G]
    PROVE  SumOver([v \in G |-> KmOf({p \in S : g[p] = v})]) = KmOf(S)
<1> DEFINE w == [p \in S |-> Km(p)]
           by == [v \in G |-> Over(w, {p \in S : g[p] = v})]
<1>1. w \in [S -> Int] /\ IsFiniteSet(S)
    BY PartFacts, FS_Subset
<1>2. ASSUME NEW v \in G PROVE Over(w, {p \in S : g[p] = v}) = KmOf({p \in S : g[p] = v})
    <2> DEFINE T == {p \in S : g[p] = v}
    <2>1. [p \in T |-> w[p]] = [p \in T |-> Km(p)]
        OBVIOUS
    <2> QED
        BY <2>1 DEF Over, KmOf
<1>3. [v \in G |-> KmOf({p \in S : g[p] = v})] = by
    BY <1>2
<1>4. SumOver(by) = SumOver(w)
    <2> HIDE DEF w
    <2> QED
        BY <1>1, SumGrouped
<1> QED
    BY <1>3, <1>4 DEF KmOf

(* What is billable of some rows are rows.                                 *)
LEMMA BillableIn ==
    ASSUME NEW S, S \subseteq Part
    PROVE  Billable(S) \subseteq Part /\ TotalsFor(S) \in Int
<1>1. Billable(S) \subseteq Part
    BY DEF Billable
<1> QED
    BY <1>1, KmFacts DEF TotalsFor

(* A list of trips splits its rows by the trip they are of, and has no     *)
(* trip twice.                                                             *)
LEMMA TripsAreRows ==
    ASSUME NEW S, S \subseteq Part
    PROVE  /\ IsFiniteSet(TripsIn(S))
           /\ \A t \in TripsIn(S) :
                 /\ t.parts = {p \in S : TripId(S, p) = t.id}
                 /\ t = Trip(t.id, t.parts) /\ t.km = TotalsFor(t.parts)
                 /\ \E p \in S : TripId(S, p) = t.id
           /\ \A p \in S : \E t \in TripsIn(S) : t.id = TripId(S, p)
           /\ \A t, u \in TripsIn(S) : t.id = u.id => t = u
<1> DEFINE tripId == [p \in S |-> TripId(S, p)]
           Named(id) == {p \in DOMAIN tripId : tripId[p] = id}
<1>1. TripsIn(S) = {Trip(id, Named(id)) : id \in Range(tripId)}
    BY DEF TripsIn, Grouped
<1>2. Range(tripId) = {tripId[p] : p \in S}
    BY DEF Range
<1>3. \A id : Named(id) = {p \in S : TripId(S, p) = id}
    OBVIOUS
<1> HIDE DEF Named
<1>4. \A id : /\ Trip(id, Named(id)).id = id /\ Trip(id, Named(id)).parts = Named(id)
              /\ Trip(id, Named(id)).km = TotalsFor(Named(id))
    BY DEF Trip
<1>5. ASSUME NEW t \in TripsIn(S)
      PROVE  /\ t.parts = {p \in S : TripId(S, p) = t.id}
             /\ t = Trip(t.id, t.parts) /\ t.km = TotalsFor(t.parts)
             /\ \E p \in S : TripId(S, p) = t.id
    <2>1. PICK p \in S : t = Trip(TripId(S, p), Named(TripId(S, p)))
        BY <1>1, <1>2
    <2>2. t.id = TripId(S, p) /\ t.parts = Named(TripId(S, p)) /\ t.km = TotalsFor(t.parts)
        BY <1>4, <2>1
    <2> QED
        BY <1>3, <2>1, <2>2
<1>6. IsFiniteSet(TripsIn(S))
    <2> DEFINE f == [p \in S |-> Trip(TripId(S, p), Named(TripId(S, p)))]
    <2>1. \A t \in TripsIn(S) : \E p \in S : f[p] = t
        BY <1>1, <1>2
    <2>2. IsFiniteSet(S)
        BY PartFacts, FS_Subset
    <2> HIDE DEF f
    <2> QED
        BY <2>1, <2>2, FiniteImage
<1>7. \A p \in S : \E t \in TripsIn(S) : t.id = TripId(S, p)
    BY <1>1, <1>2, <1>4
<1>8. ASSUME NEW t \in TripsIn(S), NEW u \in TripsIn(S), t.id = u.id PROVE t = u
    <2>1. t.parts = {p \in S : TripId(S, p) = t.id} /\ t = Trip(t.id, t.parts)
        BY <1>5
    <2>2. u.parts = {p \in S : TripId(S, p) = u.id} /\ u = Trip(u.id, u.parts)
        BY <1>5
    <2>3. t.parts = u.parts
        BY <1>8, <2>1, <2>2, Zenon
    <2> QED
        BY ONLY <1>8, <2>1, <2>2, <2>3, Zenon
<1> QED
    BY <1>5, <1>6, <1>7, <1>8

(* The drives of a list add up to its total, and a drive's zones to the    *)
(* drive, wherever the drives are cut.                                     *)
LEMMA TripsAddUp ==
    ASSUME NEW S, S \subseteq Part
    PROVE  /\ SumOver([t \in TripsIn(S) |-> t.km]) = TotalsFor(S)
           /\ \A t \in TripsIn(S) : SumOver(ZoneBreakdown(t)) = t.km
<1> DEFINE B == Billable(S)
           G == TripsIn(S)
           g == [p \in B |-> CHOOSE t \in G : t.id = TripId(S, p)]
<1>1. B \subseteq S /\ B \subseteq Part
    BY DEF Billable
<1>2. \A p \in B : g[p] \in G /\ g[p].id = TripId(S, p)
    BY <1>1, TripsAreRows
<1>3. ASSUME NEW t \in G
      PROVE  t.km = KmOf({p \in B : g[p] = t}) /\ {p \in B : g[p] = t} = Billable(t.parts)
    <2>1. {p \in B : g[p] = t} = {p \in B : TripId(S, p) = t.id}
        BY <1>2, TripsAreRows
    <2>2. {p \in B : TripId(S, p) = t.id} = Billable({p \in S : TripId(S, p) = t.id})
        BY DEF Billable
    <2>3. t.parts = {p \in S : TripId(S, p) = t.id} /\ t.km = TotalsFor(t.parts)
        BY TripsAreRows
    <2> QED
        BY <2>1, <2>2, <2>3 DEF TotalsFor
<1>4. SumOver([t \in G |-> KmOf({p \in B : g[p] = t})]) = KmOf(B)
    <2>1. g \in [B -> G] /\ IsFiniteSet(G)
        BY <1>2, TripsAreRows
    <2> HIDE DEF g, G, B
    <2> QED
        BY <1>1, <2>1, KmGrouped
<1>5. [t \in G |-> t.km] = [t \in G |-> KmOf({p \in B : g[p] = t})]
    BY <1>3
<1>6. ASSUME NEW t \in G PROVE SumOver(ZoneBreakdown(t)) = t.km
    <2> DEFINE T == Billable(t.parts)
               Z == {ZoneOf(p) : p \in T}
               z == [p \in T |-> ZoneOf(p)]
    <2>1. T \subseteq Part /\ IsFiniteSet(T)
        BY <1>1, <1>3, PartFacts, FS_Subset
    <2>2. z \in [T -> Z] /\ \A v \in Z : \E p \in T : z[p] = v
        OBVIOUS
    <2>3. IsFiniteSet(Z)
        <3> HIDE DEF T, Z, z
        <3> QED
            BY <2>1, <2>2, FiniteImage
    <2>4. SumOver([v \in Z |-> KmOf({p \in T : z[p] = v})]) = KmOf(T)
        <3> HIDE DEF T, Z, z
        <3> QED
            BY <2>1, <2>2, <2>3, KmGrouped
    <2>5. ZoneBreakdown(t) = [v \in Z |-> KmOf({p \in T : z[p] = v})]
        <3>1. \A v \in Z : {p \in T : z[p] = v} = {p \in T : ZoneOf(p) = v}
            OBVIOUS
        <3> QED
            BY <3>1 DEF ZoneBreakdown
    <2>6. t.km = KmOf(T)
        BY <1>3
    <2> QED
        BY <2>4, <2>5, <2>6
<1> QED
    BY <1>4, <1>5, <1>6 DEF TotalsFor

-----------------------------------------------------------------------------
(* The times of the parts.                                                 *)

(* A quotient, rounded down.                                               *)
LEMMA DivFacts ==
    ASSUME NEW a \in Nat, NEW n \in Nat \ {0}
    PROVE  /\ a \div n \in Nat
           /\ n * (a \div n) <= a /\ a < n * (a \div n) + n
OBVIOUS

(* A share of a duration, rounded down.                                    *)
LEMMA Share ==
    ASSUME NEW n \in Nat \ {0}, NEW d \in Nat, NEW k \in Nat, NEW m \in Nat, k <= m, m <= n
    PROVE  /\ (k * d) \div n \in Nat
           /\ (k * d) \div n <= (m * d) \div n
           /\ (m * d) \div n <= d
           /\ m = n => (m * d) \div n = d
           /\ (m < n /\ d > 0) => (m * d) \div n < d
<1> DEFINE a == (k * d) \div n
           b == (m * d) \div n
<1>1. k * d \in Nat /\ m * d \in Nat /\ k * d <= m * d /\ m * d <= n * d
    <2>1. (m - k) * d >= 0 /\ (n - m) * d >= 0
        OBVIOUS
    <2> QED
        BY <2>1
<1>2. /\ a \in Nat /\ n * a <= k * d /\ k * d < n * a + n
      /\ b \in Nat /\ n * b <= m * d /\ m * d < n * b + n
    BY <1>1, DivFacts
<1>3. ASSUME NEW x \in Nat, NEW y \in Nat, x < y PROVE n * x + n <= n * y
    <2>1. n * (y - x - 1) >= 0
        BY <1>3
    <2> QED
        BY <2>1
<1> HIDE DEF a, b
<1>4. a <= b
    <2> SUFFICES ASSUME b < a PROVE FALSE
        BY <1>2
    <2>1. n * b + n <= n * a
        BY <1>2, <1>3
    <2>2. n * a \in Nat /\ n * b \in Nat
        BY <1>2
    <2> QED
        BY <1>1, <1>2, <2>1, <2>2
<1>5. b <= d
    <2> SUFFICES ASSUME d < b PROVE FALSE
        BY <1>2
    <2>1. n * d + n <= n * b
        BY <1>2, <1>3
    <2>2. n * d \in Nat /\ n * b \in Nat
        BY <1>2
    <2> QED
        BY <1>1, <1>2, <2>1, <2>2
<1>6. ASSUME m = n PROVE b = d
    <2> SUFFICES ASSUME b < d PROVE FALSE
        BY <1>2, <1>5
    <2>1. n * b + n <= n * d
        BY <1>2, <1>3
    <2>2. n * d \in Nat /\ n * b \in Nat
        BY <1>2
    <2> QED
        BY <1>1, <1>2, <1>6, <2>1, <2>2
<1>7. ASSUME m < n, d > 0 PROVE b < d
    <2> SUFFICES ASSUME b = d PROVE FALSE
        BY <1>2, <1>5
    <2>1. m * d < n * d
        <3>1. (n - m) * d > 0
            BY <1>7
        <3> QED
            BY <3>1
    <2> QED
        BY <1>1, <1>2, <2>1
<1> QED
    BY <1>2, <1>4, <1>5, <1>6, <1>7 DEF a, b

(* Every row has a length.                                                 *)
LEMMA KmPositive ==
    ASSUME NEW S, S \subseteq Part
    PROVE  KmOf(S) \in Nat /\ (S # {} => KmOf(S) > 0)
<1> DEFINE Good == {T \in SUBSET S : KmOf(T) \in Nat /\ (T # {} => KmOf(T) > 0)}
<1>1. {} \in Good
    BY KmFacts
<1>2. ASSUME NEW T \in SUBSET S, NEW x \in S \ T, T \in Good PROVE T \cup {x} \in Good
    <2>1. KmOf({x}) = Km(x) + KmOf({})
        <3>1. IsFiniteSet(Part) /\ KmByPart \in [Part -> Int] /\ x \in {x} /\ {x} \in SUBSET Part
              /\ {x} \ {x} = {} /\ KmByPart[x] = Km(x)
            BY PartFacts DEF KmByPart
        <3>2. Over(KmByPart, {x}) = KmByPart[x] + Over(KmByPart, {x} \ {x})
            BY ONLY <3>1, SumFacts
        <3>3. KmOf({x}) = Over(KmByPart, {x}) /\ KmOf({}) = Over(KmByPart, {})
            BY <3>1, KmOver
        <3> QED
            BY <3>1, <3>2, <3>3
    <2>2. KmOf({}) = 0 /\ KmOf(T \cup {x}) = KmOf(T) + KmOf({x})
        BY KmFacts
    <2>3. Km(x) \in Nat \ {0}
        BY PartFacts
    <2> QED
        BY <1>2, <2>1, <2>2, <2>3
<1>3. SUBSET S \subseteq Good
    <2>1. IsFiniteSet(S)
        BY PartFacts, FS_Subset
    <2> HIDE DEF Good
    <2> QED
        BY <1>1, <1>2, <2>1, SetInduct
<1> QED
    BY <1>3

(* Fewer rows are fewer kilometres.                                        *)
LEMMA KmMonotone ==
    ASSUME NEW S, S \subseteq Part, NEW T, T \subseteq S
    PROVE  KmOf(T) <= KmOf(S) /\ (T # S => KmOf(T) < KmOf(S))
<1>1. S = T \cup (S \ T) /\ T \cap (S \ T) = {} /\ T \subseteq Part /\ (S \ T) \subseteq Part
    OBVIOUS
<1>2. KmOf(S) = KmOf(T) + KmOf(S \ T)
    BY <1>1, KmFacts
<1>3. KmOf(T) \in Nat /\ KmOf(S \ T) \in Nat /\ (S \ T # {} => KmOf(S \ T) > 0)
    BY <1>1, KmPositive
<1> QED
    BY <1>2, <1>3

(* The parts of a hop meet end to end, from the first fix to the second.   *)
LEMMA PartTimes ==
    ASSUME NEW p \in Part
    PROVE  /\ StartedAt[p] \in Nat /\ EndedAt[p] \in Nat
           /\ HopStart[p[1]] <= StartedAt[p] /\ StartedAt[p] < HopEnd[p[1]]
           /\ StartedAt[p] <= EndedAt[p] /\ EndedAt[p] <= HopEnd[p[1]]
           /\ \A q \in Part : q[1] = p[1] /\ q[2] < p[2] => EndedAt[q] <= StartedAt[p]
<1> DEFINE h == p[1]
           d == HopEnd[h] - HopStart[h]
           n == KmOf(PartsOf(h))
           Before(r) == {q \in PartsOf(h) : q[2] < r[2]}
           UpTo(r) == {q \in PartsOf(h) : q[2] <= r[2]}
<1>1. h \in Hops /\ HopStart[h] \in Nat /\ HopEnd[h] \in Nat /\ d \in Nat \ {0}
    BY PartFacts, TripsAssumption
<1>2. PartsOf(h) \subseteq Part /\ \A r \in Part : r[1] = h => r \in PartsOf(h)
    <2>1. PartsOf(h) \subseteq Part
        BY <1>1 DEF Part
    <2>2. ASSUME NEW r \in Part, r[1] = h PROVE r \in PartsOf(h)
        <3>1. PICK g \in Hops : r \in PartsOf(g)
            BY DEF Part
        <3>2. g = h
            BY <2>2, <3>1 DEF PartsOf
        <3> QED
            BY <3>1, <3>2
    <2> QED
        BY <2>1, <2>2
<1>3. \A r \in PartsOf(h) : r[2] \in Nat /\ r[1] = h
    <2>1. \A r \in PartsOf(h) : r[2] \in Nat
        BY <1>2, PartFacts
    <2> QED
        BY <2>1 DEF PartsOf
<1>4. ASSUME NEW r \in PartsOf(h)
      PROVE  /\ n \in Nat \ {0}
             /\ KmOf(Before(r)) \in Nat /\ KmOf(UpTo(r)) \in Nat
             /\ KmOf(Before(r)) <= KmOf(UpTo(r)) /\ KmOf(Before(r)) < n /\ KmOf(UpTo(r)) <= n
             /\ \A q \in PartsOf(h) : q[2] < r[2] => KmOf(UpTo(q)) <= KmOf(Before(r))
    <2>1. /\ Before(r) \subseteq UpTo(r) /\ UpTo(r) \subseteq PartsOf(h) /\ PartsOf(h) # {}
          /\ Before(r) \subseteq PartsOf(h) /\ Before(r) # PartsOf(h)
        BY <1>3
    <2>2. \A q \in PartsOf(h) : q[2] < r[2] => UpTo(q) \subseteq Before(r)
        BY <1>3
    <2> HIDE DEF Before, UpTo, h
    <2>3. n \in Nat \ {0} /\ KmOf(Before(r)) \in Nat /\ KmOf(UpTo(r)) \in Nat
        BY <1>2, <2>1, KmPositive
    <2>4. KmOf(Before(r)) <= KmOf(UpTo(r)) /\ KmOf(Before(r)) < n /\ KmOf(UpTo(r)) <= n
        BY <1>2, <2>1, KmMonotone
    <2>5. Before(r) \subseteq Part
        BY <1>2, <2>1
    <2>6. \A q \in PartsOf(h) : q[2] < r[2] => KmOf(UpTo(q)) <= KmOf(Before(r))
        BY <2>2, <2>5, KmMonotone
    <2> QED
        BY <2>3, <2>4, <2>6
<1>5. \A r \in PartsOf(h) :
         /\ StartedAt[r] = HopStart[h] + (KmOf(Before(r)) * d) \div n
         /\ EndedAt[r] = HopStart[h] + (KmOf(UpTo(r)) * d) \div n
    BY <1>2, <1>3 DEF StartedAt, EndedAt, AfterKm
<1>6. p \in PartsOf(h)
    BY <1>2
<1> HIDE DEF Before, UpTo, n
<1> DEFINE k == KmOf(Before(p))
           m == KmOf(UpTo(p))
<1>7. /\ (k * d) \div n \in Nat /\ (k * d) \div n < d
      /\ (k * d) \div n <= (m * d) \div n
      /\ (m * d) \div n <= d /\ (m * d) \div n \in Nat
    <2>1. n \in Nat \ {0} /\ k \in Nat /\ m \in Nat /\ k <= m /\ m <= n /\ k < n /\ k <= k
          /\ m <= m /\ d \in Nat /\ d > 0
        BY <1>1, <1>4, <1>6
    <2> HIDE DEF d, k, m
    <2>2. (k * d) \div n \in Nat /\ (k * d) \div n < d
        BY ONLY <2>1, Share
    <2>3. (k * d) \div n <= (m * d) \div n /\ (m * d) \div n <= d
        BY ONLY <2>1, Share
    <2>4. (m * d) \div n \in Nat
        BY ONLY <2>1, Share
    <2> QED
        BY <2>2, <2>3, <2>4
<1>8. ASSUME NEW q \in PartsOf(h), q[2] < p[2]
      PROVE  /\ (KmOf(UpTo(q)) * d) \div n <= (k * d) \div n
             /\ (KmOf(UpTo(q)) * d) \div n \in Nat
    <2> DEFINE j == KmOf(UpTo(q))
    <2>1. n \in Nat \ {0} /\ k \in Nat /\ j \in Nat /\ j <= k /\ k <= n /\ d \in Nat
        BY <1>1, <1>4, <1>6, <1>8
    <2> HIDE DEF d, k, j
    <2>2. (j * d) \div n <= (k * d) \div n /\ (j * d) \div n \in Nat
        BY ONLY <2>1, Share
    <2> QED
        BY <2>2 DEF j
<1>9. \A q \in Part : q[1] = p[1] /\ q[2] < p[2] => EndedAt[q] <= StartedAt[p]
    BY <1>1, <1>2, <1>5, <1>6, <1>7, <1>8
<1>10. /\ StartedAt[p] \in Nat /\ EndedAt[p] \in Nat
       /\ HopStart[h] <= StartedAt[p] /\ StartedAt[p] < HopEnd[h]
       /\ StartedAt[p] <= EndedAt[p] /\ EndedAt[p] <= HopEnd[h]
    BY <1>1, <1>5, <1>6, <1>7
<1> QED
    BY <1>9, <1>10

-----------------------------------------------------------------------------
(* The screens.                                                            *)

LedgerOK == ledger \in [Hops -> SegmentStates \cup {"NONE"}]

(* The ledger keeps its type: an upload gives a hop a state, and a reader  *)
(* writes nothing.                                                         *)
LEMMA LedgerStep ==
    /\ TripsInit => LedgerOK
    /\ LedgerOK /\ [TripsNext]_tripsVars => LedgerOK'
<1>1. TripsInit => LedgerOK
    BY DEF TripsInit, LedgerOK
<1>2. ASSUME LedgerOK, [TripsNext]_tripsVars PROVE LedgerOK'
    <2>1. CASE \E h \in Hops : UploadHop(h)
        BY <1>2, <2>1 DEF UploadHop, LedgerOK
    <2>2. CASE OpenFeed \/ ReadPage \/ CloseFeed \/ UNCHANGED tripsVars
        BY <1>2, <2>2 DEF OpenFeed, ReadPage, CloseFeed, tripsVars, LedgerOK
    <2> QED
        BY <1>2, <2>1, <2>2 DEF TripsNext
<1> QED
    BY <1>1, <1>2

(* There are finitely many days, campaigns and drivers, and each part is   *)
(* of one of each.                                                         *)
LEMMA Finite ==
    /\ IsFiniteSet(Days) /\ IsFiniteSet(CampaignsDriven) /\ IsFiniteSet(Drivers)
    /\ \A p \in Part : /\ DayOf(p) \in Days /\ DayOf(p) \in Int
                       /\ CampaignOf(p) \in CampaignsDriven /\ DriverOf(p) \in Drivers
<1> DEFINE f == [p \in Part |-> DayOf(p)]
           c == [s \in Shifts |-> ShiftCampaign[s]]
           d == [s \in Shifts |-> ShiftDriver[s]]
<1>1. /\ \A y \in Days : \E x \in Part : f[x] = y
      /\ \A y \in CampaignsDriven : \E x \in Shifts : c[x] = y
      /\ \A y \in Drivers : \E x \in Shifts : d[x] = y
    BY DEF Days, CampaignsDriven, Drivers
<1>2. IsFiniteSet(Part) /\ IsFiniteSet(Shifts)
    BY PartFacts, TripsAssumption
<1>3. IsFiniteSet(Days) /\ IsFiniteSet(CampaignsDriven) /\ IsFiniteSet(Drivers)
    <2> HIDE DEF f, c, d
    <2> QED
        BY <1>1, <1>2, FiniteImage
<1>4. ASSUME NEW p \in Part
      PROVE  /\ DayOf(p) \in Days /\ DayOf(p) \in Int
             /\ CampaignOf(p) \in CampaignsDriven /\ DriverOf(p) \in Drivers
    <2>1. ShiftOf(p) \in Shifts
        BY PartFacts
    <2>2. DayOf(p) \in Int
        <3>1. StartedAt[p] \in Nat /\ DayLength \in Nat \ {0}
            BY PartTimes, TripsAssumption
        <3> QED
            BY <3>1, DivFacts DEF DayOf
    <2> QED
        BY <2>1, <2>2 DEF Days, CampaignsDriven, Drivers, CampaignOf, DriverOf
<1> QED
    BY <1>3, <1>4

(* Billable rows, by whatever they are grouped.                            *)
LEMMA TotalsGrouped ==
    ASSUME NEW S, S \subseteq Part, NEW G, IsFiniteSet(G), NEW g \in [Part -> G]
    PROVE  /\ SumOver([v \in G |-> KmOf({p \in Billable(S) : g[p] = v})]) = TotalsFor(S)
           /\ SumOver([v \in {g[p] : p \in Billable(S)} |->
                          KmOf({p \in Billable(S) : g[p] = v})]) = TotalsFor(S)
<1> DEFINE B == Billable(S)
           f == [p \in B |-> g[p]]
           H == {g[p] : p \in Billable(S)}
<1>1. B \subseteq Part /\ f \in [B -> G] /\ H \subseteq G /\ f \in [B -> H]
      /\ \A v : {p \in B : f[p] = v} = {p \in B : g[p] = v}
    BY DEF Billable
<1>2. IsFiniteSet(H)
    <2> HIDE DEF H
    <2> QED
        BY <1>1, FS_Subset
<1>3. SumOver([v \in G |-> KmOf({p \in B : f[p] = v})]) = KmOf(B)
    <2> HIDE DEF B, f
    <2> QED
        BY <1>1, KmGrouped
<1>4. SumOver([v \in H |-> KmOf({p \in B : f[p] = v})]) = KmOf(B)
    <2> HIDE DEF B, f, H
    <2> QED
        BY <1>1, <1>2, KmGrouped
<1> HIDE DEF f
<1>5. /\ [v \in G |-> KmOf({p \in B : f[p] = v})] = [v \in G |-> KmOf({p \in B : g[p] = v})]
      /\ [v \in H |-> KmOf({p \in B : f[p] = v})] = [v \in H |-> KmOf({p \in B : g[p] = v})]
    BY <1>1
<1> QED
    BY <1>3, <1>4, <1>5 DEF TotalsFor

(* Rows of the ledger, of a driver and of a campaign are parts.            *)
LEMMA RowsIn ==
    /\ Rows \subseteq Part
    /\ \A d : OfDriver(d) \subseteq Part
    /\ \A c : OfCampaign(c) \subseteq Part
BY DEF Rows, OfDriver, OfCampaign

(* The driver's screens.                                                   *)
LEMMA DayAdds ==
    ASSUME NEW d, NEW day
    PROVE  /\ HistoryKm(d, day) = TotalsFor(OnDay(OfDriver(d), day))
           /\ OnDay(OfDriver(d), day) \subseteq Part
<1>1. {p \in Billable(OfDriver(d)) : DayOf(p) = day} = Billable(OnDay(OfDriver(d), day))
    BY DEF Billable, OnDay
<1>2. OnDay(OfDriver(d), day) \subseteq Part
    BY RowsIn DEF OnDay
<1> QED
    BY <1>1, <1>2 DEF HistoryKm, TotalsFor

(* The wallet is the days of the history, the campaigns and the trips of   *)
(* the feed.                                                               *)
LEMMA WalletAdds ==
    ASSUME NEW d \in Drivers
    PROVE  /\ WalletKm(d) = SumOver([day \in Days |-> HistoryKm(d, day)])
           /\ WalletKm(d) = SumOver([c \in CampaignsDriven |-> AchievedKm(d, c)])
           /\ WalletKm(d) = SumOver([t \in TripsIn(OfDriver(d)) |-> t.km])
<1> DEFINE S == OfDriver(d)
           day == [p \in Part |-> DayOf(p)]
           camp == [p \in Part |-> CampaignOf(p)]
<1>1. S \subseteq Part /\ day \in [Part -> Days] /\ camp \in [Part -> CampaignsDriven]
    BY RowsIn, Finite
<1>2. /\ SumOver([v \in Days |-> KmOf({p \in Billable(S) : day[p] = v})]) = TotalsFor(S)
      /\ SumOver([v \in CampaignsDriven |-> KmOf({p \in Billable(S) : camp[p] = v})])
            = TotalsFor(S)
    <2> HIDE DEF S, day, camp
    <2> QED
        BY <1>1, Finite, TotalsGrouped
<1>3. \A v : /\ {p \in Billable(S) : day[p] = v} = {p \in Billable(S) : DayOf(p) = v}
             /\ {p \in Billable(S) : camp[p] = v} = Billable(S \cap OfCampaign(v))
    BY <1>1 DEF Billable, OfCampaign, OfDriver
<1>4. [v \in Days |-> KmOf({p \in Billable(S) : day[p] = v})]
          = [v \in Days |-> HistoryKm(d, v)]
    <2> HIDE DEF day
    <2> QED
        BY <1>3 DEF HistoryKm
<1>5. [v \in CampaignsDriven |-> KmOf({p \in Billable(S) : camp[p] = v})]
          = [v \in CampaignsDriven |-> AchievedKm(d, v)]
    <2> HIDE DEF camp
    <2> QED
        BY <1>3 DEF AchievedKm, TotalsFor
<1>6. SumOver([t \in TripsIn(S) |-> t.km]) = TotalsFor(S)
    BY <1>1, TripsAddUp
<1> QED
    BY <1>2, <1>4, <1>5, <1>6 DEF WalletKm

(* A billed hop inside one zone.                                           *)
LEMMA BandsAgree ==
    ASSUME NEW h \in Hops, Len(HopParts[h]) = 1
    PROVE  MapBand(h) = BarBand(h)
<1> DEFINE p == <<h, 1>>
<1>1. PartsOf(h) = {p} /\ p \in Part
    <2>1. DOMAIN HopParts[h] = 1 .. Len(HopParts[h])
        <3>1. HopParts[h] \in Seq([zone : SegmentZones, km : Nat \ {0}])
            BY TripsAssumption
        <3> HIDE DEF p
        <3> QED
            BY <3>1
    <2>2. PartsOf(h) = {p}
        BY <2>1 DEF PartsOf
    <2> QED
        BY <2>2 DEF Part
<1>2. StartedAt[p] \in Nat /\ EndedAt[p] \in Nat
    BY <1>1, PartTimes
<1> HIDE DEF p
<1>3. {EndedAt[q] : q \in {p}} = {EndedAt[p]} /\ {StartedAt[q] : q \in {p}} = {StartedAt[p]}
    OBVIOUS
<1>4. Max({EndedAt[p]}) = EndedAt[p] /\ Min({StartedAt[p]}) = StartedAt[p]
    BY <1>2 DEF Max, Min
<1> QED
    BY <1>1, <1>3, <1>4 DEF MapBand, BarBand, p

(* The campaign's screens.                                                 *)
LEMMA CampaignAdds ==
    ASSUME NEW c \in CampaignsDriven
    PROVE  /\ CampaignKm(c) = SumOver([d \in Drivers |-> RosterKm(c, d)])
           /\ CampaignKm(c) = SumOver([t \in TripsIn(OfCampaign(c)) |-> t.km])
<1> DEFINE S == OfCampaign(c)
           driver == [p \in Part |-> DriverOf(p)]
<1>1. S \subseteq Part /\ driver \in [Part -> Drivers]
    BY RowsIn, Finite
<1>2. SumOver([v \in Drivers |-> KmOf({p \in Billable(S) : driver[p] = v})]) = TotalsFor(S)
    <2> HIDE DEF S, driver
    <2> QED
        BY <1>1, Finite, TotalsGrouped
<1>3. \A v : {p \in Billable(S) : driver[p] = v} = Billable({p \in S : DriverOf(p) = v})
    BY <1>1 DEF Billable
<1>4. [v \in Drivers |-> KmOf({p \in Billable(S) : driver[p] = v})]
          = [v \in Drivers |-> RosterKm(c, v)]
    <2> HIDE DEF driver
    <2> QED
        BY <1>3 DEF RosterKm
<1>5. SumOver([t \in TripsIn(S) |-> t.km]) = TotalsFor(S)
    BY <1>1, TripsAddUp
<1> QED
    BY <1>2, <1>4, <1>5 DEF CampaignKm

(* All the distance of some rows is billable, refused or held.             *)
LEMMA StatesAdd ==
    ASSUME LedgerOK, NEW S, S \subseteq Rows
    PROVE  KmOf(S) = TotalsFor(S) + KmOf({p \in S : StateOfPart(p) = "NON_BILLABLE"})
                                  + KmOf({p \in S : StateOfPart(p) = "PENDING_REVIEW"})
<1> DEFINE B == Billable(S)
           N == {p \in S : StateOfPart(p) = "NON_BILLABLE"}
           P == {p \in S : StateOfPart(p) = "PENDING_REVIEW"}
<1>1. \A p \in S : StateOfPart(p) \in {"BILLABLE", "NON_BILLABLE", "PENDING_REVIEW"}
    BY PartFacts DEF Rows, LedgerOK, StateOfPart, SegmentStates
<1>2. /\ S = (B \cup N) \cup P /\ (B \cup N) \cap P = {} /\ B \cap N = {}
      /\ B \subseteq Part /\ N \subseteq Part /\ P \subseteq Part /\ (B \cup N) \subseteq Part
    BY <1>1, RowsIn DEF Billable
<1>3. KmOf(S) = KmOf(B \cup N) + KmOf(P) /\ KmOf(B \cup N) = KmOf(B) + KmOf(N)
    <2> HIDE DEF B, N, P
    <2> QED
        BY <1>2, KmFacts
<1> QED
    BY <1>3 DEF TotalsFor

(* The panels of a period, and the period before it.                       *)
LEMMA PeriodAdds ==
    ASSUME LedgerOK, NEW c \in CampaignsDriven, NEW from \in Int, NEW to \in Int, from <= to,
           NEW S, S = InRange(OfCampaign(c), from, to),
           NEW P, P = InRange(OfCampaign(c), PrecedingRange(from, to)[1],
                              PrecedingRange(from, to)[2]),
           NEW rows, rows = InRange(OfCampaign(c), PrecedingRange(from, to)[1], to)
    PROVE  /\ ZonesKm(KmSummary(S)) = SumOver(DailyKm(OfCampaign(c), from, to))
           /\ ZonesKm(KmSummary(S)) = SumOver(VehicleKm(S))
           /\ KmSummary(S).total = ZonesKm(KmSummary(S)) + KmSummary(S).rejected
                                                         + KmSummary(S).pending
           /\ P \cap S = {}
           /\ TotalsFor(P) + TotalsFor(S) = TotalsFor(rows)
<1> DEFINE zone == [p \in Part |-> ZoneOf(p)]
           vehicle == [p \in Part |-> VehicleOf(p)]
           V == {VehicleOf(p) : p \in Part}
<1>1. /\ S \subseteq Rows /\ S \subseteq Part /\ P \subseteq Part
      /\ zone \in [Part -> SegmentZones] /\ vehicle \in [Part -> V]
    BY RowsIn, PartFacts DEF InRange, OfCampaign
<1>2. IsFiniteSet(SegmentZones) /\ IsFiniteSet(V)
    <2>1. IsFiniteSet(Part) /\ \A v \in V : \E p \in Part : vehicle[p] = v
        BY PartFacts
    <2>2. IsFiniteSet(V)
        <3> HIDE DEF V, vehicle
        <3> QED
            BY <2>1, FiniteImage
    <2>3. IsFiniteSet(SegmentZones)
        <3>1. IsFiniteSet(({"PRIME"} \cup {"SECONDARY"}) \cup {"NETWORK"})
            BY FS_Singleton, FS_Union
        <3>2. SegmentZones = ({"PRIME"} \cup {"SECONDARY"}) \cup {"NETWORK"}
            BY DEF SegmentZones
        <3> QED
            BY <3>1, <3>2
    <2> QED
        BY <2>2, <2>3
<1>3. /\ SumOver([v \in SegmentZones |-> KmOf({p \in Billable(S) : zone[p] = v})]) = TotalsFor(S)
      /\ SumOver([v \in {vehicle[p] : p \in Billable(S)} |->
                     KmOf({p \in Billable(S) : vehicle[p] = v})]) = TotalsFor(S)
    <2> HIDE DEF zone, vehicle, V
    <2>1. SumOver([v \in SegmentZones |-> KmOf({p \in Billable(S) : zone[p] = v})])
              = TotalsFor(S)
        <3> DEFINE Z == SegmentZones
        <3>1. zone \in [Part -> Z] /\ IsFiniteSet(Z) /\ S \subseteq Part
            BY <1>1, <1>2
        <3> HIDE DEF Z
        <3>2. SumOver([v \in Z |-> KmOf({p \in Billable(S) : zone[p] = v})]) = TotalsFor(S)
            BY ONLY <3>1, TotalsGrouped
        <3> QED
            BY <3>2 DEF Z
    <2>2. SumOver([v \in {vehicle[p] : p \in Billable(S)} |->
                      KmOf({p \in Billable(S) : vehicle[p] = v})]) = TotalsFor(S)
        BY <1>1, <1>2, TotalsGrouped
    <2> QED
        BY <2>1, <2>2
<1>0. Billable(S) \subseteq Part
    BY <1>1, BillableIn
<1>4. ZonesKm(KmSummary(S)) = TotalsFor(S)
    <2>1. \A v : {p \in Billable(S) : zone[p] = v} = {p \in Billable(S) : ZoneOf(p) = v}
        BY <1>0
    <2>2. [v \in SegmentZones |-> KmOf({p \in Billable(S) : zone[p] = v})] = KmSummary(S).zones
        <3> HIDE DEF zone
        <3> QED
            BY <2>1 DEF KmSummary
    <2> QED
        BY <1>3, <2>2 DEF ZonesKm
<1>5. SumOver(VehicleKm(S)) = TotalsFor(S)
    <2>1. /\ \A v : {p \in Billable(S) : vehicle[p] = v} = {p \in Billable(S) : VehicleOf(p) = v}
          /\ {vehicle[p] : p \in Billable(S)} = {VehicleOf(p) : p \in Billable(S)}
        BY <1>0
    <2>2. [v \in {vehicle[p] : p \in Billable(S)} |->
              KmOf({p \in Billable(S) : vehicle[p] = v})] = VehicleKm(S)
        <3> HIDE DEF vehicle
        <3> QED
            BY <2>1 DEF VehicleKm
    <2> QED
        BY <1>3, <2>2
<1>6. SumOver(DailyKm(OfCampaign(c), from, to)) = TotalsFor(S)
    <2> DEFINE f == [p \in Billable(S) |-> DayOf(p)]
               G == from .. to
    <2>1. f \in [Billable(S) -> G]
        <3>1. \A p \in Billable(S) : p \in S /\ DayOf(p) \in Int
            BY <1>1, Finite DEF Billable
        <3> QED
            BY <3>1 DEF InRange
    <2>2. IsFiniteSet(G)
        BY FS_Interval
    <2>3. SumOver([v \in G |-> KmOf({p \in Billable(S) : f[p] = v})]) = KmOf(Billable(S))
        <3> HIDE DEF f, G
        <3> QED
            BY <1>0, <2>1, <2>2, KmGrouped
    <2>4. \A v \in G : {p \in Billable(S) : f[p] = v} = Billable(OnDay(OfCampaign(c), v))
        BY DEF Billable, OnDay, InRange
    <2>5. [v \in G |-> KmOf({p \in Billable(S) : f[p] = v})] = DailyKm(OfCampaign(c), from, to)
        <3> HIDE DEF f
        <3> QED
            BY <2>4 DEF DailyKm, TotalsFor
    <2> QED
        BY <2>3, <2>5 DEF TotalsFor
<1>7. KmSummary(S).total = ZonesKm(KmSummary(S)) + KmSummary(S).rejected + KmSummary(S).pending
    BY <1>1, <1>4, StatesAdd DEF KmSummary
<1>8. /\ PrecedingRange(from, to)[1] = from - 1 - (to - from)
      /\ PrecedingRange(from, to)[2] = from - 1
    BY DEF PrecedingRange
<1>9. \A p \in OfCampaign(c) : DayOf(p) \in Int
    BY RowsIn, Finite
<1>10. P \cap S = {} /\ rows = P \cup S
    BY <1>8, <1>9 DEF InRange
<1>11. TotalsFor(P) + TotalsFor(S) = TotalsFor(rows)
    <2>1. /\ Billable(rows) = Billable(P) \cup Billable(S) /\ Billable(P) \cap Billable(S) = {}
          /\ Billable(P) \subseteq Part
        BY <1>1, <1>10 DEF Billable
    <2> QED
        BY <1>0, <2>1, KmFacts DEF TotalsFor
<1> QED
    BY <1>4, <1>5, <1>6, <1>7, <1>10, <1>11

(* Every screen adds up to the others, whatever the ledger holds: the      *)
(* wallet, the day and the history of a driver, the panels of a campaign,  *)
(* the tables of a report and the bands of a hop inside one zone.          *)
THEOREM LedgerAddsUp == TripsSpec => []ScreensAddUp
<1>1. LedgerOK => ScreensAddUp
    <2> SUFFICES ASSUME LedgerOK PROVE ScreensAddUp
        OBVIOUS
    <2>1. ASSUME NEW d \in Drivers, NEW day \in Days
          PROVE  /\ HistoryKm(d, day) = TotalsFor(OnDay(OfDriver(d), day))
                 /\ HistoryKm(d, day)
                       = SumOver([t \in TripsIn(OnDay(OfDriver(d), day)) |-> t.km])
                 /\ \A t \in TripsIn(OnDay(OfDriver(d), day)) : SumOver(ZoneBreakdown(t)) = t.km
        BY DayAdds, TripsAddUp
    <2>2. ASSUME NEW d \in Drivers
          PROVE  /\ WalletKm(d) = SumOver([day \in Days |-> HistoryKm(d, day)])
                 /\ WalletKm(d) = SumOver([c \in CampaignsDriven |-> AchievedKm(d, c)])
                 /\ WalletKm(d) = SumOver([t \in TripsIn(OfDriver(d)) |-> t.km])
        BY WalletAdds
    <2>3. ASSUME NEW h \in Hops, ledger[h] = "BILLABLE" /\ Len(HopParts[h]) = 1
          PROVE  MapBand(h) = BarBand(h)
        BY <2>3, BandsAgree
    <2>4. ASSUME NEW c \in CampaignsDriven
          PROVE  /\ CampaignKm(c) = SumOver([d \in Drivers |-> RosterKm(c, d)])
                 /\ CampaignKm(c) = SumOver([t \in TripsIn(OfCampaign(c)) |-> t.km])
        BY CampaignAdds
    <2>5. ASSUME NEW c \in CampaignsDriven, NEW from \in Days, NEW to \in Days, from <= to
          PROVE  LET S == InRange(OfCampaign(c), from, to)
                     P == InRange(OfCampaign(c), PrecedingRange(from, to)[1],
                                  PrecedingRange(from, to)[2])
                 IN  /\ ZonesKm(KmSummary(S)) = SumOver(DailyKm(OfCampaign(c), from, to))
                     /\ ZonesKm(KmSummary(S)) = SumOver(VehicleKm(S))
                     /\ KmSummary(S).total = ZonesKm(KmSummary(S)) + KmSummary(S).rejected
                                                                   + KmSummary(S).pending
                     /\ P \cap S = {}
                     /\ TotalsFor(P) + TotalsFor(S)
                           = TotalsFor(InRange(OfCampaign(c), PrecedingRange(from, to)[1], to))
        <3>1. from \in Int /\ to \in Int
            BY Finite DEF Days
        <3> QED
            BY <2>5, <3>1, PeriodAdds
    <2> QED
        BY <2>1, <2>2, <2>3, <2>4, <2>5 DEF ScreensAddUp
<1> QED
    BY <1>1, LedgerStep, PTL DEF TripsSpec

-----------------------------------------------------------------------------
(* The rows of a shift, one after the other.                               *)

(* A part is the number of its hop and its place in it.                    *)
LEMMA PartIndex ==
    ASSUME NEW p \in Part
    PROVE  /\ p[1] \in Hops /\ p[1] \in Nat /\ p[2] \in Nat /\ p[2] > 0 /\ p = <<p[1], p[2]>>
           /\ ShiftOf(p) \in Shifts
<1>1. p[1] \in Hops /\ p[2] \in 1 .. Len(HopParts[p[1]]) /\ p = <<p[1], p[2]>>
      /\ ShiftOf(p) \in Shifts
    BY PartFacts
<1>2. p[1] \in Nat
    BY <1>1, TripsAssumption
<1>3. p[2] \in Nat /\ p[2] > 0
    BY <1>1
<1> QED
    BY <1>1, <1>2, <1>3

(* Driven in order, rows of a shift are ordered as their hops are, and one *)
(* ends before the next begins.                                            *)
LEMMA EarlierIs ==
    ASSUME DrivenInOrder, NEW p \in Part, NEW q \in Part, ShiftOf(p) = ShiftOf(q)
    PROVE  /\ q \in Earlier[p] <=> (q[1] < p[1] \/ (q[1] = p[1] /\ q[2] < p[2]))
           /\ q \in Earlier[p] => EndedAt[q] <= StartedAt[p] /\ StartedAt[q] <= StartedAt[p]
<1>1. p[1] \in Hops /\ q[1] \in Hops /\ p[1] \in Nat /\ q[1] \in Nat /\ p[2] \in Nat /\ q[2] \in Nat
    BY PartIndex
<1>2. ASSUME NEW a \in Part, NEW b \in Part, ShiftOf(a) = ShiftOf(b), a[1] < b[1]
      PROVE  EndedAt[a] <= StartedAt[b] /\ StartedAt[a] < StartedAt[b]
    <2>1. HopEnd[a[1]] <= HopStart[b[1]] /\ HopEnd[a[1]] \in Nat /\ HopStart[b[1]] \in Nat
        BY <1>2, PartFacts, TripsAssumption DEF DrivenInOrder, ShiftOf
    <2>2. /\ StartedAt[a] \in Nat /\ EndedAt[a] \in Nat /\ StartedAt[a] < HopEnd[a[1]]
          /\ EndedAt[a] <= HopEnd[a[1]] /\ StartedAt[b] \in Nat /\ HopStart[b[1]] <= StartedAt[b]
        BY PartTimes
    <2> QED
        BY <2>1, <2>2
<1>3. ASSUME NEW a \in Part, NEW b \in Part, a[1] = b[1], a[2] < b[2]
      PROVE  EndedAt[a] <= StartedAt[b] /\ StartedAt[a] <= StartedAt[b]
    <2>1. EndedAt[a] <= StartedAt[b] /\ StartedAt[a] <= EndedAt[a]
          /\ StartedAt[a] \in Nat /\ EndedAt[a] \in Nat /\ StartedAt[b] \in Nat
        BY <1>3, PartTimes
    <2> QED
        BY <2>1
<1>4. q \in Earlier[p] <=> (\/ StartedAt[q] < StartedAt[p]
                            \/ StartedAt[q] = StartedAt[p] /\ q[2] < p[2])
    BY DEF Earlier
<1>5. StartedAt[p] \in Nat /\ StartedAt[q] \in Nat
    BY PartTimes
<1>6. CASE q[1] < p[1]
    BY <1>1, <1>2, <1>4, <1>5, <1>6
<1>7. CASE p[1] < q[1]
    <2>1. StartedAt[p] < StartedAt[q]
        BY <1>2, <1>7
    <2> QED
        BY <1>1, <1>4, <1>5, <1>7, <2>1
<1>8. CASE p[1] = q[1] /\ q[2] < p[2]
    <2>1. EndedAt[q] <= StartedAt[p] /\ StartedAt[q] <= StartedAt[p]
        BY <1>3, <1>8
    <2> QED
        BY <1>1, <1>4, <1>5, <1>8, <2>1
<1>9. CASE p[1] = q[1] /\ ~(q[2] < p[2])
    <2>1. CASE q[2] = p[2]
        <3>1. p = q
            BY <1>9, <2>1, PartFacts
        <3> QED
            BY <1>1, <1>4, <1>5, <1>9, <2>1, <3>1
    <2>2. CASE p[2] < q[2]
        <3>1. StartedAt[p] <= StartedAt[q]
            BY <1>3, <1>9, <2>2
        <3> QED
            BY <1>1, <1>4, <1>5, <1>9, <2>2, <3>1
    <2> QED
        BY <1>1, <1>9, <2>1, <2>2
<1> QED
    BY <1>1, <1>6, <1>7, <1>8, <1>9

(* The rows of a shift stand one after the other.                          *)
LEMMA EarlierFacts ==
    ASSUME DrivenInOrder
    PROVE  /\ \A p \in Part : p \notin Earlier[p]
           /\ \A p \in Part : \A q \in Earlier[p] :
                 q \in Part /\ ShiftOf(q) = ShiftOf(p) /\ EndedAt[q] <= StartedAt[p]
                 /\ StartedAt[q] <= StartedAt[p] /\ Earlier[q] \subseteq Earlier[p]
           /\ \A p, q \in Part : ShiftOf(p) = ShiftOf(q) =>
                 p = q \/ p \in Earlier[q] \/ q \in Earlier[p]
<1>0. \A p \in Part : p[1] \in Nat /\ p[2] \in Nat /\ p = <<p[1], p[2]>>
    BY PartIndex
<1>1. \A p \in Part : p \notin Earlier[p]
    BY <1>0, EarlierIs
<1>2. \A p \in Part : \A q \in Earlier[p] : q \in Part /\ ShiftOf(q) = ShiftOf(p)
    BY DEF Earlier
<1>3. ASSUME NEW p \in Part, NEW q \in Earlier[p] PROVE Earlier[q] \subseteq Earlier[p]
    <2> SUFFICES ASSUME NEW r \in Earlier[q] PROVE r \in Earlier[p]
        OBVIOUS
    <2>1. q \in Part /\ r \in Part /\ ShiftOf(q) = ShiftOf(p) /\ ShiftOf(r) = ShiftOf(q)
        BY <1>2
    <2>2. /\ q[1] < p[1] \/ (q[1] = p[1] /\ q[2] < p[2])
          /\ r[1] < q[1] \/ (r[1] = q[1] /\ r[2] < q[2])
        BY <2>1, EarlierIs
    <2>3. r[1] < p[1] \/ (r[1] = p[1] /\ r[2] < p[2])
        BY <1>0, <2>1, <2>2
    <2> QED
        BY <2>1, <2>3, EarlierIs
<1>4. ASSUME NEW p \in Part, NEW q \in Part, ShiftOf(p) = ShiftOf(q)
      PROVE  p = q \/ p \in Earlier[q] \/ q \in Earlier[p]
    <2>1. \/ p[1] < q[1] \/ (p[1] = q[1] /\ p[2] < q[2])
          \/ q[1] < p[1] \/ (q[1] = p[1] /\ q[2] < p[2])
          \/ p[1] = q[1] /\ p[2] = q[2]
        BY <1>0
    <2>2. p[1] = q[1] /\ p[2] = q[2] => p = q
        BY <1>0
    <2> QED
        BY <1>4, <2>1, <2>2, EarlierIs
<1>5. \A p \in Part : \A q \in Earlier[p] :
          EndedAt[q] <= StartedAt[p] /\ StartedAt[q] <= StartedAt[p]
    BY <1>2, EarlierIs
<1> QED
    BY <1>1, <1>2, <1>3, <1>4, <1>5

(* In a finite total order, the number of elements below one is its place. *)
TotalOrder(S, E) ==
    /\ \A p \in S : p \notin E[p]
    /\ \A p \in S : \A q \in S \cap E[p] : E[q] \subseteq E[p]
    /\ \A p, q \in S : p = q \/ p \in E[q] \/ q \in E[p]

(* Places run from 0 without a gap, and follow the order.                  *)
LEMMA Ranked ==
    ASSUME NEW S, IsFiniteSet(S), NEW E, TotalOrder(S, E),
           NEW rank, rank = [p \in S |-> Cardinality(S \cap E[p])]
    PROVE  /\ Cardinality(S) \in Nat
           /\ \A p \in S : rank[p] \in 0 .. Cardinality(S) - 1
           /\ \A p, q \in S : q \in E[p] <=> rank[q] < rank[p]
           /\ \A k \in 0 .. Cardinality(S) - 1 : \E p \in S : rank[p] = k
<1> DEFINE N == Cardinality(S)
<1>1. N \in Nat
    BY FS_CardinalityType
<1>2. \A T \in SUBSET S : \A U \in SUBSET T :
         /\ Cardinality(U) \in Nat /\ Cardinality(T) \in Nat
         /\ U # T => Cardinality(U) < Cardinality(T)
    <2> SUFFICES ASSUME NEW T \in SUBSET S, NEW U \in SUBSET T
                 PROVE  /\ Cardinality(U) \in Nat /\ Cardinality(T) \in Nat
                        /\ U # T => Cardinality(U) < Cardinality(T)
        OBVIOUS
    <2>1. IsFiniteSet(T) /\ IsFiniteSet(U) /\ U \in SUBSET T
        BY FS_Subset
    <2>2. Cardinality(U) <= Cardinality(T) /\ (Cardinality(T) = Cardinality(U) => T = U)
        BY ONLY <2>1, FS_Subset
    <2>3. Cardinality(U) \in Nat /\ Cardinality(T) \in Nat
        BY <2>1, FS_CardinalityType
    <2> QED
        BY <2>2, <2>3
<1>3. ASSUME NEW p \in S PROVE rank[p] \in 0 .. N - 1
    <2>1. S \cap E[p] \in SUBSET S /\ S \cap E[p] # S
        BY DEF TotalOrder
    <2>2. Cardinality(S \cap E[p]) \in Nat /\ Cardinality(S \cap E[p]) < N
        BY <1>2, <2>1
    <2> QED
        BY <1>1, <2>2
<1>4. ASSUME NEW p \in S, NEW q \in S, q \in E[p] PROVE rank[q] < rank[p]
    <2>1. /\ S \cap E[p] \in SUBSET S /\ S \cap E[q] \in SUBSET (S \cap E[p])
          /\ S \cap E[q] # S \cap E[p]
        BY <1>4 DEF TotalOrder
    <2> QED
        BY <1>2, <2>1
<1>5. ASSUME NEW p \in S, NEW q \in S, q \notin E[p] PROVE ~(rank[q] < rank[p])
    <2>1. CASE p = q
        BY <1>3, <2>1
    <2>2. CASE p \in E[q]
        BY <1>3, <1>4, <2>2
    <2> QED
        BY <1>5, <2>1, <2>2 DEF TotalOrder
<1>6. ASSUME NEW k \in 0 .. N - 1 PROVE \E p \in S : rank[p] = k
    <2> DEFINE K == 0 .. N - 1
    <2>1. IsFiniteSet(K) /\ Cardinality(K) = N
        BY <1>1, FS_Interval
    <2>2. rank \in [S -> K] /\ \A p, q \in S : rank[p] = rank[q] => p = q
        <3>1. \A p, q \in S : rank[p] = rank[q] => p = q
            BY <1>3, <1>4 DEF TotalOrder
        <3> QED
            BY <1>3, <3>1
    <2>3. rank \in Injection(S, K)
        <3> HIDE DEF K
        <3> QED
            BY <2>2 DEF Injection, IsInjective
    <2>4. rank \in Surjection(S, K)
        <3> HIDE DEF K
        <3> QED
            BY <2>1, <2>3, FS_Injection
    <2> QED
        BY <2>4 DEF Surjection
<1> QED
    BY <1>1, <1>3, <1>4, <1>5, <1>6

(* The segments of a shift, in the order they were driven.                 *)
ShiftRows(s) == {p \in Rows : ShiftOf(p) = s}

(* Each row of the shift has its place in the list, and earlier rows come  *)
(* first.                                                                  *)
LEMMA SegmentsInOrder ==
    ASSUME DrivenInOrder, NEW s
    PROVE  LET S == ShiftRows(s)
               N == Cardinality(S)
               seq == SegmentsOf(s)
           IN  /\ S \subseteq Part /\ N \in Nat /\ seq \in Seq(S) /\ Len(seq) = N
               /\ \A i \in 1 .. N : seq[i] \in S
               /\ \A p \in S : \E i \in 1 .. N : seq[i] = p
               /\ \A i, j \in 1 .. N : seq[i] \in Earlier[seq[j]] <=> i < j
<1> DEFINE S == ShiftRows(s)
           N == Cardinality(S)
           seq == SegmentsOf(s)
           rank == [p \in S |-> Cardinality(S \cap Earlier[p])]
<1>1. S \subseteq Part /\ IsFiniteSet(S)
    <2>1. S \subseteq Part
        BY RowsIn DEF ShiftRows
    <2> QED
        BY <2>1, PartFacts, FS_Subset
<1>2. TotalOrder(S, Earlier)
    <2>1. \A p \in S : ShiftOf(p) = s
        BY DEF ShiftRows
    <2> HIDE DEF S
    <2> QED
        BY <1>1, <2>1, EarlierFacts DEF TotalOrder
<1>3. /\ N \in Nat
      /\ \A p \in S : rank[p] \in 0 .. N - 1
      /\ \A p, q \in S : q \in Earlier[p] <=> rank[q] < rank[p]
      /\ \A k \in 0 .. N - 1 : \E p \in S : rank[p] = k
    <2>1. rank = [p \in S |-> Cardinality(S \cap Earlier[p])]
        OBVIOUS
    <2> HIDE DEF S, rank
    <2> QED
        BY <1>1, <1>2, <2>1, Ranked
<1>4. seq = [i \in 1 .. N |-> CHOOSE p \in S : Cardinality(S \cap Earlier[p]) = i - 1]
    BY DEF SegmentsOf, ShiftRows
<1>5. ASSUME NEW i \in 1 .. N PROVE seq[i] \in S /\ rank[seq[i]] = i - 1
    <2>1. i - 1 \in 0 .. N - 1
        BY <1>3
    <2>2. \E p \in S : Cardinality(S \cap Earlier[p]) = i - 1
        BY <1>3, <2>1
    <2>3. seq[i] = CHOOSE p \in S : Cardinality(S \cap Earlier[p]) = i - 1
        BY <1>4
    <2> QED
        BY <2>2, <2>3
<1> HIDE DEF S, rank, seq
<1>6. \A p, q \in S : rank[p] = rank[q] => p = q
    <2>1. \A p, q \in S : p = q \/ p \in Earlier[q] \/ q \in Earlier[p]
        BY <1>2 DEF TotalOrder
    <2> QED
        BY <1>3, <2>1
<1>7. ASSUME NEW p \in S PROVE \E i \in 1 .. N : seq[i] = p
    <2>1. rank[p] + 1 \in 1 .. N /\ (rank[p] + 1) - 1 = rank[p]
        BY <1>3
    <2>2. seq[rank[p] + 1] \in S /\ rank[seq[rank[p] + 1]] = rank[p]
        BY <1>5, <2>1
    <2> QED
        BY <1>6, <2>1, <2>2
<1>8. \A i, j \in 1 .. N : seq[i] \in Earlier[seq[j]] <=> i < j
    BY <1>3, <1>5
<1>9. seq \in Seq(S) /\ Len(seq) = N
    <2>1. seq \in [1 .. N -> S]
        <3>1. \A i \in 1 .. N : (CHOOSE p \in S : Cardinality(S \cap Earlier[p]) = i - 1) \in S
            BY <1>4, <1>5
        <3> QED
            BY <1>4, <3>1
    <2> HIDE DEF N
    <2> QED
        BY <1>3, <2>1
<1> QED
    BY <1>1, <1>3, <1>5, <1>7, <1>8, <1>9 DEF S, seq

-----------------------------------------------------------------------------
(* The cut in Node.                                                        *)

(* A set of numbers with a bound has a largest.                            *)
LEMMA Largest ==
    ASSUME NEW S, NEW n \in Nat, S \subseteq 0 .. n, S # {}
    PROVE  \E m \in S : \A k \in S : k <= m
<1> DEFINE T == {n - k : k \in S}
<1>1. T \subseteq Nat /\ T # {}
    <2>1. \A k \in S : k \in 0 .. n
        OBVIOUS
    <2>2. \A k \in S : n - k \in Nat
        BY <2>1
    <2>3. PICK k \in S : TRUE
        OBVIOUS
    <2>4. n - k \in T
        BY <2>3
    <2> QED
        BY <2>2, <2>4
<1>2. PICK t \in T : \A u \in T : ~(u < t)
    <2> HIDE DEF T
    <2> QED
        BY <1>1, LeastOne
<1>3. PICK m \in S : t = n - m
    OBVIOUS
<1>4. ASSUME NEW k \in S PROVE k <= m
    <2>1. ~(n - k < n - m)
        BY <1>2, <1>3
    <2>2. k \in Nat /\ m \in Nat
        <3>1. k \in 0 .. n /\ m \in 0 .. n
            OBVIOUS
        <3> QED
            BY ONLY <3>1, n \in Nat
    <2> QED
        BY ONLY <2>1, <2>2, n \in Nat
<1> QED
    BY <1>4

(* So its Max is that number.                                              *)
LEMMA MaxIs ==
    ASSUME NEW S, NEW n \in Nat, S \subseteq 0 .. n, S # {}
    PROVE  Max(S) \in S /\ \A k \in S : k <= Max(S)
<1>1. \E m \in S : \A k \in S : m >= k
    <2>1. PICK m \in S : \A k \in S : k <= m
        BY Largest
    <2> QED
        BY <2>1
<1> QED
    BY <1>1 DEF Max

(* What the cut does with the next row.                                    *)
Extend(drives, p) ==
    IF drives = <<>> \/ StartedAt[p] - EndedAt[Last(Last(drives))] > TripGap
    THEN Append(drives, <<p>>)
    ELSE Append(Front(drives), Append(Last(drives), p))

(* A cut into sequences of rows stays one.                                 *)
LEMMA ExtendTyped ==
    ASSUME NEW S, NEW drives \in Seq(Seq(S)), NEW p \in S
    PROVE  Extend(drives, p) \in Seq(Seq(S))
<1>1. <<p>> \in Seq(S)
    OBVIOUS
<1>2. Append(drives, <<p>>) \in Seq(Seq(S))
    <2> DEFINE V == Seq(S)
    <2>1. drives \in Seq(V) /\ <<p>> \in V
        BY <1>1
    <2> HIDE DEF V
    <2>2. Append(drives, <<p>>) \in Seq(V)
        BY <2>1
    <2> QED
        BY <2>2 DEF V
<1>3. ASSUME drives # <<>>
      PROVE  Append(Front(drives), Append(Last(drives), p)) \in Seq(Seq(S))
    <2> DEFINE V == Seq(S)
    <2>1. drives \in Seq(V)
        OBVIOUS
    <2>2. Last(drives) \in V /\ Front(drives) \in Seq(V)
        <3> HIDE DEF V
        <3>1. Len(drives) \in Nat /\ Len(drives) > 0
            BY <1>3, <2>1
        <3>2. Last(drives) \in V
            BY <2>1, <3>1 DEF Last
        <3>3. Front(drives) \in Seq(V)
            BY <2>1, <3>1 DEF Front
        <3> QED
            BY <3>2, <3>3
    <2>3. Append(Last(drives), p) \in V
        <3>1. Last(drives) \in Seq(S)
            BY <2>2
        <3> QED
            BY <3>1
    <2> HIDE DEF V
    <2>4. Append(Front(drives), Append(Last(drives), p)) \in Seq(V)
        BY <2>2, <2>3
    <2> QED
        BY <2>4 DEF V
<1> QED
    BY <1>2, <1>3 DEF Extend

(* The cut, row by row.                                                    *)
LEMMA DrivesFold ==
    ASSUME NEW s, NEW S, NEW N \in Nat, SegmentsOf(s) \in Seq(S), Len(SegmentsOf(s)) = N
    PROVE  \E D : /\ D[0] = <<>> /\ D[N] = DrivesOf(s)
                  /\ \A k \in 1 .. N : D[k] = Extend(D[k - 1], SegmentsOf(s)[k])
<1> DEFINE seq == SegmentsOf(s)
           Q(it) == it = [t \in SUBSET DOMAIN seq |->
                             IF t = {} THEN <<>> ELSE Extend(it[t \ {Max(t)}], seq[Max(t)])]
           V == Seq(Seq(S))
           g == [x \in 1 .. N |-> [v \in V |-> Extend(v, seq[x])]]
           c == [t \in SUBSET (1 .. N) |-> Max(t)]
<1>1. DrivesOf(s) = (CHOOSE it : Q(it))[DOMAIN seq]
    BY DEF DrivesOf, FoldLeft, MapThenFoldSet, Extend
<1>2. DOMAIN seq = 1 .. N /\ \A x \in 1 .. N : seq[x] \in S
    <2> HIDE DEF seq
    <2> QED
        BY SegmentsOf(s) \in Seq(S), Len(SegmentsOf(s)) = N DEF seq
<1> HIDE DEF seq
<1>3. \A t \in SUBSET (1 .. N) : t # {} => Max(t) \in t
    <2> SUFFICES ASSUME NEW t \in SUBSET (1 .. N), t # {} PROVE Max(t) \in t
        OBVIOUS
    <2>1. t \subseteq 0 .. N
        OBVIOUS
    <2> QED
        BY <2>1, MaxIs
<1>4. Foldable(1 .. N, V, <<>>, g, c)
    <2>1. <<>> \in V
        OBVIOUS
    <2>2. \A x \in 1 .. N : \A v \in V : Extend(v, seq[x]) \in V
        BY <1>2, ExtendTyped
    <2> HIDE DEF V
    <2> QED
        BY <1>3, <2>1, <2>2 DEF Foldable
<1>5. PICK f : IsFold(f, 1 .. N, V, <<>>, g, c)
    <2> HIDE DEF V, g, c
    <2>1. IsFiniteSet(1 .. N)
        BY FS_Interval
    <2> QED
        BY <1>4, <2>1, FoldExists
<1>6. Q(f)
    <2> HIDE DEF V
    <2>1. f \in [SUBSET (1 .. N) -> V]
        BY <1>5 DEF IsFold
    <2>2. ASSUME NEW t \in SUBSET (1 .. N), t # {}
          PROVE  f[t] = Extend(f[t \ {Max(t)}], seq[Max(t)])
        <3>1. Max(t) \in 1 .. N /\ f[t \ {Max(t)}] \in V /\ c[t] = Max(t)
            BY <1>3, <2>1, <2>2
        <3>2. f[t] = g[c[t]][f[t \ {c[t]}]]
            BY <1>5, <2>2 DEF IsFold
        <3> QED
            BY <3>1, <3>2
    <2>3. f[{}] = <<>>
        BY <1>5 DEF IsFold
    <2> QED
        BY <1>2, <2>1, <2>2, <2>3
<1> DEFINE it == CHOOSE h : Q(h)
<1>7. Q(it)
    BY <1>6
<1>8. DrivesOf(s) = it[1 .. N]
    BY <1>1, <1>2
<1> HIDE DEF it
<1>9. ASSUME NEW k \in 1 .. N PROVE it[1 .. k] = Extend(it[1 .. (k - 1)], seq[k])
    <2>0. /\ k \in Nat /\ k >= 1 /\ k <= N /\ k \in 1 .. k
          /\ \A j \in 1 .. k : j \in 0 .. N /\ j \in 1 .. N
          /\ \A j : j \in (1 .. k) \ {k} <=> j \in 1 .. (k - 1)
        OBVIOUS
    <2>1. Max(1 .. k) = k
        <3>1. 1 .. k \subseteq 0 .. N /\ 1 .. k # {} /\ k \in 1 .. k
            BY <2>0
        <3>2. Max(1 .. k) \in 1 .. k /\ \A j \in 1 .. k : j <= Max(1 .. k)
            BY <3>1, MaxIs
        <3> QED
            BY <3>1, <3>2
    <2>2. (1 .. k) \ {k} = 1 .. (k - 1) /\ 1 .. k \in SUBSET (1 .. N) /\ 1 .. k # {}
        BY <2>0, Zenon
    <2>3. it[1 .. k] = Extend(it[(1 .. k) \ {Max(1 .. k)}], seq[Max(1 .. k)])
        BY <1>2, <1>7, <2>2
    <2> QED
        BY <2>1, <2>2, <2>3
<1>10. it[1 .. 0] = <<>>
    <2>1. 1 .. 0 = {}
        OBVIOUS
    <2> QED
        BY <1>2, <1>7, <2>1
<1> DEFINE D == [k \in 0 .. N |-> it[1 .. k]]
<1>11. D[0] = <<>> /\ D[N] = DrivesOf(s)
    BY <1>8, <1>10
<1>12. \A k \in 1 .. N : D[k] = Extend(D[k - 1], seq[k])
    BY <1>9
<1> QED
    BY <1>11, <1>12 DEF seq

(* A row that opens a drive, by what lies between it and the row before.   *)
Opener(seq, i) == i = 1 \/ StartedAt[seq[i]] - EndedAt[seq[i - 1]] > TripGap

(* The first k rows, cut into drives that begin at the places `off`.       *)
CutInto(seq, S, drives, off, k) ==
    /\ drives \in Seq(Seq(S))
    /\ off \in [1 .. Len(drives) + 1 -> Nat \ {0}]
    /\ off[1] = 1 /\ off[Len(drives) + 1] = k + 1
    /\ \A m \in 1 .. Len(drives) :
          /\ off[m] < off[m + 1] /\ Len(drives[m]) = off[m + 1] - off[m]
          /\ \A j \in 1 .. Len(drives[m]) : drives[m][j] = seq[off[m] + j - 1]
          /\ Opener(seq, off[m])
          /\ \A i \in Nat : off[m] < i /\ i < off[m + 1] => ~Opener(seq, i)

(* A sequence without its last element.                                    *)
LEMMA FrontFacts ==
    ASSUME NEW V, NEW s \in Seq(V), NEW n \in Nat, n > 0, n = Len(s),
           NEW f, f = SubSeq(s, 1, n - 1)
    PROVE  f \in Seq(V) /\ Len(f) = n - 1 /\ \A m \in 1 .. n - 1 : f[m] = s[m]
<1>1. 1 \in 1 .. Len(s) + 1 /\ n - 1 \in 0 .. Len(s)
    OBVIOUS
<1> QED
    BY <1>1

(* The next row opens a drive of its own, or joins the last one, as the    *)
(* cut has it.                                                             *)
LEMMA CutGrows ==
    ASSUME NEW S, NEW seq, NEW k \in Nat \ {0}, \A i \in 1 .. k : seq[i] \in S,
           NEW drives, NEW off, CutInto(seq, S, drives, off, k - 1)
    PROVE  \E longer : CutInto(seq, S, Extend(drives, seq[k]), longer, k)
<1> DEFINE L == Len(drives)
           p == seq[k]
           next == Extend(drives, p)
<1>1. /\ drives \in Seq(Seq(S)) /\ L \in Nat /\ p \in S
      /\ off \in [1 .. L + 1 -> Nat \ {0}] /\ off[1] = 1 /\ off[L + 1] = k
    BY DEF CutInto
<1>2. next \in Seq(Seq(S))
    BY <1>1, ExtendTyped
<1>3. ASSUME NEW m \in 1 .. L
      PROVE  /\ off[m] \in Nat \ {0} /\ off[m + 1] \in Nat \ {0}
             /\ off[m] < off[m + 1] /\ Len(drives[m]) = off[m + 1] - off[m]
             /\ \A j \in 1 .. Len(drives[m]) : drives[m][j] = seq[off[m] + j - 1]
             /\ Opener(seq, off[m]) /\ drives[m] \in Seq(S)
             /\ \A i \in Nat : off[m] < i /\ i < off[m + 1] => ~Opener(seq, i)
    <2>1. m \in 1 .. L + 1 /\ m + 1 \in 1 .. L + 1
        BY <1>1
    <2>2. drives[m] \in Seq(S)
        <3> DEFINE V == Seq(S)
        <3>1. drives \in Seq(V) /\ m \in 1 .. Len(drives)
            BY <1>1
        <3> HIDE DEF V
        <3>2. drives[m] \in V
            BY <3>1
        <3> QED
            BY <3>2 DEF V
    <2> QED
        BY <1>1, <2>1, <2>2 DEF CutInto
<1>4. ASSUME L > 0 PROVE Last(Last(drives)) = seq[k - 1] /\ k > 1
    <2>1. L \in 1 .. L
        BY <1>1, <1>4
    <2>2. /\ Len(drives[L]) = k - off[L] /\ off[L] < k /\ off[L] \in Nat \ {0}
          /\ \A j \in 1 .. Len(drives[L]) : drives[L][j] = seq[off[L] + j - 1]
        BY <1>1, <1>3, <2>1
    <2>3. Len(drives[L]) \in 1 .. Len(drives[L]) /\ off[L] + Len(drives[L]) - 1 = k - 1
        BY <2>2
    <2> QED
        BY <2>2, <2>3 DEF Last
<1>5. L = 0 => k = 1
    BY <1>1
<1>6. drives = <<>> <=> L = 0
    BY <1>1
<1>7. Opener(seq, k) <=> (drives = <<>> \/ StartedAt[p] - EndedAt[Last(Last(drives))] > TripGap)
    BY <1>1, <1>4, <1>5, <1>6 DEF Opener
<1>8. CASE Opener(seq, k)
    <2> DEFINE longer == [m \in 1 .. L + 2 |-> IF m = L + 2 THEN k + 1 ELSE off[m]]
    <2>1. next = Append(drives, <<p>>)
        BY <1>7, <1>8 DEF Extend
    <2>2. /\ Len(next) = L + 1 /\ \A m \in 1 .. L : next[m] = drives[m]
          /\ next[L + 1] = <<p>>
        BY <1>1, <2>1
    <2>3. longer \in [1 .. Len(next) + 1 -> Nat \ {0}]
        BY <1>1, <2>2
    <2>4. longer[1] = 1 /\ longer[Len(next) + 1] = k + 1
        BY <1>1, <2>2
    <2>5. ASSUME NEW m \in 1 .. Len(next)
          PROVE  /\ longer[m] < longer[m + 1] /\ Len(next[m]) = longer[m + 1] - longer[m]
                 /\ \A j \in 1 .. Len(next[m]) : next[m][j] = seq[longer[m] + j - 1]
                 /\ Opener(seq, longer[m])
                 /\ \A i \in Nat : longer[m] < i /\ i < longer[m + 1] => ~Opener(seq, i)
        <3>1. CASE m = L + 1
            <4>1. longer[m] = k /\ longer[m + 1] = k + 1
                BY <1>1, <3>1
            <4>2. Len(next[m]) = 1 /\ next[m][1] = p
                <5>1. next[m] = <<p>>
                    BY <2>2, <3>1
                <5> HIDE DEF next, p
                <5>2. Len(<<p>>) = 1 /\ <<p>>[1] = p
                    OBVIOUS
                <5> QED
                    BY ONLY <5>1, <5>2
            <4> HIDE DEF next, longer
            <4> QED
                BY <1>8, <4>1, <4>2
        <3>2. CASE m \in 1 .. L
            <4>1. longer[m] = off[m] /\ longer[m + 1] = off[m + 1] /\ next[m] = drives[m]
                BY <1>1, <2>2, <3>2
            <4> QED
                BY <1>3, <3>2, <4>1
        <3>3. m = L + 1 \/ m \in 1 .. L
            <4> HIDE DEF next
            <4> QED
                BY <1>1, <2>2
        <3> QED
            BY <3>1, <3>2, <3>3
    <2>6. CutInto(seq, S, next, longer, k)
        <3> HIDE DEF next, longer
        <3> QED
            BY <1>2, <2>3, <2>4, <2>5 DEF CutInto
    <2> QED
        BY <2>6
<1>9. CASE ~Opener(seq, k)
    <2> DEFINE longer == [m \in 1 .. L + 1 |-> IF m = L + 1 THEN k + 1 ELSE off[m]]
    <2>0. L > 0 /\ L \in 1 .. L
        BY <1>1, <1>6, <1>7, <1>9
    <2>1. next = Append(Front(drives), Append(drives[L], p))
        BY <1>7, <1>9 DEF Extend, Last
    <2>2. /\ Len(next) = L /\ \A m \in 1 .. L - 1 : next[m] = drives[m]
          /\ next[L] = Append(drives[L], p)
        <3> DEFINE V == Seq(S)
                   e == Append(drives[L], p)
                   f == Front(drives)
        <3>1. drives \in Seq(V) /\ next = Append(f, e)
            BY <1>1, <2>1
        <3> HIDE DEF V, e, next
        <3>2. f \in Seq(V) /\ Len(f) = L - 1 /\ \A m \in 1 .. L - 1 : f[m] = drives[m]
            <4>1. L \in Nat /\ L > 0 /\ L = Len(drives) /\ f = SubSeq(drives, 1, L - 1)
                BY <1>1, <2>0 DEF Front
            <4> HIDE DEF f, L
            <4> QED
                BY ONLY <3>1, <4>1, FrontFacts
        <3> HIDE DEF f
        <3>3. Len(next) = L /\ next[L] = e /\ \A m \in 1 .. L - 1 : next[m] = f[m]
            BY <1>1, <2>0, <3>1, <3>2
        <3> QED
            BY <3>2, <3>3 DEF e
    <2>3. longer \in [1 .. Len(next) + 1 -> Nat \ {0}]
        BY <1>1, <2>2
    <2>4. longer[1] = 1 /\ longer[Len(next) + 1] = k + 1
        BY <1>1, <2>0, <2>2
    <2>5. ASSUME NEW m \in 1 .. Len(next)
          PROVE  /\ longer[m] < longer[m + 1] /\ Len(next[m]) = longer[m + 1] - longer[m]
                 /\ \A j \in 1 .. Len(next[m]) : next[m][j] = seq[longer[m] + j - 1]
                 /\ Opener(seq, longer[m])
                 /\ \A i \in Nat : longer[m] < i /\ i < longer[m + 1] => ~Opener(seq, i)
        <3>1. CASE m = L
            <4>1. longer[m] = off[L] /\ longer[m + 1] = k + 1
                BY <1>1, <2>0, <3>1
            <4>2. /\ off[L] \in Nat \ {0} /\ off[L] < k /\ Len(drives[L]) = k - off[L]
                  /\ drives[L] \in Seq(S) /\ Opener(seq, off[L])
                  /\ \A j \in 1 .. Len(drives[L]) : drives[L][j] = seq[off[L] + j - 1]
                  /\ \A i \in Nat : off[L] < i /\ i < k => ~Opener(seq, i)
                BY <1>1, <1>3, <2>0
            <4>3. /\ Len(next[m]) = Len(drives[L]) + 1
                  /\ \A j \in 1 .. Len(drives[L]) : next[m][j] = drives[L][j]
                  /\ next[m][Len(drives[L]) + 1] = p
                <5> DEFINE s == drives[L]
                <5>1. s \in Seq(S) /\ p \in S /\ next[m] = Append(s, p)
                    BY <1>1, <2>2, <3>1, <4>2
                <5> HIDE DEF s, next, p
                <5>2. /\ Len(next[m]) = Len(s) + 1 /\ next[m][Len(s) + 1] = p
                      /\ \A j \in 1 .. Len(s) : next[m][j] = s[j]
                    BY ONLY <5>1
                <5> QED
                    BY <5>2 DEF s
            <4>4. ASSUME NEW j \in 1 .. Len(next[m]) PROVE next[m][j] = seq[off[L] + j - 1]
                <5>1. CASE j = Len(drives[L]) + 1
                    <6>1. off[L] + j - 1 = k
                        BY <4>2, <5>1
                    <6> QED
                        BY <4>3, <5>1, <6>1
                <5>2. CASE j \in 1 .. Len(drives[L])
                    BY <4>2, <4>3, <5>2
                <5> QED
                    BY <4>2, <4>3, <5>1, <5>2
            <4>5. Len(next[m]) = (k + 1) - off[L] /\ off[L] < k + 1
                BY <4>2, <4>3
            <4>6. \A i \in Nat : off[L] < i /\ i < k + 1 => ~Opener(seq, i)
                BY <1>9, <4>2
            <4> QED
                BY <4>1, <4>2, <4>4, <4>5, <4>6
        <3>2. CASE m \in 1 .. L - 1
            <4>1. longer[m] = off[m] /\ longer[m + 1] = off[m + 1] /\ next[m] = drives[m]
                  /\ m \in 1 .. L
                BY <1>1, <2>2, <3>2
            <4> QED
                BY <1>3, <4>1
        <3>3. m = L \/ m \in 1 .. L - 1
            <4> HIDE DEF next
            <4> QED
                BY <1>1, <2>2
        <3> QED
            BY <3>1, <3>2, <3>3
    <2>6. CutInto(seq, S, next, longer, k)
        <3> HIDE DEF next, longer
        <3> QED
            BY <1>2, <2>3, <2>4, <2>5 DEF CutInto
    <2> QED
        BY <2>6
<1> QED
    BY <1>8, <1>9

(* So the drives of a shift are its rows, cut at the openers.              *)
LEMMA CutExists ==
    ASSUME NEW s, NEW S, NEW N \in Nat, SegmentsOf(s) \in Seq(S), Len(SegmentsOf(s)) = N
    PROVE  \E off : CutInto(SegmentsOf(s), S, DrivesOf(s), off, N)
<1> DEFINE seq == SegmentsOf(s)
<1>1. \A i \in 1 .. N : seq[i] \in S
    <2> HIDE DEF seq
    <2> QED
        BY SegmentsOf(s) \in Seq(S), Len(SegmentsOf(s)) = N DEF seq
<1>2. PICK D : /\ D[0] = <<>> /\ D[N] = DrivesOf(s)
               /\ \A k \in 1 .. N : D[k] = Extend(D[k - 1], seq[k])
    BY DrivesFold
<1> HIDE DEF seq
<1> DEFINE Good == {k \in Nat : k <= N => \E off : CutInto(seq, S, D[k], off, k)}
<1>3. 0 \in Good
    <2>1. CutInto(seq, S, <<>>, [m \in 1 .. 1 |-> 1], 0)
        BY DEF CutInto
    <2> QED
        BY <1>2, <2>1
<1>4. ASSUME NEW n \in Nat, n \in Good PROVE n + 1 \in Good
    <2> SUFFICES ASSUME n + 1 <= N PROVE \E off : CutInto(seq, S, D[n + 1], off, n + 1)
        OBVIOUS
    <2>1. PICK off : CutInto(seq, S, D[n], off, n)
        BY <1>4
    <2>2. n + 1 \in 1 .. N /\ (n + 1) - 1 = n /\ n + 1 \in Nat \ {0}
        OBVIOUS
    <2>3. D[n + 1] = Extend(D[n], seq[n + 1]) /\ \A i \in 1 .. n + 1 : seq[i] \in S
        BY <1>1, <1>2, <2>2
    <2> QED
        BY <2>1, <2>2, <2>3, CutGrows
<1>5. Nat \subseteq Good
    <2> HIDE DEF Good
    <2> QED
        BY <1>3, <1>4, NatInduct
<1>6. N \in Good
    BY <1>5
<1> QED
    BY <1>2, <1>6 DEF seq

(* A drive's places in its shift: from an opener up to the next.           *)
Run(seq, N, a, b) ==
    /\ a \in 1 .. N /\ b \in 1 .. N + 1 /\ a < b
    /\ Opener(seq, a) /\ (b = N + 1 \/ Opener(seq, b))
    /\ \A i \in Nat : a < i /\ i < b => ~Opener(seq, i)

(* A place is in one drive.                                                *)
LEMMA RunUnique ==
    ASSUME NEW seq, NEW N \in Nat, NEW i \in 1 .. N,
           NEW a, NEW b, Run(seq, N, a, b), a <= i, i < b,
           NEW c, NEW d, Run(seq, N, c, d), c <= i, i < d
    PROVE  a = c /\ b = d
<1>1. a \in Nat /\ b \in Nat /\ c \in Nat /\ d \in Nat /\ i \in Nat
      /\ b <= N + 1 /\ d <= N + 1
    BY DEF Run
<1>2. ~(a < c) /\ ~(c < a)
    BY <1>1 DEF Run
<1>3. ~(b < d) /\ ~(d < b)
    BY <1>1 DEF Run
<1> QED
    BY <1>1, <1>2, <1>3

(* Each drive of a cut has its run of places, and each place is in one.    *)
LEMMA CutPlaces ==
    ASSUME NEW seq, NEW S, NEW drives, NEW off, NEW N \in Nat,
           CutInto(seq, S, drives, off, N)
    PROVE  /\ \A m \in 1 .. Len(drives) : Run(seq, N, off[m], off[m + 1])
           /\ \A i \in 1 .. N : \E m \in 1 .. Len(drives) : off[m] <= i /\ i < off[m + 1]
<1> DEFINE L == Len(drives)
<1>1. /\ L \in Nat /\ off \in [1 .. L + 1 -> Nat \ {0}] /\ off[1] = 1 /\ off[L + 1] = N + 1
      /\ \A m \in 1 .. L : off[m] < off[m + 1] /\ Opener(seq, off[m])
      /\ \A m \in 1 .. L : \A i \in Nat : off[m] < i /\ i < off[m + 1] => ~Opener(seq, i)
    BY DEF CutInto
<1> HIDE DEF L
<1>2. \A m \in 1 .. L + 1 : off[m] \in Nat /\ off[m] >= 1 /\ off[m] <= N + 1
    <2> DEFINE Over1 == {m \in 1 .. L + 1 : off[m] > N + 1}
    <2>0. ASSUME NEW m \in 1 .. L + 1 PROVE off[m] \in Nat /\ off[m] >= 1
        <3>1. off[m] \in Nat \ {0}
            BY <1>1
        <3> QED
            BY <3>1
    <2>1. Over1 = {}
        <3> SUFFICES ASSUME Over1 # {} PROVE FALSE
            OBVIOUS
        <3>0. L + 1 \in Nat /\ \A m \in Over1 : m \in 0 .. L + 1
            BY <1>1
        <3>1. PICK m \in Over1 : \A k \in Over1 : k <= m
            <4> HIDE DEF Over1
            <4>1. Over1 \subseteq 0 .. (L + 1)
                BY <3>0
            <4> QED
                BY <3>0, <4>1, Largest
        <3>2. m \in 1 .. L
            <4>0. off[m] > N + 1 /\ off[L + 1] = N + 1
                BY <1>1, <3>1
            <4>1. m # L + 1
                BY ONLY <4>0, N \in Nat
            <4> QED
                BY <1>1, <3>1, <4>1
        <3>3. m + 1 \in 1 .. L + 1 /\ off[m + 1] > off[m] /\ off[m] \in Nat /\ off[m + 1] \in Nat
            BY <1>1, <3>2
        <3>4. m + 1 \in Over1
            BY <3>1, <3>3
        <3> QED
            BY <3>1, <3>2, <3>4
    <2>2. \A m \in 1 .. L + 1 : ~(off[m] > N + 1)
        BY <2>1
    <2> QED
        BY <2>0, <2>2
<1>3. ASSUME NEW m \in 1 .. L PROVE Run(seq, N, off[m], off[m + 1])
    <2>1. m \in 1 .. L + 1 /\ m + 1 \in 1 .. L + 1 /\ (m + 1 = L + 1 \/ m + 1 \in 1 .. L)
        BY <1>1
    <2>2. off[m + 1] = N + 1 \/ Opener(seq, off[m + 1])
        BY <1>1, <2>1
    <2>3. off[m] < off[m + 1] /\ Opener(seq, off[m])
          /\ \A i \in Nat : off[m] < i /\ i < off[m + 1] => ~Opener(seq, i)
        BY <1>1
    <2>4. off[m] \in 1 .. N /\ off[m + 1] \in 1 .. N + 1
        BY <1>2, <2>1, <2>3
    <2> QED
        BY <2>2, <2>3, <2>4 DEF Run
<1>4. ASSUME NEW i \in 1 .. N PROVE \E m \in 1 .. L : off[m] <= i /\ i < off[m + 1]
    <2> DEFINE Upto == {m \in 1 .. L : off[m] <= i}
    <2>1. L > 0
        BY <1>1
    <2>2. 1 \in Upto
        BY <1>1, <2>1
    <2>3. PICK m \in Upto : \A k \in Upto : k <= m
        <3>1. Upto \subseteq 0 .. L
            BY <1>1
        <3> HIDE DEF Upto
        <3> QED
            BY <1>1, <2>2, <3>1, Largest
    <2>4. CASE m = L
        BY <1>1, <2>3, <2>4
    <2>5. CASE m # L
        <3>1. m \in 1 .. L /\ m + 1 \in 1 .. L /\ m + 1 \notin Upto
            BY <1>1, <2>3, <2>5
        <3>2. off[m + 1] \in Nat
            <4>1. m + 1 \in 1 .. L + 1
                BY <1>1, <3>1
            <4> QED
                BY <1>2, <4>1
        <3> QED
            BY <2>3, <3>1, <3>2
    <2> QED
        BY <2>4, <2>5
<1> QED
    BY <1>3, <1>4 DEF L

(* A drive is the stretch of its shift's rows between two places.          *)
Stretch(drive, seq, a, b) ==
    /\ DOMAIN drive = 1 .. (b - a) /\ Len(drive) = b - a
    /\ \A j \in 1 .. (b - a) : drive[j] = seq[a + j - 1]

Between(seq, a, b) == {seq[i] : i \in a .. (b - 1)}

(* The rows of a stretch are those of its places.                          *)
LEMMA StretchRange ==
    ASSUME NEW drive, NEW seq, NEW a \in Nat, NEW b \in Nat, Stretch(drive, seq, a, b), a < b
    PROVE  /\ Range(drive) = Between(seq, a, b)
           /\ drive[1] = seq[a] /\ drive[Len(drive)] = seq[b - 1] /\ 1 \in DOMAIN drive
<1>1. ASSUME NEW x \in Range(drive) PROVE \E i \in a .. (b - 1) : x = seq[i]
    <2>1. PICK j \in 1 .. (b - a) : x = seq[a + j - 1]
        BY DEF Range, Stretch
    <2>2. a + j - 1 \in a .. (b - 1)
        OBVIOUS
    <2> QED
        BY <2>1, <2>2
<1>2. ASSUME NEW i \in a .. (b - 1) PROVE seq[i] \in Range(drive)
    <2>1. i - a + 1 \in 1 .. (b - a) /\ a + (i - a + 1) - 1 = i
        OBVIOUS
    <2>2. drive[i - a + 1] = seq[i]
        BY <2>1 DEF Stretch
    <2> QED
        BY <2>1, <2>2 DEF Range, Stretch
<1>3. 1 \in 1 .. (b - a) /\ b - a \in 1 .. (b - a) /\ a + 1 - 1 = a /\ a + (b - a) - 1 = b - 1
    OBVIOUS
<1>4. drive[1] = seq[a] /\ drive[Len(drive)] = seq[b - 1] /\ 1 \in DOMAIN drive
    BY <1>3 DEF Stretch
<1> QED
    BY <1>1, <1>2, <1>4 DEF Between

(* What a row opens.                                                       *)
LEMMA DriveIs ==
    ASSUME DrivenInOrder, NEW p \in Rows
    PROVE  LET s == ShiftOf(p)
               seq == SegmentsOf(s)
               N == Cardinality(ShiftRows(s))
           IN  /\ DriveOf(p) \in Range(DrivesOf(s)) /\ p \in Range(DriveOf(p))
               /\ \A drive \in Range(DrivesOf(s)) :
                     \E a, b \in Nat : Run(seq, N, a, b) /\ Stretch(drive, seq, a, b)
<1> DEFINE s == ShiftOf(p)
           S == ShiftRows(s)
           seq == SegmentsOf(s)
           N == Cardinality(S)
<1>1. /\ S \subseteq Part /\ N \in Nat /\ seq \in Seq(S) /\ Len(seq) = N
      /\ \A r \in S : \E i \in 1 .. N : seq[i] = r
    BY SegmentsInOrder
<1>2. p \in S
    BY DEF ShiftRows
<1> HIDE DEF S
<1>3. PICK off : CutInto(seq, S, DrivesOf(s), off, N)
    BY <1>1, CutExists
<1> DEFINE drives == DrivesOf(s)
           L == Len(drives)
<1> HIDE DEF seq
<1>4. /\ drives \in Seq(Seq(S)) /\ DOMAIN drives = 1 .. L
      /\ \A m \in 1 .. L :
            /\ Len(drives[m]) = off[m + 1] - off[m]
            /\ \A j \in 1 .. Len(drives[m]) : drives[m][j] = seq[off[m] + j - 1]
    <2> HIDE DEF drives
    <2> QED
        BY <1>3 DEF CutInto, drives
<1>5. /\ \A m \in 1 .. L : Run(seq, N, off[m], off[m + 1])
      /\ \A i \in 1 .. N : \E m \in 1 .. L : off[m] <= i /\ i < off[m + 1]
    BY <1>1, <1>3, CutPlaces
<1> HIDE DEF drives
<1>6. ASSUME NEW m \in 1 .. L
      PROVE  /\ Stretch(drives[m], seq, off[m], off[m + 1])
             /\ off[m] \in Nat /\ off[m + 1] \in Nat /\ off[m] < off[m + 1]
    <2>1. off[m] \in Nat /\ off[m + 1] \in Nat /\ off[m] < off[m + 1]
        BY <1>1, <1>5 DEF Run
    <2>2. DOMAIN drives[m] = 1 .. Len(drives[m])
        <3> DEFINE V == Seq(S)
        <3>1. drives \in Seq(V)
            BY <1>4
        <3> HIDE DEF V
        <3>2. drives[m] \in V
            BY <3>1
        <3>3. drives[m] \in Seq(S)
            BY <3>2 DEF V
        <3> QED
            BY <3>3
    <2> QED
        BY <1>4, <2>1, <2>2 DEF Stretch
<1>7. \E drive \in Range(drives) : p \in Range(drive)
    <2>1. PICK i \in 1 .. N : seq[i] = p
        BY <1>1, <1>2
    <2>2. PICK m \in 1 .. L : off[m] <= i /\ i < off[m + 1]
        BY <1>5
    <2>3. i \in off[m] .. (off[m + 1] - 1)
        BY <1>1, <1>6, <2>2
    <2>4. p \in Range(drives[m])
        <3>1. Range(drives[m]) = Between(seq, off[m], off[m + 1])
            <4> DEFINE d == drives[m]
                       a == off[m]
                       b == off[m + 1]
            <4>1. Stretch(d, seq, a, b) /\ a \in Nat /\ b \in Nat /\ a < b
                BY <1>6
            <4> HIDE DEF d, a, b
            <4>2. Range(d) = Between(seq, a, b)
                BY <4>1, StretchRange
            <4> QED
                BY <4>2 DEF d, a, b
        <3> QED
            BY <2>1, <2>3, <3>1 DEF Between
    <2> QED
        BY <1>4, <2>4 DEF Range
<1>8. DriveOf(p) \in Range(drives) /\ p \in Range(DriveOf(p))
    BY <1>7 DEF DriveOf, drives
<1>9. \A drive \in Range(drives) :
          \E a, b \in Nat : Run(seq, N, a, b) /\ Stretch(drive, seq, a, b)
    BY <1>4, <1>5, <1>6 DEF Range
<1> QED
    BY <1>8, <1>9 DEF drives, seq, S

-----------------------------------------------------------------------------
(* The cut in SQL.                                                         *)

(* A list's rows have no holes: between two of them it has every row of    *)
(* their shift.                                                            *)
NoHoles(T) ==
    /\ T \subseteq Rows
    /\ \A p, r \in T : \A q \in Rows : p \in Earlier[q] /\ q \in Earlier[r] => q \in T

(* The places of a shift's rows.                                           *)
Placed(s, seq, N) ==
    /\ N \in Nat /\ seq = SegmentsOf(s) /\ N = Cardinality(ShiftRows(s))
    /\ \A i \in 1 .. N : seq[i] \in ShiftRows(s)
    /\ \A p \in ShiftRows(s) : \E i \in 1 .. N : seq[i] = p
    /\ \A i, j \in 1 .. N : seq[i] \in Earlier[seq[j]] <=> i < j
    /\ \A i, j \in 1 .. N : seq[i] = seq[j] => i = j

(* The list of a shift places its rows.                                    *)
LEMMA ShiftPlaced ==
    ASSUME DrivenInOrder, NEW s
    PROVE  Placed(s, SegmentsOf(s), Cardinality(ShiftRows(s)))
<1> DEFINE seq == SegmentsOf(s)
           N == Cardinality(ShiftRows(s))
<1>1. /\ N \in Nat
      /\ ShiftRows(s) \subseteq Part
      /\ \A i \in 1 .. N : seq[i] \in ShiftRows(s)
      /\ \A p \in ShiftRows(s) : \E i \in 1 .. N : seq[i] = p
      /\ \A i, j \in 1 .. N : seq[i] \in Earlier[seq[j]] <=> i < j
    BY SegmentsInOrder
<1> HIDE DEF seq, N
<1>2. ASSUME NEW i \in 1 .. N, NEW j \in 1 .. N, seq[i] = seq[j] PROVE i = j
    <2>1. ~(i < j) /\ ~(j < i)
        <3>1. seq[i] \notin Earlier[seq[j]] /\ seq[j] \notin Earlier[seq[i]]
            BY <1>1, <1>2, EarlierFacts
        <3> QED
            BY <1>1, <3>1
    <2> QED
        BY <1>1, <2>1
<1> QED
    BY <1>1, <1>2 DEF Placed, seq, N

(* The row before, in the list.                                            *)
LEMMA LagIs ==
    ASSUME DrivenInOrder, NEW T, NoHoles(T), NEW s, NEW seq, NEW N, Placed(s, seq, N),
           NEW i \in 1 .. N, seq[i] \in T
    PROVE  /\ (i = 1 \/ seq[i - 1] \notin T) => Lag(T, seq[i]) = {}
           /\ (i # 1 /\ seq[i - 1] \in T) => Lag(T, seq[i]) = {seq[i - 1]}
<1>1. \A j \in 1 .. N : seq[j] \in Rows /\ seq[j] \in Part /\ ShiftOf(seq[j]) = s
    BY RowsIn DEF Placed, ShiftRows
<1>2. ASSUME NEW q \in T \cap Earlier[seq[i]] PROVE \E j \in 1 .. N : j < i /\ q = seq[j]
    <2>1. q \in ShiftRows(s)
        BY <1>1, EarlierFacts DEF NoHoles, ShiftRows
    <2> QED
        BY <2>1 DEF Placed
<1>3. N \in Nat /\ \A j, k \in 1 .. N : seq[j] \in Earlier[seq[k]] <=> j < k
    BY DEF Placed
<1>4. ASSUME i = 1 \/ seq[i - 1] \notin T PROVE T \cap Earlier[seq[i]] = {}
    <2> SUFFICES ASSUME NEW q \in T \cap Earlier[seq[i]] PROVE FALSE
        OBVIOUS
    <2>1. PICK j \in 1 .. N : j < i /\ q = seq[j]
        BY <1>2
    <2>2. i - 1 \in 1 .. N /\ i - 1 < i /\ (j = i - 1 \/ j < i - 1)
        BY <1>3, <2>1
    <2>3. j < i - 1 /\ seq[i - 1] \notin T
        BY <1>4, <2>1, <2>2
    <2>4. seq[j] \in Earlier[seq[i - 1]] /\ seq[i - 1] \in Earlier[seq[i]] /\ seq[i - 1] \in Rows
        BY <1>1, <1>3, <2>2, <2>3
    <2> QED
        BY <2>1, <2>3, <2>4 DEF NoHoles
<1>5. ASSUME i # 1, seq[i - 1] \in T PROVE Lag(T, seq[i]) = {seq[i - 1]}
    <2>1. i - 1 \in 1 .. N /\ i - 1 < i
        BY <1>3, <1>5
    <2>2. seq[i - 1] \in T \cap Earlier[seq[i]]
        BY <1>3, <1>5, <2>1
    <2>3. T \cap Earlier[seq[i]] \subseteq Earlier[seq[i - 1]] \cup {seq[i - 1]}
        <3> SUFFICES ASSUME NEW q \in T \cap Earlier[seq[i]]
                     PROVE  q \in Earlier[seq[i - 1]] \cup {seq[i - 1]}
            OBVIOUS
        <3>1. PICK j \in 1 .. N : j < i /\ q = seq[j]
            BY <1>2
        <3>2. j = i - 1 \/ j < i - 1
            BY <1>3, <3>1
        <3> QED
            BY <1>3, <2>1, <3>1, <3>2
    <2>4. ASSUME NEW q \in Lag(T, seq[i]) PROVE q = seq[i - 1]
        <3>1. q \in T \cap Earlier[seq[i]] /\ seq[i - 1] \in Earlier[q] \cup {q}
            BY <2>2 DEF Lag
        <3>2. PICK j \in 1 .. N : j < i /\ q = seq[j]
            BY <1>2, <3>1
        <3>3. q = seq[i - 1] \/ i - 1 < j
            BY <1>3, <2>1, <3>1, <3>2
        <3> QED
            BY <1>3, <3>2, <3>3
    <2> QED
        BY <2>2, <2>3, <2>4 DEF Lag
<1> QED
    BY <1>4, <1>5 DEF Lag

(* A row that opens a drive in the list.                                   *)
OpenerIn(T, seq, i) == i = 1 \/ seq[i - 1] \notin T \/ Opener(seq, i)

(* The SQL breaks a list where the list has a hole or the shift has an     *)
(* opener.                                                                 *)
LEMMA BreaksIs ==
    ASSUME DrivenInOrder, NEW T, NoHoles(T), NEW s, NEW seq, NEW N, Placed(s, seq, N),
           NEW i \in 1 .. N, seq[i] \in T
    PROVE  Breaks(T, seq[i]) <=> OpenerIn(T, seq, i)
<1>1. CASE i = 1 \/ seq[i - 1] \notin T
    BY <1>1, LagIs DEF Breaks, OpenerIn
<1>2. CASE i # 1 /\ seq[i - 1] \in T
    <2>1. Lag(T, seq[i]) = {seq[i - 1]}
        BY <1>2, LagIs
    <2> QED
        BY <1>2, <2>1 DEF Breaks, OpenerIn, Opener
<1> QED
    BY <1>1, <1>2

(* The row a trip is named after.                                          *)
LEMMA TripIdIs ==
    ASSUME DrivenInOrder, NEW T, NoHoles(T), NEW s, NEW seq, NEW N, Placed(s, seq, N),
           NEW i \in 1 .. N, seq[i] \in T
    PROVE  \E a \in 1 .. i :
              /\ TripId(T, seq[i]) = seq[a] /\ seq[a] \in T /\ OpenerIn(T, seq, a)
              /\ \A j \in a + 1 .. i : seq[j] \in T /\ ~OpenerIn(T, seq, j)
<1> DEFINE p == seq[i]
           firsts == {r \in T \cap (Earlier[p] \cup {p}) : Breaks(T, r)}
           O == {j \in 1 .. i : seq[j] \in T /\ OpenerIn(T, seq, j)}
           In == {j \in 1 .. i : seq[j] \in T}
<1>0. N \in Nat /\ i \in Nat /\ i >= 1 /\ \A j \in 1 .. i : j \in 1 .. N
    BY DEF Placed
<1>1. \A j \in 1 .. N : seq[j] \in Rows /\ seq[j] \in Part /\ ShiftOf(seq[j]) = s
    BY RowsIn DEF Placed, ShiftRows
<1>2. \A j, k \in 1 .. N : seq[j] \in Earlier[seq[k]] <=> j < k
    BY DEF Placed
<1>3. PICK x \in In : \A k \in In : ~(k < x)
    <2>1. In \subseteq Nat /\ i \in In
        BY <1>0
    <2> HIDE DEF In
    <2> QED
        BY <2>1, LeastOne
<1>4. x \in O
    <2>1. ASSUME x # 1 PROVE seq[x - 1] \notin T
        <3>1. x - 1 \in 1 .. i /\ x - 1 < x
            BY <1>0, <1>3, <2>1
        <3> QED
            BY <1>3, <3>1
    <2> QED
        BY <1>3, <2>1 DEF OpenerIn
<1>5. PICK a \in O : \A k \in O : k <= a
    <2>1. O \subseteq 0 .. i
        BY <1>0
    <2> HIDE DEF O
    <2> QED
        BY <1>0, <1>4, <2>1, Largest
<1>6. \A r : r \in firsts <=> \E j \in O : r = seq[j]
    <2>1. ASSUME NEW r \in firsts PROVE \E j \in O : r = seq[j]
        <3>1. r \in T /\ r \in Rows /\ r \in Part /\ Breaks(T, r)
            BY RowsIn DEF NoHoles
        <3>2. r \in ShiftRows(s)
            BY <1>1, <3>1, EarlierFacts DEF ShiftRows
        <3>3. PICK j \in 1 .. N : r = seq[j]
            BY <3>2 DEF Placed
        <3>4. j \in 1 .. i
            <4>1. j < i \/ seq[j] = seq[i]
                BY <1>2, <3>3
            <4>2. j < i \/ j = i
                BY <4>1 DEF Placed
            <4> QED
                BY <1>0, <4>2
        <3>5. OpenerIn(T, seq, j)
            BY <3>1, <3>3, BreaksIs
        <3> QED
            BY <3>1, <3>3, <3>4, <3>5
    <2>2. ASSUME NEW j \in O PROVE seq[j] \in firsts
        <3>1. j \in 1 .. N /\ seq[j] \in T /\ (j < i \/ j = i)
            BY <1>0
        <3>2. Breaks(T, seq[j])
            BY <3>1, BreaksIs
        <3> QED
            BY <1>2, <3>1, <3>2
    <2> QED
        BY <2>1, <2>2
<1> HIDE DEF firsts
<1>7. LastOf(firsts) = seq[a]
    <2>1. seq[a] \in firsts
        BY <1>5, <1>6
    <2>2. firsts \subseteq Earlier[seq[a]] \cup {seq[a]}
        <3> SUFFICES ASSUME NEW j \in O PROVE seq[j] \in Earlier[seq[a]] \cup {seq[a]}
            BY <1>6
        <3>1. j < a \/ j = a
            BY <1>5
        <3> QED
            BY <1>0, <1>2, <1>5, <3>1
    <2>3. ASSUME NEW r \in firsts, firsts \subseteq Earlier[r] \cup {r} PROVE r = seq[a]
        <3>1. PICK j \in O : r = seq[j]
            BY <1>6
        <3>2. seq[a] \in Earlier[seq[j]] \cup {seq[j]}
            BY <2>1, <2>3, <3>1
        <3>3. ~(a < j)
            BY <1>0, <1>5, <3>1
        <3> QED
            BY <1>0, <1>2, <1>5, <3>1, <3>2, <3>3
    <2> QED
        BY <2>1, <2>2, <2>3 DEF LastOf
<1>8. TripId(T, seq[i]) = seq[a]
    BY <1>7 DEF TripId, firsts
<1>9. ASSUME NEW j \in a + 1 .. i PROVE seq[j] \in T /\ ~OpenerIn(T, seq, j)
    <2>1. a \in 1 .. N /\ j \in 1 .. i /\ j \in 1 .. N /\ a < j /\ (j < i \/ j = i)
        BY <1>0, <1>5
    <2>2. seq[j] \in T
        <3>1. CASE j = i
            BY <3>1
        <3>2. CASE j < i
            <4>1. seq[a] \in Earlier[seq[j]] /\ seq[j] \in Earlier[seq[i]] /\ seq[j] \in Rows
                BY <1>1, <1>2, <2>1, <3>2
            <4> QED
                BY <1>5, <4>1 DEF NoHoles
        <3> QED
            BY <2>1, <3>1, <3>2
    <2>3. j \notin O
        BY <1>5, <2>1
    <2> QED
        BY <2>1, <2>2, <2>3
<1> QED
    BY <1>5, <1>8, <1>9

(* Every row opens a stretch of its shift.                                 *)
LEMMA RowRun ==
    ASSUME DrivenInOrder, NEW s, NEW seq, NEW N, Placed(s, seq, N), NEW i \in 1 .. N
    PROVE  /\ DriveOf(seq[i]) \in Range(DrivesOf(s)) /\ seq[i] \in Range(DriveOf(seq[i]))
           /\ \E a, b \in Nat :
                 /\ Run(seq, N, a, b) /\ a <= i /\ i < b
                 /\ Stretch(DriveOf(seq[i]), seq, a, b)
<1>1. seq[i] \in Rows /\ ShiftOf(seq[i]) = s /\ N \in Nat
      /\ seq = SegmentsOf(s) /\ N = Cardinality(ShiftRows(s))
    BY DEF Placed, ShiftRows
<1>2. /\ DriveOf(seq[i]) \in Range(DrivesOf(s)) /\ seq[i] \in Range(DriveOf(seq[i]))
      /\ \A drive \in Range(DrivesOf(s)) :
            \E a, b \in Nat : Run(seq, N, a, b) /\ Stretch(drive, seq, a, b)
    BY <1>1, DriveIs
<1>3. PICK a \in Nat, b \in Nat : Run(seq, N, a, b) /\ Stretch(DriveOf(seq[i]), seq, a, b)
    BY <1>2
<1>4. a <= i /\ i < b
    <2>1. a < b /\ a >= 1 /\ b <= N + 1
        BY <1>3 DEF Run
    <2>2. PICK j \in a .. (b - 1) : seq[i] = seq[j]
        <3>1. Range(DriveOf(seq[i])) = Between(seq, a, b)
            BY <1>3, <2>1, StretchRange
        <3> QED
            BY <1>2, <3>1 DEF Between
    <2>3. j \in 1 .. N
        BY <1>1, <2>1
    <2>4. i = j
        BY <2>2, <2>3 DEF Placed
    <2> QED
        BY <2>2, <2>4
<1> QED
    BY <1>2, <1>3, <1>4

(* Two drives that share a row are one.                                    *)
LEMMA SameDrive ==
    ASSUME DrivenInOrder, NEW s, NEW seq, NEW N, Placed(s, seq, N),
           NEW i \in 1 .. N, NEW a \in Nat, NEW b \in Nat, Run(seq, N, a, b), a <= i, i < b
    PROVE  /\ Stretch(DriveOf(seq[i]), seq, a, b)
           /\ Range(DriveOf(seq[i])) = Between(seq, a, b)
<1>1. PICK c \in Nat, d \in Nat :
          /\ Run(seq, N, c, d) /\ c <= i /\ i < d /\ Stretch(DriveOf(seq[i]), seq, c, d)
    BY RowRun
<1>2. a = c /\ b = d
    <2>1. N \in Nat
        BY DEF Placed
    <2> QED
        BY <1>1, <2>1, RunUnique
<1>3. Stretch(DriveOf(seq[i]), seq, a, b) /\ a < b
    BY <1>1, <1>2
<1> QED
    BY <1>3, StretchRange

(* The row of a list is what the list has of the drive it opens.           *)
LEMMA TripDrive ==
    ASSUME DrivenInOrder, NEW T, NoHoles(T), NEW t \in TripsIn(T)
    PROVE  /\ t.id \in T /\ t.id \in Rows
           /\ DriveOf(t.id) \in Range(DrivesOf(ShiftOf(t.id))) /\ t.id \in Range(DriveOf(t.id))
           /\ \A p \in T : p \in Range(DriveOf(t.id)) <=> TripId(T, p) = t.id
           /\ Range(DriveOf(t.id)) \subseteq T => t.id = DriveOf(t.id)[1]
<1>1. PICK p \in T : TripId(T, p) = t.id
    BY TripsAreRows, RowsIn DEF NoHoles
<1> DEFINE s == ShiftOf(p)
           seq == SegmentsOf(s)
           N == Cardinality(ShiftRows(s))
<1>2. Placed(s, seq, N)
    BY ShiftPlaced
<1>3. p \in Rows /\ p \in ShiftRows(s)
    BY DEF NoHoles, ShiftRows
<1> HIDE DEF seq, N, s
<1>4. /\ N \in Nat
      /\ \A j \in 1 .. N : seq[j] \in Rows /\ seq[j] \in Part /\ ShiftOf(seq[j]) = s
      /\ \A j, k \in 1 .. N : seq[j] \in Earlier[seq[k]] <=> j < k
      /\ \A j, k \in 1 .. N : seq[j] = seq[k] => j = k
    BY <1>2, RowsIn DEF Placed, ShiftRows
<1>5. PICK i \in 1 .. N : seq[i] = p
    BY <1>2, <1>3 DEF Placed
<1>6. PICK a \in 1 .. i :
          /\ TripId(T, p) = seq[a] /\ seq[a] \in T /\ OpenerIn(T, seq, a)
          /\ \A j \in a + 1 .. i : seq[j] \in T /\ ~OpenerIn(T, seq, j)
    <2>1. seq[i] \in T
        BY <1>5
    <2> QED
        BY <1>2, <1>5, <2>1, TripIdIs
<1>7. a \in 1 .. N /\ t.id = seq[a]
    BY <1>1, <1>4, <1>6
<1>8. PICK A \in Nat, B \in Nat : Run(seq, N, A, B) /\ A <= a /\ a < B
    BY <1>2, <1>7, RowRun
<1>9. /\ Stretch(DriveOf(t.id), seq, A, B) /\ A >= 1 /\ B <= N + 1
      /\ Range(DriveOf(t.id)) = Between(seq, A, B)
    BY <1>2, <1>7, <1>8, SameDrive DEF Run
<1>10. ASSUME NEW j \in 1 .. N, NEW c \in 1 .. j, c >= A, c < B,
              \A k \in c + 1 .. j : ~OpenerIn(T, seq, k)
       PROVE  j < B
    <2>1. B = N + 1 \/ Opener(seq, B)
        BY <1>8 DEF Run
    <2>2. ~(B \in c + 1 .. j)
        BY <1>4, <1>10, <2>1 DEF OpenerIn
    <2> QED
        BY <1>10, <2>2
<1>11. ASSUME NEW j \in A .. (B - 1), seq[j] \in T PROVE TripId(T, seq[j]) = seq[a]
    <2>1. j \in 1 .. N
        BY <1>4, <1>9
    <2>2. PICK c \in 1 .. j :
              /\ TripId(T, seq[j]) = seq[c] /\ seq[c] \in T /\ OpenerIn(T, seq, c)
              /\ \A k \in c + 1 .. j : seq[k] \in T /\ ~OpenerIn(T, seq, k)
        BY <1>2, <1>11, <2>1, TripIdIs
    <2>3. c >= A
        <3> SUFFICES ASSUME c < A PROVE FALSE
            BY <1>8
        <3>1. A \in c + 1 .. j /\ Opener(seq, A)
            BY <1>8, <1>11, <2>2 DEF Run
        <3> QED
            BY <2>2, <3>1 DEF OpenerIn
    <2>4. ASSUME NEW x \in A .. (B - 1), NEW y \in A .. (B - 1), x < y,
                 seq[x] \in T, seq[y] \in T, OpenerIn(T, seq, y)
          PROVE  FALSE
        <3>1. x \in 1 .. N /\ y \in 1 .. N /\ y - 1 \in 1 .. N /\ y # 1
            BY <1>4, <1>9, <2>4
        <3>2. ~Opener(seq, y)
            BY <1>8, <2>4 DEF Run
        <3>3. seq[y - 1] \in T
            <4>1. x = y - 1 \/ x < y - 1
                BY <2>4
            <4>2. ASSUME x < y - 1 PROVE seq[y - 1] \in T
                <5>1. /\ seq[x] \in Earlier[seq[y - 1]] /\ seq[y - 1] \in Earlier[seq[y]]
                      /\ seq[y - 1] \in Rows
                    BY <1>4, <3>1, <4>2
                <5> QED
                    BY <2>4, <5>1 DEF NoHoles
            <4> QED
                BY <2>4, <4>1, <4>2
        <3> QED
            BY <2>4, <3>1, <3>2, <3>3 DEF OpenerIn
    <2>5. c \in A .. (B - 1) /\ a \in A .. (B - 1)
        BY <1>8, <2>2, <2>3
    <2>6. ~(a < c) /\ ~(c < a)
        BY <1>6, <2>2, <2>4, <2>5
    <2>7. a = c
        BY <2>5, <2>6
    <2> QED
        BY <2>2, <2>7
<1>12. ASSUME NEW q \in T, TripId(T, q) = seq[a] PROVE q \in Range(DriveOf(t.id))
    <2>1. Placed(ShiftOf(q), SegmentsOf(ShiftOf(q)), Cardinality(ShiftRows(ShiftOf(q))))
        BY ShiftPlaced
    <2> DEFINE u == ShiftOf(q)
               uSeq == SegmentsOf(u)
               M == Cardinality(ShiftRows(u))
    <2>2. q \in ShiftRows(u)
        BY DEF NoHoles, ShiftRows
    <2>3. PICK k \in 1 .. M : uSeq[k] = q
        BY <2>1, <2>2 DEF Placed
    <2>4. PICK c \in 1 .. k :
              /\ TripId(T, uSeq[k]) = uSeq[c]
              /\ \A j \in c + 1 .. k : uSeq[j] \in T /\ ~OpenerIn(T, uSeq, j)
        <3>1. uSeq[k] \in T
            BY <2>3
        <3> HIDE DEF uSeq, M, u
        <3>2. Placed(u, uSeq, M)
            BY <2>1 DEF u, uSeq, M
        <3> QED
            BY <2>3, <3>1, <3>2, TripIdIs
    <2>5. u = s
        <3>1. M \in Nat /\ \A j \in 1 .. M : ShiftOf(uSeq[j]) = u
            BY <2>1 DEF Placed, ShiftRows
        <3>2. ShiftOf(uSeq[c]) = u
            BY <2>4, <3>1
        <3> QED
            BY <1>4, <1>7, <1>12, <2>3, <2>4, <3>2
    <2>6. uSeq = seq /\ M = N
        BY <2>5 DEF seq, N
    <2>7. k \in 1 .. N /\ c \in 1 .. N /\ c = a
        <3>1. k \in 1 .. N /\ c \in 1 .. N
            BY <1>4, <2>4, <2>6
        <3> QED
            BY <1>4, <1>7, <1>12, <2>3, <2>4, <2>6, <3>1
    <2>8. k < B
        BY <1>8, <1>10, <2>4, <2>6, <2>7
    <2>9. k \in A .. (B - 1) /\ q = seq[k]
        BY <1>8, <2>3, <2>4, <2>6, <2>7, <2>8
    <2> QED
        BY <1>9, <2>9 DEF Between
<1>13. ASSUME Range(DriveOf(t.id)) \subseteq T PROVE t.id = DriveOf(t.id)[1]
    <2>1. A = a
        <3> SUFFICES ASSUME A < a PROVE FALSE
            BY <1>8
        <3>1. ~Opener(seq, a) /\ a - 1 \in A .. (B - 1) /\ a # 1
            BY <1>8, <1>9 DEF Run
        <3>2. seq[a - 1] \in T
            BY <1>9, <1>13, <3>1 DEF Between
        <3> QED
            BY <1>6, <3>1, <3>2 DEF OpenerIn
    <2>2. A < B
        BY <1>8
    <2>3. DriveOf(t.id)[1] = seq[A]
        BY <1>9, <2>2, StretchRange
    <2> QED
        BY <1>7, <2>1, <2>3
<1>14. /\ DriveOf(t.id) \in Range(DrivesOf(ShiftOf(t.id))) /\ t.id \in Range(DriveOf(t.id))
       /\ t.id \in T /\ t.id \in Rows
    <2>1. ShiftOf(t.id) = s
        BY <1>4, <1>7
    <2>2. DriveOf(t.id) \in Range(DrivesOf(s)) /\ t.id \in Range(DriveOf(t.id))
        BY <1>2, <1>7, RowRun
    <2> QED
        BY <1>4, <1>6, <1>7, <2>1, <2>2
<1>15. \A q \in T : q \in Range(DriveOf(t.id)) <=> TripId(T, q) = t.id
    <2>1. ASSUME NEW q \in T, q \in Range(DriveOf(t.id)) PROVE TripId(T, q) = t.id
        BY <1>7, <1>9, <1>11, <2>1 DEF Between
    <2> QED
        BY <1>7, <1>12, <2>1
<1> QED
    BY <1>13, <1>14, <1>15

(* No two rows of a list open the same drive.                              *)
LEMMA TripsApart ==
    ASSUME DrivenInOrder, NEW T, NoHoles(T), NEW t \in TripsIn(T), NEW u \in TripsIn(T), t # u
    PROVE  Range(DriveOf(t.id)) \cap Range(DriveOf(u.id)) = {}
<1> SUFFICES ASSUME NEW q \in Range(DriveOf(t.id)), q \in Range(DriveOf(u.id)) PROVE t.id = u.id
    BY TripsAreRows, RowsIn DEF NoHoles
<1>1. /\ t.id \in T /\ t.id \in Rows /\ u.id \in T /\ u.id \in Rows
      /\ u.id \in Range(DriveOf(u.id))
      /\ \A p \in T : p \in Range(DriveOf(t.id)) <=> TripId(T, p) = t.id
      /\ \A p \in T : p \in Range(DriveOf(u.id)) <=> TripId(T, p) = u.id
    BY TripDrive
<1>2. ASSUME NEW x \in Rows
      PROVE  LET s == ShiftOf(x)
                 seq == SegmentsOf(s)
                 N == Cardinality(ShiftRows(s))
             IN  /\ Placed(s, seq, N)
                 /\ \E a, b \in Nat :
                       /\ Run(seq, N, a, b)
                       /\ Range(DriveOf(x)) = Between(seq, a, b)
    <2> DEFINE s == ShiftOf(x)
               seq == SegmentsOf(s)
               N == Cardinality(ShiftRows(s))
    <2>1. Placed(s, seq, N)
        BY ShiftPlaced
    <2>2. x \in ShiftRows(s)
        BY DEF ShiftRows
    <2> HIDE DEF seq, N, s
    <2>3. PICK i \in 1 .. N : seq[i] = x
        BY <2>1, <2>2 DEF Placed
    <2>4. PICK a \in Nat, b \in Nat : Run(seq, N, a, b) /\ a <= i /\ i < b
        BY <2>1, RowRun
    <2>5. Range(DriveOf(x)) = Between(seq, a, b)
        BY <2>1, <2>3, <2>4, SameDrive
    <2> QED
        BY <2>1, <2>4, <2>5 DEF seq, N, s
<1> DEFINE s == ShiftOf(t.id)
           seq == SegmentsOf(s)
           N == Cardinality(ShiftRows(s))
           v == ShiftOf(u.id)
           vSeq == SegmentsOf(v)
           M == Cardinality(ShiftRows(v))
<1>3. PICK a \in Nat, b \in Nat :
          /\ Placed(s, seq, N) /\ Run(seq, N, a, b)
          /\ Range(DriveOf(t.id)) = Between(seq, a, b)
    BY <1>1, <1>2
<1>4. PICK c \in Nat, d \in Nat :
          /\ Placed(v, vSeq, M) /\ Run(vSeq, M, c, d)
          /\ Range(DriveOf(u.id)) = Between(vSeq, c, d)
    BY <1>1, <1>2
<1>5. PICK i \in a .. (b - 1) : q = seq[i]
    BY <1>3 DEF Between
<1>6. PICK k \in c .. (d - 1) : q = vSeq[k]
    BY <1>4 DEF Between
<1>7. i \in 1 .. N /\ k \in 1 .. M /\ N \in Nat
    <2>1. N \in Nat /\ M \in Nat
        BY <1>3, <1>4 DEF Placed
    <2> HIDE DEF seq, N, vSeq, M
    <2> QED
        BY <1>3, <1>4, <2>1 DEF Run
<1>8. s = v
    <2>1. ShiftOf(seq[i]) = s /\ ShiftOf(vSeq[k]) = v
        <3> HIDE DEF s, v, seq, vSeq, N, M
        <3> QED
            BY <1>3, <1>4, <1>7 DEF Placed, ShiftRows
    <2> QED
        BY <1>5, <1>6, <2>1
<1>9. seq = vSeq /\ N = M
    BY <1>8
<1> HIDE DEF s, v, seq, vSeq, N, M
<1>10. a = c /\ b = d
    <2>1. i = k
        BY <1>3, <1>5, <1>6, <1>7, <1>9 DEF Placed
    <2>2. a <= i /\ i < b /\ c <= i /\ i < d
        BY <2>1
    <2> QED
        BY <1>3, <1>4, <1>7, <1>9, <2>2, RunUnique
<1>11. u.id \in Range(DriveOf(t.id))
    BY <1>1, <1>3, <1>4, <1>9, <1>10
<1> QED
    BY <1>1, <1>11

-----------------------------------------------------------------------------
(* The rows and the drives they open.                                      *)

(* A drive's legs: where each begins, and what it holds.                   *)
LEMMA LegIs ==
    ASSUME NEW drive, NEW n \in Nat, DOMAIN drive = 1 .. n, Len(drive) = n
    PROVE  /\ \A i \in LegStarts(drive) : i \in 1 .. n
           /\ \A j \in 1 .. n : \E i \in LegStarts(drive) :
                 i <= j /\ \A l \in LegStarts(drive) : ~(i < l /\ l <= j)
           /\ \A i \in LegStarts(drive) : \A k \in i .. n :
                 (\A l \in LegStarts(drive) : ~(i < l /\ l <= k)) =>
                     StateOfPart(drive[k]) = StateOfPart(drive[i])
<1> DEFINE G == LegStarts(drive)
<1>1. \A i \in 1 .. n : i \in G \/ (i # 1 /\ StateOfPart(drive[i]) = StateOfPart(drive[i - 1]))
    BY DEF LegStarts
<1>2. \A i \in G : i \in 1 .. n
    BY DEF LegStarts
<1> HIDE DEF G
<1>3. ASSUME NEW j \in 1 .. n PROVE \E i \in G : i <= j /\ \A l \in G : ~(i < l /\ l <= j)
    <2> DEFINE U == {i \in G : i <= j}
    <2>1. 1 \in U
        BY <1>1
    <2>2. U \subseteq 0 .. n
        BY <1>2
    <2>3. PICK i \in U : \A k \in U : k <= i
        <3> HIDE DEF U
        <3> QED
            BY <2>1, <2>2, Largest
    <2>4. \A l \in G : ~(i < l /\ l <= j)
        BY <1>2, <2>3
    <2> QED
        BY <2>3, <2>4
<1>4. ASSUME NEW i \in G, NEW k \in i .. n, \A l \in G : ~(i < l /\ l <= k)
      PROVE  StateOfPart(drive[k]) = StateOfPart(drive[i])
    <2> DEFINE U == {m \in i .. k : StateOfPart(drive[m]) # StateOfPart(drive[i])}
    <2> SUFFICES ASSUME U # {} PROVE FALSE
        BY <1>2
    <2>1. PICK m \in U : \A o \in U : ~(o < m)
        <3>1. U \subseteq Nat
            BY <1>2
        <3> HIDE DEF U
        <3> QED
            BY <3>1, LeastOne
    <2>2. m # i /\ m \in 1 .. n /\ m - 1 \in i .. k /\ m - 1 < m /\ i < m /\ m <= k
        BY <1>2, <2>1
    <2>3. StateOfPart(drive[m - 1]) = StateOfPart(drive[i])
        BY <2>1, <2>2
    <2>4. m \notin G
        BY <1>4, <2>2
    <2> QED
        BY <1>1, <2>1, <2>2, <2>3, <2>4
<1> QED
    BY <1>2, <1>3, <1>4 DEF G

(* A trip's page adds up its billable legs: the same as its row.           *)
LEMMA LegsAdd ==
    ASSUME NEW drive, NEW n \in Nat, DOMAIN drive = 1 .. n, Len(drive) = n,
           \A j \in 1 .. n : drive[j] \in Part,
           \A j, k \in 1 .. n : drive[j] = drive[k] => j = k
    PROVE  LegsKm(drive) = TotalsFor(Range(drive))
<1> DEFINE G == {i \in LegStarts(drive) : StateOfPart(drive[i]) = "BILLABLE"}
           B == Billable(Range(drive))
           g == [p \in B |-> CHOOSE i \in G : p \in LegFrom(drive, i)]
<1>0. Range(drive) = {drive[j] : j \in 1 .. n}
    BY DEF Range
<1>1. B \subseteq Part
    BY <1>0 DEF Billable
<1>2. G \subseteq 1 .. n /\ IsFiniteSet(G)
    <2>1. G \subseteq 1 .. n
        BY LegIs
    <2>2. IsFiniteSet(1 .. n)
        BY FS_Interval
    <2> HIDE DEF G
    <2> QED
        BY <2>1, <2>2, FS_Subset
<1>3. \A i \in G : LegFrom(drive, i) =
          {drive[j] : j \in {k \in i .. n : \A l \in LegStarts(drive) : ~(i < l /\ l <= k)}}
    BY DEF LegFrom
<1>4. ASSUME NEW p \in B PROVE \E i \in G : p \in LegFrom(drive, i)
    <2>1. PICK j \in 1 .. n : p = drive[j]
        BY <1>0 DEF Billable
    <2>2. PICK i \in LegStarts(drive) : i <= j /\ \A l \in LegStarts(drive) : ~(i < l /\ l <= j)
        BY LegIs
    <2>3. j \in i .. n /\ i \in 1 .. n
        BY <2>2, LegIs
    <2>4. StateOfPart(drive[j]) = StateOfPart(drive[i])
        BY <2>2, <2>3, LegIs
    <2>5. i \in G
        BY <2>1, <2>4 DEF Billable
    <2> QED
        BY <1>3, <2>1, <2>2, <2>3, <2>5
<1>5. ASSUME NEW i \in G PROVE LegFrom(drive, i) \subseteq B
    <2> SUFFICES ASSUME NEW p \in LegFrom(drive, i) PROVE p \in B
        OBVIOUS
    <2>1. PICK k \in i .. n : p = drive[k] /\ \A l \in LegStarts(drive) : ~(i < l /\ l <= k)
        BY <1>3
    <2>2. StateOfPart(drive[k]) = "BILLABLE" /\ k \in 1 .. n
        BY <1>2, <2>1, LegIs
    <2> QED
        BY <1>0, <2>1, <2>2 DEF Billable
<1>6. ASSUME NEW i \in G, NEW m \in G, NEW p \in LegFrom(drive, i), p \in LegFrom(drive, m)
      PROVE  i = m
    <2>1. PICK k \in i .. n : p = drive[k] /\ \A l \in LegStarts(drive) : ~(i < l /\ l <= k)
        BY <1>3
    <2>2. PICK o \in m .. n : p = drive[o] /\ \A l \in LegStarts(drive) : ~(m < l /\ l <= o)
        BY <1>3, <1>6
    <2>3. i \in 1 .. n /\ m \in 1 .. n /\ k \in 1 .. n /\ o \in 1 .. n
        BY <1>2
    <2>4. k = o
        BY <2>1, <2>2, <2>3
    <2>5. ~(i < m) /\ ~(m < i)
        BY <2>1, <2>2, <2>3, <2>4
    <2> QED
        BY <2>3, <2>5
<1>7. \A p \in B : g[p] \in G /\ p \in LegFrom(drive, g[p])
    BY <1>4
<1>8. g \in [B -> G]
    BY <1>7
<1> HIDE DEF g, B, G
<1>9. SumOver([i \in G |-> KmOf({p \in B : g[p] = i})]) = KmOf(B)
    <2>1. B \subseteq Part /\ IsFiniteSet(G) /\ g \in [B -> G]
        BY <1>1, <1>2, <1>8
    <2> QED
        BY ONLY <2>1, KmGrouped
<1>10. \A i \in G : {p \in B : g[p] = i} = LegFrom(drive, i)
    BY <1>5, <1>6, <1>7
<1>11. [i \in G |-> KmOf({p \in B : g[p] = i})] = [i \in G |-> KmOf(LegFrom(drive, i))]
    BY <1>10
<1>12. LegsKm(drive) = SumOver([i \in G |-> KmOf(LegFrom(drive, i))])
    BY DEF LegsKm, G
<1> QED
    BY <1>9, <1>11, <1>12 DEF TotalsFor, B

(* A drive has each of its rows once, all of one shift.                    *)
LEMMA DriveShape ==
    ASSUME DrivenInOrder, NEW x \in Rows
    PROVE  \E n \in Nat :
              LET drive == DriveOf(x)
              IN  /\ DOMAIN drive = 1 .. n /\ Len(drive) = n
                  /\ \A j \in 1 .. n : drive[j] \in ShiftRows(ShiftOf(x))
                  /\ \A j, k \in 1 .. n : drive[j] = drive[k] => j = k
<1> DEFINE s == ShiftOf(x)
           seq == SegmentsOf(s)
           N == Cardinality(ShiftRows(s))
           drive == DriveOf(x)
<1>1. Placed(s, seq, N)
    BY ShiftPlaced
<1>2. x \in ShiftRows(s)
    BY DEF ShiftRows
<1> HIDE DEF seq, N, drive
<1>3. PICK i \in 1 .. N : seq[i] = x
    BY <1>1, <1>2 DEF Placed
<1>4. PICK a \in Nat, b \in Nat : Run(seq, N, a, b) /\ Stretch(drive, seq, a, b)
    BY <1>1, <1>3, RowRun DEF drive
<1>5. N \in Nat /\ a >= 1 /\ b <= N + 1 /\ b - a \in Nat
    BY <1>1, <1>4 DEF Run, Placed
<1>6. \A j \in 1 .. (b - a) : a + j - 1 \in 1 .. N /\ drive[j] = seq[a + j - 1]
    BY <1>4, <1>5 DEF Stretch
<1>7. \A j \in 1 .. (b - a) : drive[j] \in ShiftRows(s)
    BY <1>1, <1>6 DEF Placed
<1>8. ASSUME NEW j \in 1 .. (b - a), NEW k \in 1 .. (b - a), drive[j] = drive[k] PROVE j = k
    <2>1. a + j - 1 = a + k - 1
        BY <1>1, <1>6, <1>8 DEF Placed
    <2> QED
        BY <2>1
<1>9. DOMAIN drive = 1 .. (b - a) /\ Len(drive) = b - a
    BY <1>4 DEF Stretch
<1> QED
    BY <1>5, <1>7, <1>8, <1>9 DEF drive

(* Later rows are of later days, or of the same.                           *)
LEMMA DayMonotone ==
    ASSUME NEW p \in Part, NEW q \in Part, StartedAt[p] <= StartedAt[q]
    PROVE  DayOf(p) <= DayOf(q) /\ DayOf(p) \in Int /\ DayOf(q) \in Int
<1> DEFINE n == DayLength
           a == StartedAt[p]
           b == StartedAt[q]
           x == a \div n
           y == b \div n
<1>1. n \in Nat \ {0} /\ a \in Nat /\ b \in Nat /\ a <= b
    BY PartTimes, TripsAssumption
<1> HIDE DEF n, a, b
<1>2. /\ x \in Nat /\ n * x <= a /\ a < n * x + n
      /\ y \in Nat /\ n * y <= b /\ b < n * y + n
    BY <1>1, DivFacts
<1> HIDE DEF x, y
<1>3. x <= y
    <2> SUFFICES ASSUME y < x PROVE FALSE
        BY <1>2
    <2>1. n * (x - y - 1) >= 0
        BY <1>1, <1>2
    <2>2. n * y + n <= n * x /\ n * y \in Nat /\ n * x \in Nat
        BY <1>1, <1>2, <2>1
    <2> QED
        BY <1>1, <1>2, <2>2
<1> QED
    BY <1>2, <1>3 DEF DayOf, n, a, b, x, y

(* The lists: a driver's feed, a campaign's, and a driver's day.           *)
LEMMA ListsHaveNoHoles ==
    ASSUME DrivenInOrder
    PROVE  /\ \A of \in FeedSubjects :
                 /\ NoHoles(FeedRows(of))
                 /\ \A p \in FeedRows(of) : ShiftRows(ShiftOf(p)) \subseteq FeedRows(of)
           /\ \A d \in Drivers, day \in Days :
                 /\ NoHoles(OnDay(OfDriver(d), day))
                 /\ \A p \in OnDay(OfDriver(d), day) : ShiftRows(ShiftOf(p)) \subseteq OfDriver(d)
<1>1. \A d : /\ OfDriver(d) \subseteq Rows
             /\ \A p \in OfDriver(d) : ShiftRows(ShiftOf(p)) \subseteq OfDriver(d)
    BY DEF OfDriver, ShiftRows, DriverOf
<1>2. \A c : /\ OfCampaign(c) \subseteq Rows
             /\ \A p \in OfCampaign(c) : ShiftRows(ShiftOf(p)) \subseteq OfCampaign(c)
    BY DEF OfCampaign, ShiftRows, CampaignOf
<1>3. ASSUME NEW T, T \subseteq Rows, \A p \in T : ShiftRows(ShiftOf(p)) \subseteq T
      PROVE  NoHoles(T)
    <2> SUFFICES ASSUME NEW p \in T, NEW r \in T, NEW q \in Rows, p \in Earlier[q]
                 PROVE  q \in T
        BY <1>3 DEF NoHoles
    <2>1. ShiftOf(p) = ShiftOf(q)
        BY EarlierFacts, RowsIn
    <2> QED
        BY <1>3, <2>1 DEF ShiftRows
<1>4. \A of \in FeedSubjects :
          /\ FeedRows(of) \subseteq Rows
          /\ \A p \in FeedRows(of) : ShiftRows(ShiftOf(p)) \subseteq FeedRows(of)
    BY <1>1, <1>2 DEF FeedRows
<1>5. ASSUME NEW d \in Drivers, NEW day \in Days
      PROVE  /\ NoHoles(OnDay(OfDriver(d), day))
             /\ \A p \in OnDay(OfDriver(d), day) : ShiftRows(ShiftOf(p)) \subseteq OfDriver(d)
    <2> DEFINE T == OnDay(OfDriver(d), day)
    <2>1. T \subseteq Rows /\ T \subseteq OfDriver(d) /\ T \subseteq Part
        BY <1>1, RowsIn DEF OnDay
    <2>2. ASSUME NEW p \in T, NEW r \in T, NEW q \in Rows, p \in Earlier[q], q \in Earlier[r]
          PROVE  q \in T
        <3>1. q \in Part /\ p \in Part /\ r \in Part
            BY <2>1, RowsIn
        <3>2. /\ ShiftOf(p) = ShiftOf(q)
              /\ StartedAt[p] <= StartedAt[q] /\ StartedAt[q] <= StartedAt[r]
            BY <2>2, <3>1, EarlierFacts
        <3>3. DayOf(p) <= DayOf(q) /\ DayOf(q) <= DayOf(r) /\ DayOf(q) \in Int
              /\ DayOf(p) = day /\ DayOf(r) = day
            BY <3>1, <3>2, DayMonotone DEF OnDay
        <3>4. DayOf(q) = day
            <4> DEFINE x == DayOf(q)
            <4>1. day <= x /\ x <= day /\ x \in Int /\ day \in Int
                BY <3>1, <3>2, <3>3, DayMonotone
            <4> HIDE DEF x
            <4>2. x = day
                BY <4>1
            <4> QED
                BY <4>2 DEF x
        <3>5. q \in OfDriver(d)
            BY <1>1, <2>1, <3>2 DEF ShiftRows
        <3> QED
            BY <3>4, <3>5 DEF OnDay
    <2> QED
        BY <1>1, <2>1, <2>2 DEF NoHoles
<1> QED
    BY <1>3, <1>4, <1>5

(* A feed's row is the whole drive it opens.                               *)
LEMMA RowIsDrive ==
    ASSUME DrivenInOrder, NEW T, NoHoles(T), NEW t \in TripsIn(T),
           \A p \in T : ShiftRows(ShiftOf(p)) \subseteq T
    PROVE  /\ t.parts = Range(DriveOf(t.id)) /\ t.id = DriveOf(t.id)[1]
           /\ t.km = LegsKm(DriveOf(t.id)) /\ t.status = StatusOf(Range(DriveOf(t.id)))
<1> DEFINE drive == DriveOf(t.id)
<1>1. /\ t.id \in T /\ t.id \in Rows
      /\ \A p \in T : p \in Range(drive) <=> TripId(T, p) = t.id
      /\ Range(drive) \subseteq T => t.id = drive[1]
    BY TripDrive
<1>2. PICK n \in Nat :
         /\ DOMAIN drive = 1 .. n /\ Len(drive) = n
         /\ \A j \in 1 .. n : drive[j] \in ShiftRows(ShiftOf(t.id))
         /\ \A j, k \in 1 .. n : drive[j] = drive[k] => j = k
    BY <1>1, DriveShape
<1>3. /\ T \subseteq Part /\ t.parts = {p \in T : TripId(T, p) = t.id}
      /\ t = Trip(t.id, t.parts) /\ t.km = TotalsFor(t.parts)
    BY TripsAreRows, RowsIn DEF NoHoles
<1> HIDE DEF drive
<1>4. Range(drive) \subseteq T
    BY <1>1, <1>2 DEF Range
<1>5. t.parts = Range(drive)
    BY <1>1, <1>3, <1>4
<1>6. LegsKm(drive) = TotalsFor(Range(drive))
    <2>1. \A j \in 1 .. n : drive[j] \in Part
        BY <1>1, <1>2, <1>3
    <2> QED
        BY <1>2, <2>1, LegsAdd
<1>7. t.status = StatusOf(t.parts)
    BY <1>3 DEF Trip
<1> QED
    BY <1>1, <1>3, <1>4, <1>5, <1>6, <1>7 DEF drive

(* A day's row is that day's part of the drive it opens.                   *)
LEMMA DayRow ==
    ASSUME DrivenInOrder, NEW d \in Drivers, NEW day \in Days,
           NEW t \in TripsIn(OnDay(OfDriver(d), day))
    PROVE  t.parts = OnDay(Range(DriveOf(t.id)), day)
<1> DEFINE T == OnDay(OfDriver(d), day)
           drive == DriveOf(t.id)
<1>0. NoHoles(T) /\ \A p \in T : ShiftRows(ShiftOf(p)) \subseteq OfDriver(d)
    BY ListsHaveNoHoles
<1>1. /\ t.id \in T /\ t.id \in Rows
      /\ \A p \in T : p \in Range(drive) <=> TripId(T, p) = t.id
    BY <1>0, TripDrive
<1>2. PICK n \in Nat : DOMAIN drive = 1 .. n
                       /\ \A j \in 1 .. n : drive[j] \in ShiftRows(ShiftOf(t.id))
    BY <1>1, DriveShape
<1>3. t.parts = {p \in T : TripId(T, p) = t.id}
    <2>1. T \subseteq Part
        BY RowsIn DEF OnDay
    <2> QED
        BY <2>1, TripsAreRows
<1> HIDE DEF drive
<1>4. Range(drive) \subseteq OfDriver(d)
    <2> HIDE DEF T
    <2> QED
        BY <1>0, <1>1, <1>2 DEF Range
<1> QED
    BY <1>1, <1>3, <1>4 DEF OnDay, drive

(* A row of a feed opens the drive it shows, whole, with its distance and  *)
(* its badge; a day's row opens the drive it is a part of; no two rows of  *)
(* a list open the same one.                                               *)
THEOREM RowsOpenTheirDrives ==
    ASSUME DrivenInOrder
    PROVE  TripsSpec => []RowOpensItsDrive
<1>1. ASSUME NEW T, NoHoles(T)
      PROVE  /\ \A t \in TripsIn(T) : \E drive \in Range(DrivesOf(ShiftOf(t.id))) :
                    t.id \in Range(drive)
             /\ \A t, u \in TripsIn(T) :
                    t # u => Range(DriveOf(t.id)) \cap Range(DriveOf(u.id)) = {}
    <2>1. \A t \in TripsIn(T) : /\ DriveOf(t.id) \in Range(DrivesOf(ShiftOf(t.id)))
                                /\ t.id \in Range(DriveOf(t.id))
        BY <1>1, TripDrive
    <2> QED
        BY <1>1, <2>1, TripsApart
<1>2. ASSUME NEW of \in FeedSubjects
      PROVE  LET T == FeedRows(of)
             IN  /\ NoHoles(T)
                 /\ \A t \in TripsIn(T) :
                       /\ t.parts = Range(DriveOf(t.id)) /\ t.id = DriveOf(t.id)[1]
                       /\ t.km = LegsKm(DriveOf(t.id))
                       /\ t.status = StatusOf(Range(DriveOf(t.id)))
    BY ListsHaveNoHoles, RowIsDrive
<1>3. ASSUME NEW d \in Drivers, NEW day \in Days
      PROVE  LET T == OnDay(OfDriver(d), day)
             IN  /\ NoHoles(T)
                 /\ \A t \in TripsIn(T) : t.parts = OnDay(Range(DriveOf(t.id)), day)
    BY ListsHaveNoHoles, DayRow
<1>4. RowOpensItsDrive
    BY <1>1, <1>2, <1>3 DEF RowOpensItsDrive
<1> QED
    BY <1>4, PTL

-----------------------------------------------------------------------------
(* The waits between trips.                                                *)

(* A list that has the whole shift of each of its rows.                    *)
WholeShifts(T) == T \subseteq Rows /\ \A p \in T : ShiftRows(ShiftOf(p)) \subseteq T

(* A row that opens a drive, and the time since the row before it.         *)
StartsTrip(x) == x \in Rows /\ Breaks(Rows, x)

WaitOf(x) ==
    IF Lag(Rows, x) = {} THEN NoWait ELSE StartedAt[x] - EndedAt[CHOOSE q \in Lag(Rows, x) : TRUE]

(* All the rows are such a list, and it has no holes.                      *)
LEMMA WholeFacts ==
    ASSUME DrivenInOrder
    PROVE  /\ WholeShifts(Rows)
           /\ \A T : WholeShifts(T) => NoHoles(T) /\ T \subseteq Part
<1>1. WholeShifts(Rows)
    BY DEF WholeShifts, ShiftRows
<1>2. ASSUME NEW T, WholeShifts(T) PROVE NoHoles(T) /\ T \subseteq Part
    <2>1. T \subseteq Part /\ T \subseteq Rows
        BY <1>2, RowsIn DEF WholeShifts
    <2>2. ASSUME NEW p \in T, NEW q \in Rows, p \in Earlier[q] PROVE q \in T
        <3>1. ShiftOf(p) = ShiftOf(q)
            BY <2>2, EarlierFacts, RowsIn
        <3> QED
            BY <1>2, <3>1 DEF WholeShifts, ShiftRows
    <2> QED
        BY <2>1, <2>2 DEF NoHoles
<1> QED
    BY <1>1, <1>2

(* Such a list sees the rows before one of its rows as the ledger has them. *)
LEMMA WholeLag ==
    ASSUME DrivenInOrder, NEW T, WholeShifts(T), NEW x \in T
    PROVE  /\ T \cap Earlier[x] = Rows \cap Earlier[x]
           /\ Breaks(T, x) <=> Breaks(Rows, x)
<1>1. T \subseteq Rows /\ T \subseteq Part /\ \A q \in Rows : ShiftOf(q) = ShiftOf(x) => q \in T
    BY WholeFacts DEF WholeShifts, ShiftRows
<1>2. \A q \in Earlier[x] : ShiftOf(q) = ShiftOf(x)
    BY <1>1, EarlierFacts
<1>3. T \cap Earlier[x] = Rows \cap Earlier[x]
    BY <1>1, <1>2
<1>4. Lag(T, x) = Lag(Rows, x)
    BY <1>3 DEF Lag
<1> QED
    BY <1>3, <1>4 DEF Breaks

(* Before a row there is nothing, or one row that all the others are       *)
(* before.                                                                 *)
LEMMA LagOne ==
    ASSUME DrivenInOrder, NEW x \in Rows
    PROVE  \/ Lag(Rows, x) = {} /\ Rows \cap Earlier[x] = {}
           \/ \E q \in Rows \cap Earlier[x] :
                 /\ Lag(Rows, x) = {q}
                 /\ Rows \cap Earlier[x] \subseteq Earlier[q] \cup {q}
<1> DEFINE s == ShiftOf(x)
           seq == SegmentsOf(s)
           N == Cardinality(ShiftRows(s))
<1>1. Placed(s, seq, N) /\ NoHoles(Rows)
    BY ShiftPlaced, WholeFacts
<1>2. x \in ShiftRows(s)
    BY DEF ShiftRows
<1> HIDE DEF seq, N
<1>3. PICK i \in 1 .. N : seq[i] = x
    BY <1>1, <1>2 DEF Placed
<1>4. N \in Nat /\ \A j \in 1 .. N : seq[j] \in Rows
    BY <1>1 DEF Placed, ShiftRows
<1>5. CASE i = 1
    <2>1. Lag(Rows, x) = {}
        BY <1>1, <1>3, <1>5, LagIs
    <2>2. ASSUME NEW r \in Rows \cap Earlier[x] PROVE FALSE
        <3>1. r \in ShiftRows(s)
            BY EarlierFacts, RowsIn DEF ShiftRows
        <3>2. PICK j \in 1 .. N : seq[j] = r
            BY <1>1, <3>1 DEF Placed
        <3>3. j < 1
            BY <1>1, <1>3, <1>5, <3>2 DEF Placed
        <3> QED
            BY <1>4, <3>3
    <2> QED
        BY <2>1, <2>2
<1>6. CASE i # 1
    <2>1. i - 1 \in 1 .. N
        BY <1>4, <1>6
    <2>2. Lag(Rows, x) = {seq[i - 1]}
        BY <1>1, <1>3, <1>4, <1>6, <2>1, LagIs
    <2>3. seq[i - 1] \in Rows \cap Earlier[x]
          /\ Rows \cap Earlier[x] \subseteq Earlier[seq[i - 1]] \cup {seq[i - 1]}
        BY <2>2 DEF Lag
    <2> QED
        BY <2>2, <2>3
<1> QED
    BY <1>5, <1>6

(* A trip is named after the last row up to it that opens a drive.         *)
LEMMA TripIdLast ==
    ASSUME DrivenInOrder, NEW T, WholeShifts(T), NEW p \in T
    PROVE  /\ TripId(T, p) \in T \cap (Earlier[p] \cup {p}) /\ StartsTrip(TripId(T, p))
           /\ \A r \in T \cap (Earlier[p] \cup {p}) :
                 StartsTrip(r) => r \in Earlier[TripId(T, p)] \cup {TripId(T, p)}
<1> DEFINE s == ShiftOf(p)
           seq == SegmentsOf(s)
           N == Cardinality(ShiftRows(s))
<1>1. Placed(s, seq, N) /\ NoHoles(T) /\ T \subseteq Rows
    BY ShiftPlaced, WholeFacts DEF WholeShifts
<1>2. p \in ShiftRows(s)
    BY <1>1 DEF ShiftRows
<1> HIDE DEF seq, N
<1>3. PICK i \in 1 .. N : seq[i] = p
    BY <1>1, <1>2 DEF Placed
<1>4. PICK a \in 1 .. i :
              /\ TripId(T, seq[i]) = seq[a] /\ seq[a] \in T /\ OpenerIn(T, seq, a)
              /\ \A j \in a + 1 .. i : seq[j] \in T /\ ~OpenerIn(T, seq, j)
    BY <1>1, <1>3, TripIdIs
<1>5. /\ N \in Nat /\ a \in 1 .. N
      /\ \A j, k \in 1 .. N : seq[j] \in Earlier[seq[k]] <=> j < k
    BY <1>1 DEF Placed
<1>6. StartsTrip(seq[a])
    <2>1. Breaks(T, seq[a])
        BY <1>1, <1>4, <1>5, BreaksIs
    <2> QED
        BY <1>1, <1>4, <2>1, WholeLag DEF StartsTrip
<1>7. seq[a] \in Earlier[p] \cup {p}
    <2>1. a < i \/ a = i
        OBVIOUS
    <2> QED
        BY <1>3, <1>5, <2>1
<1>8. ASSUME NEW r \in T \cap (Earlier[p] \cup {p}), StartsTrip(r)
      PROVE  r \in Earlier[seq[a]] \cup {seq[a]}
    <2>1. r \in ShiftRows(s)
        BY <1>1, EarlierFacts, RowsIn DEF ShiftRows
    <2>2. PICK j \in 1 .. N : seq[j] = r
        BY <1>1, <2>1 DEF Placed
    <2>3. j <= i
        <3>1. seq[j] \in Earlier[seq[i]] \/ seq[j] = seq[i]
            BY <1>3, <2>2
        <3>2. j < i \/ j = i
            BY <1>1, <3>1 DEF Placed
        <3> QED
            BY <1>5, <3>2
    <2>4. OpenerIn(T, seq, j)
        <3>1. Breaks(T, seq[j])
            BY <1>8, <2>2, WholeLag DEF StartsTrip
        <3> QED
            BY <1>1, <2>2, <3>1, BreaksIs
    <2>5. ~(j \in a + 1 .. i)
        BY <1>4, <2>4
    <2>6. j < a \/ j = a
        BY <1>5, <2>3, <2>5
    <2> QED
        BY <1>5, <2>2, <2>6
<1> QED
    BY <1>3, <1>4, <1>6, <1>7, <1>8

(* The ids of a list's trips are its rows that open a drive.               *)
LEMMA IdsAre ==
    ASSUME DrivenInOrder, NEW T, WholeShifts(T)
    PROVE  /\ \A t \in TripsIn(T) : t.id \in T /\ StartsTrip(t.id) /\ t.startedAt = StartedAt[t.id]
           /\ \A x \in T : StartsTrip(x) => \E t \in TripsIn(T) : t.id = x
<1>1. T \subseteq Part
    BY WholeFacts
<1>2. ASSUME NEW t \in TripsIn(T)
      PROVE  t.id \in T /\ StartsTrip(t.id) /\ t.startedAt = StartedAt[t.id]
    <2>1. PICK p \in T : TripId(T, p) = t.id
        BY <1>1, TripsAreRows
    <2>2. t = Trip(t.id, t.parts)
        BY <1>1, TripsAreRows
    <2>3. t.startedAt = StartedAt[t.id]
        <3> DEFINE id == t.id
                   parts == t.parts
        <3>1. Trip(id, parts).startedAt = StartedAt[id]
            BY DEF Trip
        <3> QED
            BY <2>2, <3>1, Zenon
    <2> QED
        BY <2>1, <2>3, TripIdLast
<1>3. ASSUME NEW x \in T, StartsTrip(x) PROVE \E t \in TripsIn(T) : t.id = x
    <2>1. PICK t \in TripsIn(T) : t.id = TripId(T, x)
        BY <1>1, TripsAreRows
    <2>2. t.id \in Earlier[x] \cup {x} /\ x \in Earlier[t.id] \cup {t.id}
        BY <1>3, <2>1, TripIdLast
    <2>3. t.id = x
        BY <1>1, <1>2, <2>2, EarlierFacts
    <2> QED
        BY <2>3
<1> QED
    BY <1>2, <1>3

(* The rows before one that opens a drive have all ended by then.          *)
LEMMA OpensApart ==
    ASSUME DrivenInOrder, NEW x, StartsTrip(x)
    PROVE  /\ \A r \in Rows \cap Earlier[x] :
                 EndedAt[r] < StartedAt[x] /\ StartedAt[r] < StartedAt[x]
           /\ WaitOf(x) \in Nat \cup {NoWait}
<1>0. x \in Rows /\ x \in Part /\ Rows \subseteq Part /\ TripGap \in Nat
    BY RowsIn, TripsAssumption DEF StartsTrip
<1>1. CASE Lag(Rows, x) = {} /\ Rows \cap Earlier[x] = {}
    BY <1>1 DEF WaitOf
<1>2. CASE \E q \in Rows \cap Earlier[x] :
                 /\ Lag(Rows, x) = {q} /\ Rows \cap Earlier[x] \subseteq Earlier[q] \cup {q}
    <2>1. PICK q \in Rows \cap Earlier[x] :
              /\ Lag(Rows, x) = {q} /\ Rows \cap Earlier[x] \subseteq Earlier[q] \cup {q}
        BY <1>2
    <2>2. StartedAt[x] \in Nat /\ EndedAt[q] \in Nat /\ StartedAt[x] - EndedAt[q] > TripGap
        BY <1>0, <2>1, PartTimes DEF StartsTrip, Breaks
    <2>3. ASSUME NEW r \in Rows \cap Earlier[x]
          PROVE  EndedAt[r] < StartedAt[x] /\ StartedAt[r] < StartedAt[x]
        <3>1. /\ StartedAt[r] \in Nat /\ EndedAt[r] \in Nat /\ StartedAt[r] <= EndedAt[r]
              /\ StartedAt[q] \in Nat /\ StartedAt[q] <= EndedAt[q]
            BY <1>0, PartTimes
        <3>2. r = q \/ EndedAt[r] <= StartedAt[q]
            BY <1>0, <2>1, EarlierFacts
        <3> QED
            BY <1>0, <2>2, <3>1, <3>2
    <2>4. WaitOf(x) = StartedAt[x] - EndedAt[q]
        BY <2>1 DEF WaitOf
    <2> QED
        BY <1>0, <2>2, <2>3, <2>4
<1> QED
    BY <1>0, <1>1, <1>2, LagOne

(* Two rows that open drives of one shift do not begin together.           *)
LEMMA OpensOrdered ==
    ASSUME DrivenInOrder, NEW x, StartsTrip(x), NEW y, StartsTrip(y), ShiftOf(x) = ShiftOf(y)
    PROVE  x \in Earlier[y] <=> StartedAt[x] < StartedAt[y]
<1>1. x \in Rows /\ x \in Part /\ y \in Rows /\ y \in Part
    BY RowsIn DEF StartsTrip
<1>2. StartedAt[x] \in Nat /\ StartedAt[y] \in Nat
    BY <1>1, PartTimes
<1>3. x = y \/ x \in Earlier[y] \/ y \in Earlier[x]
    BY <1>1, EarlierFacts
<1>4. x \in Earlier[y] => StartedAt[x] < StartedAt[y]
    BY <1>1, OpensApart
<1>5. y \in Earlier[x] => StartedAt[y] < StartedAt[x]
    BY <1>1, OpensApart
<1> QED
    BY <1>2, <1>3, <1>4, <1>5

(* A trip ends with the last of its rows.                                  *)
LEMMA TripEnds ==
    ASSUME DrivenInOrder, NEW T, WholeShifts(T), NEW x \in T, StartsTrip(x),
           NEW q \in Rows \cap Earlier[x], Rows \cap Earlier[x] \subseteq Earlier[q] \cup {q},
           NEW u \in TripsIn(T), u.id = TripId(T, q)
    PROVE  u.endedAt = EndedAt[q]
<1>1. T \subseteq Part /\ T \subseteq Rows /\ q \in T /\ ShiftOf(q) = ShiftOf(x)
    <2>1. T \subseteq Part /\ T \subseteq Rows /\ T \cap Earlier[x] = Rows \cap Earlier[x]
        BY WholeFacts, WholeLag DEF WholeShifts
    <2> QED
        BY <2>1, EarlierFacts
<1>2. u.parts = {p \in T : TripId(T, p) = u.id} /\ u = Trip(u.id, u.parts)
    BY <1>1, TripsAreRows
<1>3. u.endedAt = Max({EndedAt[p] : p \in u.parts})
    <2> DEFINE id == u.id
               parts == u.parts
    <2>1. Trip(id, parts).endedAt = Max({EndedAt[p] : p \in parts})
        BY DEF Trip
    <2> QED
        BY <1>2, <2>1, Zenon
<1>4. u.id \in T \cap (Earlier[q] \cup {q}) /\ StartsTrip(u.id)
    BY <1>1, TripIdLast
<1>5. ASSUME NEW p \in u.parts PROVE p \in T /\ p \in Earlier[q] \cup {q}
    <2>1. p \in T /\ TripId(T, p) = u.id
        BY <1>2
    <2>2. u.id \in Earlier[p] \cup {p}
        BY <2>1, TripIdLast
    <2>3. ShiftOf(p) = ShiftOf(x)
        BY <1>1, <1>4, <2>1, <2>2, EarlierFacts
    <2>4. CASE p \in Earlier[x]
        BY <1>1, <2>1, <2>4
    <2>5. CASE p = x \/ x \in Earlier[p]
        <3>1. x \in Earlier[u.id] \cup {u.id}
            BY <2>1, <2>5, TripIdLast
        <3>2. u.id \in Earlier[x]
            BY <1>1, <1>4, EarlierFacts
        <3> QED
            BY <1>1, <1>4, <3>1, <3>2, EarlierFacts
    <2> QED
        BY <1>1, <2>1, <2>3, <2>4, <2>5, EarlierFacts
<1>6. q \in u.parts
    BY <1>1, <1>2
<1>7. \A p \in u.parts : EndedAt[p] \in Nat /\ EndedAt[p] <= EndedAt[q]
    <2> SUFFICES ASSUME NEW p \in u.parts PROVE EndedAt[p] \in Nat /\ EndedAt[p] <= EndedAt[q]
        OBVIOUS
    <2>1. p \in T /\ p \in Part /\ q \in Part
        BY <1>1, <1>5
    <2>2. EndedAt[p] \in Nat /\ EndedAt[q] \in Nat /\ StartedAt[q] \in Nat
          /\ StartedAt[q] <= EndedAt[q]
        BY <2>1, PartTimes
    <2>3. p = q \/ EndedAt[p] <= StartedAt[q]
        BY <1>5, <2>1, EarlierFacts
    <2> QED
        BY <2>2, <2>3
<1> DEFINE E == {EndedAt[p] : p \in u.parts}
           n == EndedAt[q]
<1>8. n \in E /\ n \in Nat /\ \A k \in E : k \in Nat /\ k <= n
    BY <1>6, <1>7
<1> HIDE DEF E, n
<1>9. Max(E) \in E /\ \A k \in E : k <= Max(E)
    <2>1. E \subseteq 0 .. n /\ E # {}
        BY <1>8
    <2> QED
        BY <1>8, <2>1, MaxIs
<1>10. Max(E) = n
    <2> DEFINE m == Max(E)
    <2>1. m \in E /\ \A k \in E : k <= m
        BY <1>9
    <2> HIDE DEF m
    <2>2. m \in Nat /\ m <= n /\ n <= m /\ n \in Nat
        BY <1>8, <2>1
    <2>3. m = n
        BY ONLY <2>2
    <2> QED
        BY <2>3 DEF m
<1> QED
    BY <1>3, <1>10 DEF E, n

(* The wait a list prints above a trip is the time since the row before.   *)
LEMMA WaitIs ==
    ASSUME DrivenInOrder, NEW T, WholeShifts(T), NEW t \in TripsIn(T)
    PROVE  WaitIn(TripsIn(T), t) = WaitOf(t.id)
<1> DEFINE x == t.id
           before == {u \in TripsIn(T) : ShiftOf(u.id) = ShiftOf(x) /\ u.startedAt < t.startedAt}
           latest == CHOOSE u \in before : \A w \in before : w.startedAt <= u.startedAt
<1>1. /\ x \in T /\ StartsTrip(x) /\ x \in Rows /\ T \subseteq Part /\ T \subseteq Rows
      /\ t.startedAt = StartedAt[x]
    BY IdsAre, WholeFacts DEF WholeShifts
<1>2. T \cap Earlier[x] = Rows \cap Earlier[x]
    BY <1>1, WholeLag
<1>3. WaitIn(TripsIn(T), t) = IF before = {} THEN NoWait ELSE t.startedAt - latest.endedAt
    BY DEF WaitIn
<1>4. ASSUME NEW u \in TripsIn(T)
      PROVE  /\ u.id \in T /\ StartsTrip(u.id) /\ u.startedAt = StartedAt[u.id]
             /\ u.startedAt \in Nat
             /\ u \in before <=> u.id \in Rows \cap Earlier[x]
    <2>1. u.id \in T /\ StartsTrip(u.id) /\ u.startedAt = StartedAt[u.id]
        BY IdsAre
    <2>2. u.id \in Earlier[x] => ShiftOf(u.id) = ShiftOf(x)
        BY <1>1, EarlierFacts
    <2>3. ShiftOf(u.id) = ShiftOf(x) => (u.id \in Earlier[x] <=> StartedAt[u.id] < StartedAt[x])
        BY <1>1, <2>1, OpensOrdered
    <2>4. u.startedAt \in Nat
        BY <1>1, <2>1, PartTimes
    <2> QED
        BY <1>1, <2>1, <2>2, <2>3, <2>4
<1> HIDE DEF before, latest, x
<1>5. CASE Lag(Rows, x) = {} /\ Rows \cap Earlier[x] = {}
    <2>1. before = {}
        BY <1>4, <1>5 DEF before
    <2> QED
        BY <1>3, <1>5, <2>1 DEF WaitOf, x
<1>6. CASE \E q \in Rows \cap Earlier[x] :
                 /\ Lag(Rows, x) = {q} /\ Rows \cap Earlier[x] \subseteq Earlier[q] \cup {q}
    <2>1. PICK q \in Rows \cap Earlier[x] :
              /\ Lag(Rows, x) = {q} /\ Rows \cap Earlier[x] \subseteq Earlier[q] \cup {q}
        BY <1>6
    <2>2. q \in T
        BY <1>2, <2>1
    <2>3. PICK u \in TripsIn(T) : u.id = TripId(T, q)
        BY <1>1, <2>2, TripsAreRows
    <2>4. u.endedAt = EndedAt[q]
        BY <1>1, <2>1, <2>3, TripEnds
    <2>5. /\ u.id \in T \cap (Earlier[q] \cup {q}) /\ StartsTrip(u.id)
          /\ \A r \in T \cap (Earlier[q] \cup {q}) :
                StartsTrip(r) => r \in Earlier[u.id] \cup {u.id}
        BY <2>2, <2>3, TripIdLast
    <2>6. u \in before
        <3>1. u.id \in Earlier[x] /\ u.id \in Rows
            BY <1>1, <2>1, <2>5, EarlierFacts
        <3> QED
            BY <1>4, <3>1
    <2>7. ASSUME NEW w \in before PROVE w = u \/ w.startedAt < u.startedAt
        <3>1. w \in TripsIn(T) /\ w.id \in Rows \cap Earlier[x] /\ StartsTrip(w.id) /\ w.id \in T
              /\ w.startedAt = StartedAt[w.id]
            BY <1>4 DEF before
        <3>2. w.id \in Earlier[u.id] \cup {u.id}
            BY <2>1, <2>5, <3>1
        <3>3. w.id = u.id => w = u
            BY <1>1, <3>1, TripsAreRows
        <3>4. w.id \in Earlier[u.id] => StartedAt[w.id] < StartedAt[u.id]
            BY <2>5, <3>1, OpensApart
        <3> QED
            BY <1>4, <3>1, <3>2, <3>3, <3>4
    <2>8. \A w \in before : w.startedAt \in Nat
        BY <1>4 DEF before
    <2>9. latest = u
        <3>1. \A w \in before : w.startedAt <= u.startedAt
            BY <2>6, <2>7, <2>8
        <3>2. latest \in before /\ \A w \in before : w.startedAt <= latest.startedAt
            BY <2>6, <3>1 DEF latest
        <3>3. latest = u \/ latest.startedAt < u.startedAt
            BY <2>7, <3>2
        <3> DEFINE a == latest.startedAt
                   b == u.startedAt
        <3>4. b <= a /\ a \in Nat /\ b \in Nat
            BY <2>6, <2>8, <3>2
        <3> HIDE DEF a, b
        <3>5. ~(a < b)
            BY <3>4
        <3> QED
            BY <3>3, <3>5 DEF a, b
    <2>10. WaitIn(TripsIn(T), t) = StartedAt[x] - EndedAt[q]
        BY <1>1, <1>3, <2>4, <2>6, <2>9
    <2>11. WaitOf(x) = StartedAt[x] - EndedAt[q]
        BY <2>1 DEF WaitOf
    <2> QED
        BY <2>10, <2>11 DEF x
<1> QED
    BY <1>1, <1>5, <1>6, LagOne

(* Numbers that rise from each to the next rise.                           *)
LEMMA Rising ==
    ASSUME NEW L \in Nat, NEW f, \A m \in 1 .. L + 1 : f[m] \in Nat,
           \A m \in 1 .. L : f[m] < f[m + 1],
           NEW a \in 1 .. L, NEW b \in 1 .. L, a < b
    PROVE  f[a] < f[b]
<1> DEFINE Up == {c \in a + 1 .. L : ~(f[a] < f[c])}
<1> SUFFICES ASSUME Up # {} PROVE FALSE
    OBVIOUS
<1>1. PICK c \in Up : \A e \in Up : ~(e < c)
    <2>1. Up \subseteq Nat
        OBVIOUS
    <2> HIDE DEF Up
    <2> QED
        BY <2>1, LeastOne
<1>2. /\ c - 1 \in 1 .. L /\ (c - 1) + 1 = c /\ c \in 1 .. L + 1 /\ a \in 1 .. L + 1
      /\ c - 1 \in 1 .. L + 1 /\ c - 1 < c
      /\ a = c - 1 \/ c - 1 \in a + 1 .. L
    BY <1>1
<1>3. f[c - 1] < f[(c - 1) + 1]
    BY <1>2
<1>4. f[c - 1] < f[c] /\ f[c - 1] \in Nat /\ f[c] \in Nat /\ f[a] \in Nat
    BY <1>2, <1>3
<1>5. c - 1 \in a + 1 .. L => f[a] < f[c - 1]
    BY <1>1, <1>2
<1>6. f[a] < f[c]
    BY <1>2, <1>4, <1>5
<1> QED
    BY <1>1, <1>6

(* The page behind a trip pins the same wait.                              *)
LEMMA ParkedIs ==
    ASSUME DrivenInOrder, NEW x, StartsTrip(x)
    PROVE  ParkedBefore(DrivesOf(ShiftOf(x)), x) = WaitOf(x)
<1> DEFINE s == ShiftOf(x)
           S == ShiftRows(s)
           seq == SegmentsOf(s)
           N == Cardinality(S)
           drives == DrivesOf(s)
           L == Len(drives)
<1>1. Placed(s, seq, N) /\ NoHoles(Rows)
    BY ShiftPlaced, WholeFacts
<1>2. x \in S /\ x \in Rows
    BY DEF ShiftRows, StartsTrip
<1>3. PICK off : CutInto(seq, S, drives, off, N)
    <2>1. seq \in Seq(S) /\ Len(seq) = N /\ N \in Nat
        BY SegmentsInOrder
    <2> QED
        BY <2>1, CutExists
<1> HIDE DEF S, seq, N, drives
<1>4. N \in Nat /\ \A j, k \in 1 .. N : seq[j] = seq[k] => j = k
    BY <1>1 DEF Placed, N
<1>5. PICK i \in 1 .. N : seq[i] = x
    BY <1>1, <1>2 DEF Placed, S, N
<1>6. /\ \A m \in 1 .. L : Run(seq, N, off[m], off[m + 1])
      /\ \A k \in 1 .. N : \E m \in 1 .. L : off[m] <= k /\ k < off[m + 1]
    BY <1>3, <1>4, CutPlaces
<1>7. /\ drives \in Seq(Seq(S)) /\ L \in Nat /\ DOMAIN drives = 1 .. L
      /\ off \in [1 .. L + 1 -> Nat \ {0}] /\ off[1] = 1
    BY <1>3 DEF CutInto
<1>8. ASSUME NEW m \in 1 .. L
      PROVE  /\ off[m] \in 1 .. N /\ off[m + 1] \in 1 .. N + 1 /\ off[m] < off[m + 1]
             /\ \A y : y \in Range(drives[m])
                         <=> \E j \in off[m] .. (off[m + 1] - 1) : y = seq[j]
             /\ drives[m][1] = seq[off[m]] /\ Last(drives[m]) = seq[off[m + 1] - 1]
    <2> DEFINE d == drives[m]
               a == off[m]
               b == off[m + 1]
    <2>1. Run(seq, N, a, b)
        BY <1>6
    <2>2. d \in Seq(S)
        <3> DEFINE V == Seq(S)
        <3>1. drives \in Seq(V)
            BY <1>7
        <3> HIDE DEF V, d
        <3>2. drives[m] \in V
            BY <3>1
        <3> QED
            BY <3>2 DEF V, d
    <2>3. Len(d) = b - a /\ \A j \in 1 .. Len(d) : d[j] = seq[a + j - 1]
        BY <1>3 DEF CutInto
    <2> HIDE DEF d, a, b
    <2>4. a \in Nat /\ b \in Nat /\ a < b /\ a \in 1 .. N /\ b \in 1 .. N + 1
        BY <1>4, <2>1 DEF Run
    <2>5. Stretch(d, seq, a, b)
        <3>1. DOMAIN d = 1 .. Len(d)
            BY ONLY <2>2
        <3> QED
            BY <2>3, <3>1 DEF Stretch
    <2>6. Range(d) = Between(seq, a, b) /\ d[1] = seq[a] /\ d[Len(d)] = seq[b - 1]
        BY <2>4, <2>5, StretchRange
    <2>7. \A y : y \in Range(d) <=> \E j \in a .. (b - 1) : y = seq[j]
        BY <2>6 DEF Between
    <2> QED
        BY <2>4, <2>6, <2>7 DEF Last, d, a, b
<1>9. Opener(seq, i)
    <2>1. Breaks(Rows, seq[i]) /\ seq[i] \in Rows
        BY <1>5 DEF StartsTrip
    <2>2. OpenerIn(Rows, seq, i)
        BY <1>1, <1>5, <2>1, BreaksIs DEF N
    <2>3. i # 1 => seq[i - 1] \in Rows
        <3>1. i # 1 => i - 1 \in 1 .. N
            BY <1>4
        <3> QED
            BY <1>1, <3>1 DEF Placed, ShiftRows, N, S
    <2> QED
        BY <2>2, <2>3 DEF OpenerIn, Opener
<1>10. PICK m \in 1 .. L : off[m] <= i /\ i < off[m + 1]
    BY <1>6
<1>11. off[m] = i
    <2>1. Run(seq, N, off[m], off[m + 1])
        BY <1>6
    <2>2. off[m] \in Nat /\ off[m + 1] \in Nat /\ i \in Nat
        BY <1>4, <1>8
    <2> QED
        BY <1>9, <1>10, <2>1, <2>2 DEF Run
<1>12. x \in Range(drives[m])
    <2>1. i \in off[m] .. (off[m + 1] - 1)
        BY <1>4, <1>8, <1>10
    <2> QED
        BY <1>5, <1>8, <2>1
<1>12a. ASSUME NEW k \in 1 .. L, x \in Range(drives[k])
        PROVE  off[k] <= i /\ i < off[k + 1] /\ off[k] \in Nat /\ off[k + 1] \in Nat
    <2> DEFINE a == off[k]
               b == off[k + 1]
    <2>1. /\ a \in 1 .. N /\ b \in 1 .. N + 1
          /\ \A y : y \in Range(drives[k]) <=> \E j \in a .. (b - 1) : y = seq[j]
        BY <1>8
    <2> HIDE DEF a, b
    <2>2. PICK j \in a .. (b - 1) : x = seq[j]
        BY <1>12a, <2>1
    <2>3. a \in Nat /\ b \in Nat /\ j \in 1 .. N
        BY <1>4, <2>1
    <2>4. j = i
        BY <1>4, <1>5, <2>2, <2>3
    <2> QED
        BY <2>2, <2>3, <2>4 DEF a, b
<1>13. ASSUME NEW k \in 1 .. L, x \in Range(drives[k]) PROVE k = m
    <2>3. off[k] <= i /\ i < off[k + 1] /\ off[k] \in Nat /\ off[k + 1] \in Nat
        BY <1>13, <1>12a
    <2>4. off[k] = i
        BY <1>4, <1>6, <1>9, <2>3 DEF Run
    <2>5. ASSUME NEW a \in 1 .. L, NEW b \in 1 .. L, a < b PROVE off[a] < off[b]
        <3>1. /\ \A c \in 1 .. L + 1 : off[c] \in Nat
              /\ \A c \in 1 .. L : off[c] < off[c + 1]
            BY <1>7, <1>8
        <3> HIDE DEF L
        <3> QED
            BY ONLY <1>7, <2>5, <3>1, Rising
    <2>6. ~(k < m) /\ ~(m < k)
        BY <1>4, <1>8, <1>11, <2>4, <2>5
    <2> QED
        BY <1>7, <2>6
<1>14. DriveIndex(drives, x) = m
    BY <1>7, <1>12, <1>13 DEF DriveIndex
<1>15. ParkedBefore(drives, x)
           = IF m = 1 THEN NoWait ELSE StartedAt[drives[m][1]] - EndedAt[Last(drives[m - 1])]
    BY <1>14 DEF ParkedBefore, WaitBefore
<1>16. drives[m][1] = x
    BY <1>5, <1>8, <1>11
<1>17. CASE m = 1
    <2>1. i = 1
        BY <1>7, <1>11, <1>17
    <2>2. Lag(Rows, x) = {}
        BY <1>1, <1>2, <1>5, <2>1, LagIs DEF N
    <2> QED
        BY <1>15, <1>17, <2>2 DEF WaitOf, drives
<1>18. CASE m # 1
    <2>1. m - 1 \in 1 .. L /\ (m - 1) + 1 = m
        BY <1>7, <1>18
    <2>2. off[m - 1] >= 1 /\ off[m - 1] < i /\ Last(drives[m - 1]) = seq[i - 1]
        BY <1>4, <1>8, <1>11, <2>1
    <2>3. i # 1 /\ i - 1 \in 1 .. N
        <3>1. off[m - 1] \in Nat
            BY <1>4, <1>8, <2>1
        <3> QED
            BY <1>4, <2>2, <3>1
    <2>4. seq[i - 1] \in Rows
        BY <1>1, <2>3 DEF Placed, ShiftRows, N, S
    <2>5. Lag(Rows, x) = {seq[i - 1]}
        BY <1>1, <1>2, <1>5, <2>3, <2>4, LagIs DEF N
    <2> QED
        BY <1>15, <1>16, <1>18, <2>2, <2>5 DEF WaitOf, drives
<1> QED
    BY <1>17, <1>18

-----------------------------------------------------------------------------
(* The pages of a feed.                                                    *)

(* Trips that can be told apart by when they began.                        *)
ByStart(R) ==
    /\ IsFiniteSet(R)
    /\ \A t \in R : t.startedAt \in Nat
    /\ \A t, u \in R : t.startedAt = u.startedAt => t = u

Newer(R, t) == {u \in R : u.startedAt > t.startedAt}

(* Such trips are counted from the newest on.                              *)
LEMMA NewestFirst ==
    ASSUME NEW R, ByStart(R)
    PROVE  /\ Cardinality(R) \in Nat
           /\ \A t \in R : Cardinality(Newer(R, t)) \in 0 .. Cardinality(R) - 1
           /\ \A t, u \in R :
                 u.startedAt > t.startedAt <=> Cardinality(Newer(R, u)) < Cardinality(Newer(R, t))
           /\ \A t, u \in R : Cardinality(Newer(R, u)) = Cardinality(Newer(R, t)) => t = u
           /\ \A k \in 0 .. Cardinality(R) - 1 : \E t \in R : Cardinality(Newer(R, t)) = k
<1> DEFINE E == [t \in R |-> Newer(R, t)]
           rank == [t \in R |-> Cardinality(R \cap E[t])]
<1>1. \A t \in R : R \cap E[t] = Newer(R, t)
    BY DEF Newer
<1>2. \A t, u \in R : u \in E[t] <=> u.startedAt > t.startedAt
    BY DEF Newer
<1>3. TotalOrder(R, E)
    <2>1. \A t \in R : t \notin E[t]
        BY <1>2 DEF ByStart
    <2>2. ASSUME NEW t \in R, NEW u \in R \cap E[t], NEW v \in E[u] PROVE v \in E[t]
        <3>1. v \in R
            BY DEF Newer
        <3>2. v.startedAt > u.startedAt /\ u.startedAt > t.startedAt
            BY <1>2, <3>1
        <3>3. v.startedAt > t.startedAt
            <4> DEFINE a == v.startedAt
                       b == u.startedAt
                       c == t.startedAt
            <4>1. a \in Nat /\ b \in Nat /\ c \in Nat /\ a > b /\ b > c
                BY <3>1, <3>2 DEF ByStart
            <4> HIDE DEF a, b, c
            <4>2. a > c
                BY <4>1
            <4> QED
                BY <4>2 DEF a, c
        <3> QED
            BY <1>2, <3>1, <3>3
    <2>3. ASSUME NEW t \in R, NEW u \in R PROVE t = u \/ t \in E[u] \/ u \in E[t]
        <3> DEFINE a == t.startedAt
                   b == u.startedAt
        <3>1. a \in Nat /\ b \in Nat /\ (a = b => t = u)
            BY DEF ByStart
        <3>2. (t \in E[u] <=> a > b) /\ (u \in E[t] <=> b > a)
            BY <1>2
        <3> HIDE DEF a, b, E
        <3> QED
            BY <3>1, <3>2
    <2> HIDE DEF E
    <2> QED
        BY <2>1, <2>2, <2>3 DEF TotalOrder
<1>4. /\ Cardinality(R) \in Nat
      /\ \A t \in R : rank[t] \in 0 .. Cardinality(R) - 1
      /\ \A t, u \in R : u \in E[t] <=> rank[u] < rank[t]
      /\ \A k \in 0 .. Cardinality(R) - 1 : \E t \in R : rank[t] = k
    <2>1. IsFiniteSet(R) /\ rank = [t \in R |-> Cardinality(R \cap E[t])]
        BY DEF ByStart
    <2> HIDE DEF E, rank
    <2> QED
        BY <1>3, <2>1, Ranked
<1>5. \A t \in R : rank[t] = Cardinality(Newer(R, t))
    BY <1>1
<1> HIDE DEF E, rank
<1>6. \A t, u \in R : rank[u] = rank[t] => t = u
    BY <1>3, <1>4 DEF TotalOrder
<1> QED
    BY <1>2, <1>4, <1>5, <1>6

(* A page is the newest of what is left: PageSize of them, or all there    *)
(* are.                                                                    *)
LEMMA PageIs ==
    ASSUME NEW R, ByStart(R)
    PROVE  /\ FirstPage(R) \subseteq R /\ ByStart(FirstPage(R))
           /\ \A t \in R \ FirstPage(R) : \A u \in FirstPage(R) : t.startedAt < u.startedAt
           /\ Cardinality(FirstPage(R)) = PageSize \/ FirstPage(R) = R
           /\ R # {} => FirstPage(R) # {}
<1> DEFINE P == FirstPage(R)
           n == PageSize
           rank == [t \in R |-> Cardinality(Newer(R, t))]
<1>1. P = {t \in R : rank[t] < n}
    BY DEF FirstPage, Newer
<1>2. /\ Cardinality(R) \in Nat
      /\ \A t \in R : rank[t] \in 0 .. Cardinality(R) - 1
      /\ \A t, u \in R : u.startedAt > t.startedAt <=> rank[u] < rank[t]
      /\ \A t, u \in R : rank[u] = rank[t] => t = u
      /\ \A k \in 0 .. Cardinality(R) - 1 : \E t \in R : rank[t] = k
    BY NewestFirst
<1>3. n \in Nat \ {0}
    BY TripsAssumption
<1> HIDE DEF P, n, rank
<1>4. P \subseteq R /\ ByStart(P)
    <2>1. P \subseteq R
        BY <1>1
    <2> QED
        BY <2>1, FS_Subset DEF ByStart
<1>5. ASSUME NEW t \in R \ P, NEW u \in P PROVE t.startedAt < u.startedAt
    <2>1. rank[u] < rank[t]
        BY <1>1, <1>2, <1>3
    <2>2. u.startedAt > t.startedAt
        BY <1>1, <1>2, <2>1
    <2> QED
        BY <1>4, <2>2 DEF ByStart
<1>6. CASE Cardinality(R) <= n
    <2>1. ASSUME NEW t \in R PROVE rank[t] < n
        <3>1. rank[t] \in 0 .. Cardinality(R) - 1
            BY <1>2
        <3> QED
            BY <1>2, <1>3, <1>6, <3>1
    <2>2. P = R
        BY <1>1, <2>1
    <2> QED
        BY <1>4, <1>5, <2>2 DEF P, n
<1>7. CASE n < Cardinality(R)
    <2> DEFINE K == 0 .. n - 1
               f == [t \in P |-> rank[t]]
    <2>1. IsFiniteSet(K) /\ Cardinality(K) = n
        BY <1>3, FS_Interval
    <2>2. f \in [P -> K] /\ \A t, u \in P : f[t] = f[u] => t = u
        BY <1>1, <1>2, <1>3
    <2>3. \A k \in K : \E t \in P : f[t] = k
        BY <1>1, <1>2, <1>3, <1>7
    <2>4. Cardinality(P) = n
        <3> HIDE DEF K, f
        <3>1. f \in Injection(P, K) /\ f \in Surjection(P, K)
            BY <2>2, <2>3 DEF Injection, IsInjective, Surjection
        <3> QED
            BY <2>1, <3>1, FS_Injection
    <2>5. P # {}
        <3>1. 0 \in K
            BY <1>3
        <3> QED
            BY <2>3, <3>1
    <2> QED
        BY <1>4, <1>5, <2>4, <2>5 DEF P, n
<1> QED
    BY <1>2, <1>3, <1>6, <1>7

(* A page whose rows can be told apart, of a feed, and its rows: each of   *)
(* its trips once, with its wait.                                          *)
CanShow(page, trips, V) ==
    /\ ByStart(page) /\ \A t, u \in page : t.id = u.id => t = u
    /\ \A t \in page : [id |-> t.id, wait |-> WaitIn(trips, t)] \in V

Shows(rows, page, trips, V, n) ==
    /\ n \in Nat /\ rows \in Seq(V) /\ Len(rows) = n
    /\ \A i \in 1 .. n : \E t \in page :
          rows[i].id = t.id /\ rows[i].wait = WaitIn(trips, t)
    /\ \A i, j \in 1 .. n : rows[i].id = rows[j].id => i = j
    /\ \A t \in page : \E i \in 1 .. n : rows[i].id = t.id

(* ShownRows makes such rows.                                              *)
LEMMA ShownIs ==
    ASSUME NEW page, NEW trips, NEW V, CanShow(page, trips, V)
    PROVE  Shows(ShownRows(trips, page), page, trips, V, Cardinality(page))
<1>0. /\ ByStart(page) /\ \A t, u \in page : t.id = u.id => t = u
      /\ \A t \in page : [id |-> t.id, wait |-> WaitIn(trips, t)] \in V
    BY DEF CanShow
<1> DEFINE n == Cardinality(page)
           at == [i \in 1 .. n |-> CHOOSE u \in page : Cardinality(Newer(page, u)) = i - 1]
           rows == ShownRows(trips, page)
<1>1. rows = [i \in 1 .. n |-> [id |-> at[i].id, wait |-> WaitIn(trips, at[i])]]
    BY DEF ShownRows, Newer
<1>2. /\ n \in Nat
      /\ \A t \in page : Cardinality(Newer(page, t)) \in 0 .. n - 1
      /\ \A t, u \in page : Cardinality(Newer(page, u)) = Cardinality(Newer(page, t)) => t = u
      /\ \A k \in 0 .. n - 1 : \E t \in page : Cardinality(Newer(page, t)) = k
    BY <1>0, NewestFirst
<1>3. ASSUME NEW i \in 1 .. n PROVE at[i] \in page /\ Cardinality(Newer(page, at[i])) = i - 1
    <2>1. i - 1 \in 0 .. n - 1
        BY <1>2
    <2>2. PICK t \in page : Cardinality(Newer(page, t)) = i - 1
        BY <1>2, <2>1
    <2> QED
        BY <2>2
<1> HIDE DEF at, rows, n
<1>4. \A i \in 1 .. n : rows[i].id = at[i].id /\ rows[i].wait = WaitIn(trips, at[i])
    BY <1>1
<1>5. ASSUME NEW i \in 1 .. n, NEW j \in 1 .. n, rows[i].id = rows[j].id PROVE i = j
    <2>1. at[i] = at[j]
        BY <1>0, <1>3, <1>4, <1>5
    <2>2. i - 1 = j - 1
        BY <1>3, <2>1
    <2> QED
        BY <1>2, <2>2
<1>6. ASSUME NEW t \in page PROVE \E i \in 1 .. n : rows[i].id = t.id
    <2> DEFINE k == Cardinality(Newer(page, t))
    <2>1. k \in 0 .. n - 1
        BY <1>2
    <2> HIDE DEF k
    <2>2. k + 1 \in 1 .. n /\ (k + 1) - 1 = k
        BY <1>2, <2>1
    <2>3. at[k + 1] = t
        BY <1>2, <1>3, <2>2 DEF k
    <2> QED
        BY <1>4, <2>2, <2>3
<1>7. rows \in Seq(V) /\ Len(rows) = n
    <2>1. rows \in [1 .. n -> V]
        BY <1>0, <1>1, <1>3
    <2> QED
        BY <1>2, <2>1
<1> QED
    BY <1>2, <1>3, <1>4, <1>5, <1>6, <1>7 DEF Shows, rows, n

(* What is so of a feed that is being read.                                *)
ShownRow == [id : Part, wait : Nat \cup {NoWait}]

FeedTyped ==
    [at : {"open", "done"}, of : FeedSubjects, before : Nat \cup {NoCursor},
     shown : Seq(ShownRow), owed : SUBSET Part]

(* Each row of it is a trip with its wait, once, and none is older than    *)
(* the cursor; each trip it owes is there, and shown once the cursor is    *)
(* past it.                                                                *)
FeedState(f) ==
    /\ f \in FeedTyped
    /\ \A i \in 1 .. Len(f.shown) :
          /\ f.shown[i].id \in FeedRows(f.of) /\ StartsTrip(f.shown[i].id)
          /\ f.shown[i].wait = WaitOf(f.shown[i].id)
          /\ f.at = "open" => f.before # NoCursor /\ f.before <= StartedAt[f.shown[i].id]
    /\ \A i, j \in 1 .. Len(f.shown) : f.shown[i].id = f.shown[j].id => i = j
    /\ \A o \in f.owed :
          /\ o \in FeedRows(f.of) /\ StartsTrip(o)
          /\ f.at = "done" \/ (f.before # NoCursor /\ f.before <= StartedAt[o])
             => \E i \in 1 .. Len(f.shown) : f.shown[i].id = o

(* The trips of a feed begin at different instants.                        *)
LEMMA FeedTrips ==
    ASSUME DrivenInOrder, StartsApart, NEW of \in FeedSubjects
    PROVE  /\ WholeShifts(FeedRows(of)) /\ ByStart(TripsIn(FeedRows(of)))
           /\ \A t, u \in TripsIn(FeedRows(of)) : t.id = u.id => t = u
<1> DEFINE T == FeedRows(of)
<1>1. WholeShifts(T) /\ T \subseteq Part
    BY ListsHaveNoHoles, WholeFacts DEF WholeShifts, NoHoles
<1>2. \A p, q \in T : DriverOf(p) = DriverOf(q) \/ CampaignOf(p) = CampaignOf(q)
    BY DEF FeedRows, OfDriver, OfCampaign
<1> HIDE DEF T
<1>3. IsFiniteSet(TripsIn(T)) /\ \A t, u \in TripsIn(T) : t.id = u.id => t = u
    BY <1>1, TripsAreRows
<1>4. \A t \in TripsIn(T) : /\ t.id \in T /\ t.id \in Part /\ StartsTrip(t.id)
                            /\ t.startedAt = StartedAt[t.id] /\ t.startedAt \in Nat
    BY <1>1, IdsAre, PartTimes
<1>5. ASSUME NEW t \in TripsIn(T), NEW u \in TripsIn(T), t.startedAt = u.startedAt PROVE t = u
    <2>1. ShiftOf(t.id) = ShiftOf(u.id)
        BY <1>2, <1>4, <1>5 DEF StartsApart
    <2>2. t.id \notin Earlier[u.id] /\ u.id \notin Earlier[t.id]
        BY <1>4, <1>5, <2>1, OpensOrdered
    <2>3. t.id = u.id
        BY <1>4, <2>1, <2>2, EarlierFacts
    <2> QED
        BY <1>3, <2>3
<1> QED
    BY <1>1, <1>3, <1>4, <1>5 DEF ByStart, T

(* The oldest of a page.                                                   *)
LEMMA OldestIs ==
    ASSUME NEW page, ByStart(page), page # {}
    PROVE  /\ Min({t.startedAt : t \in page}) \in Nat
           /\ \E u \in page : Min({t.startedAt : t \in page}) = u.startedAt
           /\ \A t \in page : Min({t2.startedAt : t2 \in page}) <= t.startedAt
<1> DEFINE S == {t.startedAt : t \in page}
<1>1. S \subseteq Nat /\ S # {}
    BY DEF ByStart
<1> HIDE DEF S
<1>2. PICK n \in S : \A m \in S : ~(m < n)
    BY <1>1, LeastOne
<1>3. \A m \in S : n <= m
    BY <1>1, <1>2
<1>4. Min(S) \in S /\ \A m \in S : Min(S) <= m
    BY <1>3 DEF Min
<1> QED
    BY <1>1, <1>4 DEF S

(* One page after another.                                                 *)
JoinedTo(j, s, r, a, b) ==
    /\ Len(j) = a + b
    /\ \A i \in 1 .. a : j[i] = s[i] /\ i \in 1 .. a + b
    /\ \A i \in 1 .. b : j[a + i] = r[i] /\ a + i \in 1 .. a + b
    /\ \A k \in 1 .. a + b : k \in 1 .. a \/ \E i \in 1 .. b : k = a + i

(* A sequence after a sequence has the places of both.                     *)
LEMMA Joined ==
    ASSUME NEW V, NEW s \in Seq(V), NEW r \in Seq(V)
    PROVE  s \o r \in Seq(V) /\ JoinedTo(s \o r, s, r, Len(s), Len(r))
<1> DEFINE j == s \o r
           a == Len(s)
           b == Len(r)
<1>1. j \in Seq(V) /\ Len(j) = a + b /\ a \in Nat /\ b \in Nat
    OBVIOUS
<1>2. \A i \in 1 .. a : j[i] = s[i] /\ i \in 1 .. a + b
    OBVIOUS
<1>3. \A i \in 1 .. b : j[a + i] = r[i] /\ a + i \in 1 .. a + b
    OBVIOUS
<1>4. ASSUME NEW k \in 1 .. a + b PROVE k \in 1 .. a \/ \E i \in 1 .. b : k = a + i
    <2>1. CASE k <= a
        BY <1>1, <2>1
    <2>2. CASE ~(k <= a)
        <3>1. k - a \in 1 .. b /\ k = a + (k - a)
            BY <1>1, <2>2
        <3> QED
            BY <3>1
    <2> QED
        BY <2>1, <2>2
<1> QED
    BY <1>1, <1>2, <1>3, <1>4 DEF JoinedTo

(* The next page keeps all that.                                           *)
LEMMA PageKept ==
    ASSUME DrivenInOrder, StartsApart, FeedState(feed), feed.at = "open",
           NEW next, next = PageOf(TripsIn(FeedRows(feed.of)))
    PROVE  FeedState(next)
<1> DEFINE T == FeedRows(feed.of)
           trips == TripsIn(T)
           rest == BeforeCursor(trips)
           page == FirstPage(rest)
           rows == ShownRows(trips, page)
           more == HasMore(rest, page)
           oldest == Min({t.startedAt : t \in page})
           old == feed.shown
           a == Len(old)
           n == Cardinality(page)
           new == old \o rows
<1>1. /\ feed.of \in FeedSubjects /\ feed.before \in Nat \cup {NoCursor}
      /\ old \in Seq(ShownRow) /\ feed.owed \in SUBSET Part /\ feed \in FeedTyped
    BY DEF FeedState, FeedTyped
<1>2. /\ next \in [at : {"open", "done"}, of : {feed.of}, before : {feed.before, oldest},
                   shown : {new}, owed : {feed.owed}]
      /\ more => next.at = "open" /\ next.before = oldest
      /\ ~more => next.at = "done" /\ next.before = feed.before
    <2>1. next = [feed EXCEPT !.shown = @ \o rows,
                              !.before = IF more THEN oldest ELSE @,
                              !.at = IF more THEN "open" ELSE "done"]
        BY DEF PageOf, ReadOf, TurnPage
    <2> HIDE DEF rows, more, oldest
    <2> QED
        BY <1>1, <2>1 DEF FeedTyped
<1>3. WholeShifts(T) /\ ByStart(trips) /\ \A t, u \in trips : t.id = u.id => t = u
    BY <1>1, FeedTrips
<1>4. rest = {t \in trips : feed.before = NoCursor \/ t.startedAt < feed.before}
    BY DEF BeforeCursor
<1> HIDE DEF T, rest
<1>5. ByStart(rest) /\ rest \subseteq trips
    <2>1. rest \subseteq trips
        BY <1>4
    <2> HIDE DEF trips
    <2> QED
        BY <1>3, <2>1, FS_Subset DEF ByStart
<1>6. /\ page \subseteq rest /\ ByStart(page)
      /\ \A t \in rest \ page : \A u \in page : t.startedAt < u.startedAt
      /\ n = PageSize \/ page = rest
      /\ rest # {} => page # {}
    BY <1>5, PageIs
<1>7. \A t \in trips : /\ t.id \in T /\ StartsTrip(t.id) /\ t.id \in Part
                       /\ t.startedAt = StartedAt[t.id] /\ StartedAt[t.id] \in Nat
                       /\ WaitIn(trips, t) = WaitOf(t.id)
                       /\ WaitOf(t.id) \in Nat \cup {NoWait}
    BY <1>3, IdsAre, WaitIs, WholeFacts, PartTimes, OpensApart
<1> HIDE DEF trips, page
<1>8. /\ rows \in Seq(ShownRow) /\ Len(rows) = n
      /\ \A i \in 1 .. n : \E t \in page : rows[i].id = t.id /\ rows[i].wait = WaitIn(trips, t)
      /\ \A i, j \in 1 .. n : rows[i].id = rows[j].id => i = j
      /\ \A t \in page : \E i \in 1 .. n : rows[i].id = t.id
    <2>1. \A t \in page : [id |-> t.id, wait |-> WaitIn(trips, t)] \in ShownRow
        BY <1>5, <1>6, <1>7 DEF ShownRow
    <2>2. \A t, u \in page : t.id = u.id => t = u
        BY <1>3, <1>5, <1>6
    <2>3. CanShow(page, trips, ShownRow)
        BY <1>6, <2>1, <2>2 DEF CanShow
    <2>4. Shows(rows, page, trips, ShownRow, n)
        BY <2>3, ShownIs
    <2> HIDE DEF rows, n
    <2> QED
        BY <2>4 DEF Shows
<1> HIDE DEF rows, n
<1>9. /\ new \in Seq(ShownRow) /\ Len(new) = a + n /\ a \in Nat /\ n \in Nat
      /\ \A i \in 1 .. a : new[i] = old[i] /\ i \in 1 .. a + n
      /\ \A i \in 1 .. n : new[a + i] = rows[i] /\ a + i \in 1 .. a + n
      /\ \A k \in 1 .. a + n : k \in 1 .. a \/ \E i \in 1 .. n : k = a + i
    <2>1. new \in Seq(ShownRow) /\ JoinedTo(new, old, rows, a, n)
        BY <1>1, <1>8, Joined
    <2>2. a \in Nat /\ n \in Nat
        BY <1>1, <1>8
    <2> HIDE DEF new, old, a
    <2> QED
        BY <2>1, <2>2 DEF JoinedTo
<1> HIDE DEF new, old, a, more, oldest
<1>10. /\ \A i \in 1 .. a : /\ old[i].id \in T /\ StartsTrip(old[i].id)
                            /\ old[i].wait = WaitOf(old[i].id)
                            /\ feed.before # NoCursor /\ feed.before <= StartedAt[old[i].id]
       /\ \A i, j \in 1 .. a : old[i].id = old[j].id => i = j
       /\ \A o \in feed.owed :
             /\ o \in T /\ StartsTrip(o)
             /\ feed.before # NoCursor /\ feed.before <= StartedAt[o]
                => \E i \in 1 .. a : old[i].id = o
    BY DEF FeedState, T, old, a
<1>11. \A i \in 1 .. n : \E t \in page :
           rows[i].id = t.id /\ rows[i].wait = WaitOf(t.id) /\ t \in trips /\ t \in rest
    BY <1>5, <1>6, <1>7, <1>8
<1>12. more => /\ page # {} /\ oldest \in Nat
               /\ \E u \in page : oldest = u.startedAt
               /\ \A t \in page : oldest <= t.startedAt
    <2>1. ASSUME more PROVE page # {}
        <3>1. CASE feed.of[1] = "driver"
            <4>1. n = PageSize /\ PageSize \in Nat \ {0}
                BY <2>1, <3>1, TripsAssumption DEF more, HasMore, n
            <4> QED
                BY <4>1, FS_EmptySet DEF n
        <3>2. CASE feed.of[1] # "driver"
            <4>1. page # rest
                BY <2>1, <3>2 DEF more, HasMore
            <4> QED
                BY <1>6, <4>1
        <3> QED
            BY <3>1, <3>2
    <2>2. page # {} => /\ oldest \in Nat
                       /\ \E u \in page : oldest = u.startedAt
                       /\ \A t \in page : oldest <= t.startedAt
        BY <1>6, OldestIs DEF oldest
    <2> QED
        BY <2>1, <2>2
<1>13. ~more => page = rest
    BY <1>6 DEF more, HasMore, n
<1>14. \A t \in rest : t.startedAt \in Nat
                       /\ (feed.before = NoCursor \/ t.startedAt < feed.before)
    BY <1>4, <1>5 DEF ByStart
<1>15. ASSUME more PROVE feed.before = NoCursor \/ oldest < feed.before
    BY <1>6, <1>12, <1>14, <1>15
<1>16. /\ next.of = feed.of /\ next.shown = new /\ next.owed = feed.owed
       /\ next.at \in {"open", "done"} /\ (next.at = "open" <=> more)
       /\ next.before = IF more THEN oldest ELSE feed.before
       /\ next \in FeedTyped
    <2>1. oldest \in Nat \/ ~more
        BY <1>12
    <2>2. next.before \in Nat \cup {NoCursor}
        BY <1>1, <1>2, <2>1
    <2> QED
        BY <1>1, <1>2, <1>9, <2>2 DEF FeedTyped
<1>17. ASSUME NEW k \in 1 .. a + n
       PROVE  /\ new[k].id \in T /\ StartsTrip(new[k].id) /\ new[k].wait = WaitOf(new[k].id)
              /\ more => oldest <= StartedAt[new[k].id]
    <2>1. CASE k \in 1 .. a
        <3>1. /\ old[k].id \in T /\ StartsTrip(old[k].id) /\ old[k].wait = WaitOf(old[k].id)
              /\ feed.before # NoCursor /\ feed.before <= StartedAt[old[k].id]
              /\ new[k] = old[k]
            BY <1>9, <1>10, <2>1
        <3>2. ASSUME more PROVE oldest <= StartedAt[old[k].id]
            <4> DEFINE x == StartedAt[old[k].id]
                       b == feed.before
            <4>1. x \in Nat
                BY <3>1, PartTimes, RowsIn DEF StartsTrip
            <4>2. b \in Nat /\ oldest \in Nat /\ oldest < b /\ b <= x
                BY <1>1, <1>12, <1>15, <3>1, <3>2
            <4> HIDE DEF x, b
            <4>3. oldest <= x
                BY <4>1, <4>2
            <4> QED
                BY <4>3 DEF x
        <3> QED
            BY <3>1, <3>2
    <2>2. CASE \E i \in 1 .. n : k = a + i
        <3>1. PICK i \in 1 .. n : k = a + i
            BY <2>2
        <3>2. PICK t \in page :
                  rows[i].id = t.id /\ rows[i].wait = WaitOf(t.id) /\ t \in trips /\ t \in rest
            BY <1>11
        <3>3. new[k] = rows[i]
            BY <1>9, <3>1
        <3>4. more => oldest <= StartedAt[t.id]
            BY <1>7, <1>12, <3>2
        <3> QED
            BY <1>7, <3>2, <3>3, <3>4
    <2> QED
        BY <1>9, <2>1, <2>2
<1>18. ASSUME NEW i \in 1 .. a, NEW k \in 1 .. n PROVE old[i].id # rows[k].id
    <2>1. PICK t \in page :
              rows[k].id = t.id /\ t \in trips /\ t \in rest
        BY <1>11
    <2>2. feed.before # NoCursor /\ feed.before <= StartedAt[old[i].id]
        BY <1>10
    <2>3. t.startedAt < feed.before /\ t.startedAt = StartedAt[t.id] /\ t.startedAt \in Nat
        BY <1>7, <1>14, <2>1, <2>2
    <2>4. feed.before \in Nat
        BY <1>1, <2>2
    <2> QED
        BY <2>1, <2>2, <2>3, <2>4
<1>19. ASSUME NEW i \in 1 .. a + n, NEW j \in 1 .. a + n, new[i].id = new[j].id PROVE i = j
    <2>1. CASE i \in 1 .. a /\ j \in 1 .. a
        BY <1>9, <1>10, <1>19, <2>1
    <2>2. CASE i \in 1 .. a /\ ~(j \in 1 .. a)
        <3>1. PICK k \in 1 .. n : j = a + k
            BY <1>9, <2>2
        <3>2. new[i] = old[i] /\ new[j] = rows[k]
            BY <1>9, <2>2, <3>1
        <3>3. old[i].id # rows[k].id
            BY <1>18, <2>2
        <3> QED
            BY ONLY <1>19, <3>2, <3>3
    <2>3. CASE ~(i \in 1 .. a) /\ j \in 1 .. a
        <3>1. PICK k \in 1 .. n : i = a + k
            BY <1>9, <2>3
        <3>2. new[j] = old[j] /\ new[i] = rows[k]
            BY <1>9, <2>3, <3>1
        <3>3. old[j].id # rows[k].id
            BY <1>18, <2>3
        <3> QED
            BY ONLY <1>19, <3>2, <3>3
    <2>4. CASE ~(i \in 1 .. a) /\ ~(j \in 1 .. a)
        <3>1. PICK k \in 1 .. n : i = a + k
            BY <1>9, <2>4
        <3>2. PICK l \in 1 .. n : j = a + l
            BY <1>9, <2>4
        <3>3. rows[k].id = rows[l].id
            BY <1>9, <1>19, <3>1, <3>2
        <3>4. k = l
            BY ONLY <1>8, <3>3
        <3> QED
            BY ONLY <3>1, <3>2, <3>4
    <2> QED
        BY <2>1, <2>2, <2>3, <2>4
<1>20. ASSUME NEW o \in feed.owed, ~more \/ (oldest # NoCursor /\ oldest <= StartedAt[o])
       PROVE  \E i \in 1 .. a + n : new[i].id = o
    <2>1. o \in T /\ StartsTrip(o)
        BY <1>10
    <2>2. PICK t \in trips : t.id = o
        BY <1>3, <2>1, IdsAre DEF trips
    <2>3. CASE t \notin rest
        <3>1. feed.before # NoCursor /\ ~(t.startedAt < feed.before)
            BY <1>4, <2>2, <2>3
        <3>2. feed.before <= StartedAt[o]
            BY <1>1, <1>7, <2>2, <3>1
        <3>3. PICK i \in 1 .. a : old[i].id = o
            BY <1>10, <3>1, <3>2
        <3> QED
            BY <1>9, <3>3
    <2>4. CASE t \in rest
        <3>1. t \in page
            <4>1. CASE ~more
                BY <1>13, <2>4, <4>1
            <4>2. CASE more
                <5>1. oldest <= t.startedAt /\ oldest \in Nat /\ t.startedAt \in Nat
                    BY <1>7, <1>12, <1>20, <2>2, <4>2
                <5>2. PICK u \in page : oldest = u.startedAt
                    BY <1>12, <4>2
                <5>3. ~(t.startedAt < u.startedAt)
                    BY <5>1, <5>2
                <5> QED
                    BY <1>6, <2>4, <5>3
            <4> QED
                BY <4>1, <4>2
        <3>2. PICK i \in 1 .. n : rows[i].id = t.id
            BY <1>8, <3>1
        <3> QED
            BY <1>9, <2>2, <3>2
    <2> QED
        BY <2>3, <2>4
<1>21. Len(next.shown) = a + n
    BY <1>9, <1>16
<1>22. next.at = "open" => oldest \in Nat /\ next.before = oldest /\ oldest # NoCursor
    BY <1>12, <1>16 DEF NoCursor
<1>24. ASSUME NEW i \in 1 .. Len(next.shown)
       PROVE  /\ next.shown[i].id \in FeedRows(next.of) /\ StartsTrip(next.shown[i].id)
              /\ next.shown[i].wait = WaitOf(next.shown[i].id)
              /\ next.at = "open" =>
                    next.before # NoCursor /\ next.before <= StartedAt[next.shown[i].id]
    BY <1>16, <1>17, <1>21, <1>22 DEF T
<1>25. \A i, j \in 1 .. Len(next.shown) : next.shown[i].id = next.shown[j].id => i = j
    BY <1>16, <1>19, <1>21
<1>26. ASSUME NEW o \in next.owed
       PROVE  /\ o \in FeedRows(next.of) /\ StartsTrip(o)
              /\ next.at = "done" \/ (next.before # NoCursor /\ next.before <= StartedAt[o])
                 => \E i \in 1 .. Len(next.shown) : next.shown[i].id = o
    <2>1. o \in FeedRows(next.of) /\ StartsTrip(o)
        BY <1>10, <1>16 DEF T
    <2>2. ASSUME next.at = "done" \/ (next.before # NoCursor /\ next.before <= StartedAt[o])
          PROVE  ~more \/ (oldest # NoCursor /\ oldest <= StartedAt[o])
        BY <1>16, <2>2
    <2> QED
        BY <1>16, <1>20, <1>21, <2>1, <2>2
<1> QED
    BY <1>16, <1>24, <1>25, <1>26 DEF FeedState

(* What is before a row is what its break and its wait are made of.        *)
LEMMA SameBefore ==
    ASSUME NEW R, NEW Q, NEW x, R \cap Earlier[x] = Q \cap Earlier[x]
    PROVE  Lag(R, x) = Lag(Q, x) /\ (Breaks(R, x) <=> Breaks(Q, x))
<1>1. Lag(R, x) = Lag(Q, x)
    BY DEF Lag
<1> QED
    BY <1>1 DEF Breaks

(* While a feed is read, uploads add rows, and none before a row there is. *)
LEMMA UploadAdds ==
    ASSUME DrivenInOrder, PhoneInOrder = TRUE, LedgerOK, feed # Closed,
           NEW h \in Hops, UploadHop(h)
    PROVE  /\ Rows \subseteq Rows'
           /\ \A x \in Rows : Rows' \cap Earlier[x] = Rows \cap Earlier[x]
<1>1. PICK state \in SegmentStates :
          /\ ledger[h] = "NONE" /\ ledger' = [ledger EXCEPT ![h] = state]
          /\ \A g \in Hops : g > h /\ HopShift[g] = HopShift[h] => ledger[g] = "NONE"
    BY DEF UploadHop
<1>2. /\ Rows = {p \in Part : ledger[p[1]] # "NONE"}
      /\ Rows' = {p \in Part : ledger'[p[1]] # "NONE"}
    BY DEF Rows, StateOfPart
<1>3. \A p \in Part : p[1] \in Hops /\ p[1] \in Nat
    BY PartIndex
<1>4. \A p \in Part : p[1] # h => ledger'[p[1]] = ledger[p[1]]
    BY <1>1, <1>3 DEF LedgerOK
<1>5. ASSUME NEW x \in Rows, NEW q \in Rows', q \in Earlier[x] PROVE q \in Rows
    <2>1. x \in Part /\ q \in Part /\ ShiftOf(q) = ShiftOf(x) /\ ledger[x[1]] # "NONE"
        BY <1>2, <1>5, EarlierFacts
    <2>2. q[1] # h
        <3> SUFFICES ASSUME q[1] = h PROVE FALSE
            OBVIOUS
        <3>1. q[1] < x[1] \/ q[1] = x[1]
            BY <1>5, <2>1, EarlierIs
        <3>2. x[1] # h
            BY <1>1, <2>1
        <3>3. x[1] > h /\ HopShift[x[1]] = HopShift[h]
            BY <1>3, <2>1, <3>1, <3>2 DEF ShiftOf
        <3> QED
            BY <1>1, <1>3, <2>1, <3>3
    <2> QED
        BY <1>2, <1>4, <2>1, <2>2
<1>6. Rows \subseteq Rows'
    BY <1>1, <1>2, <1>4
<1> QED
    BY <1>5, <1>6

(* So a row of the feed that opens a drive still does, after the same wait. *)
LEMMA UploadKeeps ==
    ASSUME DrivenInOrder, PhoneInOrder = TRUE, LedgerOK, feed # Closed,
           NEW h \in Hops, UploadHop(h), FeedState(feed)
    PROVE  FeedState(feed)'
<1>1. feed' = feed
    BY DEF UploadHop
<1>2. /\ Rows \subseteq Rows'
      /\ \A x \in Rows : Rows' \cap Earlier[x] = Rows \cap Earlier[x]
    BY UploadAdds
<1>3. ASSUME NEW of PROVE FeedRows(of) \subseteq FeedRows(of)'
    BY <1>2 DEF FeedRows, OfDriver, OfCampaign, DriverOf, CampaignOf, ShiftOf
<1>4. ASSUME NEW x, StartsTrip(x) PROVE StartsTrip(x)' /\ WaitOf(x)' = WaitOf(x)
    <2>1. x \in Rows /\ x \in Rows' /\ Breaks(Rows, x)
        BY <1>2, <1>4 DEF StartsTrip
    <2>2. Rows' \cap Earlier[x] = Rows \cap Earlier[x]
        BY <1>2, <2>1
    <2>3. Lag(Rows', x) = Lag(Rows, x) /\ (Breaks(Rows', x) <=> Breaks(Rows, x))
        BY <2>2, SameBefore
    <2> QED
        BY <2>1, <2>3 DEF StartsTrip, WaitOf
<1> QED
    BY <1>1, <1>3, <1>4 DEF FeedState

(* What is so of the feed and what it owes.                                *)
FeedOK == feed # Closed => FeedState(feed)

(* Opening a feed owes it the trips there are.                             *)
LEMMA OpenMakes ==
    ASSUME DrivenInOrder, OpenFeed
    PROVE  FeedState(feed') /\ feed'.at = "open"
<1>1. PICK of \in FeedSubjects :
          feed' = [at |-> "open", of |-> of, before |-> NoCursor, shown |-> <<>>,
                   owed |-> {t.id : t \in TripsIn(FeedRows(of))}]
    BY DEF OpenFeed
<1> DEFINE T == FeedRows(of)
           owed == {t.id : t \in TripsIn(T)}
<1>2. WholeShifts(T) /\ T \subseteq Part
    BY ListsHaveNoHoles, WholeFacts DEF WholeShifts, NoHoles
<1>3. \A o \in owed : o \in T /\ StartsTrip(o) /\ o \in Part
    BY <1>2, IdsAre
<1>4. <<>> \in Seq(ShownRow) /\ Len(<<>>) = 0
    OBVIOUS
<1> HIDE DEF T, owed
<1>5. feed' = [at |-> "open", of |-> of, before |-> NoCursor, shown |-> <<>>, owed |-> owed]
    BY <1>1 DEF owed, T
<1>6. feed' \in FeedTyped
    BY <1>3, <1>4, <1>5 DEF FeedTyped
<1>7. \A o \in owed : o \in FeedRows(of) /\ StartsTrip(o)
    BY <1>3 DEF T
<1> QED
    BY <1>4, <1>5, <1>6, <1>7 DEF FeedState

(* Each step keeps it.                                                     *)
LEMMA FeedStep ==
    ASSUME DrivenInOrder, StartsApart, PhoneInOrder = TRUE
    PROVE  /\ TripsInit => FeedOK
           /\ LedgerOK /\ FeedOK /\ [TripsNext]_tripsVars => FeedOK'
<1>1. TripsInit => FeedOK
    BY DEF TripsInit, FeedOK
<1>2. ASSUME ledger' = ledger, FeedState(feed') PROVE FeedState(feed)'
    <2>1. Rows' = Rows
        BY <1>2 DEF Rows, StateOfPart
    <2>2. \A of : FeedRows(of)' = FeedRows(of)
        BY <2>1 DEF FeedRows, OfDriver, OfCampaign, DriverOf, CampaignOf, ShiftOf
    <2>3. \A x : (StartsTrip(x)' <=> StartsTrip(x)) /\ WaitOf(x)' = WaitOf(x)
        BY <2>1 DEF StartsTrip, WaitOf
    <2> QED
        BY <1>2, <2>2, <2>3 DEF FeedState
<1>3. ASSUME LedgerOK, FeedOK, [TripsNext]_tripsVars PROVE FeedOK'
    <2>1. CASE \E h \in Hops : UploadHop(h)
        <3>1. PICK h \in Hops : UploadHop(h)
            BY <2>1
        <3>2. feed' = feed
            BY <3>1 DEF UploadHop
        <3>3. CASE feed = Closed
            BY <3>2, <3>3 DEF FeedOK, Closed
        <3>4. CASE feed # Closed
            BY <1>3, <3>1, <3>4, UploadKeeps DEF FeedOK
        <3> QED
            BY <3>3, <3>4
    <2>2. CASE OpenFeed
        <3>1. ledger' = ledger
            BY <2>2 DEF OpenFeed
        <3>2. FeedState(feed')
            BY <2>2, OpenMakes
        <3> QED
            BY <1>2, <3>1, <3>2 DEF FeedOK
    <2>3. CASE ReadPage
        <3>1. ledger' = ledger /\ feed.at = "open" /\ feed # Closed
              /\ feed' = PageOf(TripsIn(FeedRows(feed.of)))
            BY <2>3 DEF ReadPage, Closed
        <3>2. FeedState(feed')
            BY <1>3, <3>1, PageKept DEF FeedOK
        <3> QED
            BY <1>2, <3>1, <3>2 DEF FeedOK
    <2>4. CASE CloseFeed
        BY <2>4 DEF CloseFeed, FeedOK, Closed
    <2>5. CASE UNCHANGED tripsVars
        <3>1. ledger' = ledger /\ feed' = feed
            BY <2>5 DEF tripsVars
        <3>2. CASE feed = Closed
            BY <3>1, <3>2 DEF FeedOK, Closed
        <3>3. CASE feed # Closed
            BY <1>2, <1>3, <3>1, <3>3 DEF FeedOK
        <3> QED
            BY <3>2, <3>3
    <2> QED
        BY <1>3, <2>1, <2>2, <2>3, <2>4, <2>5 DEF TripsNext
<1> QED
    BY <1>1, <1>3

(* The reader of a feed and the ledger keep their types: a wait is never   *)
(* negative, and a row shown is named after a part.                        *)
THEOREM TripsTyped ==
    ASSUME DrivenInOrder, StartsApart, PhoneInOrder = TRUE
    PROVE  TripsSpec => []TripsTypeOK
<1>1. LedgerOK /\ FeedOK => TripsTypeOK
    <2> SUFFICES ASSUME LedgerOK, FeedOK PROVE TripsTypeOK
        OBVIOUS
    <2>1. CASE feed = Closed
        BY <2>1 DEF TripsTypeOK, LedgerOK
    <2>2. CASE feed # Closed
        BY <2>2 DEF TripsTypeOK, LedgerOK, FeedOK, FeedState, FeedTyped, ShownRow
    <2> QED
        BY <2>1, <2>2
<1>2. /\ TripsInit => FeedOK
      /\ LedgerOK /\ FeedOK /\ [TripsNext]_tripsVars => FeedOK'
    BY FeedStep
<1> QED
    BY <1>1, <1>2, LedgerStep, PTL DEF TripsSpec

(* Scrolling a feed to its end shows every trip that was there when it was *)
(* opened, and none twice, whatever phones upload meanwhile, each above    *)
(* the wait its trip page pins: the cursor of recentTrips and of           *)
(* campaignTrips goes past each trip once.                                 *)
THEOREM FeedShowsAll ==
    ASSUME DrivenInOrder, StartsApart, PhoneInOrder = TRUE
    PROVE  TripsSpec => []FeedShowsEveryTripOnce
<1>1. FeedOK => FeedShowsEveryTripOnce
    <2> SUFFICES ASSUME FeedOK, feed # Closed
                 PROVE  LET shown == feed.shown
                        IN  /\ \A i, j \in DOMAIN shown : shown[i].id = shown[j].id => i = j
                            /\ \A i \in DOMAIN shown :
                                  shown[i].wait
                                    = ParkedBefore(DrivesOf(ShiftOf(shown[i].id)), shown[i].id)
                            /\ feed.at = "done"
                               => feed.owed \subseteq {shown[i].id : i \in DOMAIN shown}
        BY DEF FeedShowsEveryTripOnce
    <2> DEFINE shown == feed.shown
               n == Len(shown)
    <2>1. DOMAIN shown = 1 .. n
        BY DEF FeedOK, FeedState, FeedTyped
    <2>2. /\ \A i \in 1 .. n : StartsTrip(shown[i].id) /\ shown[i].wait = WaitOf(shown[i].id)
          /\ \A i, j \in 1 .. n : shown[i].id = shown[j].id => i = j
          /\ \A o \in feed.owed : feed.at = "done" => \E i \in 1 .. n : shown[i].id = o
        BY DEF FeedOK, FeedState
    <2> HIDE DEF shown, n
    <2>3. \A i \in 1 .. n :
              shown[i].wait = ParkedBefore(DrivesOf(ShiftOf(shown[i].id)), shown[i].id)
        BY <2>2, ParkedIs
    <2> QED
        BY <2>1, <2>2, <2>3 DEF shown
<1>2. /\ TripsInit => FeedOK
      /\ LedgerOK /\ FeedOK /\ [TripsNext]_tripsVars => FeedOK'
    BY FeedStep
<1> QED
    BY <1>1, <1>2, LedgerStep, PTL DEF TripsSpec
=============================================================================
