---------------------------- MODULE Common_proofs ----------------------------
(***************************************************************************)
(* What the proofs share: what a task knows of the Watch that feeds it,    *)
(* a remainder, induction over the naturals and over finite sets, and with *)
(* it what a sum over a finite set is.                                     *)
(*                                                                         *)
(* The library states induction for an operator, which no prover can       *)
(* instantiate.  Here it is stated for a set, and rests on well-founded    *)
(* relations having minimal elements.                                      *)
(***************************************************************************)
EXTENDS EmbassyWatch, Functions, FiniteSetTheorems, TLAPS

-----------------------------------------------------------------------------
(* The Watch.                                                              *)

\* Send and Seen stay among the cells that may hold a value of S, and an unseen
\* cell holds one: a receiver never takes a value that nobody sent.
LEMMA WatchTypes ==
    ASSUME NEW S
    PROVE  /\ \A v \in S : Send(v) \in WatchOf(S)
           /\ \A w \in WatchOf(S) : w.new => Seen(w) \in WatchOf(S) /\ w.val \in S
<1>1. \A v \in S : Send(v) \in WatchOf(S)
    BY DEF Send, WatchOf
<1>2. ASSUME NEW w \in WatchOf(S), w.new
      PROVE  Seen(w) \in WatchOf(S) /\ w.val \in S
    <2>1. w # EmptyWatch
        BY <1>2 DEF EmptyWatch
    <2>2. w \in [val : S, new : BOOLEAN]
        BY <2>1 DEF WatchOf
    <2>3. Seen(w) \in [val : S, new : BOOLEAN]
        BY <2>2 DEF Seen
    <2> QED
        BY <2>2, <2>3 DEF WatchOf
<1> QED
    BY <1>1, <1>2

-----------------------------------------------------------------------------
(* Remainders.                                                             *)

\* Of less than twice n, the remainder by n.
LEMMA WrapsOnce ==
    ASSUME NEW n \in Nat, n > 0, NEW x \in 0..(2 * n - 1)
    PROVE  x % n = IF x < n THEN x ELSE x - n
<1>1. CASE x < n
    BY <1>1
<1>2. CASE x >= n
    <2>1. x % n = (x - n) % n
        BY <1>2
    <2>2. (x - n) % n = x - n
        BY <1>2
    <2> QED
        BY <1>2, <2>1, <2>2
<1> QED
    BY <1>1, <1>2

-----------------------------------------------------------------------------
(* Induction.                                                              *)

\* Least elements, and with them induction, as sets: what holds of 0 and is handed on holds of all.
LEMMA LeastNat ==
    ASSUME NEW T, T \subseteq Nat, T # {}
    PROVE  \E x \in T : \A y \in T : x <= y
<1> DEFINE R == OpToRel(<, Nat)
<1>1. IsWellFoundedOn(R, Nat)
    BY NatLessThanWellFounded
<1>2. \A x, y \in Nat : <<x, y>> \in R <=> x < y
    BY DEF OpToRel
<1> HIDE DEF R
<1>3. PICK x \in T : \A y \in T : ~(<<y, x>> \in R)
    BY <1>1, WFMin
<1>4. ASSUME NEW y \in T
      PROVE  x <= y
    <2>1. x \in Nat /\ y \in Nat
        OBVIOUS
    <2>2. ~(y < x)
        BY <1>2, <1>3, <2>1
    <2> QED
        BY <2>1, <2>2
<1> QED
    BY <1>4

LEMMA NatInduct ==
    ASSUME NEW S, 0 \in S, \A n \in Nat : n \in S => n + 1 \in S
    PROVE  Nat \subseteq S
<1> DEFINE T == {n \in Nat : n \notin S}
<1> SUFFICES ASSUME T # {}
             PROVE  FALSE
    OBVIOUS
<1>1. PICK x \in T : \A y \in T : x <= y
    BY LeastNat
<1>2. x # 0 /\ x - 1 \in Nat
    OBVIOUS
<1>3. x - 1 \in S
    BY <1>1, <1>2
<1> QED
    BY <1>2, <1>3

\* What holds of the empty set and is handed on from a set to one with an element more holds of
\* every finite set.
LEMMA FiniteInduct ==
    ASSUME NEW S, IsFiniteSet(S), NEW F, {} \in F,
           \A T \in SUBSET S : T # {} /\ (\A x \in T : T \ {x} \in F) => T \in F
    PROVE  \A T \in SUBSET S : T \in F
<1> DEFINE N == {n \in Nat : \A T \in SUBSET S : Cardinality(T) = n => T \in F}
<1>1. \A T \in SUBSET S : IsFiniteSet(T) /\ Cardinality(T) \in Nat
    BY FS_Subset, FS_CardinalityType
<1>2. 0 \in N
    BY <1>1, FS_EmptySet
<1>3. ASSUME NEW n \in Nat, n \in N
      PROVE  n + 1 \in N
    <2> SUFFICES ASSUME NEW T \in SUBSET S, Cardinality(T) = n + 1
                 PROVE  T \in F
        OBVIOUS
    <2>1. T # {}
        <3>1. Cardinality({}) = 0
            BY FS_EmptySet
        <3> QED
            BY <3>1
    <2>2. ASSUME NEW x \in T
          PROVE  T \ {x} \in F
        <3>1. IsFiniteSet(T) /\ T \ {x} \in SUBSET S
            BY <1>1
        <3>2. Cardinality(T \ {x}) = Cardinality(T) - 1
            BY <3>1, FS_RemoveElement
        <3> QED
            BY <1>3, <3>1, <3>2
    <2> QED
        BY <2>1, <2>2
<1> HIDE DEF N
<1>4. Nat \subseteq N
    BY <1>2, <1>3, NatInduct
<1> QED
    BY <1>1, <1>4 DEF N

-----------------------------------------------------------------------------
(* Sums over a finite set.                                                 *)

\* The sums of the subsets of S, by the element that CHOOSE takes out.
Unfolds(g, f, S) ==
    \A T \in SUBSET S :
        g[T] = IF T = {} THEN 0 ELSE LET x == CHOOSE x \in T : TRUE IN f[x] + g[T \ {x}]

LEMMA SumUnfolds ==
    ASSUME NEW S, IsFiniteSet(S), NEW f, \A x \in S : f[x] \in Int
    PROVE  \E g \in [SUBSET S -> Int] : SumFunctionOnSet(f, S) = g[S] /\ Unfolds(g, f, S)
<1> DEFINE pick(T) == CHOOSE x \in T : TRUE
           UpTo(g, n) == \A T \in SUBSET S : Cardinality(T) <= n =>
               g[T] = IF T = {} THEN 0 ELSE f[pick(T)] + g[T \ {pick(T)}]
           N == {n \in Nat : \E g \in [SUBSET S -> Int] : UpTo(g, n)}
<1>1. \A T \in SUBSET S : IsFiniteSet(T) /\ Cardinality(T) \in Nat
    BY FS_Subset, FS_CardinalityType
<1>2. \A T \in SUBSET S : T # {} =>
          /\ pick(T) \in T /\ T \ {pick(T)} \in SUBSET S
          /\ Cardinality(T \ {pick(T)}) = Cardinality(T) - 1
    <2> SUFFICES ASSUME NEW T \in SUBSET S, T # {}
                 PROVE  /\ pick(T) \in T /\ T \ {pick(T)} \in SUBSET S
                        /\ Cardinality(T \ {pick(T)}) = Cardinality(T) - 1
        OBVIOUS
    <2>1. pick(T) \in T
        OBVIOUS
    <2> QED
        BY <1>1, <2>1, FS_RemoveElement
<1> HIDE DEF pick
<1>3. 0 \in N
    <2> DEFINE g == [T \in SUBSET S |-> 0]
    <2>1. UpTo(g, 0) /\ g \in [SUBSET S -> Int]
        BY <1>1, FS_EmptySet
    <2> HIDE DEF g, UpTo
    <2> QED
        BY <2>1
<1>4. ASSUME NEW n \in Nat, n \in N
      PROVE  n + 1 \in N
    <2>1. PICK g \in [SUBSET S -> Int] : UpTo(g, n)
        BY <1>4
    <2> DEFINE h == [T \in SUBSET S |-> IF T = {} THEN 0 ELSE f[pick(T)] + g[T \ {pick(T)}]]
    <2>2. h \in [SUBSET S -> Int]
        <3>1. ASSUME NEW T \in SUBSET S, T # {}
              PROVE  f[pick(T)] + g[T \ {pick(T)}] \in Int
            <4>1. f[pick(T)] \in Int /\ g[T \ {pick(T)}] \in Int
                BY <1>2, <3>1
            <4> QED
                BY <4>1
        <3> QED
            BY <3>1
    <2>3. \A T \in SUBSET S : Cardinality(T) <= n => h[T] = g[T]
        BY <2>1
    <2>4. UpTo(h, n + 1)
        <3> SUFFICES ASSUME NEW T \in SUBSET S, Cardinality(T) <= n + 1, T # {}
                     PROVE  h[T] = f[pick(T)] + h[T \ {pick(T)}]
            OBVIOUS
        <3>1. T \ {pick(T)} \in SUBSET S /\ Cardinality(T \ {pick(T)}) <= n
            BY <1>1, <1>2
        <3> QED
            BY <2>3, <3>1
    <2> HIDE DEF h, UpTo
    <2> QED
        BY <2>2, <2>4
<1> HIDE DEF N
<1>5. Cardinality(S) \in N
    BY <1>1, <1>3, <1>4, NatInduct
<1>6. PICK g \in [SUBSET S -> Int] : UpTo(g, Cardinality(S))
    BY <1>5 DEF N
<1>7. \A T \in SUBSET S : g[T] = IF T = {} THEN 0 ELSE f[pick(T)] + g[T \ {pick(T)}]
    BY <1>1, <1>6, FS_Subset
<1> DEFINE iter == CHOOSE i : i = [T \in SUBSET S |-> IF T = {} THEN 0
                                     ELSE f[pick(T)] + i[T \ {pick(T)}]]
<1>8. iter = [T \in SUBSET S |-> IF T = {} THEN 0 ELSE f[pick(T)] + iter[T \ {pick(T)}]]
    <2>1. g = [T \in SUBSET S |-> IF T = {} THEN 0 ELSE f[pick(T)] + g[T \ {pick(T)}]]
        BY <1>7
    <2> QED
        BY <2>1
<1>9. SumFunctionOnSet(f, S) = iter[S]
    BY DEF SumFunctionOnSet, FoldFunctionOnSet, MapThenFoldSet, pick
<1> HIDE DEF iter
<1>10. \A T \in SUBSET S :
           iter[T] = IF T = {} THEN 0 ELSE f[pick(T)] + iter[T \ {pick(T)}]
    BY <1>8
<1>11. \A T \in SUBSET S : iter[T] \in Int
    <2> DEFINE F == {T \in SUBSET S : iter[T] \in Int}
    <2>1. {} \in F
        <3>1. {} \in SUBSET S /\ iter[{}] = 0
            BY <1>10
        <3> QED
            BY <3>1
    <2>2. ASSUME NEW T \in SUBSET S, T # {}, \A x \in T : T \ {x} \in F
          PROVE  T \in F
        <3>1. f[pick(T)] \in Int /\ iter[T \ {pick(T)}] \in Int
            BY <1>2, <2>2
        <3>2. iter[T] = f[pick(T)] + iter[T \ {pick(T)}]
            BY <1>10, <2>2
        <3> QED
            BY <3>1, <3>2
    <2> HIDE DEF F
    <2>3. \A T \in SUBSET S : T \in F
        BY <2>1, <2>2, FiniteInduct
    <2> QED
        BY <2>3 DEF F
<1>12. iter \in [SUBSET S -> Int]
    BY <1>8, <1>11
<1> QED
    BY <1>9, <1>10, <1>12 DEF pick, Unfolds

\* The sum of a set is an integer and does not depend on the order: any element may be taken out.
LEMMA SumPicks ==
    ASSUME NEW S, IsFiniteSet(S), NEW f, \A x \in S : f[x] \in Int
    PROVE  /\ SumFunctionOnSet(f, S) \in Int
           /\ S = {} => SumFunctionOnSet(f, S) = 0
           /\ S # {} => LET x == CHOOSE x \in S : TRUE
                       IN SumFunctionOnSet(f, S) = f[x] + SumFunctionOnSet(f, S \ {x})
<1>1. PICK g \in [SUBSET S -> Int] : SumFunctionOnSet(f, S) = g[S] /\ Unfolds(g, f, S)
    BY SumUnfolds
<1>2. SumFunctionOnSet(f, S) \in Int /\ (S = {} => SumFunctionOnSet(f, S) = 0)
    BY <1>1 DEF Unfolds
<1>3. ASSUME S # {}
      PROVE  LET x == CHOOSE x \in S : TRUE
             IN SumFunctionOnSet(f, S) = f[x] + SumFunctionOnSet(f, S \ {x})
    <2> DEFINE x == CHOOSE x \in S : TRUE
               R == S \ {x}
    <2>1. g[S] = f[x] + g[R]
        BY <1>1, <1>3 DEF Unfolds
    <2>2. IsFiniteSet(R) /\ R \in SUBSET S /\ \A y \in R : f[y] \in Int
        BY FS_Subset
    <2> HIDE DEF x, R
    <2>3. PICK h \in [SUBSET R -> Int] : SumFunctionOnSet(f, R) = h[R] /\ Unfolds(h, f, R)
        BY <2>2, SumUnfolds
    <2> DEFINE F == {T \in SUBSET R : g[T] = h[T]}
    <2>4. {} \in F
        <3>1. {} \in SUBSET R /\ {} \in SUBSET S
            OBVIOUS
        <3>2. g[{}] = 0 /\ h[{}] = 0
            BY <1>1, <2>3, <3>1 DEF Unfolds
        <3> QED
            BY <3>1, <3>2
    <2>5. ASSUME NEW T \in SUBSET R, T # {}, \A y \in T : T \ {y} \in F
          PROVE  T \in F
        <3> DEFINE y == CHOOSE y \in T : TRUE
        <3>1. y \in T
            BY <2>5
        <3>2. g[T] = f[y] + g[T \ {y}] /\ h[T] = f[y] + h[T \ {y}]
            BY <1>1, <2>2, <2>3, <2>5 DEF Unfolds
        <3> HIDE DEF y
        <3>3. g[T \ {y}] = h[T \ {y}]
            BY <2>5, <3>1
        <3> QED
            BY <3>2, <3>3
    <2> HIDE DEF F
    <2>6. R \in F
        BY <2>2, <2>4, <2>5, FiniteInduct
    <2>7. g[R] = h[R]
        BY <2>6 DEF F
    <2>8. SumFunctionOnSet(f, S) = f[x] + SumFunctionOnSet(f, R)
        BY <1>1, <2>1, <2>3, <2>7
    <2> QED
        BY <2>8 DEF x, R
<1> QED
    BY <1>2, <1>3

LEMMA SumOfRest ==
    ASSUME NEW S, IsFiniteSet(S), NEW f, \A x \in S : f[x] \in Int
    PROVE  /\ SumFunctionOnSet(f, S) \in Int
           /\ S = {} => SumFunctionOnSet(f, S) = 0
           /\ \A x \in S : SumFunctionOnSet(f, S) = f[x] + SumFunctionOnSet(f, S \ {x})
<1> DEFINE sum(T) == SumFunctionOnSet(f, T)
           F == {T \in SUBSET S : \A x \in T : sum(T) = f[x] + sum(T \ {x})}
<1>1. \A T \in SUBSET S : IsFiniteSet(T) /\ \A x \in T : f[x] \in Int
    BY FS_Subset
<1>2. ASSUME NEW T \in SUBSET S
      PROVE  /\ sum(T) \in Int
             /\ T = {} => sum(T) = 0
             /\ T # {} => LET x == CHOOSE x \in T : TRUE IN sum(T) = f[x] + sum(T \ {x})
    BY <1>1, SumPicks
<1> HIDE DEF sum
<1>3. {} \in F
    OBVIOUS
<1>4. ASSUME NEW T \in SUBSET S, T # {}, \A x \in T : T \ {x} \in F
      PROVE  T \in F
    <2> DEFINE y == CHOOSE y \in T : TRUE
    <2>1. y \in T /\ sum(T) = f[y] + sum(T \ {y})
        BY <1>2, <1>4
    <2> HIDE DEF y
    <2>2. ASSUME NEW x \in T, x # y
          PROVE  sum(T) = f[x] + sum(T \ {x})
        <3> DEFINE Ty == T \ {y}
                   Tx == T \ {x}
                   Tyx == Ty \ {x}
                   Txy == Tx \ {y}
        <3>1. x \in Ty /\ Ty \in F /\ y \in Tx /\ Tx \in F /\ Tyx = Txy
            BY <1>4, <2>1, <2>2
        <3>2. sum(Ty) = f[x] + sum(Tyx) /\ sum(Tx) = f[y] + sum(Txy)
            BY <3>1
        <3>3. sum(Tyx) \in Int /\ f[x] \in Int /\ f[y] \in Int
            BY <1>1, <1>2, <2>1, <2>2
        <3> HIDE DEF Ty, Tx, Tyx, Txy, F
        <3>4. sum(T) = f[y] + sum(Ty)
            BY <2>1 DEF Ty
        <3>5. sum(T) = f[x] + sum(Tx)
            BY <3>1, <3>2, <3>3, <3>4
        <3> QED
            BY <3>5 DEF Tx
    <2> QED
        BY <2>1, <2>2
<1> HIDE DEF F
<1>5. \A T \in SUBSET S : T \in F
    BY <1>3, <1>4, FiniteInduct
<1> QED
    BY <1>2, <1>5 DEF F, sum

\* Sums of what is added up point by point, of nothing, and of naturals.
LEMMA SumAdds ==
    ASSUME NEW S, IsFiniteSet(S), NEW f, NEW g, NEW h,
           \A x \in S : f[x] \in Int /\ g[x] \in Int /\ h[x] = f[x] + g[x]
    PROVE  SumFunctionOnSet(h, S) = SumFunctionOnSet(f, S) + SumFunctionOnSet(g, S)
<1> DEFINE F == {T \in SUBSET S :
                    SumFunctionOnSet(h, T) = SumFunctionOnSet(f, T) + SumFunctionOnSet(g, T)}
<1>1. ASSUME NEW T \in SUBSET S
      PROVE  /\ IsFiniteSet(T)
             /\ \A x \in T : f[x] \in Int /\ g[x] \in Int /\ h[x] \in Int
    BY FS_Subset
<1>2. {} \in F
    <2>1. SumFunctionOnSet(f, {}) = 0 /\ SumFunctionOnSet(g, {}) = 0 /\ SumFunctionOnSet(h, {}) = 0
        BY SumOfRest, FS_EmptySet
    <2> QED
        BY <2>1
<1>3. ASSUME NEW T \in SUBSET S, T # {}, \A x \in T : T \ {x} \in F
      PROVE  T \in F
    <2>1. PICK x \in T : TRUE
        BY <1>3
    <2> DEFINE R == T \ {x}
               a == SumFunctionOnSet(f, R)
               b == SumFunctionOnSet(g, R)
    <2>2. /\ SumFunctionOnSet(f, T) = f[x] + a
          /\ SumFunctionOnSet(g, T) = g[x] + b
          /\ SumFunctionOnSet(h, T) = h[x] + SumFunctionOnSet(h, R)
        BY <1>1, SumOfRest
    <2>3. SumFunctionOnSet(h, R) = a + b
        BY <1>3
    <2>4. a \in Int /\ b \in Int
        <3>1. R \in SUBSET S
            OBVIOUS
        <3> QED
            BY <1>1, <3>1, SumOfRest
    <2>5. f[x] \in Int /\ g[x] \in Int /\ h[x] = f[x] + g[x]
        OBVIOUS
    <2> HIDE DEF a, b, R
    <2>6. SumFunctionOnSet(h, T) = SumFunctionOnSet(f, T) + SumFunctionOnSet(g, T)
        BY <2>2, <2>3, <2>4, <2>5
    <2> QED
        BY <2>6
<1> HIDE DEF F
<1>4. \A T \in SUBSET S : T \in F
    BY <1>2, <1>3, FiniteInduct
<1> QED
    BY <1>4 DEF F

LEMMA SumOfNats ==
    ASSUME NEW S, IsFiniteSet(S), NEW f, \A x \in S : f[x] \in Nat
    PROVE  /\ SumFunctionOnSet(f, S) \in Nat
           /\ SumFunctionOnSet(f, S) = 0 <=> \A x \in S : f[x] = 0
<1> DEFINE F == {T \in SUBSET S :
                    /\ SumFunctionOnSet(f, T) \in Nat
                    /\ SumFunctionOnSet(f, T) = 0 <=> \A x \in T : f[x] = 0}
<1>1. {} \in F
    BY SumOfRest, FS_EmptySet
<1>2. ASSUME NEW T \in SUBSET S, T # {}, \A x \in T : T \ {x} \in F
      PROVE  T \in F
    <2>1. PICK x \in T : TRUE
        BY <1>2
    <2> DEFINE R == T \ {x}
               a == SumFunctionOnSet(f, R)
    <2>2. IsFiniteSet(T) /\ \A y \in T : f[y] \in Int
        BY FS_Subset
    <2>3. SumFunctionOnSet(f, T) = f[x] + a
        BY <2>2, SumOfRest
    <2>4. a \in Nat /\ (a = 0 <=> \A y \in R : f[y] = 0) /\ f[x] \in Nat
        BY <1>2
    <2>5. T = R \cup {x}
        OBVIOUS
    <2> HIDE DEF a, R
    <2> QED
        BY <2>3, <2>4, <2>5
<1> HIDE DEF F
<1>3. \A T \in SUBSET S : T \in F
    BY <1>1, <1>2, FiniteInduct
<1> QED
    BY <1>3 DEF F
=============================================================================
