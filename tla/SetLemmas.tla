---------------------------- MODULE SetLemmas ------------------------------
(***************************************************************************)
(* Facts about finite sets and sets of numbers that the proofs of several  *)
(* modules need: the least and the greatest of a set of version numbers    *)
(* (the catalogue's first, newest and next version), induction over a      *)
(* finite set, and sums over one (an instance counts its entries           *)
(* generation by generation).                                              *)
(*                                                                         *)
(* Induction is stated with the set of what has the property, not with the *)
(* property as an operator, and rests on the least counterexample.         *)
(***************************************************************************)
EXTENDS Naturals, FiniteSetsExt, Functions, TLAPS, WellFoundedInduction, FiniteSetTheorems

Less == {ss \in Nat \X Nat : ss[1] < ss[2]}

\* The order of the naturals is well-founded, in a form the provers can use.
LEMMA LessWellFounded == IsWellFoundedOn(Less, Nat)
    BY NatLessThanWellFounded DEF OpToRel, Less

\* What it means for a pair to be in the order.
LEMMA LessMeans == \A x, y \in Nat : <<x, y>> \in Less <=> x < y
    BY DEF Less

\* A nonempty set of numbers has a least element, which Min yields: the source
\* retired next, or the class compacted next, is one of those left.
LEMMA MinOf ==
    ASSUME NEW S \in SUBSET Nat, S # {}
    PROVE  Min(S) \in S /\ \A x \in S : Min(S) <= x
<1>1. PICK x \in S : \A y \in S : ~(<<y, x>> \in Less)
    BY WFMin, LessWellFounded
<1>2. \A y \in S : x <= y
    <2>. SUFFICES ASSUME NEW y \in S PROVE x <= y
        OBVIOUS
    <2>1. x \in Nat /\ y \in Nat
        OBVIOUS
    <2>2. ~(y < x)
        BY <1>1, <2>1, LessMeans
    <2>. QED
        BY <2>1, <2>2
<1>. QED
    BY <1>2 DEF Min

\* And, when it is bounded, a greatest one, which Max yields: the newest
\* generation is one of those there are, and its successor is none of them.
LEMMA MaxOf ==
    ASSUME NEW n \in Nat, NEW S \in SUBSET (0 .. n), S # {}
    PROVE  Max(S) \in S /\ \A x \in S : x <= Max(S)
<1>. DEFINE T == {n - x : x \in S}
<1>1. \A x \in S : x \in Nat /\ x <= n
    OBVIOUS
<1>2. T \subseteq Nat /\ T # {}
    <2>1. \A x \in S : n - x \in Nat
        BY <1>1
    <2>. QED
        BY <2>1
<1>3. PICK t \in T : \A y \in T : ~(<<y, t>> \in Less)
    BY <1>2, WFMin, LessWellFounded
<1>4. PICK x \in S : t = n - x
    BY <1>3
<1>5. \A y \in S : y <= x
    <2>. SUFFICES ASSUME NEW y \in S PROVE y <= x
        OBVIOUS
    <2>1. n - y \in T
        OBVIOUS
    <2>2. ~(n - y < t)
        BY <1>2, <1>3, <2>1, LessMeans
    <2>. QED
        BY <1>1, <1>4, <2>2
<1>6. \A y \in S : x >= y
    BY <1>1, <1>5
<1>. QED
    BY <1>1, <1>6 DEF Max
-----------------------------------------------------------------------------
(* Induction over a finite set *)

\* A property of the subsets of a finite set, given as the set Good of those that
\* have it, is one of the whole set when a set has it as soon as every set with
\* one element less does: by the least size of a subset that has not.
LEMMA FiniteInduction ==
    ASSUME NEW S, IsFiniteSet(S), NEW Good,
           \A T \in SUBSET S : (\A x \in T : T \ {x} \in Good) => T \in Good
    PROVE  S \in Good
<1>. DEFINE Bad == {c \in Nat : \E T \in SUBSET S : Cardinality(T) = c /\ T \notin Good}
<1>. SUFFICES ASSUME S \notin Good PROVE FALSE
    OBVIOUS
<1>1. Cardinality(S) \in Bad
    BY FS_CardinalityType
<1>2. Min(Bad) \in Bad /\ \A c \in Bad : Min(Bad) <= c
    BY <1>1, MinOf
<1>3. PICK T \in SUBSET S : Cardinality(T) = Min(Bad) /\ T \notin Good
    BY <1>2
<1>4. PICK x \in T : T \ {x} \notin Good
    BY <1>3
<1>5. IsFiniteSet(T) /\ Cardinality(T) \in Nat
    BY FS_Subset, FS_CardinalityType
<1>6. IsFiniteSet(T \ {x}) /\ Cardinality(T \ {x}) = Cardinality(T) - 1
    BY <1>4, <1>5, FS_RemoveElement
<1>7. Cardinality(T \ {x}) \in Nat
    BY <1>6, FS_CardinalityType
<1>8. Cardinality(T \ {x}) \in Bad
    BY <1>4, <1>7
<1>. DEFINE c == Cardinality(T)
            d == Cardinality(T \ {x})
<1>. HIDE DEF Bad
<1>9. c \in Nat /\ d = c - 1 /\ c <= d
    BY <1>2, <1>3, <1>5, <1>6, <1>8
<1>. HIDE DEF c, d
<1>. QED
    BY <1>9
-----------------------------------------------------------------------------
(* Sums over a finite set: what SumFunctionOnSet computes, whatever the order *)
(* in which it takes the elements.                                            *)

Chosen(s) == CHOOSE x \in s : TRUE
SumStep(g, f, s) == IF s = {} THEN 0 ELSE f[Chosen(s)] + g[s \ {Chosen(s)}]

\* g is the recursive function behind a sum of f over S.
Sums(g, f, S) == g = [s \in SUBSET S |-> SumStep(g, f, s)]

\* The definition of the community module, its recursion named.
LEMMA SumUnfolds ==
    ASSUME NEW f, NEW S
    PROVE  SumFunctionOnSet(f, S) = (CHOOSE g : Sums(g, f, S))[S]
BY Zenon DEF SumFunctionOnSet, FoldFunctionOnSet, MapThenFoldSet, Sums, SumStep, Chosen

\* What is chosen of a set that is not empty is one of its elements.
LEMMA ChosenIn == ASSUME NEW s, s # {} PROVE Chosen(s) \in s
BY DEF Chosen

\* The recursion has a solution on a finite set: one for the subsets of at most n
\* elements is extended to those of n + 1.
LEMMA SumsExists ==
    ASSUME NEW f, NEW S, IsFiniteSet(S)
    PROVE  \E g : Sums(g, f, S)
<1>. DEFINE Upto(n) == {s \in SUBSET S : Cardinality(s) <= n}
            Solved(n) == \E g : \A s \in Upto(n) : g[s] = SumStep(g, f, s)
            Bad == {n \in Nat : ~Solved(n)}
<1>1. \A s \in SUBSET S : IsFiniteSet(s) /\ Cardinality(s) \in Nat /\ Cardinality(s) <= Cardinality(S)
    BY FS_Subset, FS_CardinalityType
<1>2. Cardinality(S) \in Nat
    BY FS_CardinalityType
<1>3. Bad = {}
    <2>. SUFFICES ASSUME Bad # {} PROVE FALSE
        OBVIOUS
    <2>. DEFINE m == Min(Bad)
    <2>1. m \in Bad /\ \A c \in Bad : m <= c
        BY MinOf
    <2>. HIDE DEF m
    <2>2. m # 0
        <3>1. Upto(0) = {{}}
            <4>1. \A s \in Upto(0) : s = {}
                BY <1>1, FS_EmptySet
            <4>2. {} \in Upto(0)
                BY FS_EmptySet
            <4>. QED
                BY <4>1, <4>2
        <3>2. \A g : SumStep(g, f, {}) = 0
            BY DEF SumStep
        <3>. DEFINE g == [s \in SUBSET S |-> 0]
        <3>3. g[{}] = SumStep(g, f, {})
            BY <3>2
        <3>. HIDE DEF g
        <3>4. Solved(0)
            BY <3>1, <3>3
        <3>. QED
            BY <2>1, <3>4
    <2>3. m - 1 \in Nat /\ m - 1 \notin Bad
        BY <2>1, <2>2
    <2>4. PICK g : \A s \in Upto(m - 1) : g[s] = SumStep(g, f, s)
        BY <2>3
    <2>. DEFINE h == [s \in SUBSET S |-> IF s \in Upto(m - 1) THEN g[s] ELSE SumStep(g, f, s)]
    <2>5. \A s \in SUBSET S : h[s] = SumStep(g, f, s)
        BY <2>4
    <2>6. \A s \in Upto(m) : s # {} => s \ {Chosen(s)} \in Upto(m - 1)
        <3>. SUFFICES ASSUME NEW s \in Upto(m), s # {} PROVE s \ {Chosen(s)} \in Upto(m - 1)
            OBVIOUS
        <3>. DEFINE c == Cardinality(s)
                    d == Cardinality(s \ {Chosen(s)})
        <3>1. c \in Nat /\ c <= m /\ d = c - 1
            BY <1>1, ChosenIn, FS_RemoveElement
        <3>. HIDE DEF c, d
        <3>2. d <= m - 1
            BY <2>1, <3>1
        <3>. QED
            BY <3>2 DEF d
    <2>7. \A s \in Upto(m - 1) : h[s] = g[s]
        OBVIOUS
    <2>. HIDE DEF h
    <2>8. \A s \in Upto(m) : h[s] = SumStep(h, f, s)
        <3>. SUFFICES ASSUME NEW s \in Upto(m) PROVE h[s] = SumStep(h, f, s)
            OBVIOUS
        <3>1. SumStep(g, f, s) = SumStep(h, f, s)
            BY <2>6, <2>7 DEF SumStep
        <3>. QED
            BY <2>5, <3>1
    <2>. QED
        BY <2>1, <2>8
<1>4. PICK g : \A s \in Upto(Cardinality(S)) : g[s] = SumStep(g, f, s)
    BY <1>2, <1>3
<1>5. Upto(Cardinality(S)) = SUBSET S
    BY <1>1
<1>. DEFINE h == [s \in SUBSET S |-> g[s]]
<1>6. \A s \in SUBSET S : h[s] = g[s]
    OBVIOUS
<1>7. \A s \in SUBSET S : SumStep(h, f, s) = SumStep(g, f, s)
    <2>. SUFFICES ASSUME NEW s \in SUBSET S PROVE SumStep(h, f, s) = SumStep(g, f, s)
        OBVIOUS
    <2>. HIDE DEF h
    <2>. QED
        BY <1>6 DEF SumStep
<1>8. h = [s \in SUBSET S |-> SumStep(h, f, s)]
    <2>1. \A s \in SUBSET S : h[s] = SumStep(h, f, s)
        BY <1>4, <1>5, <1>6, <1>7
    <2>2. h = [s \in SUBSET S |-> h[s]]
        OBVIOUS
    <2>. HIDE DEF h
    <2>. QED
        BY <2>1, <2>2
<1>. QED
    BY <1>8 DEF Sums

\* Two such functions, for two sets, agree on a subset of both.
LEMMA SumsAgree ==
    ASSUME NEW f, NEW S, NEW T, NEW g, NEW h, Sums(g, f, S), Sums(h, f, T),
           NEW s, IsFiniteSet(s), s \subseteq S, s \subseteq T
    PROVE  g[s] = h[s]
<1>. DEFINE Good == {r \in SUBSET s : g[r] = h[r]}
<1>1. \A r \in SUBSET s : g[r] = SumStep(g, f, r) /\ h[r] = SumStep(h, f, r)
    <2>1. \A r \in SUBSET S : g[r] = SumStep(g, f, r)
        BY DEF Sums
    <2>2. \A r \in SUBSET T : h[r] = SumStep(h, f, r)
        BY DEF Sums
    <2>. QED
        BY <2>1, <2>2
<1>2. ASSUME NEW r \in SUBSET s, \A x \in r : r \ {x} \in Good
      PROVE  r \in Good
    <2>1. SumStep(g, f, r) = SumStep(h, f, r)
        BY <1>2, ChosenIn DEF SumStep
    <2>. QED
        BY <1>1, <2>1
<1>3. s \in Good
    <2>. HIDE DEF Good
    <2>. QED
        BY <1>2, FiniteInduction
<1>. QED
    BY <1>3

\* A sum is that of what is left when the chosen element is taken out, plus it.
LEMMA SumChosen ==
    ASSUME NEW f, NEW S, IsFiniteSet(S)
    PROVE  /\ S = {} => SumFunctionOnSet(f, S) = 0
           /\ S # {} => SumFunctionOnSet(f, S) =
                          f[Chosen(S)] + SumFunctionOnSet(f, S \ {Chosen(S)})
<1>. DEFINE g == CHOOSE u : Sums(u, f, S)
            R == S \ {Chosen(S)}
            h == CHOOSE u : Sums(u, f, R)
<1>1. IsFiniteSet(R)
    BY FS_Subset
<1>2. Sums(g, f, S) /\ Sums(h, f, R)
    BY <1>1, SumsExists, Zenon
<1>3. SumFunctionOnSet(f, S) = g[S] /\ SumFunctionOnSet(f, R) = h[R]
    BY SumUnfolds, Zenon
<1>. HIDE DEF g, h
<1>4. g[S] = SumStep(g, f, S)
    BY <1>2 DEF Sums
<1>5. g[R] = h[R]
    BY <1>1, <1>2, SumsAgree
<1>. QED
    BY <1>3, <1>4, <1>5 DEF SumStep

\* Nothing sums to zero.
LEMMA SumEmpty == \A f : SumFunctionOnSet(f, {}) = 0
BY SumChosen, FS_EmptySet

\* A sum of naturals is one.
LEMMA SumNat ==
    ASSUME NEW f, NEW S, IsFiniteSet(S), \A x \in S : f[x] \in Nat
    PROVE  SumFunctionOnSet(f, S) \in Nat
<1>. DEFINE Good == {T \in SUBSET S : SumFunctionOnSet(f, T) \in Nat}
<1>1. ASSUME NEW T \in SUBSET S, \A x \in T : T \ {x} \in Good
      PROVE  T \in Good
    <2>1. CASE T = {}
        BY <2>1, SumEmpty
    <2>2. CASE T # {}
        <3>1. Chosen(T) \in T /\ f[Chosen(T)] \in Nat
            BY <2>2, ChosenIn
        <3>2. SumFunctionOnSet(f, T) = f[Chosen(T)] + SumFunctionOnSet(f, T \ {Chosen(T)})
            BY <2>2, FS_Subset, SumChosen
        <3>3. SumFunctionOnSet(f, T \ {Chosen(T)}) \in Nat
            BY <1>1, <3>1
        <3>. QED
            BY <3>1, <3>2, <3>3
    <2>. QED
        BY <2>1, <2>2
<1>2. S \in Good
    <2>. HIDE DEF Good
    <2>. QED
        BY <1>1, FiniteInduction
<1>. QED
    BY <1>2

\* Any element may be taken out of a sum, not just the one the recursion chooses.
LEMMA SumRemove ==
    ASSUME NEW f, NEW S, IsFiniteSet(S), \A x \in S : f[x] \in Nat
    PROVE  \A x \in S : SumFunctionOnSet(f, S) = f[x] + SumFunctionOnSet(f, S \ {x})
<1>. DEFINE G(T) == SumFunctionOnSet(f, T)
            Good == {T \in SUBSET S : \A x \in T : G(T) = f[x] + G(T \ {x})}
<1>1. ASSUME NEW T \in SUBSET S, \A x \in T : T \ {x} \in Good, NEW x \in T
      PROVE  G(T) = f[x] + G(T \ {x})
    <2>. DEFINE x0 == Chosen(T)
    <2>1. x0 \in T
        BY ChosenIn
    <2>2. G(T) = f[x0] + G(T \ {x0})
        BY FS_Subset, SumChosen
    <2>. HIDE DEF x0
    <2>3. CASE x = x0
        BY <2>2, <2>3
    <2>4. CASE x # x0
        <3>. DEFINE R == (T \ {x}) \ {x0}
                    r == G(R)
        <3>1. (T \ {x0}) \ {x} = R
            OBVIOUS
        <3>2. r \in Nat
            <4>1. IsFiniteSet(R) /\ \A y \in R : f[y] \in Nat
                BY FS_Subset
            <4>. QED
                BY <4>1, SumNat
        <3>. HIDE DEF G
        <3>3. G(T \ {x0}) = f[x] + G((T \ {x0}) \ {x})
            BY <1>1, <2>1, <2>4
        <3>4. G(T \ {x}) = f[x0] + G((T \ {x}) \ {x0})
            BY <1>1, <2>1, <2>4
        <3>5. f[x] \in Nat /\ f[x0] \in Nat
            BY <2>1
        <3>6. G(T) = f[x0] + (f[x] + r) /\ G(T \ {x}) = f[x0] + r
            BY <2>2, <3>1, <3>3, <3>4
        <3>. HIDE DEF r
        <3>. QED
            BY <3>2, <3>5, <3>6
    <2>. QED
        BY <2>3, <2>4
<1>2. S \in Good
    <2>. HIDE DEF G
    <2>1. \A T \in SUBSET S : (\A x \in T : T \ {x} \in Good) => T \in Good
        BY <1>1
    <2>. HIDE DEF Good
    <2>. QED
        BY <2>1, FiniteInduction
<1>. QED
    BY <1>2

\* So an element may be added.
LEMMA SumAdd ==
    ASSUME NEW f, NEW S, IsFiniteSet(S), NEW x, x \notin S,
           \A y \in S \cup {x} : f[y] \in Nat
    PROVE  SumFunctionOnSet(f, S \cup {x}) = f[x] + SumFunctionOnSet(f, S)
<1>1. IsFiniteSet(S \cup {x})
    BY FS_AddElement
<1>2. (S \cup {x}) \ {x} = S
    OBVIOUS
<1>. QED
    BY <1>1, <1>2, SumRemove

\* A sum depends on the values summed only.
LEMMA SumSame ==
    ASSUME NEW f, NEW g, NEW S, IsFiniteSet(S), \A x \in S : f[x] = g[x]
    PROVE  SumFunctionOnSet(f, S) = SumFunctionOnSet(g, S)
<1>. DEFINE Good == {T \in SUBSET S : SumFunctionOnSet(f, T) = SumFunctionOnSet(g, T)}
<1>1. ASSUME NEW T \in SUBSET S, \A x \in T : T \ {x} \in Good
      PROVE  T \in Good
    <2>1. CASE T = {}
        BY <2>1, SumEmpty
    <2>2. CASE T # {}
        <3>1. Chosen(T) \in T /\ f[Chosen(T)] = g[Chosen(T)]
            BY <2>2, ChosenIn
        <3>2. /\ SumFunctionOnSet(f, T) = f[Chosen(T)] + SumFunctionOnSet(f, T \ {Chosen(T)})
              /\ SumFunctionOnSet(g, T) = g[Chosen(T)] + SumFunctionOnSet(g, T \ {Chosen(T)})
            BY <2>2, FS_Subset, SumChosen
        <3>. QED
            BY <1>1, <3>1, <3>2
    <2>. QED
        BY <2>1, <2>2
<1>2. S \in Good
    <2>. HIDE DEF Good
    <2>. QED
        BY <1>1, FiniteInduction
<1>. QED
    BY <1>2

\* The members of disjoint finite sets, counted set by set, are those of their
\* union.
LEMMA SumOfDisjoint ==
    ASSUME NEW content, NEW S, IsFiniteSet(S),
           \A x \in S : IsFiniteSet(content[x]),
           \A x, y \in S : x # y => content[x] \cap content[y] = {}
    PROVE  /\ IsFiniteSet(UNION {content[x] : x \in S})
           /\ SumFunctionOnSet([x \in S |-> Cardinality(content[x])], S) =
                Cardinality(UNION {content[x] : x \in S})
<1>. DEFINE f == [x \in S |-> Cardinality(content[x])]
            All(T) == UNION {content[x] : x \in T}
            Good == {T \in SUBSET S : /\ IsFiniteSet(All(T))
                                      /\ SumFunctionOnSet(f, T) = Cardinality(All(T))}
<1>1. \A x \in S : f[x] = Cardinality(content[x]) /\ f[x] \in Nat
    BY FS_CardinalityType
<1>2. ASSUME NEW T \in SUBSET S, \A x \in T : T \ {x} \in Good
      PROVE  T \in Good
    <2>. HIDE DEF f
    <2>1. CASE T = {}
        BY <2>1, SumEmpty, FS_EmptySet
    <2>2. CASE T # {}
        <3>1. PICK x \in T : TRUE
            BY <2>2
        <3>. DEFINE R == T \ {x}
        <3>2. IsFiniteSet(All(R)) /\ SumFunctionOnSet(f, R) = Cardinality(All(R))
            BY <1>2
        <3>3. SumFunctionOnSet(f, T) = f[x] + SumFunctionOnSet(f, R)
            <4>1. IsFiniteSet(T) /\ \A y \in T : f[y] \in Nat
                BY <1>1, FS_Subset
            <4>. QED
                BY <4>1, SumRemove
        <3>4. All(T) = content[x] \cup All(R)
            OBVIOUS
        <3>5. content[x] \cap All(R) = {}
            OBVIOUS
        <3>6. IsFiniteSet(content[x])
            OBVIOUS
        <3>. HIDE DEF All, R
        <3>7. /\ IsFiniteSet(content[x] \cup All(R))
              /\ Cardinality(content[x] \cup All(R)) =
                   Cardinality(content[x]) + Cardinality(All(R)) - Cardinality({})
            BY <3>2, <3>5, <3>6, FS_Union
        <3>8. /\ Cardinality({}) = 0 /\ Cardinality(content[x]) \in Nat
              /\ Cardinality(All(R)) \in Nat
            BY <3>2, <3>6, FS_EmptySet, FS_CardinalityType
        <3>9. SumFunctionOnSet(f, T) = Cardinality(All(T))
            BY <1>1, <3>2, <3>3, <3>4, <3>7, <3>8
        <3>. QED
            BY <3>4, <3>7, <3>9
    <2>. QED
        BY <2>1, <2>2
<1>3. S \in Good
    <2>. HIDE DEF Good, f, All
    <2>. QED
        BY <1>2, FiniteInduction
<1>. QED
    BY <1>3

\* The sum over two sets with nothing in common is that of the sums.
LEMMA SumJoin ==
    ASSUME NEW f, NEW S, NEW T, IsFiniteSet(S), IsFiniteSet(T), S \cap T = {},
           \A x \in S \cup T : f[x] \in Nat
    PROVE  SumFunctionOnSet(f, S \cup T) = SumFunctionOnSet(f, S) + SumFunctionOnSet(f, T)
<1>. DEFINE F(U) == SumFunctionOnSet(f, U)
            Good == {U \in SUBSET T : F(S \cup U) = F(S) + F(U)}
<1>0. F(S) \in Nat
    BY SumNat
<1>1. ASSUME NEW U \in SUBSET T, \A x \in U : U \ {x} \in Good
      PROVE  U \in Good
    <2>1. CASE U = {}
        <3>1. S \cup U = S /\ F(U) = 0
            BY <2>1, SumEmpty
        <3>. HIDE DEF F
        <3>2. F(S \cup U) = F(S)
            BY <3>1, Zenon
        <3>3. F(S) + F(U) = F(S)
            BY <1>0, <3>1
        <3>4. F(S \cup U) = F(S) + F(U)
            BY <3>2, <3>3, Zenon
        <3>. QED
            BY <3>4
    <2>2. CASE U # {}
        <3>1. PICK x \in U : TRUE
            BY <2>2
        <3>. DEFINE R == U \ {x}
        <3>2. F(S \cup R) = F(S) + F(R)
            BY <1>1
        <3>3. IsFiniteSet(R) /\ IsFiniteSet(S \cup R)
            <4>1. IsFiniteSet(R)
                BY FS_Subset
            <4>. QED
                BY <4>1, FS_Union
        <3>4. F(R \cup {x}) = f[x] + F(R)
            <4>1. \A y \in R \cup {x} : f[y] \in Nat
                OBVIOUS
            <4>. QED
                BY <3>3, <4>1, SumAdd
        <3>5. F((S \cup R) \cup {x}) = f[x] + F(S \cup R)
            <4>1. x \notin S \cup R /\ \A y \in (S \cup R) \cup {x} : f[y] \in Nat
                OBVIOUS
            <4>. QED
                BY <3>3, <4>1, SumAdd
        <3>6. R \cup {x} = U /\ (S \cup R) \cup {x} = S \cup U
            OBVIOUS
        <3>7. F(R) \in Nat /\ f[x] \in Nat
            <4>1. \A y \in R : f[y] \in Nat
                OBVIOUS
            <4>. QED
                BY <3>3, <4>1, SumNat
        <3>. DEFINE Rx == R \cup {x}
                    SR == S \cup R
                    SRx == (S \cup R) \cup {x}
                    SU == S \cup U
        <3>. HIDE DEF F, R, Rx, SR, SRx, SU
        <3>71. F(SR) = F(S) + F(R) /\ F(Rx) = f[x] + F(R) /\ F(SRx) = f[x] + F(SR)
            BY <3>2, <3>4, <3>5 DEF Rx, SR, SRx
        <3>72. Rx = U /\ SRx = SU
            BY <3>6 DEF Rx, SRx, SU
        <3>73. F(SU) = F(S) + F(U)
            BY <1>0, <3>7, <3>71, <3>72
        <3>8. F(S \cup U) = F(S) + F(U)
            BY <3>73 DEF SU
        <3>. QED
            BY <3>8
    <2>. QED
        BY <2>1, <2>2
<1>2. T \in Good
    <2>. HIDE DEF Good
    <2>. QED
        BY <1>1, FiniteInduction
<1>. QED
    BY <1>2

\* A sum may be taken over the images of the elements, if no two have the same.
LEMMA SumImage ==
    ASSUME NEW f, NEW g, NEW h, NEW S, IsFiniteSet(S),
           \A x \in S : f[x] \in Nat /\ g[h[x]] = f[x],
           \A x, y \in S : x # y => h[x] # h[y]
    PROVE  /\ IsFiniteSet({h[x] : x \in S})
           /\ Cardinality({h[x] : x \in S}) = Cardinality(S)
           /\ SumFunctionOnSet(g, {h[x] : x \in S}) = SumFunctionOnSet(f, S)
<1>. DEFINE I(U) == {h[x] : x \in U}
            F(U) == SumFunctionOnSet(f, U)
            G(U) == SumFunctionOnSet(g, U)
            Good == {U \in SUBSET S : /\ IsFiniteSet(I(U)) /\ Cardinality(I(U)) = Cardinality(U)
                                      /\ G(I(U)) = F(U)}
<1>1. ASSUME NEW U \in SUBSET S, \A x \in U : U \ {x} \in Good
      PROVE  U \in Good
    <2>1. CASE U = {}
        BY <2>1, SumEmpty, FS_EmptySet
    <2>2. CASE U # {}
        <3>1. PICK x \in U : TRUE
            BY <2>2
        <3>. DEFINE R == U \ {x}
        <3>2. IsFiniteSet(I(R)) /\ Cardinality(I(R)) = Cardinality(R) /\ G(I(R)) = F(R)
            BY <1>1
        <3>3. IsFiniteSet(R)
            BY FS_Subset
        <3>4. I(U) = I(R) \cup {h[x]} /\ h[x] \notin I(R) /\ U = R \cup {x}
            OBVIOUS
        <3>5. F(R \cup {x}) = f[x] + F(R)
            <4>1. \A y \in R \cup {x} : f[y] \in Nat
                OBVIOUS
            <4>. QED
                BY <3>3, <4>1, SumAdd
        <3>6. G(I(R) \cup {h[x]}) = g[h[x]] + G(I(R))
            <4>1. \A y \in I(R) \cup {h[x]} : g[y] \in Nat
                OBVIOUS
            <4>. QED
                BY <3>2, <3>4, <4>1, SumAdd
        <3>7. /\ IsFiniteSet(I(R) \cup {h[x]})
              /\ Cardinality(I(R) \cup {h[x]}) = Cardinality(I(R)) + 1
            BY <3>2, <3>4, FS_AddElement
        <3>8. Cardinality(R \cup {x}) = Cardinality(R) + 1
            BY <3>3, FS_AddElement
        <3>9. g[h[x]] = f[x]
            OBVIOUS
        <3>. HIDE DEF I, F, G, R
        <3>10. IsFiniteSet(I(U)) /\ Cardinality(I(U)) = Cardinality(U) /\ G(I(U)) = F(U)
            BY <3>2, <3>4, <3>5, <3>6, <3>7, <3>8, <3>9
        <3>. QED
            BY <3>10
    <2>. QED
        BY <2>1, <2>2
<1>2. S \in Good
    <2>. HIDE DEF Good
    <2>. QED
        BY <1>1, FiniteInduction
<1>. QED
    BY <1>2

\* A product with a sum of one more.
LEMMA TimesNext == \A a, b \in Nat : a * (b + 1) = a + a * b /\ a * 0 = 0
OBVIOUS

\* The sum of one value, as often as the set has elements.
LEMMA SumConst ==
    ASSUME NEW f, NEW c \in Nat, NEW S, IsFiniteSet(S), \A x \in S : f[x] = c
    PROVE  SumFunctionOnSet(f, S) = c * Cardinality(S)
<1>. DEFINE F(U) == SumFunctionOnSet(f, U)
            Good == {U \in SUBSET S : F(U) = c * Cardinality(U)}
<1>1. ASSUME NEW U \in SUBSET S, \A x \in U : U \ {x} \in Good
      PROVE  U \in Good
    <2>1. CASE U = {}
        <3>1. F(U) = 0 /\ Cardinality(U) = 0
            BY <2>1, SumEmpty, FS_EmptySet
        <3>. HIDE DEF F
        <3>. QED
            BY <3>1, TimesNext
    <2>2. CASE U # {}
        <3>1. PICK x \in U : TRUE
            BY <2>2
        <3>. DEFINE R == U \ {x}
                    n == Cardinality(R)
        <3>2. F(R) = c * n
            BY <1>1
        <3>3. IsFiniteSet(U) /\ IsFiniteSet(R)
            BY FS_Subset
        <3>4. F(U) = c + F(R)
            <4>1. \A y \in U : f[y] \in Nat
                OBVIOUS
            <4>2. f[x] = c
                OBVIOUS
            <4>. QED
                BY <3>3, <4>1, <4>2, SumRemove
        <3>5. n \in Nat /\ Cardinality(R \cup {x}) = n + 1
            BY <3>3, FS_AddElement, FS_CardinalityType
        <3>6. R \cup {x} = U
            OBVIOUS
        <3>. HIDE DEF F, R, n
        <3>7. F(U) = c * Cardinality(U)
            BY <3>2, <3>4, <3>5, <3>6, TimesNext
        <3>. QED
            BY <3>7
    <2>. QED
        BY <2>1, <2>2
<1>2. S \in Good
    <2>. HIDE DEF Good
    <2>. QED
        BY <1>1, FiniteInduction
<1>. QED
    BY <1>2

\* A sum may be taken group by group.
LEMMA SumGroups ==
    ASSUME NEW w, NEW f, NEW content, NEW S, IsFiniteSet(S),
           \A x \in S : IsFiniteSet(content[x]) /\ f[x] = SumFunctionOnSet(w, content[x]),
           \A x \in S : \A y \in content[x] : w[y] \in Nat,
           \A x, y \in S : x # y => content[x] \cap content[y] = {}
    PROVE  SumFunctionOnSet(f, S) = SumFunctionOnSet(w, UNION {content[x] : x \in S})
<1>. DEFINE All(U) == UNION {content[x] : x \in U}
            F(U) == SumFunctionOnSet(f, U)
            W(U) == SumFunctionOnSet(w, U)
            Good == {U \in SUBSET S : IsFiniteSet(All(U)) /\ F(U) = W(All(U))}
<1>0. \A x \in S : f[x] \in Nat /\ f[x] = W(content[x])
    BY SumNat
<1>1. ASSUME NEW U \in SUBSET S, \A x \in U : U \ {x} \in Good
      PROVE  U \in Good
    <2>1. CASE U = {}
        BY <2>1, SumEmpty, FS_EmptySet
    <2>2. CASE U # {}
        <3>1. PICK x \in U : TRUE
            BY <2>2
        <3>. DEFINE R == U \ {x}
        <3>2. IsFiniteSet(All(R)) /\ F(R) = W(All(R))
            BY <1>1
        <3>3. F(U) = f[x] + F(R)
            <4>1. IsFiniteSet(U) /\ \A y \in U : f[y] \in Nat
                BY <1>0, FS_Subset
            <4>. QED
                BY <4>1, SumRemove
        <3>4. All(U) = content[x] \cup All(R) /\ content[x] \cap All(R) = {}
            OBVIOUS
        <3>5. IsFiniteSet(content[x]) /\ \A y \in content[x] \cup All(R) : w[y] \in Nat
            OBVIOUS
        <3>6. f[x] = W(content[x])
            BY <1>0
        <3>7. W(content[x] \cup All(R)) = W(content[x]) + W(All(R))
            <4>. HIDE DEF All, R
            <4>. QED
                BY <3>2, <3>4, <3>5, SumJoin
        <3>8. IsFiniteSet(content[x] \cup All(R))
            <4>. HIDE DEF All, R
            <4>. QED
                BY <3>2, <3>5, FS_Union
        <3>. HIDE DEF All, F, W, R
        <3>9. IsFiniteSet(All(U)) /\ F(U) = W(All(U))
            BY <3>2, <3>3, <3>4, <3>6, <3>7, <3>8
        <3>. QED
            BY <3>9
    <2>. QED
        BY <2>1, <2>2
<1>2. S \in Good
    <2>. HIDE DEF Good, F, W, All
    <2>. QED
        BY <1>1, FiniteInduction
<1>. QED
    BY <1>2

\* Of two sums the one with the smaller values is the smaller.
LEMMA SumLess ==
    ASSUME NEW f, NEW g, NEW S, IsFiniteSet(S),
           \A x \in S : f[x] \in Nat /\ g[x] \in Nat /\ f[x] <= g[x]
    PROVE  SumFunctionOnSet(f, S) <= SumFunctionOnSet(g, S)
<1>. DEFINE F(U) == SumFunctionOnSet(f, U)
            G(U) == SumFunctionOnSet(g, U)
            Good == {U \in SUBSET S : F(U) \in Nat /\ G(U) \in Nat /\ F(U) <= G(U)}
<1>1. ASSUME NEW U \in SUBSET S, \A x \in U : U \ {x} \in Good
      PROVE  U \in Good
    <2>1. CASE U = {}
        <3>1. F(U) = 0 /\ G(U) = 0
            BY <2>1, SumEmpty
        <3>. HIDE DEF F, G
        <3>. QED
            BY <3>1
    <2>2. CASE U # {}
        <3>1. PICK x \in U : TRUE
            BY <2>2
        <3>. DEFINE R == U \ {x}
        <3>2. F(R) \in Nat /\ G(R) \in Nat /\ F(R) <= G(R)
            BY <1>1
        <3>3. F(U) = f[x] + F(R) /\ G(U) = g[x] + G(R)
            <4>1. IsFiniteSet(U) /\ \A y \in U : f[y] \in Nat /\ g[y] \in Nat
                BY FS_Subset
            <4>. QED
                BY <4>1, SumRemove
        <3>4. f[x] \in Nat /\ g[x] \in Nat /\ f[x] <= g[x]
            OBVIOUS
        <3>. HIDE DEF F, G, R
        <3>5. F(U) \in Nat /\ G(U) \in Nat /\ F(U) <= G(U)
            BY <3>2, <3>3, <3>4
        <3>. QED
            BY <3>5
    <2>. QED
        BY <2>1, <2>2
<1>2. S \in Good
    <2>. HIDE DEF Good
    <2>. QED
        BY <1>1, FiniteInduction
<1>. QED
    BY <1>2

\* h adds up f and g, element by element.
AddUp(f, g, h, S) == \A x \in S : f[x] \in Nat /\ g[x] \in Nat /\ h[x] = f[x] + g[x]

\* The sum of a function that adds up two others is the sum of theirs.
LEMMA SumPlus ==
    ASSUME NEW f, NEW g, NEW h, NEW S, IsFiniteSet(S), AddUp(f, g, h, S)
    PROVE  SumFunctionOnSet(h, S) = SumFunctionOnSet(f, S) + SumFunctionOnSet(g, S)
<1>0. \A x \in S : f[x] \in Nat /\ g[x] \in Nat /\ h[x] = f[x] + g[x]
    BY DEF AddUp
<1>. DEFINE F(T) == SumFunctionOnSet(f, T)
            G(T) == SumFunctionOnSet(g, T)
            H(T) == SumFunctionOnSet(h, T)
            Good == {T \in SUBSET S : H(T) = F(T) + G(T)}
<1>1. ASSUME NEW T \in SUBSET S, \A x \in T : T \ {x} \in Good
      PROVE  T \in Good
    <2>1. CASE T = {}
        BY <2>1, SumEmpty
    <2>2. CASE T # {}
        <3>. DEFINE x == Chosen(T)
                    R == T \ {x}
        <3>1. x \in T
            BY <2>2, ChosenIn
        <3>2. /\ F(T) = f[x] + F(R) /\ G(T) = g[x] + G(R) /\ H(T) = h[x] + H(R)
            BY <2>2, FS_Subset, SumChosen
        <3>3. F(R) \in Nat /\ G(R) \in Nat
            <4>1. IsFiniteSet(R) /\ \A y \in R : f[y] \in Nat /\ g[y] \in Nat
                BY <1>0, FS_Subset
            <4>. QED
                BY <4>1, SumNat
        <3>4. H(R) = F(R) + G(R)
            BY <1>1, <3>1
        <3>5. f[x] \in Nat /\ g[x] \in Nat /\ h[x] = f[x] + g[x]
            BY <1>0, <3>1
        <3>. HIDE DEF F, G, H, x, R
        <3>6. H(T) = F(T) + G(T)
            BY <3>2, <3>3, <3>4, <3>5
        <3>. QED
            BY <3>6
    <2>. QED
        BY <2>1, <2>2
<1>2. S \in Good
    <2>. HIDE DEF Good
    <2>. QED
        BY <1>1, FiniteInduction
<1>. QED
    BY <1>2
=============================================================================
