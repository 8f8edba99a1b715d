---------------------------- MODULE MoneyTheorems ----------------------------
(***************************************************************************)
(* Facts about the arithmetic of money that several proofs rest on: what   *)
(* the sum of a column does when a row is added, changed or split off, and *)
(* that a prorated amount is a whole number of cents.                      *)
(*                                                                         *)
(* Sums are SumFunction of the community module Functions, which is        *)
(* recursive.  Induction over the finite set of rows is stated for a       *)
(* family of sets in place of a predicate, in which form the provers can   *)
(* instantiate it: LeastSubset and SubsetInduction.                        *)
(***************************************************************************)
EXTENDS Proration, FiniteSetsExt, FiniteSetTheorems, WellFoundedInduction, TLAPS

\* A non-empty family of subsets of a finite set has a member none of whose
\* proper subsets is in the family: the form in which induction over finite
\* sets is used below, the family being that of the counterexamples.
LEMMA LeastSubset ==
  ASSUME NEW S, IsFiniteSet(S), NEW B \in SUBSET (SUBSET S), B # {}
  PROVE  \E T \in B : \A U \in SUBSET T : U # T => U \notin B
<1>1. IsWellFoundedOn(StrictSubsetOrdering(S), SUBSET S)
  BY FS_StrictSubsetOrderingWellFounded, FS_FiniteSubsetsOfFinite
<1>2. \E T \in B : \A U \in B : ~ (<<U, T>> \in StrictSubsetOrdering(S))
  BY <1>1, WFMin
<1> QED
  BY <1>2 DEF StrictSubsetOrdering

\* Induction: a family of subsets of a finite set that has the empty set, and
\* with a set every extension of it by one element, has the whole set.
LEMMA SubsetInduction ==
  ASSUME NEW S, IsFiniteSet(S), NEW G \in SUBSET (SUBSET S), {} \in G,
         \A T \in G : \A x \in S \ T : T \cup {x} \in G
  PROVE  S \in G
<1> DEFINE B == (SUBSET S) \ G
<1>1. SUFFICES ASSUME B # {} PROVE FALSE
  OBVIOUS
<1>2. PICK T \in B : \A U \in SUBSET T : U # T => U \notin B
  <2>1. B \in SUBSET (SUBSET S)
    OBVIOUS
  <2> HIDE DEF B
  <2> QED
    BY <1>1, <2>1, LeastSubset
<1>3. PICK x \in T : TRUE
  BY <1>2
<1>4. T \ {x} \in G
  BY <1>2, <1>3
<1>5. T = (T \ {x}) \cup {x} /\ x \in S \ (T \ {x})
  BY <1>2, <1>3
<1> QED
  BY <1>2, <1>4, <1>5

\* The same for the natural numbers.
LEMMA LeastNatural ==
  ASSUME NEW S, S \subseteq Nat, S # {}
  PROVE  \E m \in S : \A x \in S : m <= x
<1>1. PICK m \in S : \A y \in S : ~ (<<y, m>> \in OpToRel(<, Nat))
  BY NatLessThanWellFounded, WFMin
<1>2. \A y \in S : ~ (y < m)
  BY <1>1 DEF OpToRel
<1> QED
  BY <1>2

LEMMA NaturalInduction ==
  ASSUME NEW G, G \subseteq Nat, 0 \in G, \A n \in G : n + 1 \in G
  PROVE  G = Nat
<1> SUFFICES ASSUME Nat \ G # {} PROVE FALSE
  OBVIOUS
<1>1. PICK m \in Nat \ G : \A x \in Nat \ G : m <= x
  BY LeastNatural
<1>2. m # 0 /\ m - 1 \in Nat /\ (m - 1) + 1 = m
  BY <1>1
<1>3. m - 1 \in G
  BY <1>1, <1>2
<1> QED
  BY <1>1, <1>2, <1>3

-----------------------------------------------------------------------------
\* SumFunctionOnSet satisfies its recursion.

Pick(s) == CHOOSE x \in s : TRUE

\* The recursion of MapThenFoldSet for a sum: g is its table for the subsets
\* of S.
Tabulates(g, f, S) ==
  g = [s \in SUBSET S |-> IF s = {} THEN 0 ELSE f[Pick(s)] + g[s \ {Pick(s)}]]

LEMMA SumIsTabulated ==
  ASSUME NEW f, NEW S
  PROVE  SumFunctionOnSet(f, S) = (CHOOSE g : Tabulates(g, f, S))[S]
BY DEF SumFunctionOnSet, FoldFunctionOnSet, MapThenFoldSet, Tabulates, Pick

LEMMA PickIsMember == \A s : s # {} => Pick(s) \in s
BY DEF Pick

LEMMA TablesAgree ==
  ASSUME NEW f, NEW S, IsFiniteSet(S), NEW g, NEW h, Tabulates(g, f, S), Tabulates(h, f, S)
  PROVE  g[S] = h[S]
<1> DEFINE B == {s \in SUBSET S : g[s] # h[s]}
<1>1. SUFFICES ASSUME B # {} PROVE FALSE
  OBVIOUS
<1>2. PICK T \in B : \A U \in SUBSET T : U # T => U \notin B
  <2>1. B \in SUBSET (SUBSET S)
    OBVIOUS
  <2> HIDE DEF B
  <2> QED
    BY <1>1, <2>1, LeastSubset
<1>3. \A s \in SUBSET S : g[s] = IF s = {} THEN 0 ELSE f[Pick(s)] + g[s \ {Pick(s)}]
  BY DEF Tabulates
<1>4. \A s \in SUBSET S : h[s] = IF s = {} THEN 0 ELSE f[Pick(s)] + h[s \ {Pick(s)}]
  BY DEF Tabulates
<1>5. T # {} => g[T \ {Pick(T)}] = h[T \ {Pick(T)}]
  BY <1>2, PickIsMember
<1>6. g[T] = h[T]
  BY <1>2, <1>3, <1>4, <1>5
<1> QED
  BY <1>2, <1>6

LEMMA SumUnfolds ==
  ASSUME NEW f, NEW S, IsFiniteSet(S)
  PROVE  SumFunctionOnSet(f, S) =
           IF S = {} THEN 0 ELSE f[Pick(S)] + SumFunctionOnSet(f, S \ {Pick(S)})
<1> DEFINE Unfolds(T) == SumFunctionOnSet(f, T) =
             IF T = {} THEN 0 ELSE f[Pick(T)] + SumFunctionOnSet(f, T \ {Pick(T)})
           B == {s \in SUBSET S : ~ Unfolds(s)}
<1>1. SUFFICES ASSUME B # {} PROVE FALSE
  OBVIOUS
<1>2. PICK T \in B : \A U \in SUBSET T : U # T => U \notin B
  <2>1. B \in SUBSET (SUBSET S)
    OBVIOUS
  <2> HIDE DEF B
  <2> QED
    BY <1>1, <2>1, LeastSubset
<1>3. IsFiniteSet(T) /\ ~ Unfolds(T) /\ \A U \in SUBSET T : U # T => Unfolds(U)
  BY <1>2, FS_Subset
<1> DEFINE w == [s \in SUBSET T |->
                   IF s = T THEN IF T = {} THEN 0
                                 ELSE f[Pick(T)] + SumFunctionOnSet(f, T \ {Pick(T)})
                   ELSE SumFunctionOnSet(f, s)]
<1>4. ASSUME NEW s \in SUBSET T
      PROVE  w[s] = IF s = {} THEN 0 ELSE f[Pick(s)] + w[s \ {Pick(s)}]
  <2>1. s # {} => s \ {Pick(s)} \in SUBSET T /\ s \ {Pick(s)} # T
    BY PickIsMember
  <2>2. s # {} => w[s \ {Pick(s)}] = SumFunctionOnSet(f, s \ {Pick(s)})
    BY <2>1
  <2>3. CASE s = T
    BY <2>2, <2>3
  <2>4. CASE s # T
    <3>1. Unfolds(s)
      BY <1>3, <2>4
    <3>2. w[s] = SumFunctionOnSet(f, s)
      BY <2>4
    <3> QED
      BY <2>2, <3>1, <3>2
  <2> QED
    BY <2>3, <2>4
<1>5. Tabulates(w, f, T)
  <2>1. w = [s \in SUBSET T |-> w[s]]
    OBVIOUS
  <2>2. [s \in SUBSET T |-> w[s]]
        = [s \in SUBSET T |-> IF s = {} THEN 0 ELSE f[Pick(s)] + w[s \ {Pick(s)}]]
    BY <1>4
  <2> HIDE DEF w
  <2> QED
    BY <2>1, <2>2 DEF Tabulates
<1>6. SumFunctionOnSet(f, T) = w[T]
  <2> DEFINE g == CHOOSE h : Tabulates(h, f, T)
  <2>1. Tabulates(g, f, T)
    BY <1>5, Zenon
  <2> HIDE DEF g, w
  <2>2. g[T] = w[T]
    BY <1>3, <1>5, <2>1, TablesAgree
  <2> QED
    BY <2>2, SumIsTabulated DEF g
<1> QED
  BY <1>3, <1>6

LEMMA SumOfNone == \A f : SumFunctionOnSet(f, {}) = 0
BY SumUnfolds, FS_EmptySet

\* Only the values on the set matter.
LEMMA SumsAgree ==
  ASSUME NEW S, IsFiniteSet(S), NEW f, NEW g, \A x \in S : f[x] = g[x]
  PROVE  SumFunctionOnSet(f, S) = SumFunctionOnSet(g, S)
<1> DEFINE B == {s \in SUBSET S : SumFunctionOnSet(f, s) # SumFunctionOnSet(g, s)}
<1>1. SUFFICES ASSUME B # {} PROVE FALSE
  OBVIOUS
<1>2. PICK T \in B : \A U \in SUBSET T : U # T => U \notin B
  <2>1. B \in SUBSET (SUBSET S)
    OBVIOUS
  <2> HIDE DEF B
  <2> QED
    BY <1>1, <2>1, LeastSubset
<1>3. IsFiniteSet(T)
  BY FS_Subset
<1>4. T # {} => /\ Pick(T) \in S
                /\ SumFunctionOnSet(f, T \ {Pick(T)}) = SumFunctionOnSet(g, T \ {Pick(T)})
  BY <1>2, PickIsMember
<1> QED
  BY <1>2, <1>3, <1>4, SumUnfolds

\* The sum over the empty set, and over a set with one element more: all that
\* the rest of the module uses of the definition.
LEMMA SumIsInteger ==
  ASSUME NEW S, IsFiniteSet(S), NEW f, \A x \in S : f[x] \in Int
  PROVE  SumFunctionOnSet(f, S) \in Int
<1> DEFINE B == {s \in SUBSET S : SumFunctionOnSet(f, s) \notin Int}
<1>1. SUFFICES ASSUME B # {} PROVE FALSE
  OBVIOUS
<1>2. PICK T \in B : \A U \in SUBSET T : U # T => U \notin B
  <2>1. B \in SUBSET (SUBSET S)
    OBVIOUS
  <2> HIDE DEF B
  <2> QED
    BY <1>1, <2>1, LeastSubset
<1>3. IsFiniteSet(T)
  BY FS_Subset
<1>4. T # {}
  BY <1>2, SumOfNone
<1>5. f[Pick(T)] \in Int /\ SumFunctionOnSet(f, T \ {Pick(T)}) \in Int
  BY <1>2, <1>4, PickIsMember
<1>6. SumFunctionOnSet(f, T) = f[Pick(T)] + SumFunctionOnSet(f, T \ {Pick(T)})
  BY <1>3, <1>4, SumUnfolds
<1> QED
  BY <1>2, <1>5, <1>6

LEMMA SumTakesOut ==
  ASSUME NEW S, IsFiniteSet(S), NEW f, \A x \in S : f[x] \in Int, NEW x \in S
  PROVE  SumFunctionOnSet(f, S) = f[x] + SumFunctionOnSet(f, S \ {x})
<1> DEFINE B == {s \in SUBSET S : \E y \in s :
                   SumFunctionOnSet(f, s) # f[y] + SumFunctionOnSet(f, s \ {y})}
<1>1. SUFFICES ASSUME B # {} PROVE FALSE
  OBVIOUS
<1>2. PICK T \in B : \A U \in SUBSET T : U # T => U \notin B
  <2>1. B \in SUBSET (SUBSET S)
    OBVIOUS
  <2> HIDE DEF B
  <2> QED
    BY <1>1, <2>1, LeastSubset
<1>3. PICK y \in T : SumFunctionOnSet(f, T) # f[y] + SumFunctionOnSet(f, T \ {y})
  BY <1>2
<1> DEFINE c == Pick(T)
<1>4. c \in T
  BY PickIsMember
<1>5. SumFunctionOnSet(f, T) = f[c] + SumFunctionOnSet(f, T \ {c})
  BY SumUnfolds, FS_Subset
<1>6. c # y
  BY <1>3, <1>5
<1> HIDE DEF c
<1>7. SumFunctionOnSet(f, T \ {c}) = f[y] + SumFunctionOnSet(f, (T \ {c}) \ {y})
  BY <1>2, <1>4, <1>6
<1>8. SumFunctionOnSet(f, T \ {y}) = f[c] + SumFunctionOnSet(f, (T \ {y}) \ {c})
  BY <1>2, <1>4, <1>6
<1>9. (T \ {c}) \ {y} = (T \ {y}) \ {c}
  OBVIOUS
<1>10. PICK rest \in Int : rest = SumFunctionOnSet(f, (T \ {y}) \ {c})
  <2>1. IsFiniteSet((T \ {y}) \ {c})
    BY FS_Subset
  <2> QED
    BY <2>1, SumIsInteger
<1>11. f[c] \in Int /\ f[y] \in Int
  BY <1>4
<1>12. SumFunctionOnSet(f, T) = f[c] + (f[y] + rest)
  BY <1>5, <1>7, <1>9, <1>10
<1>13. f[y] + SumFunctionOnSet(f, T \ {y}) = f[y] + (f[c] + rest)
  BY <1>8, <1>10
<1>14. f[c] + (f[y] + rest) = f[y] + (f[c] + rest)
  BY <1>10, <1>11
<1> QED
  BY <1>3, <1>12, <1>13, <1>14

-----------------------------------------------------------------------------
\* Sums of functions.

LEMMA SumInt ==
  ASSUME NEW S, IsFiniteSet(S), NEW f \in [S -> Int]
  PROVE  SumFunction(f) \in Int
<1>1. SumFunction(f) = SumFunctionOnSet(f, S)
  BY DEF SumFunction
<1> QED
  BY <1>1, SumIsInteger

LEMMA SumEmpty == \A f : DOMAIN f = {} => SumFunction(f) = 0
BY SumOfNone DEF SumFunction

\* A row is added.
LEMMA SumAdds ==
  ASSUME NEW S, IsFiniteSet(S), NEW x, x \notin S,
         NEW f \in [S -> Int], NEW g \in [S \cup {x} -> Int], \A y \in S : g[y] = f[y]
  PROVE  SumFunction(g) = SumFunction(f) + g[x]
<1>1. IsFiniteSet(S \cup {x}) /\ (S \cup {x}) \ {x} = S
  BY FS_AddElement
<1>2. \A y \in S \cup {x} : g[y] \in Int
  OBVIOUS
<1>3. SumFunctionOnSet(g, S \cup {x}) = g[x] + SumFunctionOnSet(g, S)
  BY <1>1, <1>2, SumTakesOut
<1>4. SumFunctionOnSet(g, S) = SumFunctionOnSet(f, S)
  BY SumsAgree
<1>5. SumFunctionOnSet(f, S) \in Int
  BY SumIsInteger
<1>6. SumFunction(g) = SumFunctionOnSet(g, S \cup {x}) /\ SumFunction(f) = SumFunctionOnSet(f, S)
  BY DEF SumFunction
<1> QED
  BY <1>2, <1>3, <1>4, <1>5, <1>6

\* Two rows.
LEMMA SumOfTwo ==
  ASSUME NEW a, NEW b, a # b, NEW f \in [{a, b} -> Int]
  PROVE  SumFunction(f) = f[a] + f[b]
<1> DEFINE one  == [i \in {a} |-> f[i]]
           none == [i \in {} |-> f[i]]
<1>1. IsFiniteSet({}) /\ IsFiniteSet({a})
  BY FS_EmptySet, FS_Singleton
<1>2. SumFunction(none) = 0
  BY SumEmpty
<1>3. SumFunction(one) = SumFunction(none) + one[a]
  <2>1. /\ none \in [{} -> Int] /\ one \in [{} \cup {a} -> Int] /\ \A y \in {} : one[y] = none[y]
        /\ a \notin {}
    OBVIOUS
  <2> HIDE DEF one, none
  <2> QED
    BY <1>1, <2>1, SumAdds
<1>4. SumFunction(f) = SumFunction(one) + f[b]
  <2>1. f \in [{a} \cup {b} -> Int] /\ one \in [{a} -> Int] /\ \A y \in {a} : f[y] = one[y]
    <3>1. {a, b} = {a} \cup {b}
      OBVIOUS
    <3> QED
      BY <3>1
  <2> HIDE DEF one
  <2> QED
    BY <1>1, <2>1, SumAdds
<1>5. one[a] = f[a] /\ f[a] \in Int
  OBVIOUS
<1> QED
  BY <1>2, <1>3, <1>4, <1>5

LEMMA SumPair ==
  ASSUME NEW f \in [1 .. 2 -> Int]
  PROVE  SumFunction(f) = f[1] + f[2]
<1>1. PICK a, b : a = 1 /\ b = 2
  OBVIOUS
<1>2. a # b /\ f \in [{a, b} -> Int]
  <2>1. 1 .. 2 = {1, 2}
    OBVIOUS
  <2> QED
    BY <1>1, <2>1
<1>3. SumFunction(f) = f[a] + f[b]
  BY <1>2, SumOfTwo
<1> QED
  BY <1>1, <1>3

\* The rows are renamed.
LEMMA SumReindexed ==
  ASSUME NEW S, IsFiniteSet(S), NEW T, NEW phi \in [S -> T],
         \A x, y \in S : phi[x] = phi[y] => x = y,
         \A z \in T : \E x \in S : phi[x] = z,
         NEW f \in [S -> Int], NEW g \in [T -> Int], \A x \in S : g[phi[x]] = f[x]
  PROVE  SumFunction(f) = SumFunction(g)
<1> DEFINE Image(R) == {phi[x] : x \in R}
           G == {R \in SUBSET S :
                   IsFiniteSet(Image(R)) /\ SumFunctionOnSet(f, R) = SumFunctionOnSet(g, Image(R))}
<1>1. {} \in G
  <2>1. Image({}) = {}
    OBVIOUS
  <2> QED
    BY <2>1, FS_EmptySet, SumOfNone
<1>2. ASSUME NEW R \in G, NEW x \in S \ R PROVE R \cup {x} \in G
  <2> DEFINE old == Image(R)
             new == Image(R \cup {x})
  <2>1. /\ IsFiniteSet(R \cup {x}) /\ (R \cup {x}) \ {x} = R
        /\ IsFiniteSet(old) /\ SumFunctionOnSet(f, R) = SumFunctionOnSet(g, old)
    BY FS_Subset
  <2>2. /\ new = old \cup {phi[x]} /\ phi[x] \notin old
        /\ (\A y \in new : g[y] \in Int) /\ phi[x] \in new
    OBVIOUS
  <2>3. SumFunctionOnSet(f, R \cup {x}) = f[x] + SumFunctionOnSet(f, R)
    <3>1. \A y \in R \cup {x} : f[y] \in Int
      OBVIOUS
    <3> QED
      BY <2>1, <3>1, SumTakesOut
  <2>4. g[phi[x]] = f[x]
    OBVIOUS
  <2> HIDE DEF old, new
  <2>5. IsFiniteSet(new) /\ new \ {phi[x]} = old
    BY <2>1, <2>2, FS_AddElement
  <2>6. SumFunctionOnSet(g, new) = g[phi[x]] + SumFunctionOnSet(g, new \ {phi[x]})
    BY <2>2, <2>5, SumTakesOut
  <2>7. SumFunctionOnSet(f, R \cup {x}) = SumFunctionOnSet(g, new)
    BY <2>1, <2>3, <2>4, <2>5, <2>6
  <2> QED
    BY <2>5, <2>7 DEF new
<1>3. S \in G
  <2>1. G \in SUBSET (SUBSET S)
    OBVIOUS
  <2> HIDE DEF G
  <2> QED
    BY <1>1, <1>2, <2>1, SubsetInduction
<1>4. Image(S) = T
  OBVIOUS
<1> QED
  BY <1>3, <1>4 DEF SumFunction

\* No row is smaller.
LEMMA SumMonotone ==
  ASSUME NEW S, IsFiniteSet(S), NEW f \in [S -> Int], NEW g \in [S -> Int],
         \A x \in S : f[x] <= g[x]
  PROVE  SumFunction(f) <= SumFunction(g)
<1> DEFINE G == {R \in SUBSET S : SumFunctionOnSet(f, R) <= SumFunctionOnSet(g, R)}
<1>1. {} \in G
  BY SumOfNone
<1>2. ASSUME NEW R \in G, NEW x \in S \ R PROVE R \cup {x} \in G
  <2>1. IsFiniteSet(R \cup {x}) /\ (R \cup {x}) \ {x} = R /\ IsFiniteSet(R)
    BY FS_Subset
  <2>2. /\ \A y \in R \cup {x} : f[y] \in Int /\ g[y] \in Int
        /\ \A y \in R : f[y] \in Int /\ g[y] \in Int
    OBVIOUS
  <2>3. SumFunctionOnSet(f, R \cup {x}) = f[x] + SumFunctionOnSet(f, R)
    BY <2>1, <2>2, SumTakesOut
  <2>4. SumFunctionOnSet(g, R \cup {x}) = g[x] + SumFunctionOnSet(g, R)
    BY <2>1, <2>2, SumTakesOut
  <2>5. SumFunctionOnSet(f, R) \in Int /\ SumFunctionOnSet(g, R) \in Int
    BY <2>1, <2>2, SumIsInteger
  <2> QED
    BY <2>2, <2>3, <2>4, <2>5
<1>3. S \in G
  <2>1. G \in SUBSET (SUBSET S)
    OBVIOUS
  <2> HIDE DEF G
  <2> QED
    BY <1>1, <1>2, <2>1, SubsetInduction
<1> QED
  BY <1>3 DEF SumFunction

\* The rows are split in two.
LEMMA SumSplit ==
  ASSUME NEW S, IsFiniteSet(S), NEW A \in SUBSET S, NEW f \in [S -> Int],
         NEW g \in [A -> Int], NEW h \in [S \ A -> Int],
         \A x \in A : g[x] = f[x], \A x \in S \ A : h[x] = f[x]
  PROVE  SumFunction(f) = SumFunction(g) + SumFunction(h)
<1> DEFINE rest == SumFunctionOnSet(f, S \ A)
           G == {R \in SUBSET A : SumFunctionOnSet(f, R \cup (S \ A))
                                  = SumFunctionOnSet(f, R) + rest}
<1>0. IsFiniteSet(A) /\ IsFiniteSet(S \ A)
  BY FS_Subset
<1>1. rest \in Int
  BY <1>0, SumIsInteger
<1>2. {} \in G
  BY <1>1, SumOfNone
<1>3. ASSUME NEW R \in G, NEW x \in A \ R PROVE R \cup {x} \in G
  <2>1. /\ IsFiniteSet(R) /\ IsFiniteSet(R \cup {x}) /\ (R \cup {x}) \ {x} = R
        /\ IsFiniteSet((R \cup {x}) \cup (S \ A))
        /\ ((R \cup {x}) \cup (S \ A)) \ {x} = R \cup (S \ A)
    <3>1. R \subseteq S /\ R \cup {x} \subseteq S /\ (R \cup {x}) \cup (S \ A) \subseteq S
      OBVIOUS
    <3>2. IsFiniteSet(R) /\ IsFiniteSet(R \cup {x}) /\ IsFiniteSet((R \cup {x}) \cup (S \ A))
      BY <3>1, FS_Subset
    <3> QED
      BY <3>2
  <2>2. \A y \in (R \cup {x}) \cup (S \ A) : f[y] \in Int
    OBVIOUS
  <2>3. SumFunctionOnSet(f, R \cup {x}) = f[x] + SumFunctionOnSet(f, R)
    BY <2>1, <2>2, SumTakesOut
  <2>4. SumFunctionOnSet(f, (R \cup {x}) \cup (S \ A))
        = f[x] + SumFunctionOnSet(f, R \cup (S \ A))
    BY <2>1, <2>2, SumTakesOut
  <2>5. SumFunctionOnSet(f, R) \in Int /\ f[x] \in Int
    BY <2>1, <2>2, SumIsInteger
  <2>6. SumFunctionOnSet(f, R \cup (S \ A)) = SumFunctionOnSet(f, R) + rest
    OBVIOUS
  <2> HIDE DEF rest
  <2>7. SumFunctionOnSet(f, (R \cup {x}) \cup (S \ A)) = SumFunctionOnSet(f, R \cup {x}) + rest
    BY <1>1, <2>3, <2>4, <2>5, <2>6
  <2> QED
    BY <2>7
<1>4. A \in G
  <2>1. G \in SUBSET (SUBSET A)
    OBVIOUS
  <2> HIDE DEF G
  <2> QED
    BY <1>0, <1>2, <1>3, <2>1, SubsetInduction
<1>5. A \cup (S \ A) = S
  OBVIOUS
<1>6. SumFunctionOnSet(f, A) = SumFunctionOnSet(g, A)
  BY <1>0, SumsAgree
<1>7. SumFunctionOnSet(f, S \ A) = SumFunctionOnSet(h, S \ A)
  BY <1>0, SumsAgree
<1> QED
  BY <1>4, <1>5, <1>6, <1>7 DEF SumFunction

\* A finite set of integers has a greatest element, which is what Max chooses.
LEMMA FiniteMax ==
  ASSUME NEW S, IsFiniteSet(S), S \subseteq Int, S # {}
  PROVE  \E m \in S : \A x \in S : x <= m
<1> DEFINE Topped(R) == R = {} \/ \E m \in R : \A x \in R : x <= m
           G == {R \in SUBSET S : Topped(R)}
<1>1. {} \in G
  OBVIOUS
<1>2. ASSUME NEW R \in G, NEW x \in S \ R PROVE R \cup {x} \in G
  <2>1. CASE R = {}
    BY <2>1
  <2>2. CASE R # {}
    <3>1. PICK m \in R : \A y \in R : y <= m
      BY <2>2
    <3>2. m \in Int /\ x \in Int /\ \A y \in R : y \in Int
      OBVIOUS
    <3>3. CASE x <= m
      BY <3>1, <3>3
    <3>4. CASE ~ (x <= m)
      <4>1. \A y \in R \cup {x} : y <= x
        BY <3>1, <3>2, <3>4
      <4> QED
        BY <4>1
    <3> QED
      BY <3>3, <3>4
  <2> QED
    BY <2>1, <2>2
<1>3. S \in G
  <2>1. G \in SUBSET (SUBSET S)
    OBVIOUS
  <2> HIDE DEF G
  <2> QED
    BY <1>1, <1>2, <2>1, SubsetInduction
<1> QED
  BY <1>3

LEMMA FiniteImage ==
  ASSUME NEW S, IsFiniteSet(S), NEW f, DOMAIN f = S, f = [x \in S |-> f[x]]
  PROVE  IsFiniteSet({f[x] : x \in S})
<1> DEFINE T == {f[x] : x \in S}
<1>1. f \in Surjection(S, T)
  BY DEF Surjection
<1> QED
  BY <1>1, FS_Surjection

-----------------------------------------------------------------------------
\* Rounding.

LEMMA AdjustmentInt ==
  ASSUME NEW term, term.start \in Int, term.end \in Int, term.start < term.end,
         NEW day \in Int, NEW old \in Int, NEW new \in Int
  PROVE  Adjustment(term, day, old, new) \in Int
<1> DEFINE n == (new - old) * RemainingDays(term, day)
           d == TermDays(term)
<1>1. n \in Int /\ d \in Int /\ d > 0
  BY DEF RemainingDays, TermDays
<1> HIDE DEF n, d
<1>2. Abs(n) \in Nat
  BY <1>1 DEF Abs
<1>3. Abs(n) \div d \in Int /\ Abs(n) % d \in Int
  BY <1>1, <1>2
<1>4. RoundFractionHalfAwayFromZero(n, d) \in Int
  BY <1>1, <1>3 DEF RoundFractionHalfAwayFromZero
<1> QED
  BY <1>4 DEF Adjustment, ProratedDelta, n, d

LEMMA VerdictIsNotNone == \A term, day, old, new : Verdict(term, day, old, new) # "none"
BY DEF Verdict

\* A change that is priced moves money, by whole cents.
LEMMA PricedIsWhole ==
  ASSUME NEW term, term.start \in Int, term.end \in Int, term.start < term.end,
         NEW day \in Int, NEW old \in Int, NEW new \in Int,
         Verdict(term, day, old, new) = "priced"
  PROVE  Adjustment(term, day, old, new) \in Int \ {0}
<1>1. Adjustment(term, day, old, new) \in Int
  BY AdjustmentInt
<1>2. Adjustment(term, day, old, new) # 0
  BY DEF Verdict
<1> QED
  BY <1>1, <1>2
=============================================================================
