--------------------------- MODULE QuantitiesProofs ---------------------------
(* Facts about sums and about serving a need from several sources, for     *)
(* finite sets of any size.  The library's induction theorems are about    *)
(* operators; here an induction is an argument about the smallest          *)
(* counterexample, whose existence is a theorem about sets.                *)
EXTENDS Quantities, SequencesExt, FiniteSetTheorems, WellFoundedInduction, TLAPS

-----------------------------------------------------------------------------
(* Smallest counterexamples.                                               *)

(* A set of numbers that is not empty has a least one. *)
LEMMA LeastNumber ==
  ASSUME NEW T, T \subseteq Nat, T # {}
  PROVE  \E n \in T : \A m \in T : n <= m
<1>1. IsWellFoundedOn(OpToRel(<, Nat), Nat)
  BY NatLessThanWellFounded
<1>2. PICK n \in T : \A m \in T : ~ (<<m, n>> \in OpToRel(<, Nat))
  BY <1>1, WFMin
<1>3. \A m \in T : ~ (m < n)
  BY <1>2 DEF OpToRel
<1> QED
  BY <1>3

(* A set of subsets of a finite set has one that includes no other.        *)
LEMMA SmallestSet ==
  ASSUME NEW S, IsFiniteSet(S), NEW T, T \subseteq SUBSET S, T # {}
  PROVE  \E U \in T : \A V \in T : ~(V \subseteq U /\ V # U)
<1>1. IsWellFoundedOn(StrictSubsetOrdering(S), FiniteSubsetsOf(S))
  BY FS_StrictSubsetOrderingWellFounded
<1>2. T \subseteq FiniteSubsetsOf(S)
  BY FS_Subset DEF FiniteSubsetsOf
<1>3. PICK U \in T : \A V \in T : ~ (<<V, U>> \in StrictSubsetOrdering(S))
  BY <1>1, <1>2, WFMin
<1> QED
  BY <1>3 DEF StrictSubsetOrdering

-----------------------------------------------------------------------------
(* The recursion behind a sum.                                             *)

(* The sum of the values of f on S. *)
SumOver(f, S) == FoldFunctionOnSet(LAMBDA n, t : n + t, 0, f, S)

(* Total sums over the whole domain. *)
LEMMA TotalIsSum ==
  ASSUME NEW f
  PROVE  Total(f) = SumOver(f, DOMAIN f)
  BY DEF Total, SumOver, FoldFunction

First(s) == CHOOSE x \in s : TRUE
Rest(s) == s \ {First(s)}

(* g computes the sums of f on the sets of D, an element at a time. *)
Iterates(f, g, D) == g = [s \in D |-> IF s = {} THEN 0 ELSE f[First(s)] + g[Rest(s)]]

(* The subsets with at most n elements. *)
UpTo(S, n) == {s \in SUBSET S : Cardinality(s) <= n}

(* The library defines the sum as a choice of such a g ... *)
LEMMA SumIsIterate ==
  ASSUME NEW f, NEW S
  PROVE SumOver(f, S) = (CHOOSE g : Iterates(f, g, SUBSET S))[S]
  BY DEF SumOver, FoldFunctionOnSet, MapThenFoldSet, Iterates, First, Rest

(* ... which exists, by induction on the size of the subsets.              *)
LEMMA IterateExists ==
  ASSUME NEW f, NEW S, IsFiniteSet(S)
  PROVE  \E g : Iterates(f, g, SUBSET S)
<1> DEFINE Bad == {n \in Nat : ~ \E g : Iterates(f, g, UpTo(S, n))}
<1>1. ASSUME Bad # {} PROVE FALSE
  <2>1. PICK n \in Bad : \A m \in Bad : n <= m
    <3> HIDE DEF Bad
    <3> QED BY <1>1, LeastNumber DEF Bad
  <2>2. \A s \in SUBSET S : /\ IsFiniteSet(s) /\ Cardinality(s) \in Nat
                            /\ Cardinality(s) = 0 <=> s = {}
                            /\ s # {} => First(s) \in s /\ Rest(s) \in SUBSET S
                                         /\ Cardinality(Rest(s)) = Cardinality(s) - 1
    BY FS_Subset, FS_CardinalityType, FS_EmptySet, FS_RemoveElement DEF First, Rest
  <2>3. CASE n = 0
    <3>1. Iterates(f, [s \in UpTo(S, 0) |-> 0], UpTo(S, 0))
      BY <2>2 DEF Iterates, UpTo
    <3> QED
      BY <3>1, <2>3
  <2>4. CASE n # 0
    <3>1. n - 1 \in Nat /\ n \in Nat
      BY <2>4
    <3>2. PICK g : Iterates(f, g, UpTo(S, n - 1))
      BY <3>1, <2>1
    <3> DEFINE h == [s \in UpTo(S, n) |-> IF s = {} THEN 0 ELSE f[First(s)] + g[Rest(s)]]
    <3>3. \A s \in UpTo(S, n - 1) : g[s] = IF s = {} THEN 0 ELSE f[First(s)] + g[Rest(s)]
      BY <3>2 DEF Iterates
    <3>4. \A s \in UpTo(S, n - 1) : s \in UpTo(S, n) /\ h[s] = g[s]
      BY <3>3, <3>1, <2>2 DEF UpTo
    <3>5. \A s \in UpTo(S, n) : s # {} => Rest(s) \in UpTo(S, n - 1)
      BY <3>1, <2>2 DEF UpTo
    <3>6. Iterates(f, h, UpTo(S, n))
      BY <3>4, <3>5 DEF Iterates
    <3> QED
      BY <3>6
  <2> QED
    BY <2>3, <2>4
<1>2. Cardinality(S) \in Nat /\ UpTo(S, Cardinality(S)) = SUBSET S
  BY FS_Subset, FS_CardinalityType DEF UpTo
<1>3. Cardinality(S) \notin Bad
  BY <1>1
<1>4. \E g : Iterates(f, g, UpTo(S, Cardinality(S)))
  BY <1>2, <1>3
<1> QED
  BY <1>2, <1>4

(* Two of them agree, whatever the sets they were made for: there is no    *)
(* smallest set on which they differ.                                      *)
LEMMA IteratesAgree ==
  ASSUME NEW f, NEW S, IsFiniteSet(S), NEW R \in SUBSET S, NEW g, NEW h,
         Iterates(f, g, SUBSET S), Iterates(f, h, SUBSET R)
  PROVE  g[R] = h[R]
<1> DEFINE Bad == {s \in SUBSET R : g[s] # h[s]}
<1>1. IsFiniteSet(R)
  BY FS_Subset
<1>2. ASSUME Bad # {} PROVE FALSE
  <2>1. PICK s \in Bad : \A t \in Bad : ~(t \subseteq s /\ t # s)
    <3>1. Bad \subseteq SUBSET R
      OBVIOUS
    <3> HIDE DEF Bad
    <3> QED BY <3>1, <1>1, <1>2, SmallestSet
  <2>2. /\ g[s] = IF s = {} THEN 0 ELSE f[First(s)] + g[Rest(s)]
        /\ h[s] = IF s = {} THEN 0 ELSE f[First(s)] + h[Rest(s)]
    BY DEF Iterates
  <2>3. s # {} => Rest(s) \subseteq s /\ Rest(s) # s /\ Rest(s) \in SUBSET R
    BY DEF First, Rest
  <2>4. s # {} => g[Rest(s)] = h[Rest(s)]
    BY <2>1, <2>3
  <2> QED
    BY <2>2, <2>4
<1> QED
  BY <1>2

(* So a sum is its first value and the sum of the others. *)
LEMMA SumStep ==
  ASSUME NEW f, NEW S, IsFiniteSet(S)
  PROVE  SumOver(f, S) = IF S = {} THEN 0
                         ELSE f[First(S)] + SumOver(f, Rest(S))
<1>1. PICK g : /\ g = CHOOSE k : Iterates(f, k, SUBSET S)
               /\ Iterates(f, g, SUBSET S)
  BY IterateExists
<1>2. SumOver(f, S) = g[S]
  BY <1>1, SumIsIterate
<1>3. g[S] = IF S = {} THEN 0 ELSE f[First(S)] + g[Rest(S)]
  BY <1>1 DEF Iterates
<1>4. ASSUME S # {} PROVE g[Rest(S)] = SumOver(f, Rest(S))
  <2>1. Rest(S) \in SUBSET S /\ IsFiniteSet(Rest(S))
    BY FS_Subset DEF Rest
  <2>2. PICK h : /\ h = CHOOSE k : Iterates(f, k, SUBSET Rest(S))
                 /\ Iterates(f, h, SUBSET Rest(S))
    BY <2>1, IterateExists
  <2>3. SumOver(f, Rest(S)) = h[Rest(S)]
    BY <2>2, SumIsIterate
  <2> QED
    BY <1>1, <2>1, <2>2, <2>3, IteratesAgree
<1> QED
  BY <1>2, <1>3, <1>4

-----------------------------------------------------------------------------
(* Sums.                                                                   *)

Ints(f, S) == \A x \in S : f[x] \in Int
Nats(f, S) == \A x \in S : f[x] \in Nat

(* The empty sum is zero. *)
LEMMA SumEmpty ==
  ASSUME NEW f
  PROVE  SumOver(f, {}) = 0
  BY SumStep, FS_EmptySet

(* A sum of integers is one. *)
LEMMA SumType ==
  ASSUME NEW f, NEW S, IsFiniteSet(S), Ints(f, S)
  PROVE  SumOver(f, S) \in Int
<1> DEFINE Bad == {R \in SUBSET S : SumOver(f, R) \notin Int}
<1>1. ASSUME Bad # {} PROVE FALSE
  <2>1. PICK R \in Bad : \A V \in Bad : ~(V \subseteq R /\ V # R)
    <3>1. Bad \subseteq SUBSET S
      OBVIOUS
    <3> HIDE DEF Bad
    <3> QED BY <3>1, <1>1, SmallestSet
  <2>2. IsFiniteSet(R)
    BY FS_Subset
  <2>3. R # {}
    BY SumEmpty
  <2>4. First(R) \in R /\ Rest(R) \subseteq R /\ Rest(R) # R
    BY <2>3 DEF First, Rest
  <2>5. SumOver(f, Rest(R)) \in Int /\ f[First(R)] \in Int
    BY <2>1, <2>4 DEF Ints
  <2> QED
    BY <2>2, <2>3, <2>5, SumStep
<1> QED
  BY <1>1

(* Any element may be taken first. *)
LEMMA SumRemove ==
  ASSUME NEW f, NEW S, IsFiniteSet(S), Ints(f, S), NEW x \in S
  PROVE  SumOver(f, S) = f[x] + SumOver(f, S \ {x})
<1> DEFINE Bad == {R \in SUBSET S : \E y \in R : SumOver(f, R) # f[y] + SumOver(f, R \ {y})}
<1>1. ASSUME Bad # {} PROVE FALSE
  <2>1. PICK R \in Bad : \A V \in Bad : ~(V \subseteq R /\ V # R)
    <3>1. Bad \subseteq SUBSET S
      OBVIOUS
    <3> HIDE DEF Bad
    <3> QED BY <3>1, <1>1, SmallestSet
  <2>2. PICK y \in R : SumOver(f, R) # f[y] + SumOver(f, R \ {y})
    BY <2>1
  <2> DEFINE z == First(R)
  <2>3. /\ IsFiniteSet(R) /\ IsFiniteSet(R \ {y}) /\ IsFiniteSet(R \ {z})
        /\ IsFiniteSet((R \ {y}) \ {z})
    BY FS_Subset
  <2>4. z \in R
    BY DEF First
  <2>5. SumOver(f, R) = f[z] + SumOver(f, R \ {z})
    BY <2>3, SumStep DEF Rest
  <2>6. y # z
    BY <2>2, <2>5
  <2>7. ASSUME NEW V \in SUBSET R, V # R, NEW w \in V
        PROVE  SumOver(f, V) = f[w] + SumOver(f, V \ {w})
    BY <2>1, <2>7
  <2>8. SumOver(f, R \ {z}) = f[y] + SumOver(f, (R \ {z}) \ {y})
    <3>1. R \ {z} \in SUBSET R /\ R \ {z} # R /\ y \in R \ {z}
      BY <2>4, <2>6
    <3> QED
      BY <2>7, <3>1
  <2>9. SumOver(f, R \ {y}) = f[z] + SumOver(f, (R \ {y}) \ {z})
    <3>1. R \ {y} \in SUBSET R /\ R \ {y} # R /\ z \in R \ {y}
      BY <2>4, <2>6
    <3> QED
      BY <2>7, <3>1
  <2>10. SumOver(f, (R \ {z}) \ {y}) = SumOver(f, (R \ {y}) \ {z})
    <3>1. (R \ {z}) \ {y} = (R \ {y}) \ {z}
      OBVIOUS
    <3> QED
      BY <3>1
  <2>11. f[y] \in Int /\ f[z] \in Int /\ SumOver(f, (R \ {y}) \ {z}) \in Int
    BY <2>3, <2>4, SumType DEF Ints
  <2> HIDE DEF z
  <2> QED
    BY <2>2, <2>5, <2>8, <2>9, <2>10, <2>11
<1> QED
  BY <1>1

(* The sum looks at the values on S only. *)
LEMMA SumSame ==
  ASSUME NEW f, NEW g, NEW S, IsFiniteSet(S), \A x \in S : f[x] = g[x]
  PROVE  SumOver(f, S) = SumOver(g, S)
<1> DEFINE Bad == {R \in SUBSET S : SumOver(f, R) # SumOver(g, R)}
<1>1. ASSUME Bad # {} PROVE FALSE
  <2>1. PICK R \in Bad : \A V \in Bad : ~(V \subseteq R /\ V # R)
    <3>1. Bad \subseteq SUBSET S
      OBVIOUS
    <3> HIDE DEF Bad
    <3> QED BY <3>1, <1>1, SmallestSet
  <2>2. IsFiniteSet(R)
    BY FS_Subset
  <2>3. R # {} => First(R) \in S /\ Rest(R) \in SUBSET S /\ Rest(R) \subseteq R /\ Rest(R) # R
    BY DEF First, Rest
  <2>4. R # {} => SumOver(f, Rest(R)) = SumOver(g, Rest(R)) /\ f[First(R)] = g[First(R)]
    BY <2>1, <2>3
  <2>5. /\ SumOver(f, R) = IF R = {} THEN 0 ELSE f[First(R)] + SumOver(f, Rest(R))
        /\ SumOver(g, R) = IF R = {} THEN 0 ELSE g[First(R)] + SumOver(g, Rest(R))
    BY <2>2, SumStep
  <2> QED
    BY <2>4, <2>5
<1> QED
  BY <1>1

(* A new element adds its value. *)
LEMMA SumAdd ==
  ASSUME NEW f, NEW S, IsFiniteSet(S), NEW x, x \notin S, Ints(f, S \cup {x})
  PROVE  SumOver(f, S \cup {x}) = f[x] + SumOver(f, S)
<1>1. IsFiniteSet(S \cup {x})
  BY FS_AddElement
<1>2. (S \cup {x}) \ {x} = S
  OBVIOUS
<1>3. SumOver(f, S \cup {x}) = f[x] + SumOver(f, (S \cup {x}) \ {x})
  BY <1>1, SumRemove
<1> QED
  BY <1>2, <1>3

(* Nothing adds up to nothing. *)
LEMMA SumOfZeros ==
  ASSUME NEW f, NEW S, IsFiniteSet(S), \A x \in S : f[x] = 0
  PROVE  SumOver(f, S) = 0
<1> DEFINE T == {R \in SUBSET S : SumOver(f, R) # 0}
<1>1. ASSUME T # {} PROVE FALSE
  <2>1. PICK R \in T : \A V \in T : ~(V \subseteq R /\ V # R)
    <3> HIDE DEF T
    <3>1. T \subseteq SUBSET S
      BY DEF T
    <3> QED
      BY <1>1, <3>1, SmallestSet
  <2>2. IsFiniteSet(R)
    BY FS_Subset
  <2>3. R # {}
    BY SumEmpty
  <2>4. Rest(R) \in SUBSET R /\ Rest(R) # R /\ First(R) \in R
    BY <2>3 DEF First, Rest
  <2>5. SumOver(f, Rest(R)) = 0
    BY <2>1, <2>4
  <2> QED
    BY <2>2, <2>3, <2>4, <2>5, SumStep
<1> QED
  BY <1>1

(* The sum of one value. *)
LEMMA SumSingle ==
  ASSUME NEW f, NEW x, f[x] \in Int
  PROVE  SumOver(f, {x}) = f[x]
<1>1. SumOver(f, {} \cup {x}) = f[x] + SumOver(f, {})
  BY SumAdd, FS_EmptySet DEF Ints
<1> QED
  BY <1>1, SumEmpty

(* Sums over two sets apart add up. *)
LEMMA SumUnion ==
  ASSUME NEW f, NEW A, IsFiniteSet(A), NEW B, IsFiniteSet(B), A \cap B = {},
         Ints(f, A), Ints(f, B)
  PROVE  SumOver(f, A \cup B) = SumOver(f, A) + SumOver(f, B)
<1> DEFINE T == {R \in SUBSET B : SumOver(f, A \cup R) # SumOver(f, A) + SumOver(f, R)}
<1>1. ASSUME T # {} PROVE FALSE
  <2>1. PICK R \in T : \A V \in T : ~(V \subseteq R /\ V # R)
    <3> HIDE DEF T
    <3>1. T \subseteq SUBSET B
      BY DEF T
    <3> QED
      BY <1>1, <3>1, SmallestSet
  <2>2. SumOver(f, A) \in Int
    BY SumType
  <2>3. R # {}
    BY <2>2, SumEmpty
  <2>4. PICK x \in R : TRUE
    BY <2>3
  <2> DEFINE Q == R \ {x}
  <2>5. /\ IsFiniteSet(Q) /\ IsFiniteSet(A \cup Q) /\ Ints(f, Q)
        /\ Ints(f, Q \cup {x}) /\ Ints(f, (A \cup Q) \cup {x})
        /\ x \notin Q /\ x \notin A \cup Q
        /\ Q \cup {x} = R /\ (A \cup Q) \cup {x} = A \cup R
    BY FS_Subset, FS_Union DEF Ints
  <2>6. SumOver(f, A \cup Q) = SumOver(f, A) + SumOver(f, Q)
    BY <2>1, <2>5
  <2>7. SumOver(f, R) = f[x] + SumOver(f, Q)
    BY <2>5, SumAdd
  <2>8. SumOver(f, A \cup R) = f[x] + SumOver(f, A \cup Q)
    BY <2>5, SumAdd
  <2>9. f[x] \in Int /\ SumOver(f, Q) \in Int
    BY <2>5, SumType DEF Ints
  <2> QED
    BY <2>2, <2>6, <2>7, <2>8, <2>9
<1> QED
  BY <1>1

(* A sum does not depend on the names of its terms. *)
LEMMA SumRenamed ==
  ASSUME NEW f, NEW S, IsFiniteSet(S), NEW key, NEW g,
         \A x, y \in S : key[x] = key[y] => x = y,
         \A x \in S : g[key[x]] = f[x] /\ f[x] \in Int
  PROVE  /\ IsFiniteSet({key[x] : x \in S})
         /\ SumOver(g, {key[x] : x \in S}) = SumOver(f, S)
<1> DEFINE Image(R) == {key[x] : x \in R}
           T == {R \in SUBSET S : ~ /\ IsFiniteSet(Image(R))
                                    /\ SumOver(g, Image(R)) = SumOver(f, R)}
<1>1. ASSUME T # {} PROVE FALSE
  <2>1. PICK R \in T : \A V \in T : ~(V \subseteq R /\ V # R)
    <3> HIDE DEF T
    <3>1. T \subseteq SUBSET S
      BY DEF T
    <3> QED
      BY <1>1, <3>1, SmallestSet
  <2>2. CASE R = {}
    <3>1. Image(R) = {}
      BY <2>2
    <3> QED
      BY <2>2, <3>1, SumEmpty, FS_EmptySet
  <2>3. CASE R # {}
    <3>1. PICK x \in R : TRUE
      BY <2>3
    <3>2. PICK Q : Q = R \ {x}
      OBVIOUS
    <3>3. Q \in SUBSET S /\ Q \subseteq R /\ Q # R /\ x \notin Q /\ R = Q \cup {x}
      BY <3>1, <3>2
    <3>4. IsFiniteSet(Image(Q)) /\ SumOver(g, Image(Q)) = SumOver(f, Q)
      BY <2>1, <3>3
    <3>5. Image(R) = Image(Q) \cup {key[x]} /\ key[x] \notin Image(Q)
      BY <3>3
    <3>6. Ints(g, Image(Q) \cup {key[x]}) /\ Ints(f, Q \cup {x}) /\ IsFiniteSet(Q)
      BY <3>3, FS_Subset DEF Ints
    <3>7. SumOver(f, Q \cup {x}) = f[x] + SumOver(f, Q)
      BY <3>3, <3>6, SumAdd
    <3> HIDE DEF Image
    <3>8. SumOver(g, Image(Q) \cup {key[x]}) = g[key[x]] + SumOver(g, Image(Q))
      BY <3>4, <3>5, <3>6, SumAdd
    <3>9. IsFiniteSet(Image(R))
      BY <3>4, <3>5, FS_AddElement
    <3>10. g[key[x]] = f[x]
      BY <3>1
    <3>11. SumOver(g, Image(R)) = SumOver(f, R)
      BY <3>3, <3>4, <3>5, <3>7, <3>8, <3>10
    <3> QED
      BY <3>9, <3>11
  <2> QED
    BY <2>2, <2>3
<1> QED
  BY <1>1

(* The sum of two functions is the sum of their sums. *)
LEMMA SumOfSums ==
  ASSUME NEW f, NEW g, NEW h, NEW S, IsFiniteSet(S), Ints(f, S), Ints(g, S),
         \A x \in S : h[x] = f[x] + g[x]
  PROVE  SumOver(h, S) = SumOver(f, S) + SumOver(g, S)
<1> DEFINE T == {R \in SUBSET S : SumOver(h, R) # SumOver(f, R) + SumOver(g, R)}
<1>1. ASSUME T # {} PROVE FALSE
  <2>1. PICK R \in T : \A V \in T : ~(V \subseteq R /\ V # R)
    <3> HIDE DEF T
    <3>1. T \subseteq SUBSET S
      BY DEF T
    <3> QED
      BY <1>1, <3>1, SmallestSet
  <2>2. R # {}
    <3>1. SumOver(f, {}) = 0 /\ SumOver(g, {}) = 0 /\ SumOver(h, {}) = 0
      BY SumEmpty
    <3>2. SumOver(h, R) # SumOver(f, R) + SumOver(g, R)
      OBVIOUS
    <3> QED
      BY <3>1, <3>2
  <2>3. PICK x \in R : TRUE
    BY <2>2
  <2>4. PICK Q : Q = R \ {x}
    OBVIOUS
  <2>5. /\ Q \in SUBSET S /\ Q \subseteq R /\ Q # R /\ IsFiniteSet(R) /\ IsFiniteSet(Q)
        /\ Ints(f, R) /\ Ints(g, R) /\ Ints(h, R) /\ Ints(f, Q) /\ Ints(g, Q)
    BY <2>3, <2>4, FS_Subset DEF Ints
  <2>6. SumOver(h, Q) = SumOver(f, Q) + SumOver(g, Q)
    BY <2>1, <2>5
  <2>7. /\ SumOver(f, R) = f[x] + SumOver(f, Q) /\ SumOver(g, R) = g[x] + SumOver(g, Q)
        /\ SumOver(h, R) = h[x] + SumOver(h, Q)
    BY <2>3, <2>4, <2>5, SumRemove
  <2>8. SumOver(f, Q) \in Int /\ SumOver(g, Q) \in Int /\ f[x] \in Int /\ g[x] \in Int
    BY <2>3, <2>5, SumType DEF Ints
  <2> QED
    BY <2>6, <2>7, <2>8
<1> QED
  BY <1>1

(* A change of one value changes the sum by as much. *)
LEMMA SumChange ==
  ASSUME NEW f, NEW g, NEW S, IsFiniteSet(S), Ints(f, S), Ints(g, S), NEW x \in S,
         \A y \in S \ {x} : g[y] = f[y]
  PROVE  SumOver(g, S) = SumOver(f, S) + g[x] - f[x]
<1>1. IsFiniteSet(S \ {x})
  BY FS_Subset
<1>2. SumOver(g, S \ {x}) = SumOver(f, S \ {x})
  BY <1>1, SumSame
<1>3. /\ SumOver(g, S) = g[x] + SumOver(g, S \ {x})
      /\ SumOver(f, S) = f[x] + SumOver(f, S \ {x})
  BY SumRemove
<1>4. SumOver(f, S \ {x}) \in Int /\ f[x] \in Int /\ g[x] \in Int
  BY <1>1, SumType DEF Ints
<1> QED
  BY <1>2, <1>3, <1>4

(* A sum of natural numbers is one, and never less than one of its parts. *)
LEMMA SumGrows ==
  ASSUME NEW f, NEW S, IsFiniteSet(S), Nats(f, S), NEW Q \in SUBSET S
  PROVE  /\ SumOver(f, S) \in Nat
         /\ SumOver(f, Q) \in Nat
         /\ SumOver(f, Q) <= SumOver(f, S)
<1>1. Ints(f, S)
  BY DEF Ints, Nats
<1> DEFINE Bad == {R \in SUBSET S : SumOver(f, Q \cap R) \notin Nat
                      \/ ~(SumOver(f, Q \cap R) <= SumOver(f, R))}
<1>2. ASSUME Bad # {} PROVE FALSE
  <2>1. PICK R \in Bad : \A V \in Bad : ~(V \subseteq R /\ V # R)
    <3>1. Bad \subseteq SUBSET S
      OBVIOUS
    <3> HIDE DEF Bad
    <3> QED BY <3>1, <1>2, SmallestSet
  <2>2. R # {}
    <3>1. Q \cap {} = {}
      OBVIOUS
    <3>2. SumOver(f, Q \cap {}) = 0 /\ SumOver(f, {}) = 0
      BY <3>1, SumEmpty
    <3> QED
      BY <3>2
  <2>3. PICK x \in R : TRUE
    BY <2>2
  <2>4. R \ {x} \in SUBSET S /\ R \ {x} \subseteq R /\ R \ {x} # R
    OBVIOUS
  <2>5. /\ SumOver(f, Q \cap (R \ {x})) \in Nat
        /\ SumOver(f, Q \cap (R \ {x})) <= SumOver(f, R \ {x})
    BY <2>1, <2>4
  <2>6. /\ IsFiniteSet(R) /\ IsFiniteSet(R \ {x}) /\ IsFiniteSet(Q \cap R)
        /\ IsFiniteSet(Q \cap (R \ {x}))
    BY FS_Subset
  <2>7. /\ SumOver(f, R) = f[x] + SumOver(f, R \ {x})
        /\ f[x] \in Nat /\ SumOver(f, R \ {x}) \in Int
    BY <1>1, <2>6, SumRemove, SumType DEF Ints, Nats
  <2>8. CASE x \in Q
    <3>1. (Q \cap R) \ {x} = Q \cap (R \ {x})
      OBVIOUS
    <3>2. SumOver(f, Q \cap R) = f[x] + SumOver(f, (Q \cap R) \ {x})
      BY <1>1, <2>6, <2>8, SumRemove DEF Ints
    <3> QED
      BY <2>5, <2>7, <3>1, <3>2
  <2>9. CASE x \notin Q
    <3>1. Q \cap R = Q \cap (R \ {x})
      BY <2>9
    <3>2. SumOver(f, Q \cap R) = SumOver(f, Q \cap (R \ {x}))
      BY <3>1
    <3> QED
      BY <2>5, <2>7, <3>2
  <2> QED
    BY <2>8, <2>9
<1>3. S \notin Bad /\ Q \cap S = Q
  BY <1>2
<1>4. SumOver(f, Q \cap S) \in Nat /\ SumOver(f, Q \cap S) <= SumOver(f, S)
  BY <1>3
<1>5. SumOver(f, Q) \in Nat /\ SumOver(f, Q) <= SumOver(f, S)
  BY <1>3, <1>4
<1> QED
  BY <1>1, <1>5, SumType

(* A sum of greater numbers is greater. *)
LEMMA SumsCompare ==
  ASSUME NEW f, NEW g, NEW S, IsFiniteSet(S), Ints(f, S), Ints(g, S),
         \A x \in S : f[x] <= g[x]
  PROVE  SumOver(f, S) <= SumOver(g, S)
<1>1. PICK h : h = [x \in S |-> g[x] - f[x]]
  OBVIOUS
<1>2. \A x \in S : g[x] = f[x] + h[x] /\ h[x] \in Nat
  BY <1>1 DEF Ints
<1>3. Ints(h, S) /\ Nats(h, S)
  BY <1>2 DEF Ints, Nats
<1>4. SumOver(g, S) = SumOver(f, S) + SumOver(h, S)
  BY <1>2, <1>3, SumOfSums
<1>5. SumOver(h, S) \in Nat /\ SumOver(f, S) \in Int
  BY <1>3, SumGrows, SumType
<1> QED
  BY <1>4, <1>5

(* A non-empty finite set has an element with the largest key. *)
LEMMA LargestKey ==
  ASSUME NEW S, IsFiniteSet(S), S # {}, NEW key, Ints(key, S)
  PROVE  \E x \in S : \A y \in S : key[y] <= key[x]
<1> DEFINE Bad == {R \in SUBSET S : R # {} /\ ~\E x \in R : \A y \in R : key[y] <= key[x]}
<1>1. ASSUME Bad # {} PROVE FALSE
  <2>1. PICK R \in Bad : \A V \in Bad : ~(V \subseteq R /\ V # R)
    <3>1. Bad \subseteq SUBSET S
      OBVIOUS
    <3> HIDE DEF Bad
    <3> QED BY <3>1, <1>1, SmallestSet
  <2>2. PICK x \in R : TRUE
    OBVIOUS
  <2>3. R \ {x} # {}
    BY DEF Ints
  <2>4. PICK z \in R \ {x} : \A y \in R \ {x} : key[y] <= key[z]
    <3>1. R \ {x} \in SUBSET S /\ R \ {x} \subseteq R /\ R \ {x} # R
      OBVIOUS
    <3> QED
      BY <2>1, <2>3, <3>1
  <2>5. key[x] <= key[z] \/ key[z] <= key[x]
    BY DEF Ints
  <2>6. \E w \in R : \A y \in R : key[y] <= key[w]
    BY <2>4, <2>5 DEF Ints
  <2> QED
    BY <2>6
<1> QED
  BY <1>1

-----------------------------------------------------------------------------
(* The loop that serves a need from sources in the order of their keys     *)
(* (batches by expiry day) takes of each what is free, up to what the      *)
(* sources before it have left open: together exactly the need, or all     *)
(* there is when that is less.                                             *)
LEMMA Served ==
  ASSUME NEW S, IsFiniteSet(S), NEW key, Ints(key, S),
         \A x, y \in S : x # y => key[x] # key[y],
         NEW free, Nats(free, S), NEW need \in Nat, NEW take,
         \A x \in S : take[x] = Minimum(free[x],
           Maximum(need - SumOver(free, {y \in S : key[y] < key[x]}), 0))
  PROVE  /\ Nats(take, S)
         /\ SumOver(take, S) = Minimum(need, SumOver(free, S))
<1> DEFINE Sooner(x) == {y \in S : key[y] < key[x]}
           Fronts == {R \in SUBSET S : \A x \in R : Sooner(x) \subseteq R}
           Bad == {R \in Fronts : SumOver(take, R) # Minimum(need, SumOver(free, R))}
<1>1. \A R \in SUBSET S : IsFiniteSet(R) /\ SumOver(free, R) \in Nat
  BY FS_Subset, SumGrows
<1>2. ASSUME NEW x \in S
      PROVE  /\ take[x] \in Nat
             /\ take[x] = Minimum(free[x], Maximum(need - SumOver(free, Sooner(x)), 0))
  <2>1. SumOver(free, Sooner(x)) \in Nat /\ free[x] \in Nat
    BY <1>1 DEF Nats
  <2> QED
    BY <2>1 DEF Minimum, Maximum
<1>3. ASSUME Bad # {} PROVE FALSE
  <2>1. PICK R \in Bad : \A V \in Bad : ~(V \subseteq R /\ V # R)
    <3>1. Bad \subseteq SUBSET S
      OBVIOUS
    <3> HIDE DEF Bad
    <3> QED BY <3>1, <1>3, SmallestSet
  <2>2. R # {}
    <3>1. SumOver(take, {}) = 0 /\ SumOver(free, {}) = 0
      BY SumEmpty
    <3> QED
      BY <3>1 DEF Minimum
  <2>3. R \in SUBSET S /\ IsFiniteSet(R) /\ Ints(key, R)
    BY <1>1 DEF Ints
  <2>4. PICK x \in R : \A y \in R : key[y] <= key[x]
    BY <2>2, <2>3, LargestKey
  <2>5. R \ {x} = Sooner(x)
    <3>1. Sooner(x) \subseteq R /\ x \notin Sooner(x)
      BY DEF Ints
    <3>2. ASSUME NEW y \in R \ {x} PROVE y \in Sooner(x)
      BY <2>4 DEF Ints
    <3> QED
      BY <3>1, <3>2
  <2>6. R \ {x} \in Fronts
    <3>1. ASSUME NEW y \in R \ {x} PROVE Sooner(y) \subseteq R \ {x}
      BY <2>4, <3>1 DEF Ints
    <3> QED
      BY <3>1
  <2>7. SumOver(take, R \ {x}) = Minimum(need, SumOver(free, R \ {x}))
    BY <2>1, <2>6
  <2>8. SumOver(free, Sooner(x)) = SumOver(free, R \ {x})
    BY <2>5
  <2>9. take[x] = Minimum(free[x], Maximum(need - SumOver(free, R \ {x}), 0))
    BY <1>2, <2>3, <2>8
  <2>10. /\ SumOver(take, R) = take[x] + SumOver(take, R \ {x})
         /\ SumOver(free, R) = free[x] + SumOver(free, R \ {x})
    <3>1. ASSUME NEW y \in S PROVE take[y] \in Int /\ free[y] \in Int
      <4>1. take[y] \in Nat
        BY <1>2
      <4> QED
        BY <4>1 DEF Nats
    <3>2. Ints(take, R) /\ Ints(free, R)
      BY <2>3, <3>1 DEF Ints
    <3> QED
      BY <2>3, <3>2, SumRemove
  <2>11. free[x] \in Nat /\ SumOver(free, R \ {x}) \in Nat
    BY <1>1 DEF Nats
  <2>12. SumOver(take, R) # Minimum(need, SumOver(free, R))
    OBVIOUS
  <2> QED
    BY <2>7, <2>9, <2>10, <2>11, <2>12 DEF Minimum, Maximum
<1>4. S \in Fronts
  OBVIOUS
<1>5. S \notin Bad
  BY <1>3
<1> QED
  BY <1>2, <1>4, <1>5 DEF Nats


(* Terms of which only some count. *)
LEMMA SumOfSome ==
  ASSUME NEW f, NEW P, NEW g, NEW S, IsFiniteSet(S), P \subseteq S, Ints(f, P),
         \A x \in S : g[x] = IF x \in P THEN f[x] ELSE 0
  PROVE  SumOver(g, S) = SumOver(f, P)
<1>0. PICK R : R = S \ P
  OBVIOUS
<1>1. /\ IsFiniteSet(P) /\ IsFiniteSet(R) /\ P \cup R = S
      /\ P \cap R = {} /\ R \subseteq S
  BY <1>0, FS_Subset
<1>2. SumOver(g, P) = SumOver(f, P)
  BY <1>1, SumSame
<1>3. SumOver(g, R) = 0
  BY <1>0, <1>1, SumOfZeros
<1>4. Ints(g, P) /\ Ints(g, R)
  BY <1>0, <1>1 DEF Ints
<1>5. SumOver(g, P \cup R) = SumOver(g, P) + SumOver(g, R)
  BY <1>1, <1>4, SumUnion
<1>6. SumOver(f, P) \in Int
  BY <1>1, SumType
<1>7. SumOver(g, P \cup R) = SumOver(g, S)
  BY <1>1, Zenon
<1> QED
  BY <1>2, <1>3, <1>5, <1>6, <1>7

(* What is taken away from every term. *)
LEMMA SumNegated ==
  ASSUME NEW f, NEW g, NEW S, IsFiniteSet(S), Ints(f, S), \A x \in S : g[x] = 0 - f[x]
  PROVE  SumOver(g, S) = 0 - SumOver(f, S)
<1> DEFINE zero == [x \in S |-> 0]
<1>1. \A x \in S : g[x] \in Int /\ zero[x] = f[x] + g[x]
  BY DEF Ints
<1>2. SumOver(zero, S) = 0
  BY SumOfZeros
<1>3. Ints(g, S)
  BY <1>1 DEF Ints
<1> HIDE DEF zero
<1>4. SumOver(zero, S) = SumOver(f, S) + SumOver(g, S)
  BY <1>1, <1>3, SumOfSums
<1>5. SumOver(f, S) \in Int /\ SumOver(g, S) \in Int
  BY <1>3, SumType
<1> QED
  BY <1>2, <1>4, <1>5

(* A set made a sequence: each element has one place. *)
LEMMA SetToSeqPlaces ==
  ASSUME NEW S, IsFiniteSet(S)
  PROVE  /\ Cardinality(S) \in Nat
         /\ SetToSeq(S) \in [1..Cardinality(S) -> S]
         /\ IsInjective(SetToSeq(S))
         /\ \A x \in S : \E k \in 1..Cardinality(S) : SetToSeq(S)[k] = x
<1> DEFINE n == Cardinality(S)
<1>1. n \in Nat /\ ExistsBijection(1..n, S)
  BY FS_CardinalityType
<1>2. \E f \in [1..n -> S] : IsInjective(f)
  BY <1>1 DEF ExistsBijection, Bijection, Injection
<1>3. SetToSeq(S) \in [1..n -> S] /\ IsInjective(SetToSeq(S))
  BY <1>2 DEF SetToSeq
<1>4. SetToSeq(S) \in Surjection(1..n, S)
  <2>1. SetToSeq(S) \in Injection(1..n, S)
    BY <1>3 DEF Injection
  <2>2. Cardinality(1..n) = n
    BY <1>1, FS_Interval
  <2> QED
    BY <2>1, <2>2, FS_Injection
<1> QED
  BY <1>1, <1>3, <1>4 DEF Surjection


-----------------------------------------------------------------------------
(* Sequences of rows of which each has a weight: a row of the ledger that   *)
(* counts weighs its change.                                               *)
Weighed(l, w) == SumOver([i \in DOMAIN l |-> w[l[i]]], DOMAIN l)

LEMMA WeighedType ==
  ASSUME NEW R, NEW w \in [R -> Int], NEW l \in Seq(R)
  PROVE  /\ Len(l) \in Nat /\ DOMAIN l = 1..Len(l) /\ IsFiniteSet(DOMAIN l)
         /\ \A i \in DOMAIN l : l[i] \in R /\ w[l[i]] \in Int
         /\ Ints([i \in DOMAIN l |-> w[l[i]]], DOMAIN l)
         /\ Weighed(l, w) \in Int
<1>1. Len(l) \in Nat /\ DOMAIN l = 1..Len(l)
  OBVIOUS
<1>2. IsFiniteSet(DOMAIN l)
  BY <1>1, FS_Interval
<1>3. \A i \in DOMAIN l : l[i] \in R /\ w[l[i]] \in Int
  BY <1>1
<1>4. Ints([i \in DOMAIN l |-> w[l[i]]], DOMAIN l)
  BY <1>3 DEF Ints
<1> QED
  BY <1>1, <1>2, <1>3, <1>4, SumType DEF Weighed

(* The weights of some of the rows, the others weighing nothing. *)
LEMMA WeighedSome ==
  ASSUME NEW R, NEW w \in [R -> Int], NEW l \in Seq(R), NEW P, P \subseteq DOMAIN l, NEW f,
         \A i \in DOMAIN l : w[l[i]] = IF i \in P THEN f[i] ELSE 0
  PROVE  SumOver(f, P) = Weighed(l, w) /\ IsFiniteSet(P) /\ Ints(f, P)
<1>1. IsFiniteSet(DOMAIN l) /\ \A i \in DOMAIN l : w[l[i]] \in Int
  BY WeighedType
<1>2. Ints(f, P) /\ IsFiniteSet(P)
  BY <1>1, FS_Subset DEF Ints
<1>3. PICK g : g = [i \in DOMAIN l |-> w[l[i]]]
  OBVIOUS
<1>4. \A i \in DOMAIN l : g[i] = IF i \in P THEN f[i] ELSE 0
  BY <1>3
<1>5. SumOver(g, DOMAIN l) = SumOver(f, P)
  BY <1>1, <1>2, <1>4, SumOfSome
<1> QED
  BY <1>2, <1>3, <1>5 DEF Weighed

LEMMA WeighedSame ==
  ASSUME NEW R, NEW l \in Seq(R), NEW u, NEW w, \A i \in DOMAIN l : u[l[i]] = w[l[i]]
  PROVE  Weighed(l, u) = Weighed(l, w)
<1>1. PICK f : f = [i \in DOMAIN l |-> u[l[i]]]
  OBVIOUS
<1>2. PICK g : g = [i \in DOMAIN l |-> w[l[i]]]
  OBVIOUS
<1>3. PICK D : D = DOMAIN l
  OBVIOUS
<1>4. IsFiniteSet(D) /\ \A i \in D : f[i] = g[i]
  <2>1. D = 1..Len(l) /\ Len(l) \in Nat
    BY <1>3
  <2> QED
    BY <1>1, <1>2, <1>3, <2>1, FS_Interval
<1>5. SumOver(f, D) = SumOver(g, D)
  BY <1>4, SumSame
<1> QED
  BY <1>1, <1>2, <1>3, <1>5 DEF Weighed

LEMMA WeighedNothing ==
  ASSUME NEW R, NEW w \in [R -> Int], NEW l \in Seq(R), \A i \in DOMAIN l : w[l[i]] = 0
  PROVE  Weighed(l, w) = 0
<1>1. IsFiniteSet(DOMAIN l)
  BY WeighedType
<1> QED
  BY <1>1, SumOfZeros DEF Weighed

LEMMA WeighedTogether ==
  ASSUME NEW R, NEW u \in [R -> Int], NEW v \in [R -> Int], NEW w \in [R -> Int],
         NEW l \in Seq(R), \A i \in DOMAIN l : w[l[i]] = u[l[i]] + v[l[i]]
  PROVE  Weighed(l, w) = Weighed(l, u) + Weighed(l, v)
<1>1. PICK f : f = [i \in DOMAIN l |-> u[l[i]]]
  OBVIOUS
<1>2. PICK g : g = [i \in DOMAIN l |-> v[l[i]]]
  OBVIOUS
<1>3. PICK h : h = [i \in DOMAIN l |-> w[l[i]]]
  OBVIOUS
<1>4. IsFiniteSet(DOMAIN l) /\ Ints(f, DOMAIN l) /\ Ints(g, DOMAIN l)
  <2>1. IsFiniteSet(DOMAIN l) /\ Ints(f, DOMAIN l)
    BY <1>1, WeighedType
  <2>2. Ints(g, DOMAIN l)
    BY <1>2, WeighedType
  <2> QED
    BY <2>1, <2>2
<1>5. \A i \in DOMAIN l : h[i] = f[i] + g[i]
  BY <1>1, <1>2, <1>3
<1>6. SumOver(h, DOMAIN l) = SumOver(f, DOMAIN l) + SumOver(g, DOMAIN l)
  BY <1>4, <1>5, SumOfSums
<1> QED
  BY <1>1, <1>2, <1>3, <1>6 DEF Weighed

ImageOf(key, S) == {key[x] : x \in S}
Renames(key, S, f, g) ==
  /\ \A x, y \in S : key[x] = key[y] => x = y
  /\ \A x \in S : g[key[x]] = f[x] /\ f[x] \in Int

LEMMA SumMoved ==
  ASSUME NEW f, NEW S, IsFiniteSet(S), NEW key, NEW g, Renames(key, S, f, g)
  PROVE  SumOver(g, ImageOf(key, S)) = SumOver(f, S)
BY SumRenamed DEF ImageOf, Renames

Joins(all, first, n, second, k) ==
  /\ \A i \in 1..n : all[i] = first[i] /\ first[i] \in Int
  /\ \A i \in 1..k : all[n + i] = second[i] /\ second[i] \in Int

LEMMA SumTogether ==
  ASSUME NEW n \in Nat, NEW k \in Nat, NEW all, NEW first, NEW second,
         Joins(all, first, n, second, k)
  PROVE  SumOver(all, 1..(n + k)) = SumOver(first, 1..n) + SumOver(second, 1..k)
<1>1. PICK A : A = 1..n
  OBVIOUS
<1>2. PICK B : B = 1..k
  OBVIOUS
<1>3. PICK p : p = [i \in B |-> n + i]
  OBVIOUS
<1>4. PICK Later : Later = ImageOf(p, B)
  OBVIOUS
<1>5. IsFiniteSet(A) /\ IsFiniteSet(B) /\ IsFiniteSet(1..(n + k))
  BY <1>1, <1>2, FS_Interval
<1>6. Renames(p, B, second, all)
  BY <1>2, <1>3 DEF Joins, Renames
<1>7. A \cap Later = {} /\ A \cup Later \subseteq 1..(n + k)
  BY <1>1, <1>2, <1>3, <1>4 DEF ImageOf
<1>8. ASSUME NEW i \in 1..(n + k), i \notin A PROVE i \in Later
  <2>1. i - n \in B /\ p[i - n] = i
    BY <1>1, <1>2, <1>3, <1>8
  <2> QED
    BY <1>4, <2>1 DEF ImageOf
<1>9. A \cup Later = 1..(n + k)
  BY <1>7, <1>8
<1>10. SumOver(all, Later) = SumOver(second, B)
  BY <1>4, <1>5, <1>6, SumMoved
<1>11. Ints(first, A) /\ SumOver(all, A) = SumOver(first, A)
  BY <1>1, <1>5, SumSame DEF Ints, Joins
<1>12. Ints(all, A) /\ Ints(all, Later)
  <2>1. Ints(all, A)
    BY <1>1 DEF Ints, Joins
  <2>2. Ints(all, Later)
    BY <1>4, <1>6 DEF Ints, ImageOf, Renames
  <2> QED
    BY <2>1, <2>2
<1>13. IsFiniteSet(Later)
  BY <1>5, <1>7, FS_Subset
<1>14. SumOver(all, A \cup Later) = SumOver(all, A) + SumOver(all, Later)
  BY <1>5, <1>7, <1>12, <1>13, SumUnion
<1> QED
  BY <1>1, <1>2, <1>9, <1>10, <1>11, <1>14, Zenon

LEMMA WeighedMore ==
  ASSUME NEW R, NEW w \in [R -> Int], NEW l \in Seq(R), NEW m \in Seq(R)
  PROVE  l \o m \in Seq(R) /\ Weighed(l \o m, w) = Weighed(l, w) + Weighed(m, w)
<1>1. PICK all : all = [i \in DOMAIN (l \o m) |-> w[(l \o m)[i]]]
  OBVIOUS
<1>2. PICK first : first = [i \in DOMAIN l |-> w[l[i]]]
  OBVIOUS
<1>3. PICK second : second = [i \in DOMAIN m |-> w[m[i]]]
  OBVIOUS
<1>4. /\ l \o m \in Seq(R) /\ DOMAIN (l \o m) = 1..(Len(l) + Len(m))
      /\ Len(l) \in Nat /\ DOMAIN l = 1..Len(l) /\ Len(m) \in Nat /\ DOMAIN m = 1..Len(m)
  OBVIOUS
<1>5. \A i \in 1..Len(l) : all[i] = first[i] /\ first[i] \in Int
  BY <1>1, <1>2, <1>4
<1>6. \A i \in 1..Len(m) : all[Len(l) + i] = second[i] /\ second[i] \in Int
  BY <1>1, <1>3, <1>4
<1>7. SumOver(all, 1..(Len(l) + Len(m)))
        = SumOver(first, 1..Len(l)) + SumOver(second, 1..Len(m))
  <2>1. PICK n \in Nat : n = Len(l)
    BY <1>4
  <2>2. PICK k \in Nat : k = Len(m)
    BY <1>4
  <2>3. Joins(all, first, n, second, k)
    BY <1>5, <1>6, <2>1, <2>2 DEF Joins
  <2>4. SumOver(all, 1..(n + k)) = SumOver(first, 1..n) + SumOver(second, 1..k)
    BY <2>3, SumTogether
  <2> QED
    BY <2>1, <2>2, <2>4
<1>8. Weighed(l \o m, w) = SumOver(all, 1..(Len(l) + Len(m)))
  BY <1>1, <1>4, Zenon DEF Weighed
<1>9. Weighed(l, w) = SumOver(first, 1..Len(l)) /\ Weighed(m, w) = SumOver(second, 1..Len(m))
  BY <1>2, <1>3, <1>4, Zenon DEF Weighed
<1> QED
  BY <1>4, <1>7, <1>8, <1>9

LEMMA WeighedOne ==
  ASSUME NEW R, NEW w \in [R -> Int], NEW e \in R
  PROVE  <<e>> \in Seq(R) /\ Weighed(<<e>>, w) = w[e]
<1>1. PICK l : l = <<e>>
  OBVIOUS
<1>2. DOMAIN l = {1} /\ l[1] = e /\ l \in Seq(R)
  BY <1>1
<1>3. PICK f : f = [i \in DOMAIN l |-> w[l[i]]]
  OBVIOUS
<1>4. f[1] = w[e] /\ f[1] \in Int
  BY <1>2, <1>3
<1>5. SumOver(f, {1}) = f[1]
  BY <1>4, SumSingle
<1> QED
  BY <1>1, <1>2, <1>3, <1>4, <1>5 DEF Weighed

(* A list with one row for each element of a set, in whatever order the set  *)
(* is read: its rows are those of the elements, and weigh what they weigh.  *)
LEMMA ListTyped ==
  ASSUME NEW G, IsFiniteSet(G), NEW R, NEW e, \A x \in G : e[x] \in R, NEW m,
         m = [i \in DOMAIN SetToSeq(G) |-> e[SetToSeq(G)[i]]]
  PROVE  m \in Seq(R) /\ \A i \in DOMAIN m : \E x \in G : m[i] = e[x]
<1>1. PICK s : s = SetToSeq(G)
  OBVIOUS
<1>2. PICK n : n = Cardinality(G)
  OBVIOUS
<1>3. n \in Nat /\ s \in [1..n -> G]
  BY <1>1, <1>2, SetToSeqPlaces
<1>4. m = [i \in 1..n |-> e[s[i]]]
  BY <1>1, <1>3
<1>5. \A i \in 1..n : s[i] \in G /\ m[i] = e[s[i]] /\ m[i] \in R
  BY <1>3, <1>4
<1>6. m \in [1..n -> R] /\ DOMAIN m = 1..n
  BY <1>4, <1>5
<1> QED
  BY <1>3, <1>5, <1>6

LEMMA ListWeighs ==
  ASSUME NEW G, IsFiniteSet(G), NEW R, NEW w \in [R -> Int],
         NEW e, \A x \in G : e[x] \in R, NEW m,
         m = [i \in DOMAIN SetToSeq(G) |-> e[SetToSeq(G)[i]]],
         NEW g, \A x \in G : g[x] = w[e[x]]
  PROVE  Weighed(m, w) = SumOver(g, G)
<1>1. PICK s : s = SetToSeq(G)
  OBVIOUS
<1>2. PICK n : n = Cardinality(G)
  OBVIOUS
<1>3. /\ n \in Nat /\ s \in [1..n -> G] /\ IsInjective(s)
      /\ \A x \in G : \E k \in 1..n : s[k] = x
  BY <1>1, <1>2, SetToSeqPlaces
<1>4. PICK D : D = DOMAIN m
  OBVIOUS
<1>5. D = 1..n /\ DOMAIN s = D /\ \A i \in D : s[i] \in G /\ m[i] = e[s[i]]
  BY <1>1, <1>3, <1>4
<1>6. PICK f : f = [i \in D |-> w[m[i]]]
  OBVIOUS
<1>7. \A i \in D : g[s[i]] = f[i] /\ f[i] \in Int
  BY <1>5, <1>6
<1>8. \A x, y \in D : s[x] = s[y] => x = y
  BY <1>3, <1>5 DEF IsInjective
<1>9. Renames(s, D, f, g) /\ IsFiniteSet(D)
  <2>1. IsFiniteSet(1..n)
    BY <1>3, FS_Interval
  <2> QED
    BY <1>5, <1>7, <1>8, <2>1 DEF Renames
<1>10. SumOver(g, ImageOf(s, D)) = SumOver(f, D)
  BY <1>9, SumMoved
<1>11. ImageOf(s, D) = G
  BY <1>3, <1>5 DEF ImageOf
<1>12. Weighed(m, w) = SumOver(f, D)
  BY <1>4, <1>6 DEF Weighed
<1> QED
  BY <1>10, <1>11, <1>12

(* Rows with a key, weighed key by key: together they weigh what the rows   *)
(* with one of these keys weigh.                                           *)
OfKeys(R, w, key, T, v) ==
  v \in [R -> Int] /\ \A e \in R : v[e] = IF key[e] \in T THEN w[e] ELSE 0

PartsByKey(R, w, key, S, parts) == \A b \in S : OfKeys(R, w, key, {b}, parts[b])
EachWeighed(g, l, S, parts) == \A b \in S : g[b] = Weighed(l, parts[b])

LEMMA OfKeysExists ==
  ASSUME NEW R, NEW w \in [R -> Int], NEW key, NEW T
  PROVE  OfKeys(R, w, key, T, [e \in R |-> IF key[e] \in T THEN w[e] ELSE 0])
BY DEF OfKeys

LEMMA OfKeysOnly ==
  ASSUME NEW R, NEW w, NEW key, NEW T, NEW u, NEW v,
         OfKeys(R, w, key, T, u), OfKeys(R, w, key, T, v)
  PROVE  u = v
BY DEF OfKeys

LEMMA OfNoKeys ==
  ASSUME NEW R, NEW w, NEW key, NEW v, OfKeys(R, w, key, {}, v), NEW l \in Seq(R)
  PROVE  Weighed(l, v) = 0
<1>1. v \in [R -> Int] /\ \A e \in R : v[e] = 0
  BY DEF OfKeys
<1>2. \A i \in DOMAIN l : v[l[i]] = 0
  BY <1>1
<1> QED
  BY <1>1, <1>2, WeighedNothing

LEMMA OneKeyMore ==
  ASSUME NEW R, NEW w \in [R -> Int], NEW l \in Seq(R), NEW key, NEW U, NEW x \in U,
         NEW all, OfKeys(R, w, key, U, all), NEW less, OfKeys(R, w, key, U \ {x}, less),
         NEW part, OfKeys(R, w, key, {x}, part)
  PROVE  Weighed(l, all) = Weighed(l, part) + Weighed(l, less)
<1>1. all \in [R -> Int] /\ less \in [R -> Int] /\ part \in [R -> Int]
  BY DEF OfKeys
<1>2. \A e \in R : all[e] = part[e] + less[e]
  <2>1. ASSUME NEW e \in R PROVE all[e] = part[e] + less[e]
    <3>1. /\ all[e] = IF key[e] \in U THEN w[e] ELSE 0
          /\ less[e] = IF key[e] \in U \ {x} THEN w[e] ELSE 0
          /\ part[e] = IF key[e] \in {x} THEN w[e] ELSE 0
          /\ w[e] \in Int
      BY DEF OfKeys
    <3> QED
      BY <3>1
  <2> QED
    BY <2>1
<1>3. \A i \in DOMAIN l : all[l[i]] = part[l[i]] + less[l[i]]
  BY <1>2, WeighedType
<1> QED
  BY <1>1, <1>3, WeighedTogether

LEMMA WeighedByKey ==
  ASSUME NEW R, NEW w \in [R -> Int], NEW l \in Seq(R), NEW key, NEW S, IsFiniteSet(S),
         NEW parts, PartsByKey(R, w, key, S, parts), NEW g, EachWeighed(g, l, S, parts),
         NEW v, OfKeys(R, w, key, S, v)
  PROVE  SumOver(g, S) = Weighed(l, v)
<1> DEFINE Of(T) == [e \in R |-> IF key[e] \in T THEN w[e] ELSE 0]
           Bad == {T \in SUBSET S : SumOver(g, T) # Weighed(l, Of(T))}
<1>1. \A T : OfKeys(R, w, key, T, Of(T))
  BY OfKeysExists
<1>2. Bad \subseteq SUBSET S
  OBVIOUS
<1>3. \A T \in SUBSET S : T \notin Bad <=> SumOver(g, T) = Weighed(l, Of(T))
  OBVIOUS
<1> HIDE DEF Of, Bad
<1>4. ASSUME NEW b \in S
      PROVE  OfKeys(R, w, key, {b}, parts[b]) /\ g[b] = Weighed(l, parts[b]) /\ g[b] \in Int
  <2>1. OfKeys(R, w, key, {b}, parts[b]) /\ g[b] = Weighed(l, parts[b])
    BY DEF PartsByKey, EachWeighed
  <2>2. parts[b] \in [R -> Int]
    BY <2>1 DEF OfKeys
  <2>3. PICK part : part = parts[b]
    OBVIOUS
  <2>4. part \in [R -> Int]
    BY <2>2, <2>3
  <2>5. Weighed(l, part) \in Int
    BY <2>4, WeighedType
  <2> QED
    BY <2>1, <2>3, <2>5
<1>5. Ints(g, S)
  BY <1>4 DEF Ints
<1>6. ASSUME Bad # {} PROVE FALSE
  <2>1. PICK U \in Bad : \A V \in Bad : ~(V \subseteq U /\ V # U)
    BY <1>2, <1>6, SmallestSet
  <2>2. U \in SUBSET S /\ IsFiniteSet(U) /\ Ints(g, U) /\ SumOver(g, U) # Weighed(l, Of(U))
    BY <1>2, <1>3, <1>5, <2>1, FS_Subset DEF Ints
  <2>3. CASE U = {}
    <3>1. SumOver(g, U) = 0
      BY <2>3, SumEmpty
    <3>2. OfKeys(R, w, key, {}, Of(U))
      BY <1>1, <2>3
    <3>3. Weighed(l, Of(U)) = 0
      BY <3>2, OfNoKeys
    <3> QED
      BY <2>2, <3>1, <3>3
  <2>4. CASE U # {}
    <3>1. PICK x : x \in U
      BY <2>4
    <3>2. U \ {x} \in SUBSET S /\ U \ {x} \notin Bad
      BY <2>1, <2>2, <3>1
    <3>3. SumOver(g, U \ {x}) = Weighed(l, Of(U \ {x}))
      BY <1>3, <3>2
    <3>4. /\ OfKeys(R, w, key, U, Of(U)) /\ OfKeys(R, w, key, U \ {x}, Of(U \ {x}))
          /\ OfKeys(R, w, key, {x}, parts[x]) /\ g[x] = Weighed(l, parts[x])
      BY <1>1, <1>4, <2>2, <3>1
    <3>5. Weighed(l, Of(U)) = Weighed(l, parts[x]) + Weighed(l, Of(U \ {x}))
      BY <3>1, <3>4, OneKeyMore
    <3>6. SumOver(g, U) = g[x] + SumOver(g, U \ {x})
      BY <2>2, <3>1, SumRemove
    <3> QED
      BY <2>2, <3>3, <3>4, <3>5, <3>6
  <2> QED
    BY <2>3, <2>4
<1>7. SumOver(g, S) = Weighed(l, Of(S))
  BY <1>3, <1>6
<1>8. v = Of(S)
  BY <1>1, OfKeysOnly
<1> QED
  BY <1>7, <1>8

-----------------------------------------------------------------------------
(* Loops.  The library's FoldLeft is a recursion over sets of positions that *)
(* takes the largest position first.                                       *)

(* The largest of some positions. *)
LEMMA LargestPosition ==
  ASSUME NEW n \in Nat, NEW s \in SUBSET (1..n), s # {}
  PROVE  Max(s) \in s /\ \A k \in s : Max(s) >= k
<1> DEFINE T == {n - k : k \in s}
<1>1. \A k \in s : k \in Nat /\ n - k \in Nat
  OBVIOUS
<1>2. T \subseteq Nat /\ T # {}
  BY <1>1
<1>3. PICK m \in T : \A k \in T : m <= k
  <2> HIDE DEF T
  <2> QED
    BY <1>2, LeastNumber
<1>4. PICK x \in s : m = n - x
  OBVIOUS
<1>5. ASSUME NEW y \in s PROVE x >= y
  <2>1. m <= n - y
    BY <1>3
  <2> QED
    BY <1>1, <1>4, <2>1
<1> QED
  BY <1>5 DEF Max

(* The recursion of a loop over the positions D, from base. *)
Loops(step, base, g, D) ==
  g = [s \in D |-> IF s = {} THEN base ELSE step[<<g[s \ {Max(s)}], Max(s)>>]]

(* A loop that starts in T and whose turns stay in T has an outcome, by      *)
(* induction on the number of turns.                                       *)
LEMMA LoopExists ==
  ASSUME NEW n \in Nat, NEW S, S = 1..n, NEW T, NEW base \in T,
         NEW step \in [T \X S -> T]
  PROVE  \E g \in [SUBSET S -> T] : Loops(step, base, g, SUBSET S)
<1> DEFINE Good(k) == \E g \in [UpTo(S, k) -> T] : Loops(step, base, g, UpTo(S, k))
           Bad == {k \in Nat : ~ Good(k)}
<1>0. IsFiniteSet(S)
  BY FS_Interval
<1>1. ASSUME NEW s \in SUBSET S
      PROVE  /\ Cardinality(s) \in Nat
             /\ Cardinality(s) = 0 => s = {}
             /\ s # {} => /\ Max(s) \in s /\ s \ {Max(s)} \in SUBSET S
                          /\ Cardinality(s \ {Max(s)}) = Cardinality(s) - 1
  <2>1. IsFiniteSet(s)
    BY <1>0, FS_Subset
  <2>2. Cardinality(s) \in Nat
    BY <2>1, FS_CardinalityType
  <2>3. Cardinality(s) = 0 => s = {}
    BY <2>1, FS_EmptySet
  <2>4. ASSUME s # {}
        PROVE  /\ Max(s) \in s /\ s \ {Max(s)} \in SUBSET S
               /\ Cardinality(s \ {Max(s)}) = Cardinality(s) - 1
    <3>1. Max(s) \in s
      BY <2>4, LargestPosition
    <3>2. PICK x \in s : x = Max(s)
      BY <3>1
    <3>3. Cardinality(s \ {x}) = Cardinality(s) - 1
      BY <2>1, FS_RemoveElement
    <3> QED
      BY <3>1, <3>2, <3>3
  <2> QED
    BY <2>2, <2>3, <2>4
<1>2. /\ \A s \in UpTo(S, 0) : s = {}
      /\ \A k \in Nat \ {0} :
           /\ UpTo(S, k - 1) \subseteq UpTo(S, k)
           /\ \A s \in UpTo(S, k) : s # {} => s \ {Max(s)} \in UpTo(S, k - 1) /\ Max(s) \in S
  <2>1. ASSUME NEW s \in UpTo(S, 0) PROVE s = {}
    <3>1. s \in SUBSET S /\ Cardinality(s) <= 0
      BY DEF UpTo
    <3>2. Cardinality(s) \in Nat /\ (Cardinality(s) = 0 => s = {})
      BY <3>1, <1>1
    <3> QED
      BY <3>1, <3>2
  <2>2. ASSUME NEW k \in Nat \ {0}, NEW s \in UpTo(S, k - 1) PROVE s \in UpTo(S, k)
    <3>1. s \in SUBSET S /\ Cardinality(s) <= k - 1
      BY DEF UpTo
    <3>2. Cardinality(s) \in Nat
      BY <3>1, <1>1
    <3> QED
      BY <3>1, <3>2 DEF UpTo
  <2>3. ASSUME NEW k \in Nat \ {0}, NEW s \in UpTo(S, k), s # {}
        PROVE  s \ {Max(s)} \in UpTo(S, k - 1) /\ Max(s) \in S
    <3>1. s \in SUBSET S /\ Cardinality(s) <= k
      BY DEF UpTo
    <3>2. Cardinality(s) \in Nat
      BY <3>1, <1>1
    <3>3. Max(s) \in s /\ s \ {Max(s)} \in SUBSET S
      BY <2>3, <3>1, <1>1
    <3>4. Cardinality(s \ {Max(s)}) = Cardinality(s) - 1
      BY <2>3, <3>1, <1>1
    <3>5. Cardinality(s \ {Max(s)}) <= k - 1
      BY <3>1, <3>2, <3>4
    <3> QED
      BY <3>1, <3>3, <3>5 DEF UpTo
  <2> QED
    BY <2>1, <2>2, <2>3
<1>3. Good(0)
  <2> DEFINE g == [s \in UpTo(S, 0) |-> base]
  <2>1. Loops(step, base, g, UpTo(S, 0)) /\ g \in [UpTo(S, 0) -> T]
    BY <1>2 DEF Loops
  <2> QED
    BY <2>1
<1>4. ASSUME NEW k \in Nat \ {0}, Good(k - 1) PROVE Good(k)
  <2>1. PICK g \in [UpTo(S, k - 1) -> T] : Loops(step, base, g, UpTo(S, k - 1))
    BY <1>4
  <2> DEFINE h == [s \in UpTo(S, k) |->
                     IF s = {} THEN base ELSE step[<<g[s \ {Max(s)}], Max(s)>>]]
  <2>2. \A s \in UpTo(S, k - 1) :
          g[s] = IF s = {} THEN base ELSE step[<<g[s \ {Max(s)}], Max(s)>>]
    BY <2>1 DEF Loops
  <2>3. \A s \in UpTo(S, k - 1) : s \in UpTo(S, k) /\ h[s] = g[s]
    BY <2>2, <1>2
  <2>4. \A s \in UpTo(S, k) : s # {} => s \ {Max(s)} \in UpTo(S, k - 1) /\ Max(s) \in S
    BY <1>2
  <2>5. h \in [UpTo(S, k) -> T]
    <3>1. \A s \in UpTo(S, k) : s # {} => <<g[s \ {Max(s)}], Max(s)>> \in T \X S
      BY <2>4
    <3>2. \A s \in UpTo(S, k) : s # {} => step[<<g[s \ {Max(s)}], Max(s)>>] \in T
      BY <3>1
    <3> QED
      BY <3>2
  <2>6. \A s \in UpTo(S, k) : s # {} => h[s \ {Max(s)}] = g[s \ {Max(s)}]
    BY <2>3, <2>4
  <2>7. Loops(step, base, h, UpTo(S, k))
    BY <2>6 DEF Loops
  <2> QED
    BY <2>5, <2>7
<1> HIDE DEF Good
<1>5. ASSUME Bad # {} PROVE FALSE
  <2>1. PICK k \in Bad : \A m \in Bad : k <= m
    <3>1. Bad \subseteq Nat
      OBVIOUS
    <3> HIDE DEF Bad
    <3> QED BY <1>5, <3>1, LeastNumber
  <2>2. k \in Nat \ {0} /\ k - 1 \in Nat /\ k - 1 \notin Bad
    BY <1>3, <2>1
  <2> QED
    BY <1>4, <2>2
<1>6. Cardinality(S) \in Nat /\ UpTo(S, Cardinality(S)) = SUBSET S
  BY <1>0, FS_Subset, FS_CardinalityType DEF UpTo
<1>7. Good(Cardinality(S))
  BY <1>5, <1>6
<1> QED
  BY <1>6, <1>7 DEF Good

(* What the turns preserve holds of every outcome: no smallest set of      *)
(* positions leaves T.                                                     *)
LEMMA LoopCloses ==
  ASSUME NEW n \in Nat, NEW S, S = 1..n, NEW T, NEW h, h[{}] \in T,
         \A s \in SUBSET S : s # {} /\ h[s \ {Max(s)}] \in T => h[s] \in T
  PROVE  \A s \in SUBSET S : h[s] \in T
<1> DEFINE Bad == {s \in SUBSET S : h[s] \notin T}
<1>1. ASSUME Bad # {} PROVE FALSE
  <2>1. PICK s \in Bad : \A V \in Bad : ~(V \subseteq s /\ V # s)
    <3>1. Bad \subseteq SUBSET S /\ IsFiniteSet(S)
      BY FS_Interval
    <3> HIDE DEF Bad
    <3> QED BY <3>1, <1>1, SmallestSet
  <2>2. s # {} /\ s \in SUBSET S
    OBVIOUS
  <2>3. Max(s) \in s
    BY <2>2, LargestPosition
  <2>4. s \ {Max(s)} \notin Bad
    BY <2>1, <2>3
  <2> QED
    BY <2>2, <2>4
<1> QED
  BY <1>1

(* Turn by turn: the positions up to k are those up to k - 1 and k.         *)
LEMMA UpToPosition ==
  ASSUME NEW n \in Nat, NEW k \in 1..n
  PROVE  /\ 1..k \in SUBSET (1..n) /\ 1..k # {} /\ k - 1 \in 0..n
         /\ Max(1..k) = k /\ (1..k) \ {k} = 1..(k - 1)
<1>1. 1..k \in SUBSET (1..n) /\ 1..k # {} /\ k - 1 \in 0..n /\ (1..k) \ {k} = 1..(k - 1)
  OBVIOUS
<1>2. Max(1..k) \in 1..k /\ \A j \in 1..k : Max(1..k) >= j
  BY <1>1, LargestPosition
<1> QED
  BY <1>1, <1>2

(* The recursion h of a loop whose n turns are steps in T. *)
Turning(n, T, step, h) ==
  /\ h[{}] \in T /\ step \in [T \X (1..n) -> T]
  /\ \A s \in SUBSET (1..n) : s # {} /\ h[s \ {Max(s)}] \in T =>
       h[s] = step[<<h[s \ {Max(s)}], Max(s)>>]

(* So a loop is a run, turn by turn. *)
LEMMA LoopTurns ==
  ASSUME NEW n \in Nat, NEW T, NEW step, NEW h, Turning(n, T, step, h)
  PROVE  \E run \in [0..n -> T] :
           /\ run[0] = h[{}] /\ run[n] = h[1..n]
           /\ \A k \in 1..n : run[k] = step[<<run[k - 1], k>>]
<1>1. PICK S : S = 1..n
  OBVIOUS
<1>2. /\ h[{}] \in T /\ step \in [T \X S -> T]
      /\ \A s \in SUBSET S : s # {} /\ h[s \ {Max(s)}] \in T =>
           h[s] = step[<<h[s \ {Max(s)}], Max(s)>>]
  BY <1>1 DEF Turning
<1>3. \A s \in SUBSET S : h[s] \in T
  <2>1. ASSUME NEW s \in SUBSET S, s # {}, h[s \ {Max(s)}] \in T PROVE h[s] \in T
    <3>1. Max(s) \in S
      BY <1>1, <2>1, LargestPosition
    <3>2. <<h[s \ {Max(s)}], Max(s)>> \in T \X S
      BY <2>1, <3>1
    <3>3. step[<<h[s \ {Max(s)}], Max(s)>>] \in T
      BY <1>2, <3>2
    <3> QED
      BY <1>2, <2>1, <3>3
  <2> QED
    BY <1>1, <1>2, <2>1, LoopCloses
<1> DEFINE run == [k \in 0..n |-> h[1..k]]
<1>4. run \in [0..n -> T]
  <2>1. \A k \in 0..n : 1..k \in SUBSET S
    BY <1>1
  <2> QED
    BY <1>3, <2>1
<1>5. run[0] = h[{}] /\ run[n] = h[S]
  <2>1. 1..0 = {} /\ 0 \in 0..n /\ n \in 0..n
    OBVIOUS
  <2> QED
    BY <1>1, <2>1
<1>6. ASSUME NEW k \in S PROVE run[k] = step[<<run[k - 1], k>>]
  <2>1. k \in 1..n
    BY <1>1
  <2>2. /\ 1..k \in SUBSET S /\ 1..k # {} /\ k - 1 \in 0..n
        /\ Max(1..k) = k /\ (1..k) \ {k} = 1..(k - 1)
    BY <1>1, <2>1, UpToPosition
  <2>3. 1..(k - 1) \in SUBSET S
    BY <2>2
  <2>4. h[1..k] = step[<<h[1..(k - 1)], k>>]
    BY <1>2, <1>3, <2>2, <2>3
  <2>5. k \in 0..n
    BY <2>1
  <2> QED
    BY <2>2, <2>4, <2>5
<1> QED
  BY <1>1, <1>4, <1>5, <1>6

(* What holds before the first turn and after a turn, if before it, holds    *)
(* after each turn.                                                        *)
LEMMA EachTurn ==
  ASSUME NEW n \in Nat, NEW Good, 0 \in Good,
         \A k \in 1..n : k - 1 \in Good => k \in Good
  PROVE  \A k \in 0..n : k \in Good
<1> DEFINE Bad == {k \in 0..n : k \notin Good}
<1>1. ASSUME Bad # {} PROVE FALSE
  <2>1. Bad \subseteq Nat
    OBVIOUS
  <2>2. PICK k \in Bad : \A j \in Bad : k <= j
    <3> HIDE DEF Bad
    <3> QED BY <1>1, <2>1, LeastNumber
  <2>3. k \in 1..n /\ k - 1 \in 0..n /\ ~(k <= k - 1)
    BY <2>2
  <2>4. k - 1 \in Good
    BY <2>2, <2>3
  <2> QED
    BY <2>3, <2>4
<1> QED
  BY <1>1
=============================================================================
