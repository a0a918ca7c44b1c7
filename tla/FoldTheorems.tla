------------------------------- MODULE FoldTheorems -------------------------------
(***************************************************************************)
(* What the sums and folds of the community modules compute.  They are     *)
(* recursive functions that take the elements of a set in an order that    *)
(* CHOOSE fixes; these lemmas say that they exist, that the order does not *)
(* matter to a sum, and how a sum changes with its set.                    *)
(*                                                                         *)
(* Induction is over the members of a set, not over a predicate: the       *)
(* provers cannot instantiate an operator.                                 *)
(***************************************************************************)
EXTENDS SequencesExt, FiniteSetTheorems, TLAPS

-----------------------------------------------------------------------------
(* Induction.                                                                *)

(* A non-empty set of natural numbers has a least element. *)
LEMMA LeastNatural ==
    ASSUME NEW S \in SUBSET Nat, S # {}
    PROVE  \E n \in S : \A m \in S : n <= m
<1>1. IsWellFoundedOn(OpToRel(<, Nat), Nat)
  BY NatLessThanWellFounded
<1>2. PICK n \in S : \A m \in S : <<m, n>> \notin OpToRel(<, Nat)
  BY <1>1, WFMin
<1>3. \A m \in S : ~(m < n)
  BY <1>2 DEF OpToRel
<1>4. QED
  BY <1>3

(* A set that holds 0 and with each number the next holds every number. *)
LEMMA NumberInduction ==
    ASSUME NEW U, 0 \in U, \A n \in Nat : n \in U => n + 1 \in U
    PROVE  Nat \subseteq U
<1>1. SUFFICES ASSUME Nat \ U # {} PROVE FALSE
  OBVIOUS
<1>2. PICK n \in Nat \ U : \A m \in Nat \ U : n <= m
  <2>1. Nat \ U \in SUBSET Nat
    OBVIOUS
  <2>2. QED
    BY <1>1, <2>1, LeastNatural
<1>3. n # 0 /\ n - 1 \in Nat /\ n - 1 \in U
  BY <1>2
<1>4. QED
  BY <1>2, <1>3

(* How many elements the parts of a finite set have. *)
LEMMA PartSizes ==
    ASSUME NEW S, IsFiniteSet(S)
    PROVE  \A T \in SUBSET S :
              /\ IsFiniteSet(T)
              /\ Cardinality(T) \in 0..Cardinality(S)
              /\ Cardinality(T) = 0 <=> T = {}
              /\ \A x \in T : T \ {x} \in SUBSET S /\ Cardinality(T \ {x}) = Cardinality(T) - 1
<1> SUFFICES ASSUME NEW T \in SUBSET S
             PROVE  /\ IsFiniteSet(T)
                    /\ Cardinality(T) \in 0..Cardinality(S)
                    /\ Cardinality(T) = 0 <=> T = {}
                    /\ \A x \in T : T \ {x} \in SUBSET S /\ Cardinality(T \ {x}) = Cardinality(T) - 1
  OBVIOUS
<1>1. IsFiniteSet(T) /\ Cardinality(T) <= Cardinality(S)
  BY FS_Subset
<1>2. Cardinality(T) \in Nat /\ Cardinality(S) \in Nat
  BY <1>1, FS_CardinalityType
<1>3. \A x \in T : Cardinality(T \ {x}) = Cardinality(T) - 1
  BY <1>1, FS_RemoveElement
<1>4. QED
  BY <1>1, <1>2, <1>3, FS_EmptySet

(* A set that holds {} and each part of S of which it holds all that lack an  *)
(* element holds every part of S, if S is finite.                             *)
LEMMA PartInduction ==
    ASSUME NEW S, IsFiniteSet(S), NEW U, {} \in U,
           \A T \in SUBSET S : T # {} /\ (\A x \in T : T \ {x} \in U) => T \in U
    PROVE  SUBSET S \subseteq U
<1> DEFINE V == {n \in Nat : \A T \in SUBSET S : Cardinality(T) = n => T \in U}
<1>1. 0 \in V
  BY PartSizes
<1>2. ASSUME NEW n \in Nat, n \in V PROVE n + 1 \in V
  <2>1. SUFFICES ASSUME NEW T \in SUBSET S, Cardinality(T) = n + 1 PROVE T \in U
    OBVIOUS
  <2>2. \A x \in T : T \ {x} \in U
    BY <1>2, <2>1, PartSizes
  <2>3. QED
    BY <2>1, <2>2, PartSizes
<1>3. Nat \subseteq V
  <2> HIDE DEF V
  <2>1. QED
    BY <1>1, <1>2, NumberInduction
<1>4. QED
  BY <1>3, PartSizes

-----------------------------------------------------------------------------
(* Folds.                                                                    *)

\* f is the fold over each part of S: pick gives the element taken first, step what
\* it makes of the rest.
Folds(f, S, base, pick, step) ==
    \A T \in SUBSET S :
        f[T] = IF T = {} THEN base ELSE step[pick[T]][f[T \ {pick[T]}]]

Picks(pick, S) == \A T \in SUBSET S : T # {} => pick[T] \in T

(* There is such a fold, whatever the order. *)
LEMMA FoldExists ==
    ASSUME NEW S, IsFiniteSet(S), NEW Y, NEW base \in Y, NEW pick, Picks(pick, S),
           NEW step \in [S -> [Y -> Y]]
    PROVE  \E f \in [SUBSET S -> Y] : Folds(f, S, base, pick, step)
<1> DEFINE Small(n) == {T \in SUBSET S : Cardinality(T) <= n}
           Rest(T) == T \ {pick[T]}
           Good(f, n) == \A T \in Small(n) :
                            f[T] = IF T = {} THEN base ELSE step[pick[T]][f[Rest(T)]]
           Exists(n) == \E f \in [Small(n) -> Y] : Good(f, n)
           V == {n \in Nat : Exists(n)}
<1>1. \A T \in SUBSET S : Cardinality(T) \in 0..Cardinality(S) /\ (Cardinality(T) = 0 <=> T = {})
  BY PartSizes
<1>2. Cardinality(S) \in Nat
  BY FS_CardinalityType
<1>3. \A T \in SUBSET S : T # {} => /\ pick[T] \in S
                                    /\ Rest(T) \in SUBSET S
                                    /\ Cardinality(Rest(T)) = Cardinality(T) - 1
  BY PartSizes DEF Picks
<1>4. Exists(0)
  <2>1. \A T \in Small(0) : T = {}
    BY <1>1
  <2>2. [T \in Small(0) |-> base] \in [Small(0) -> Y] /\ Good([T \in Small(0) |-> base], 0)
    BY <2>1
  <2>3. QED
    BY <2>2
<1>5. ASSUME NEW n \in Nat, Exists(n) PROVE Exists(n + 1)
  <2>1. PICK f \in [Small(n) -> Y] : Good(f, n)
    BY <1>5
  <2> DEFINE g == [T \in Small(n + 1) |->
                      IF T \in Small(n) THEN f[T] ELSE step[pick[T]][f[Rest(T)]]]
  <2>2. ASSUME NEW T \in Small(n + 1) PROVE T # {} => Rest(T) \in Small(n) /\ Rest(T) \in Small(n + 1)
    BY <1>1, <1>3
  <2>3. \A T \in Small(n + 1) : T \notin Small(n) => T # {}
    BY <1>1
  <2>4. g \in [Small(n + 1) -> Y]
    BY <1>3, <2>1, <2>2, <2>3
  <2>5. Good(g, n + 1)
    BY <1>3, <2>1, <2>2, <2>3
  <2> HIDE DEF g, Small, Good
  <2>6. QED
    BY <2>4, <2>5
<1>6. Exists(Cardinality(S))
  <2> HIDE DEF Exists
  <2>1. 0 \in V /\ \A n \in Nat : n \in V => n + 1 \in V
    BY <1>4, <1>5
  <2>2. Nat \subseteq V
    <3> HIDE DEF V
    <3>1. QED
      BY <2>1, NumberInduction
  <2>3. QED
    BY <1>2, <2>2
<1>7. Small(Cardinality(S)) = SUBSET S
  BY <1>1
<1>8. QED
  BY <1>6, <1>7 DEF Folds

-----------------------------------------------------------------------------
(* Sums.                                                                     *)

\* The sum of f[x] over the elements of S.
SumOver(f, S) == MapThenSumSet(LAMBDA x : f[x], S)

Member(T) == CHOOSE x \in T : TRUE

\* g gives the sum over each part of S.
Sums(g, f, S) ==
    g = [T \in SUBSET S |-> IF T = {} THEN 0 ELSE f[Member(T)] + g[T \ {Member(T)}]]

LEMMA SumsExist ==
    ASSUME NEW S, IsFiniteSet(S), NEW f, \A x \in S : f[x] \in Int
    PROVE  \E g : Sums(g, f, S)
<1> DEFINE pick == [T \in SUBSET S |-> Member(T)]
           add == [x \in S |-> [n \in Int |-> f[x] + n]]
<1>1. Picks(pick, S)
  BY DEF Picks, Member
<1>2. add \in [S -> [Int -> Int]]
  OBVIOUS
<1>3. PICK g \in [SUBSET S -> Int] : Folds(g, S, 0, pick, add)
  <2> HIDE DEF pick, add
  <2>1. QED
    BY <1>1, <1>2, 0 \in Int, FoldExists
<1>4. ASSUME NEW T \in SUBSET S
      PROVE  g[T] = IF T = {} THEN 0 ELSE f[Member(T)] + g[T \ {Member(T)}]
  <2>1. pick[T] = Member(T) /\ (T # {} => Member(T) \in S)
    BY DEF Member
  <2>2. g[T] = IF T = {} THEN 0 ELSE add[pick[T]][g[T \ {pick[T]}]]
    BY <1>3 DEF Folds
  <2>3. T \ {Member(T)} \in SUBSET S
    OBVIOUS
  <2>4. QED
    BY <2>1, <2>2, <2>3
<1>5. QED
  BY <1>4 DEF Sums

LEMMA SumsAgree ==
    ASSUME NEW S, IsFiniteSet(S), NEW R \in SUBSET S, NEW f, \A x \in S : f[x] \in Int,
           NEW g, Sums(g, f, S), NEW h, Sums(h, f, R)
    PROVE  \A T \in SUBSET R : g[T] \in Int /\ h[T] = g[T]
<1> DEFINE U == {T \in SUBSET R : g[T] \in Int /\ h[T] = g[T]}
<1>1. {} \in U
  BY DEF Sums
<1>2. ASSUME NEW T \in SUBSET R, T # {}, \A x \in T : T \ {x} \in U
      PROVE  T \in U
  <2>1. Member(T) \in T
    BY <1>2 DEF Member
  <2>2. T \ {Member(T)} \in U /\ f[Member(T)] \in Int
    BY <1>2, <2>1
  <2>3. g[T] = f[Member(T)] + g[T \ {Member(T)}] /\ h[T] = f[Member(T)] + h[T \ {Member(T)}]
    BY <1>2 DEF Sums
  <2>4. QED
    BY <2>2, <2>3
<1>3. SUBSET R \subseteq U
  <2> HIDE DEF U
  <2>1. QED
    BY <1>1, <1>2, FS_Subset, PartInduction
<1>4. QED
  BY <1>3

(* A sum over a part of S is what the sums over S give for it. *)
LEMMA SumIsFold ==
    ASSUME NEW S, IsFiniteSet(S), NEW f, \A x \in S : f[x] \in Int
    PROVE  \E g : /\ Sums(g, f, S)
                  /\ \A T \in SUBSET S : g[T] \in Int /\ SumOver(f, T) = g[T]
<1>1. PICK g : Sums(g, f, S)
  BY SumsExist
<1>2. ASSUME NEW T \in SUBSET S PROVE g[T] \in Int /\ SumOver(f, T) = g[T]
  <2> DEFINE h == CHOOSE h : Sums(h, f, T)
  <2>1. Sums(h, f, T)
    BY FS_Subset, SumsExist
  <2>2. SumOver(f, T) = h[T]
    BY DEF SumOver, MapThenSumSet, MapThenFoldSet, Sums, Member
  <2>3. QED
    BY <1>1, <2>1, <2>2, SumsAgree
<1>3. QED
  BY <1>1, <1>2

LEMMA SumType ==
    ASSUME NEW S, IsFiniteSet(S), NEW f, \A x \in S : f[x] \in Int
    PROVE  SumOver(f, S) \in Int
  BY SumIsFold

LEMMA SumEmpty ==
    ASSUME NEW f
    PROVE  SumOver(f, {}) = 0
<1>1. IsFiniteSet({})
  BY FS_EmptySet
<1>2. PICK g : /\ Sums(g, f, {})
               /\ \A T \in SUBSET {} : g[T] \in Int /\ SumOver(f, T) = g[T]
  BY <1>1, SumIsFold
<1>3. {} \in SUBSET {}
  OBVIOUS
<1>4. QED
  BY <1>2, <1>3 DEF Sums

(* Any element may be taken out first. *)
LEMMA SumRemove ==
    ASSUME NEW S, IsFiniteSet(S), NEW f, \A x \in S : f[x] \in Int, NEW x \in S
    PROVE  SumOver(f, S) = f[x] + SumOver(f, S \ {x})
<1>1. PICK g : /\ Sums(g, f, S)
               /\ \A T \in SUBSET S : g[T] \in Int /\ SumOver(f, T) = g[T]
  BY SumIsFold
<1> DEFINE U == {T \in SUBSET S : \A y \in T : g[T] = f[y] + g[T \ {y}]}
<1>2. {} \in U
  OBVIOUS
<1>3. ASSUME NEW T \in SUBSET S, T # {}, \A y \in T : T \ {y} \in U, NEW y \in T
      PROVE  g[T] = f[y] + g[T \ {y}]
  <2> DEFINE m == Member(T)
  <2>1. m \in T /\ g[T] = f[m] + g[T \ {m}]
    BY <1>1, <1>3 DEF Member, Sums
  <2>2. SUFFICES ASSUME m # y PROVE g[T] = f[y] + g[T \ {y}]
    BY <2>1
  <2>3. g[T \ {m}] = f[y] + g[(T \ {m}) \ {y}] /\ g[T \ {y}] = f[m] + g[(T \ {y}) \ {m}]
    BY <1>3, <2>1, <2>2
  <2>4. (T \ {m}) \ {y} = (T \ {y}) \ {m} /\ (T \ {m}) \ {y} \in SUBSET S
    OBVIOUS
  <2>5. f[m] \in Int /\ f[y] \in Int /\ g[(T \ {m}) \ {y}] \in Int
    BY <1>1, <2>1, <2>4
  <2> DEFINE rest == (T \ {m}) \ {y}
  <2>6. g[T \ {m}] = f[y] + g[rest] /\ g[T \ {y}] = f[m] + g[rest]
    BY <2>3, <2>4
  <2>7. QED
    BY <2>1, <2>5, <2>6
<1>4. SUBSET S \subseteq U
  <2>1. \A T \in SUBSET S : T # {} /\ (\A y \in T : T \ {y} \in U) => T \in U
    BY <1>3
  <2> HIDE DEF U
  <2>2. QED
    BY <1>2, <2>1, PartInduction
<1>5. g[S] = f[x] + g[S \ {x}]
  BY <1>4
<1>6. S \ {x} \in SUBSET S /\ S \in SUBSET S
  OBVIOUS
<1>7. QED
  BY <1>1, <1>5, <1>6

(* Two functions that agree on a set have the same sum over it. *)
LEMMA SumSame ==
    ASSUME NEW S, IsFiniteSet(S), NEW f, NEW g,
           \A x \in S : f[x] \in Int /\ g[x] = f[x]
    PROVE  SumOver(g, S) = SumOver(f, S)
<1> DEFINE U == {T \in SUBSET S : SumOver(g, T) = SumOver(f, T)}
<1>1. {} \in U
  BY SumEmpty
<1>2. ASSUME NEW T \in SUBSET S, T # {}, \A x \in T : T \ {x} \in U PROVE T \in U
  <2>1. PICK x \in T : SumOver(g, T \ {x}) = SumOver(f, T \ {x})
    BY <1>2
  <2>2. IsFiniteSet(T)
    BY FS_Subset
  <2>3. SumOver(f, T) = f[x] + SumOver(f, T \ {x})
    BY <2>2, SumRemove
  <2>4. SumOver(g, T) = g[x] + SumOver(g, T \ {x})
    BY <2>2, SumRemove
  <2>5. QED
    BY <2>1, <2>3, <2>4
<1>3. SUBSET S \subseteq U
  <2> HIDE DEF U
  <2>1. QED
    BY <1>1, <1>2, PartInduction
<1>4. QED
  BY <1>3

(* The sum over two sets that have no element in common. *)
LEMMA SumUnion ==
    ASSUME NEW S, IsFiniteSet(S), NEW R, IsFiniteSet(R), S \cap R = {},
           NEW f, \A x \in S \cup R : f[x] \in Int
    PROVE  SumOver(f, S \cup R) = SumOver(f, S) + SumOver(f, R)
<1> DEFINE U == {T \in SUBSET R : SumOver(f, S \cup T) = SumOver(f, S) + SumOver(f, T)}
<1>0. SumOver(f, S) \in Int
  BY SumType
<1>1. {} \in U
  <2>1. S \cup {} = S
    OBVIOUS
  <2>2. QED
    BY <1>0, <2>1, SumEmpty
<1>2. ASSUME NEW T \in SUBSET R, T # {}, \A x \in T : T \ {x} \in U PROVE T \in U
  <2>1. PICK x \in T : SumOver(f, S \cup (T \ {x})) = SumOver(f, S) + SumOver(f, T \ {x})
    BY <1>2
  <2>2. IsFiniteSet(T) /\ IsFiniteSet(T \ {x}) /\ IsFiniteSet(S \cup T)
    BY FS_Subset, FS_Union, FS_RemoveElement
  <2>3. SumOver(f, T) = f[x] + SumOver(f, T \ {x})
    BY <2>2, SumRemove
  <2>4. SumOver(f, S \cup T) = f[x] + SumOver(f, (S \cup T) \ {x})
    BY <2>2, SumRemove
  <2>5. (S \cup T) \ {x} = S \cup (T \ {x})
    OBVIOUS
  <2>6. SumOver(f, T \ {x}) \in Int /\ f[x] \in Int
    BY <2>2, SumType
  <2>7. SumOver(f, S \cup T) = f[x] + (SumOver(f, S) + SumOver(f, T \ {x}))
    BY <2>1, <2>4, <2>5
  <2>8. SumOver(f, S \cup T) = SumOver(f, S) + SumOver(f, T)
    BY <1>0, <2>3, <2>6, <2>7
  <2>9. QED
    BY <2>8
<1>3. SUBSET R \subseteq U
  <2> HIDE DEF U
  <2>1. QED
    BY <1>1, <1>2, PartInduction
<1>4. QED
  BY <1>3

(* A sum of numbers that are not negative is not. *)
LEMMA SumNat ==
    ASSUME NEW S, IsFiniteSet(S), NEW f, \A x \in S : f[x] \in Nat
    PROVE  SumOver(f, S) \in Nat
<1> DEFINE U == {T \in SUBSET S : SumOver(f, T) \in Nat}
<1>1. {} \in U
  BY SumEmpty
<1>2. ASSUME NEW T \in SUBSET S, T # {}, \A x \in T : T \ {x} \in U PROVE T \in U
  <2>1. PICK x \in T : SumOver(f, T \ {x}) \in Nat
    BY <1>2
  <2>2. IsFiniteSet(T)
    BY FS_Subset
  <2>3. SumOver(f, T) = f[x] + SumOver(f, T \ {x})
    BY <2>2, SumRemove
  <2>4. QED
    BY <2>1, <2>3
<1>3. SUBSET S \subseteq U
  <2> HIDE DEF U
  <2>1. QED
    BY <1>1, <1>2, PartInduction
<1>4. QED
  BY <1>3

(* The sum over a part is no more than the whole. *)
LEMMA SumPart ==
    ASSUME NEW S, IsFiniteSet(S), NEW R \in SUBSET S, NEW f, \A x \in S : f[x] \in Nat
    PROVE  SumOver(f, R) \in Nat /\ SumOver(f, S) \in Nat /\ SumOver(f, R) <= SumOver(f, S)
<1>1. IsFiniteSet(R) /\ IsFiniteSet(S \ R)
  BY FS_Subset
<1>2. R \cup (S \ R) = S
  OBVIOUS
<1>3. SumOver(f, R \cup (S \ R)) = SumOver(f, R) + SumOver(f, S \ R)
  <2>1. R \cap (S \ R) = {} /\ \A x \in R \cup (S \ R) : f[x] \in Int
    BY <1>2
  <2>2. QED
    BY <1>1, <2>1, SumUnion
<1>4. SumOver(f, R) \in Nat /\ SumOver(f, S \ R) \in Nat
  BY <1>1, SumNat
<1>5. SumOver(f, S) = SumOver(f, R) + SumOver(f, S \ R)
  BY <1>2, <1>3, Zenon
<1>6. QED
  BY <1>4, <1>5

(* One more in one place is one more in the sum. *)
LEMMA SumAddOne ==
    ASSUME NEW S, IsFiniteSet(S), NEW x \in S, NEW f, NEW g, \A y \in S : f[y] \in Int,
           \A y \in S : g[y] = IF y = x THEN f[y] + 1 ELSE f[y]
    PROVE  SumOver(g, S) = SumOver(f, S) + 1
<1>1. IsFiniteSet(S \ {x})
  BY FS_RemoveElement
<1>2. SumOver(f, S) = f[x] + SumOver(f, S \ {x})
  BY SumRemove
<1>3. SumOver(g, S) = g[x] + SumOver(g, S \ {x})
  <2>1. \A y \in S : g[y] \in Int
    OBVIOUS
  <2>2. QED
    BY <2>1, SumRemove
<1>4. SumOver(g, S \ {x}) = SumOver(f, S \ {x})
  <2>1. \A y \in S \ {x} : f[y] \in Int /\ g[y] = f[y]
    OBVIOUS
  <2>2. QED
    BY <1>1, <2>1, SumSame
<1>5. SumOver(f, S \ {x}) \in Int
  BY <1>1, SumType
<1>6. g[x] = f[x] + 1 /\ f[x] \in Int
  OBVIOUS
<1>7. QED
  BY <1>2, <1>3, <1>4, <1>5, <1>6

(* Every summand one place further on: the sum is that of the places before. *)
LEMMA SumShift ==
    ASSUME NEW n \in Nat, NEW m \in Nat, NEW f, NEW g,
           \A i \in n..(n + m - 1) : f[i] \in Int /\ g[i + 1] = f[i]
    PROVE  SumOver(g, (n + 1)..(n + m)) = SumOver(f, n..(n + m - 1))
<1> DEFINE U == {k \in Nat : k <= m => SumOver(g, (n + 1)..(n + k)) = SumOver(f, n..(n + k - 1))}
<1>1. 0 \in U
  <2>1. (n + 1)..(n + 0) = {} /\ n..(n + 0 - 1) = {}
    OBVIOUS
  <2>2. QED
    BY <2>1, SumEmpty
<1>2. ASSUME NEW k \in Nat, k \in U PROVE k + 1 \in U
  <2>1. SUFFICES ASSUME k + 1 <= m
                 PROVE  SumOver(g, (n + 1)..(n + (k + 1))) = SumOver(f, n..(n + (k + 1) - 1))
    OBVIOUS
  <2>2. IsFiniteSet((n + 1)..(n + (k + 1))) /\ IsFiniteSet(n..(n + (k + 1) - 1))
    BY FS_Interval
  <2>3. \A i \in (n + 1)..(n + (k + 1)) : g[i] \in Int
    <3>1. \A i \in (n + 1)..(n + (k + 1)) : i - 1 \in n..(n + m - 1) /\ (i - 1) + 1 = i
      BY <2>1
    <3>2. QED
      BY <3>1
  <2>4. SumOver(g, (n + 1)..(n + (k + 1)))
          = g[n + (k + 1)] + SumOver(g, ((n + 1)..(n + (k + 1))) \ {n + (k + 1)})
    BY <2>2, <2>3, n + (k + 1) \in (n + 1)..(n + (k + 1)), SumRemove
  <2>5. SumOver(f, n..(n + (k + 1) - 1)) = f[n + k] + SumOver(f, (n..(n + (k + 1) - 1)) \ {n + k})
    <3>1. n + k \in n..(n + (k + 1) - 1) /\ \A i \in n..(n + (k + 1) - 1) : f[i] \in Int
      BY <2>1
    <3>2. QED
      BY <2>2, <3>1, SumRemove
  <2>6. /\ ((n + 1)..(n + (k + 1))) \ {n + (k + 1)} = (n + 1)..(n + k)
        /\ (n..(n + (k + 1) - 1)) \ {n + k} = n..(n + k - 1)
    OBVIOUS
  <2>7. g[n + (k + 1)] = f[n + k]
    <3>1. n + k \in n..(n + m - 1) /\ (n + k) + 1 = n + (k + 1)
      BY <2>1
    <3>2. QED
      BY <3>1
  <2>8. SumOver(g, (n + 1)..(n + k)) = SumOver(f, n..(n + k - 1))
    BY <1>2, <2>1
  <2>9. /\ SumOver(g, (n + 1)..(n + (k + 1))) = g[n + (k + 1)] + SumOver(g, (n + 1)..(n + k))
        /\ SumOver(f, n..(n + (k + 1) - 1)) = f[n + k] + SumOver(f, n..(n + k - 1))
    BY <2>4, <2>5, <2>6
  <2>10. QED
    BY <2>7, <2>8, <2>9
<1>3. m \in U
  <2> HIDE DEF U
  <2>1. QED
    BY <1>1, <1>2, NumberInduction
<1>4. QED
  BY <1>3

(* A function's values on a finite set are finitely many. *)
LEMMA ImageFinite ==
    ASSUME NEW S, IsFiniteSet(S), NEW f
    PROVE  IsFiniteSet({f[x] : x \in S})
<1> DEFINE R == {f[x] : x \in S}
           g == [x \in S |-> f[x]]
<1>1. g \in Surjection(S, R)
  BY DEF Surjection
<1>2. QED
  BY <1>1, FS_Surjection

(* Where at most two elements share a value of p, and count the same, the sum is at  *)
(* most twice the one in which they count once.                                      *)
LEMMA SumOfPairs ==
    ASSUME NEW S, IsFiniteSet(S), NEW p, NEW f, NEW g,
           \A x \in S : f[x] \in Nat /\ g[p[x]] = f[x],
           \A x, y, z \in S : p[x] = p[y] /\ p[y] = p[z] => x = y \/ y = z \/ x = z
    PROVE  SumOver(f, S) <= 2 * SumOver(g, {p[x] : x \in S})
<1> DEFINE R == {p[x] : x \in S}
           Over(T) == {x \in S : p[x] \in T}
           U == {T \in SUBSET R : SumOver(f, Over(T)) <= 2 * SumOver(g, T)}
<1>1. IsFiniteSet(R) /\ \A y \in R : g[y] \in Nat
  BY ImageFinite
<1>2. {} \in U
  <2>1. Over({}) = {}
    OBVIOUS
  <2>2. QED
    BY <2>1, SumEmpty
<1>3. ASSUME NEW y \in R
      PROVE  SumOver(f, Over({y})) \in Nat /\ SumOver(f, Over({y})) <= 2 * g[y]
  <2> DEFINE F == Over({y})
  <2>1. PICK x \in F : TRUE
    OBVIOUS
  <2>2. \A z \in F : f[z] \in Nat /\ f[z] = g[y]
    OBVIOUS
  <2>3. \A z, w \in F : x = z \/ z = w \/ x = w
    OBVIOUS
  <2>4. IsFiniteSet(F)
    BY FS_Subset
  <2> HIDE DEF F
  <2>5. SumOver(f, F) = f[x] + SumOver(f, F \ {x})
    BY <2>1, <2>2, <2>4, SumRemove
  <2>6. SumOver(f, F \ {x}) \in Nat /\ SumOver(f, F \ {x}) <= g[y]
    <3>1. CASE F \ {x} = {}
      BY <1>1, <3>1, SumEmpty
    <3>2. CASE F \ {x} # {}
      <4>1. PICK z \in F \ {x} : TRUE
        BY <3>2
      <4>2. (F \ {x}) \ {z} = {}
        BY <2>3, <4>1
      <4>3. IsFiniteSet(F \ {x}) /\ \A w \in F \ {x} : f[w] \in Int
        BY <2>2, <2>4, FS_RemoveElement
      <4>4. SumOver(f, F \ {x}) = f[z] + SumOver(f, (F \ {x}) \ {z})
        BY <4>1, <4>3, SumRemove
      <4>5. SumOver(f, F \ {x}) = f[z] + 0
        BY <4>2, <4>4, SumEmpty
      <4>6. QED
        BY <2>2, <4>1, <4>5
    <3>3. QED
      BY <3>1, <3>2
  <2>7. QED
    BY <2>1, <2>2, <2>5, <2>6 DEF F
<1>4. ASSUME NEW T \in SUBSET R, T # {}, \A y \in T : T \ {y} \in U PROVE T \in U
  <2>1. PICK y \in T : SumOver(f, Over(T \ {y})) <= 2 * SumOver(g, T \ {y})
    BY <1>4
  <2>2. IsFiniteSet(T) /\ IsFiniteSet(T \ {y}) /\ \A u \in T : g[u] \in Nat
    BY <1>1, FS_Subset, FS_RemoveElement
  <2>3. SumOver(g, T) = g[y] + SumOver(g, T \ {y}) /\ SumOver(g, T \ {y}) \in Nat /\ g[y] \in Nat
    BY <2>2, SumRemove, SumNat
  <2>4. IsFiniteSet(Over(T \ {y})) /\ IsFiniteSet(Over({y}))
    BY FS_Subset
  <2>5. Over(T) = Over(T \ {y}) \cup Over({y}) /\ Over(T \ {y}) \cap Over({y}) = {}
    BY <1>4
  <2>6. \A x \in Over(T \ {y}) \cup Over({y}) : f[x] \in Nat /\ f[x] \in Int
    OBVIOUS
  <2>7. y \in R
    BY <1>4
  <2>8. SumOver(f, Over({y})) \in Nat /\ SumOver(f, Over({y})) <= 2 * g[y]
    BY <1>3, <2>7
  <2> HIDE DEF Over, R
  <2>9. SumOver(f, Over(T \ {y}) \cup Over({y})) = SumOver(f, Over(T \ {y})) + SumOver(f, Over({y}))
    BY <2>4, <2>5, <2>6, SumUnion
  <2>10. SumOver(f, Over(T \ {y})) \in Nat
    BY <2>4, <2>6, SumNat
  <2>11. SumOver(f, Over(T)) = SumOver(f, Over(T \ {y})) + SumOver(f, Over({y}))
    BY <2>5, <2>9
  <2>12. SumOver(f, Over(T)) <= 2 * SumOver(g, T)
    BY <2>1, <2>3, <2>8, <2>10, <2>11
  <2>13. QED
    BY <2>12
<1>5. SUBSET R \subseteq U
  <2>1. \A T \in SUBSET R : T # {} /\ (\A y \in T : T \ {y} \in U) => T \in U
    BY <1>4
  <2> HIDE DEF U, R
  <2>2. QED
    BY <1>1, <1>2, <2>1, PartInduction
<1>6. SumOver(f, Over(R)) <= 2 * SumOver(g, R)
  BY <1>5
<1>7. Over(R) = S
  OBVIOUS
<1>8. QED
  BY <1>6, <1>7

-----------------------------------------------------------------------------
(* The positions of a sequence, from the last.                               *)

(* A non-empty set of numbers that are not above n has a greatest. *)
LEMMA MaxIsGreatest ==
    ASSUME NEW n \in Nat, NEW T \in SUBSET (1..n), T # {}
    PROVE  Max(T) \in T /\ \A t \in T : t <= Max(T)
<1> DEFINE Bounds == {b \in Nat : \A t \in T : t <= b}
<1>1. Bounds \in SUBSET Nat /\ n \in Bounds
  OBVIOUS
<1>2. PICK b \in Bounds : \A c \in Bounds : b <= c
  <2> HIDE DEF Bounds
  <2>1. QED
    BY <1>1, LeastNatural
<1>3. b \in T
  <2>1. SUFFICES ASSUME b \notin T PROVE FALSE
    OBVIOUS
  <2>2. \A t \in T : t \in Nat /\ t >= 1 /\ t <= b /\ t # b
    BY <1>2, <2>1
  <2>3. b \in Nat
    BY <1>2
  <2>4. PICK t \in T : TRUE
    OBVIOUS
  <2>5. b # 0 /\ b - 1 \in Nat
    BY <2>2, <2>3, <2>4
  <2>6. \A u \in T : u <= b - 1
    BY <2>2, <2>3
  <2>7. b - 1 \in Bounds
    BY <2>5, <2>6
  <2>8. QED
    BY <1>2, <2>3, <2>7
<1>4. \E x \in T : \A y \in T : x >= y
  BY <1>2, <1>3
<1>5. Max(T) \in T /\ \A t \in T : Max(T) >= t
  BY <1>4 DEF Max
<1>6. QED
  BY <1>5

LEMMA MaxOfFirst ==
    ASSUME NEW n \in Nat
    PROVE  Max(1..(n + 1)) = n + 1
<1>1. Max(1..(n + 1)) \in 1..(n + 1) /\ n + 1 <= Max(1..(n + 1))
  BY n + 1 \in Nat, n + 1 \in 1..(n + 1), MaxIsGreatest
<1>2. QED
  BY <1>1

(* A finite set of integers that is not empty has a greatest. *)
LEMMA MaxOfFinite ==
    ASSUME NEW S, IsFiniteSet(S), S \subseteq Int, S # {}
    PROVE  Max(S) \in S /\ \A x \in S : x <= Max(S)
<1> DEFINE U == {T \in SUBSET S : T = {} \/ \E x \in T : \A y \in T : x >= y}
<1>1. {} \in U
  OBVIOUS
<1>2. ASSUME NEW T \in SUBSET S, T # {}, \A x \in T : T \ {x} \in U PROVE T \in U
  <2> PICK z \in T : TRUE
    BY <1>2
  <2>1. T \ {z} = {} \/ \E x \in T \ {z} : \A y \in T \ {z} : x >= y
    <3>1. T \ {z} \in U
      BY <1>2
    <3>2. QED
      BY <3>1
  <2>2. CASE T \ {z} = {}
    <3>1. \A y \in T : y = z
      BY <2>2
    <3>2. z \in T /\ z \in Int
      OBVIOUS
    <3>3. \A y \in T : z >= y
      BY <3>1, <3>2
    <3>4. QED
      BY <3>2, <3>3
  <2>3. CASE T \ {z} # {}
    <3>1. PICK x \in T \ {z} : \A y \in T \ {z} : x >= y
      BY <2>1, <2>3
    <3>2. x \in Int /\ z \in Int /\ \A y \in T : y \in Int
      OBVIOUS
    <3>3. (\A y \in T : x >= y) \/ (\A y \in T : z >= y)
      BY <3>1, <3>2
    <3>4. QED
      BY <3>3
  <2>4. QED
    BY <2>2, <2>3
<1>3. SUBSET S \subseteq U
  <2>1. \A T \in SUBSET S : T # {} /\ (\A x \in T : T \ {x} \in U) => T \in U
    BY <1>2
  <2> HIDE DEF U
  <2>2. QED
    BY <1>1, <2>1, PartInduction
<1>4. \E x \in S : \A y \in S : x >= y
  BY <1>3
<1>5. Max(S) \in S /\ \A y \in S : Max(S) >= y
  BY <1>4 DEF Max
<1>6. QED
  BY <1>5

(* A set of natural numbers that is not empty has a least. *)
LEMMA PairFinite ==
    ASSUME NEW x, NEW y
    PROVE  IsFiniteSet({x, y})
<1>1. IsFiniteSet({x} \cup {y})
  BY FS_Singleton, FS_AddElement
<1>2. {x} \cup {y} = {x, y}
  OBVIOUS
<1>3. QED
  BY <1>1, <1>2

LEMMA MinIsLeast ==
    ASSUME NEW S \in SUBSET Nat, S # {}
    PROVE  Min(S) \in S /\ \A n \in S : Min(S) <= n
  BY LeastNatural DEF Min
=============================================================================
