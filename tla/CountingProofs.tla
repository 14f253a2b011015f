--------------------------- MODULE CountingProofs ---------------------------
(***************************************************************************)
(* Proofs about what is counted: the rows of the central database under    *)
(* the storage commands (StorageOps), for any transcripts, projects and    *)
(* hooks, any number of deletions and imports; the sums that captures add  *)
(* up over one transcript (UsageSlices), for any calls, snapshots and      *)
(* slices; and the buckets the dashboard sorts rows into (Timeline), for   *)
(* any change of the clock.  MCUsageSlices has the last two together.      *)
(***************************************************************************)
EXTENDS StorageOps, MCUsageSlices, TLAPS, FiniteSetTheorems, WellFoundedInduction

-----------------------------------------------------------------------------
(***************************************************************************)
(* Sums over finite sets.  A sum is the fold of the community modules:     *)
(* element after element is taken from the set, whichever CHOOSE takes.    *)
(* Induction over the set is the existence of a smallest counterexample.   *)
(***************************************************************************)
Taken(s) == CHOOSE x \in s : TRUE
Rest(s) == s \ {Taken(s)}

\* it is the sum of r over every subset of U.
Sums(it, r, U) ==
  it = [s \in SUBSET U |-> IF s = {} THEN 0 ELSE r[Taken(s)] + it[Rest(s)]]

\* The same as far as sets of n elements.
SumsTo(it, r, U, n) ==
  /\ it \in [SUBSET U -> Nat]
  /\ \A s \in SUBSET U : Cardinality(s) <= n =>
         it[s] = IF s = {} THEN 0 ELSE r[Taken(s)] + it[Rest(s)]

LEMMA LessThanIsWellFounded ==
  \E R : IsWellFoundedOn(R, Nat) /\ \A m, k \in Nat : m < k => <<m, k>> \in R
<1>1. \A m, k \in Nat : m < k => <<m, k>> \in OpToRel(<, Nat)
  BY DEF OpToRel
<1> QED BY <1>1, NatLessThanWellFounded

LEMMA LeastNat ==
  ASSUME NEW T, T \subseteq Nat, T # {}
  PROVE  \E n \in T : \A m \in T : n <= m
<1>1. PICK R : IsWellFoundedOn(R, Nat) /\ \A m, k \in Nat : m < k => <<m, k>> \in R
  BY LessThanIsWellFounded
<1>2. IsWellFoundedOn(R, Nat)
  BY <1>1
<1>3. \E n \in T : \A m \in T : ~ (<<m, n>> \in R)
  BY <1>2, WFMin
<1>4. PICK n \in T : \A m \in T : ~ (<<m, n>> \in R)
  BY <1>3
<1>5. \A m \in T : ~(m < n)
  BY <1>1, <1>4
<1>6. \A m \in T : m \in Nat /\ n \in Nat
  OBVIOUS
<1>7. \A m \in T : n <= m
  BY <1>5, <1>6
<1> QED BY <1>7

LEMMA SubsetFacts ==
  ASSUME NEW U, IsFiniteSet(U), NEW s \in SUBSET U
  PROVE  /\ IsFiniteSet(s) /\ Cardinality(s) \in Nat
         /\ Cardinality(s) = 0 <=> s = {}
         /\ \A x \in s : /\ s \ {x} \in SUBSET U
                         /\ Cardinality(s \ {x}) = Cardinality(s) - 1
<1>1. IsFiniteSet(s)
  BY FS_Subset
<1> QED BY <1>1, FS_CardinalityType, FS_EmptySet, FS_RemoveElement

\* Among the subsets of a finite set that a set T has, there is one from which
\* no element can be taken.
LEMMA LeastSubset ==
  ASSUME NEW U, IsFiniteSet(U), NEW T, T \subseteq SUBSET U, T # {}
  PROVE  \E s \in T : \A x \in s : s \ {x} \notin T
<1> DEFINE sizes == {Cardinality(s) : s \in T}
<1>1. sizes \subseteq Nat /\ sizes # {}
  BY SubsetFacts
<1>2. PICK n \in sizes : \A m \in sizes : n <= m
  <2> HIDE DEF sizes
  <2> QED BY <1>1, LeastNat
<1>3. PICK s \in T : n = Cardinality(s)
  OBVIOUS
<1>4. ASSUME NEW x \in s, s \ {x} \in T PROVE FALSE
  <2>1. Cardinality(s \ {x}) = n - 1 /\ n \in Nat
    BY <1>3, SubsetFacts
  <2>2. n <= Cardinality(s \ {x})
    BY <1>2, <1>4
  <2> QED BY <2>1, <2>2
<1> QED BY <1>4

LEMMA TakenIn ==
  ASSUME NEW s, s # {}
  PROVE  Taken(s) \in s
BY DEF Taken

LEMMA SumsToExist ==
  ASSUME NEW U, IsFiniteSet(U), NEW r, \A x \in U : r[x] \in Nat
  PROVE  \A n \in Nat : \E it : SumsTo(it, r, U, n)
<1> DEFINE T == {n \in Nat : ~ \E it : SumsTo(it, r, U, n)}
<1> SUFFICES ASSUME T # {} PROVE FALSE
  OBVIOUS
<1>1. PICK n \in T : \A m \in T : n <= m
  <2>1. T \subseteq Nat
    OBVIOUS
  <2> HIDE DEF T
  <2> QED BY <2>1, LeastNat
<1>2. CASE n = 0
  <2> DEFINE it == [s \in SUBSET U |-> 0]
  <2>1. \A s \in SUBSET U : Cardinality(s) <= 0 => s = {}
    BY SubsetFacts
  <2>2. SumsTo(it, r, U, 0)
    BY <2>1 DEF SumsTo
  <2> QED BY <1>2, <2>2
<1>3. CASE n # 0
  <2>1. n - 1 \in Nat /\ n - 1 \notin T
    BY <1>1, <1>3
  <2>2. PICK old : SumsTo(old, r, U, n - 1)
    BY <2>1
  <2> DEFINE it == [s \in SUBSET U |-> IF s = {} THEN 0 ELSE r[Taken(s)] + old[Rest(s)]]
  <2>3. ASSUME NEW s \in SUBSET U, s # {}
        PROVE  /\ Rest(s) \in SUBSET U /\ Taken(s) \in U
               /\ Cardinality(Rest(s)) = Cardinality(s) - 1 /\ Cardinality(s) \in Nat
    BY <2>3, SubsetFacts, TakenIn DEF Rest
  <2>4. it \in [SUBSET U -> Nat]
    <3> SUFFICES ASSUME NEW s \in SUBSET U, s # {} PROVE r[Taken(s)] + old[Rest(s)] \in Nat
      OBVIOUS
    <3>1. r[Taken(s)] \in Nat /\ old[Rest(s)] \in Nat
      BY <2>2, <2>3 DEF SumsTo
    <3> QED BY <3>1
  <2>5. ASSUME NEW s \in SUBSET U, s # {}, Cardinality(s) <= n PROVE it[Rest(s)] = old[Rest(s)]
    <3>1. Cardinality(Rest(s)) <= n - 1 /\ Rest(s) \in SUBSET U
      BY <2>3, <2>5
    <3>2. old[Rest(s)] = IF Rest(s) = {} THEN 0 ELSE r[Taken(Rest(s))] + old[Rest(Rest(s))]
      BY <2>2, <3>1 DEF SumsTo
    <3> QED BY <3>1, <3>2
  <2>6. ASSUME NEW s \in SUBSET U, Cardinality(s) <= n
        PROVE  it[s] = IF s = {} THEN 0 ELSE r[Taken(s)] + it[Rest(s)]
    BY <2>5, <2>6
  <2> HIDE DEF it
  <2>7. SumsTo(it, r, U, n)
    BY <2>4, <2>6 DEF SumsTo
  <2> QED BY <2>7
<1> QED BY <1>2, <1>3

LEMMA SumsExist ==
  ASSUME NEW U, IsFiniteSet(U), NEW r, \A x \in U : r[x] \in Nat
  PROVE  \E it : Sums(it, r, U)
<1>1. Cardinality(U) \in Nat
  BY FS_CardinalityType
<1>2. PICK it : SumsTo(it, r, U, Cardinality(U))
  BY <1>1, SumsToExist
<1>3. \A s \in SUBSET U : Cardinality(s) <= Cardinality(U)
  BY FS_Subset
<1>4. \A s \in SUBSET U : it[s] = IF s = {} THEN 0 ELSE r[Taken(s)] + it[Rest(s)]
  BY <1>2, <1>3 DEF SumsTo
<1>5. it = [s \in SUBSET U |-> it[s]]
  BY <1>2 DEF SumsTo
<1>6. it = [s \in SUBSET U |-> IF s = {} THEN 0 ELSE r[Taken(s)] + it[Rest(s)]]
  BY <1>4, <1>5
<1> QED BY <1>6 DEF Sums

LEMMA SumsUnfold ==
  ASSUME NEW U, NEW r, NEW it, Sums(it, r, U)
  PROVE  /\ it[{}] = 0
         /\ \A s \in SUBSET U : s # {} => /\ Taken(s) \in s /\ Rest(s) \in SUBSET U
                                          /\ it[s] = r[Taken(s)] + it[Rest(s)]
<1>1. \A s \in SUBSET U : it[s] = IF s = {} THEN 0 ELSE r[Taken(s)] + it[Rest(s)]
  BY DEF Sums
<1> QED BY <1>1, TakenIn DEF Rest

LEMMA SumsType ==
  ASSUME NEW U, IsFiniteSet(U), NEW r, \A x \in U : r[x] \in Nat, NEW it, Sums(it, r, U)
  PROVE  \A s \in SUBSET U : it[s] \in Nat
<1> DEFINE T == {s \in SUBSET U : it[s] \notin Nat}
<1> SUFFICES ASSUME T # {} PROVE FALSE
  OBVIOUS
<1>1. PICK s \in T : \A x \in s : s \ {x} \notin T
  <2>1. T \subseteq SUBSET U
    OBVIOUS
  <2> HIDE DEF T
  <2> QED BY <2>1, LeastSubset
<1>2. s # {}
  <2>1. it[{}] = 0
    BY SumsUnfold
  <2> QED BY <1>1, <2>1
<1>3. it[s] = r[Taken(s)] + it[Rest(s)] /\ Taken(s) \in s /\ Rest(s) \in SUBSET U
  BY <1>2, SumsUnfold
<1>4. it[Rest(s)] \in Nat
  BY <1>1, <1>3 DEF Rest
<1>5. r[Taken(s)] \in Nat
  BY <1>3
<1> QED BY <1>3, <1>4, <1>5

\* A sum of smaller terms is smaller, and equal only if every term is.
LEMMA SumsCompare ==
  ASSUME NEW U, IsFiniteSet(U), NEW r, \A x \in U : r[x] \in Nat, NEW it, Sums(it, r, U),
         NEW V, IsFiniteSet(V), NEW q, \A x \in V : q[x] \in Nat, NEW jt, Sums(jt, q, V),
         NEW S, S \subseteq U, S \subseteq V, \A x \in S : r[x] <= q[x]
  PROVE  it[S] <= jt[S] /\ (it[S] = jt[S] => \A x \in S : r[x] = q[x])
<1> DEFINE Right(s) == it[s] <= jt[s] /\ (it[s] = jt[s] => \A x \in s : r[x] = q[x])
           T == {s \in SUBSET S : ~Right(s)}
<1> SUFFICES ASSUME T # {} PROVE FALSE
  OBVIOUS
<1>1. PICK s \in T : \A x \in s : s \ {x} \notin T
  <2>1. T \subseteq SUBSET S /\ IsFiniteSet(S)
    BY FS_Subset
  <2> HIDE DEF T
  <2> QED BY <2>1, LeastSubset
<1>2. s # {}
  <2>1. it[{}] = 0
    BY SumsUnfold
  <2>2. jt[{}] = 0
    BY SumsUnfold
  <2>3. Right({})
    BY <2>1, <2>2
  <2>4. ~Right(s)
    BY <1>1
  <2> HIDE DEF Right
  <2> QED BY <2>3, <2>4
<1> DEFINE x == Taken(s)
<1>3. /\ x \in s /\ Rest(s) \in SUBSET S
      /\ it[s] = r[x] + it[Rest(s)] /\ jt[s] = q[x] + jt[Rest(s)]
  <2>1. s \in SUBSET U /\ s \in SUBSET V
    OBVIOUS
  <2>2. x \in s /\ it[s] = r[x] + it[Rest(s)]
    BY <1>2, <2>1, SumsUnfold
  <2>3. jt[s] = q[x] + jt[Rest(s)]
    BY <1>2, <2>1, SumsUnfold
  <2> QED BY <2>2, <2>3 DEF Rest
<1> HIDE DEF x, T
<1>4. Right(Rest(s))
  <2>1. Rest(s) \notin T
    BY <1>1, <1>3 DEF Rest, x
  <2> QED BY <1>3, <2>1 DEF T
<1>5. /\ r[x] \in Nat /\ q[x] \in Nat /\ r[x] <= q[x]
      /\ it[Rest(s)] \in Nat /\ jt[Rest(s)] \in Nat
  <2>1. s \subseteq S
    BY <1>1 DEF T
  <2>2. Rest(s) \in SUBSET U /\ Rest(s) \in SUBSET V
    BY <1>3
  <2>3. it[Rest(s)] \in Nat
    BY <2>2, SumsType
  <2>4. jt[Rest(s)] \in Nat
    BY <2>2, SumsType
  <2> QED BY <1>3, <2>1, <2>3, <2>4
<1>6. it[s] <= jt[s]
  BY <1>3, <1>4, <1>5
<1>7. ASSUME it[s] = jt[s], NEW y \in s PROVE r[y] = q[y]
  <2>1. r[x] = q[x] /\ it[Rest(s)] = jt[Rest(s)]
    BY <1>3, <1>4, <1>5, <1>7
  <2>2. y = x \/ y \in Rest(s)
    BY DEF Rest, x
  <2> QED BY <1>4, <2>1, <2>2
<1>8. Right(s)
  BY <1>6, <1>7
<1> QED BY <1>1, <1>8 DEF T

LEMMA SumsEqual ==
  ASSUME NEW U, IsFiniteSet(U), NEW r, \A x \in U : r[x] \in Nat, NEW it, Sums(it, r, U),
         NEW V, V \subseteq U, NEW q, \A x \in V : q[x] = r[x], NEW jt, Sums(jt, q, V)
  PROVE  it[V] = jt[V]
<1>1. /\ IsFiniteSet(V) /\ V \subseteq V
      /\ \A x \in V : q[x] \in Nat /\ r[x] <= q[x] /\ q[x] <= r[x]
  BY FS_Subset
<1>2. it[V] <= jt[V]
  BY <1>1, SumsCompare
<1>3. jt[V] <= it[V]
  BY <1>1, SumsCompare
<1>4. it[V] \in Nat
  BY SumsType
<1>5. jt[V] \in Nat
  BY <1>1, SumsType
<1> QED BY <1>2, <1>3, <1>4, <1>5

\* Any element may be taken first.
LEMMA SumsRemove ==
  ASSUME NEW U, IsFiniteSet(U), NEW r, \A x \in U : r[x] \in Nat, NEW it, Sums(it, r, U)
  PROVE  \A s \in SUBSET U : \A x \in s : it[s] = r[x] + it[s \ {x}]
<1> DEFINE T == {s \in SUBSET U : \E x \in s : it[s] # r[x] + it[s \ {x}]}
<1> SUFFICES ASSUME T # {} PROVE FALSE
  OBVIOUS
<1>1. PICK s \in T : \A x \in s : s \ {x} \notin T
  <2>1. T \subseteq SUBSET U
    OBVIOUS
  <2> HIDE DEF T
  <2> QED BY <2>1, LeastSubset
<1>2. PICK x \in s : it[s] # r[x] + it[s \ {x}]
  BY <1>1
<1> DEFINE c == Taken(s)
<1>3. /\ c \in s /\ s \in SUBSET U /\ s \ {c} \in SUBSET U /\ s \ {x} \in SUBSET U
      /\ it[s] = r[c] + it[s \ {c}]
  <2>1. s \in SUBSET U /\ s # {}
    BY <1>1, <1>2
  <2>2. c \in s /\ it[s] = r[c] + it[Rest(s)]
    BY <2>1, SumsUnfold
  <2> QED BY <2>1, <2>2 DEF Rest
<1>4. x # c
  BY <1>2, <1>3
<1>5. s \ {c} \notin T /\ s \ {x} \notin T
  BY <1>1, <1>3
<1>6. it[s \ {c}] = r[x] + it[(s \ {c}) \ {x}]
  BY <1>2, <1>3, <1>4, <1>5
<1>7. it[s \ {x}] = r[c] + it[(s \ {x}) \ {c}]
  BY <1>2, <1>3, <1>4, <1>5
<1>8. (s \ {x}) \ {c} = (s \ {c}) \ {x} /\ (s \ {c}) \ {x} \in SUBSET U
  BY <1>3
<1> HIDE DEF c, T
<1>9. r[x] \in Nat /\ r[c] \in Nat /\ it[(s \ {c}) \ {x}] \in Nat
  BY <1>2, <1>3, <1>8, SumsType
<1> QED BY <1>2, <1>3, <1>6, <1>7, <1>8, <1>9

LEMMA SumsUnion ==
  ASSUME NEW U, IsFiniteSet(U), NEW r, \A x \in U : r[x] \in Nat, NEW it, Sums(it, r, U),
         NEW A, NEW B, A \subseteq U, B \subseteq U, A \cap B = {}
  PROVE  it[A \cup B] = it[A] + it[B]
<1> DEFINE T == {a \in SUBSET A : it[a \cup B] # it[a] + it[B]}
<1> SUFFICES ASSUME T # {} PROVE FALSE
  OBVIOUS
<1>1. PICK a \in T : \A x \in a : a \ {x} \notin T
  <2>1. T \subseteq SUBSET A /\ IsFiniteSet(A)
    BY FS_Subset
  <2> HIDE DEF T
  <2> QED BY <2>1, LeastSubset
<1>2. \A s \in SUBSET U : it[s] \in Nat
  BY SumsType
<1>3. a # {}
  <2>1. it[{}] = 0
    BY SumsUnfold
  <2>2. it[B] \in Nat
    BY <1>2
  <2>3. it[{} \cup B] = it[{}] + it[B]
    <3>1. {} \cup B = B
      OBVIOUS
    <3> QED BY <2>1, <2>2, <3>1
  <2>4. it[a \cup B] # it[a] + it[B]
    BY <1>1
  <2> QED BY <2>3, <2>4
<1>4. PICK x \in a : TRUE
  BY <1>3
<1>5. it[(a \ {x}) \cup B] = it[a \ {x}] + it[B]
  BY <1>1, <1>4
<1>6. /\ a \in SUBSET U /\ a \cup B \in SUBSET U /\ x \in a \cup B /\ x \in U
      /\ (a \cup B) \ {x} = (a \ {x}) \cup B /\ a \ {x} \in SUBSET U
  BY <1>4
<1>7. it[a \cup B] = r[x] + it[(a \ {x}) \cup B] /\ it[a] = r[x] + it[a \ {x}]
  <2>1. it[a \cup B] = r[x] + it[(a \cup B) \ {x}]
    BY <1>6, SumsRemove
  <2>2. it[a] = r[x] + it[a \ {x}]
    BY <1>4, <1>6, SumsRemove
  <2> QED BY <1>6, <2>1, <2>2
<1>8. r[x] \in Nat /\ it[a \ {x}] \in Nat /\ it[B] \in Nat
  BY <1>2, <1>6
<1>9. it[a \cup B] # it[a] + it[B]
  BY <1>1
<1> HIDE DEF T
<1> QED BY <1>5, <1>7, <1>8, <1>9

LEMMA SumsMonotone ==
  ASSUME NEW U, IsFiniteSet(U), NEW r, \A x \in U : r[x] \in Nat, NEW it, Sums(it, r, U),
         NEW A, NEW B, A \subseteq B, B \subseteq U
  PROVE  it[A] <= it[B]
<1> DEFINE C == B \ A
<1>1. it[A \cup C] = it[A] + it[C]
  <2>1. A \subseteq U /\ B \ A \subseteq U /\ A \cap (B \ A) = {}
    OBVIOUS
  <2> QED BY <2>1, SumsUnion
<1>2. A \cup C = B /\ A \in SUBSET U /\ C \in SUBSET U
  OBVIOUS
<1> HIDE DEF C
<1>3. it[A] \in Nat /\ it[C] \in Nat
  BY <1>2, SumsType
<1>4. it[B] = it[A] + it[C]
  BY <1>1, <1>2
<1> QED BY <1>3, <1>4

-----------------------------------------------------------------------------
(***************************************************************************)
(* The storage commands.                                                   *)
(***************************************************************************)
LEMMA SliceFacts ==
    /\ \A s \in Slice : /\ s.file \in File /\ s.lo \in 0 .. MaxLines /\ s.hi \in 0 .. MaxLines
                        /\ s.lo < s.hi
    /\ \A f \in File, l, k \in 0 .. MaxLines :
           l < k => [file |-> f, lo |-> l, hi |-> k] \in Slice
BY DEF Slice

LEMMA FiniteImage ==
  ASSUME NEW S, IsFiniteSet(S), NEW f
  PROVE  IsFiniteSet({f[x] : x \in S})
<1> DEFINE T == {f[x] : x \in S}
           g == [x \in S |-> f[x]]
<1>1. g \in Surjection(S, T)
  BY DEF Surjection
<1>2. IsFiniteSet(T)
  <2> HIDE DEF T, g
  <2> QED BY <1>1, FS_Surjection
<1> QED BY <1>2

LEMMA FiniteSlice == \A p \in Project : IsFiniteSet(Of(p))
<1> DEFINE P == (File \X (0 .. MaxLines)) \X (0 .. MaxLines)
           f == [t \in P |-> [file |-> t[1][1], lo |-> t[1][2], hi |-> t[2]]]
<1>1. IsFiniteSet(P)
  <2>1. IsFiniteSet(0 .. MaxLines)
    BY FS_Interval, StorageAssumption
  <2>2. IsFiniteSet(File \X (0 .. MaxLines))
    BY <2>1, FS_Product, StorageAssumption
  <2> QED BY <2>1, <2>2, FS_Product
<1>2. IsFiniteSet({f[t] : t \in P})
  <2> HIDE DEF P, f
  <2> QED BY <1>1, FiniteImage
<1>3. Slice \subseteq {f[t] : t \in P}
  <2> SUFFICES ASSUME NEW s \in Slice PROVE \E t \in P : f[t] = s
    OBVIOUS
  <2> DEFINE t == <<<<s.file, s.lo>>, s.hi>>
  <2>1. t \in P
    BY SliceFacts
  <2>2. s = [file |-> s.file, lo |-> s.lo, hi |-> s.hi]
    BY DEF Slice
  <2>3. f[t] = s
    BY <2>1, <2>2
  <2> QED BY <2>1, <2>3
<1>4. IsFiniteSet(Slice)
  BY <1>2, <1>3, FS_Subset
<1> QED BY <1>4, FS_Subset DEF Of

\* The model's count is the sum.
LEMMA CountIsSum ==
  ASSUME NEW r \in Rows, NEW p \in Project
  PROVE  \E it : Sums(it, r, Of(p)) /\ Count(r, p) = it[Of(p)]
<1> DEFINE it == CHOOSE f : f = [s \in SUBSET Of(p) |-> IF s = {} THEN 0
                                    ELSE r[CHOOSE x \in s : TRUE] + f[s \ {CHOOSE x \in s : TRUE}]]
<1>1. \A s \in Of(p) : r[s] \in Nat
  BY DEF Of, Rows
<1>2. PICK f : Sums(f, r, Of(p))
  BY <1>1, FiniteSlice, SumsExist
<1>3. f = [s \in SUBSET Of(p) |-> IF s = {} THEN 0
               ELSE r[CHOOSE x \in s : TRUE] + f[s \ {CHOOSE x \in s : TRUE}]]
  BY <1>2 DEF Sums, Taken, Rest
<1>4. it = [s \in SUBSET Of(p) |-> IF s = {} THEN 0
               ELSE r[CHOOSE x \in s : TRUE] + it[s \ {CHOOSE x \in s : TRUE}]]
  BY <1>3
<1>5. Count(r, p) = it[Of(p)]
  BY DEF Count, MapThenSumSet, MapThenFoldSet
<1> HIDE DEF it
<1>6. Sums(it, r, Of(p))
  BY <1>4 DEF Sums, Taken, Rest
<1> QED BY <1>5, <1>6

\* Equal counts of a part and a whole: the part is the whole.
LEMMA EqualCounts ==
  ASSUME NEW part \in Rows, NEW whole \in Rows, NEW p \in Project,
         \A s \in Of(p) : part[s] <= whole[s], Count(part, p) = Count(whole, p)
  PROVE  \A s \in Of(p) : whole[s] = part[s]
<1>1. \A s \in Of(p) : part[s] \in Nat /\ whole[s] \in Nat
  BY DEF Of, Rows
<1>2. PICK it : Sums(it, part, Of(p)) /\ Count(part, p) = it[Of(p)]
  BY CountIsSum
<1>3. PICK jt : Sums(jt, whole, Of(p)) /\ Count(whole, p) = jt[Of(p)]
  BY CountIsSum
<1>4. IsFiniteSet(Of(p))
  BY FiniteSlice
<1>5. it[Of(p)] = jt[Of(p)] => \A s \in Of(p) : part[s] = whole[s]
  BY <1>1, <1>2, <1>3, <1>4, SumsCompare
<1> QED BY <1>2, <1>3, <1>5

LEMMA InitEstablishes == Init => IndInv
<1> SUFFICES ASSUME Init PROVE IndInv
  OBVIOUS
<1> USE StorageAssumption DEF Init
<1>0. 0 \in 0 .. MaxLines /\ Empty \in Rows
  BY DEF Rows, Empty
<1>1. TypeOK
  BY <1>0 DEF TypeOK
<1>2. WithinFile /\ CursorCovered
  BY DEF WithinFile, CursorCovered
<1>3. CountedOnceUnlessImported
  BY DEF CountedOnceUnlessImported, CountedOnce, Of, Empty
<1>4. ExportIsPart /\ ValidatedIsWhole
  BY DEF ExportIsPart, ValidatedIsWhole, At, Idle
<1> QED BY <1>1, <1>2, <1>3, <1>4 DEF IndInv

-----------------------------------------------------------------------------
(***************************************************************************)
(* A capture.                                                              *)
(***************************************************************************)
LEMMA CaptureSliceStep ==
    ASSUME IndInv, NEW h \in Hook, NEW f \in File, CaptureSlice(h, f)
    PROVE  IndInv'
<1> DEFINE s == [file |-> f, lo |-> cursor[f], hi |-> len[f]]
<1>1. /\ cursor[f] \in 0 .. MaxLines /\ len[f] \in 0 .. MaxLines /\ cursor[f] < len[f]
      /\ s \in Slice /\ s.file = f /\ s.lo = cursor[f] /\ s.hi = len[f]
  BY SliceFacts DEF IndInv, TypeOK, CaptureSlice
<1>2. /\ rows' = [rows EXCEPT ![s] = @ + 1]
      /\ hand' = [hand EXCEPT ![h] = s]
      /\ cursor' = [cursor EXCEPT ![f] = len[f]]
      /\ raced' = (raced \/ At("validated", ProjectOf[f]))
      /\ UNCHANGED <<len, mirror, export, cmd, imported, deletes, imports>>
  BY DEF CaptureSlice
<1> HIDE DEF s
<1>3. rows' \in Rows /\ (\A t \in Slice : rows'[t] = IF t = s THEN rows[s] + 1 ELSE rows[t])
  BY <1>1, <1>2 DEF IndInv, TypeOK, Rows
<1>4. TypeOK'
  BY <1>1, <1>2, <1>3 DEF IndInv, TypeOK
<1>5. WithinFile'
  BY <1>1, <1>2 DEF IndInv, WithinFile, TypeOK
<1>6. CursorCovered'
  <2> SUFFICES ASSUME NEW g \in File, NEW i \in 1 .. cursor'[g]
               PROVE  \E t \in Slice : rows'[t] > 0 /\ Covers(t, g, i)
    BY DEF CursorCovered
  <2>1. CASE i \in 1 .. cursor[g]
    <3>1. PICK t \in Slice : rows[t] > 0 /\ Covers(t, g, i)
      BY <2>1 DEF IndInv, CursorCovered
    <3>2. rows[t] \in Nat /\ rows[s] \in Nat
      BY <1>1 DEF IndInv, TypeOK, Rows
    <3>3. rows'[t] > 0
      BY <1>3, <3>1, <3>2
    <3> QED BY <3>1, <3>3
  <2>2. CASE i \notin 1 .. cursor[g]
    <3>1. g = f /\ cursor[f] < i /\ i <= len[f]
      BY <1>1, <1>2, <2>2 DEF IndInv, TypeOK
    <3>2. Covers(s, g, i)
      BY <1>1, <3>1 DEF Covers
    <3>3. rows[s] \in Nat
      BY <1>1 DEF IndInv, TypeOK, Rows
    <3> QED BY <1>1, <1>3, <3>2, <3>3
  <2> QED BY <2>1, <2>2
<1>7. CountedOnceUnlessImported'
  <2> SUFFICES ASSUME NEW p \in Project \ imported PROVE CountedOnce(p)'
    BY <1>2 DEF CountedOnceUnlessImported
  <2>1. CountedOnce(p)
    BY DEF IndInv, CountedOnceUnlessImported
  <2>2. \A g \in File : cursor[g] \in 0 .. MaxLines /\ cursor'[g] \in 0 .. MaxLines
                        /\ cursor[g] <= cursor'[g]
    BY <1>1, <1>2 DEF IndInv, TypeOK
  <2>3. \A t \in Slice : rows[t] \in Nat
    BY DEF IndInv, TypeOK, Rows
  <2>4. ASSUME s \in Of(p)
        PROVE  rows[s] = 0 /\ (\A t \in Of(p) : rows[t] > 0 => ~Overlap(s, t) /\ ~Overlap(t, s))
    <3>1. ASSUME NEW t \in Of(p), rows[t] > 0, t.file = f PROVE t.hi <= cursor[f]
      BY <2>1, <3>1 DEF CountedOnce
    <3>2. \A t \in Of(p) : t \in Slice
      BY DEF Of
    <3>3. ~(rows[s] > 0)
      BY <1>1, <2>4, <3>1
    <3>4. ASSUME NEW t \in Of(p), rows[t] > 0 PROVE ~Overlap(s, t) /\ ~Overlap(t, s)
      <4>1. t.file = f => t.hi <= cursor[f]
        BY <3>1, <3>4
      <4>2. t.lo \in 0 .. MaxLines /\ t.hi \in 0 .. MaxLines
        BY <3>2, SliceFacts
      <4> QED BY <1>1, <4>1, <4>2 DEF Overlap
    <3> QED BY <1>1, <2>3, <3>3, <3>4
  <2>5. \A t \in Of(p) : rows'[t] > 0 => rows'[t] = 1 /\ t.hi <= cursor'[t.file]
    <3> SUFFICES ASSUME NEW t \in Of(p), rows'[t] > 0
                 PROVE  rows'[t] = 1 /\ t.hi <= cursor'[t.file]
      OBVIOUS
    <3>1. t \in Slice /\ t.file \in File /\ t.hi \in 0 .. MaxLines
      BY SliceFacts DEF Of
    <3>2. CASE t = s
      <4>1. rows'[t] = 1
        BY <1>3, <2>4, <3>1, <3>2
      <4>2. cursor'[f] = len[f]
        BY <1>2 DEF IndInv, TypeOK
      <4> QED BY <1>1, <3>2, <4>1, <4>2
    <3>3. CASE t # s
      <4>1. rows'[t] = rows[t]
        BY <1>3, <3>1, <3>3
      <4>2. rows[t] = 1 /\ t.hi <= cursor[t.file]
        BY <2>1, <4>1 DEF CountedOnce
      <4>3. t.hi <= cursor'[t.file]
        BY <2>2, <3>1, <4>2
      <4> QED BY <4>1, <4>2, <4>3
    <3> QED BY <3>2, <3>3
  <2>6. \A t, u \in Of(p) : rows'[t] > 0 /\ rows'[u] > 0 /\ Overlap(t, u) => t = u
    <3> SUFFICES ASSUME NEW t \in Of(p), NEW u \in Of(p), rows'[t] > 0, rows'[u] > 0, Overlap(t, u),
                        t # u
                 PROVE  FALSE
      OBVIOUS
    <3>1. t \in Slice /\ u \in Slice
      BY DEF Of
    <3>2. t # s => rows[t] > 0
      BY <1>3, <3>1
    <3>3. u # s => rows[u] > 0
      BY <1>3, <3>1
    <3>4. CASE t = s
      BY <2>4, <3>3, <3>4
    <3>5. CASE u = s
      BY <2>4, <3>2, <3>5
    <3>6. CASE t # s /\ u # s
      BY <2>1, <3>2, <3>3, <3>6 DEF CountedOnce
    <3> QED BY <3>4, <3>5, <3>6
  <2> QED BY <2>5, <2>6 DEF CountedOnce
<1>8. ExportIsPart'
  <2> SUFFICES ASSUME NEW p \in Project, At("exported", p), NEW t \in Of(p)
               PROVE  export[t] <= rows'[t]
    BY <1>2 DEF ExportIsPart, At
  <2>1. t \in Slice /\ export[t] <= rows[t]
    BY DEF IndInv, ExportIsPart, Of
  <2>2. export[t] \in Nat /\ rows[t] \in Nat
    BY <2>1 DEF IndInv, TypeOK, Rows
  <2> QED BY <1>3, <2>1, <2>2
<1>9. ValidatedIsWhole'
  <2> SUFFICES ASSUME NEW p \in Project, At("validated", p), ~raced', NEW t \in Of(p)
               PROVE  rows'[t] = export[t]
    BY <1>2 DEF ValidatedIsWhole, At
  <2>1. ~raced /\ ~At("validated", ProjectOf[f])
    BY <1>2
  <2>2. t \in Slice /\ t # s
    BY <1>1, <2>1 DEF Of
  <2>3. rows[t] = export[t]
    BY <2>1 DEF IndInv, ValidatedIsWhole
  <2> QED BY <1>3, <2>2, <2>3
<1> QED BY <1>4, <1>5, <1>6, <1>7, <1>8, <1>9 DEF IndInv

-----------------------------------------------------------------------------
(***************************************************************************)
(* A deletion and an import.                                               *)
(***************************************************************************)
LEMMA DeleteStep ==
    ASSUME IndInv, NEW p \in Project, Delete(p)
    PROVE  IndInv'
<1>1. /\ rows' = Without(rows, p)
      /\ cursor' = [f \in File |-> IF ProjectOf[f] = p THEN 0 ELSE cursor[f]]
      /\ cmd' = Idle /\ deletes' = deletes + 1
      /\ UNCHANGED <<len, mirror, export, hand, raced, imported, imports>>
  BY DEF Delete, Forget
<1>2. /\ rows' \in Rows
      /\ \A s \in Slice : rows'[s] = IF ProjectOf[s.file] = p THEN 0 ELSE rows[s]
  BY <1>1 DEF IndInv, TypeOK, Rows, Without, Of
<1>3. TypeOK'
  <2>1. cursor' \in [File -> 0 .. MaxLines]
    BY <1>1, StorageAssumption DEF IndInv, TypeOK
  <2> QED BY <1>1, <1>2, <2>1 DEF IndInv, TypeOK
<1>4. WithinFile'
  BY <1>1 DEF IndInv, WithinFile, TypeOK
<1>5. CursorCovered'
  <2> SUFFICES ASSUME NEW f \in File, NEW i \in 1 .. cursor'[f]
               PROVE  \E s \in Slice : rows'[s] > 0 /\ Covers(s, f, i)
    BY DEF CursorCovered
  <2>1. ProjectOf[f] # p /\ i \in 1 .. cursor[f]
    BY <1>1
  <2>2. PICK s \in Slice : rows[s] > 0 /\ Covers(s, f, i)
    BY <2>1 DEF IndInv, CursorCovered
  <2>3. rows'[s] > 0
    BY <1>2, <2>1, <2>2 DEF Covers
  <2> QED BY <2>2, <2>3
<1>6. CountedOnceUnlessImported'
  <2> SUFFICES ASSUME NEW q \in Project \ imported PROVE CountedOnce(q)'
    BY <1>1 DEF CountedOnceUnlessImported
  <2>1. CountedOnce(q)
    BY DEF IndInv, CountedOnceUnlessImported
  <2>2. \A s \in Of(q) : rows'[s] > 0 => rows'[s] = rows[s] /\ rows[s] > 0 /\ ProjectOf[s.file] # p
    BY <1>2 DEF Of
  <2>3. \A s \in Of(q) : s.file \in File
    BY SliceFacts DEF Of
  <2>4. \A s \in Of(q) : ProjectOf[s.file] # p => cursor'[s.file] = cursor[s.file]
    BY <1>1, <2>3
  <2> QED BY <2>1, <2>2, <2>4 DEF CountedOnce
<1>7. ExportIsPart' /\ ValidatedIsWhole'
  BY <1>1 DEF ExportIsPart, ValidatedIsWhole, At, Idle
<1> QED BY <1>3, <1>4, <1>5, <1>6, <1>7 DEF IndInv

LEMMA ImportStep ==
    ASSUME IndInv, NEW p \in Project, NEW source \in Rows, Import(source, p)
    PROVE  IndInv'
<1>1. /\ rows' = Merge(source, p) /\ imported' = imported \cup {p} /\ imports' = imports + 1
      /\ cmd = Idle
      /\ UNCHANGED <<len, cursor, mirror, export, hand, cmd, raced, deletes>>
  BY DEF Import
<1>2. /\ rows' \in Rows
      /\ \A s \in Slice : rows[s] > 0 => rows'[s] = rows[s]
      /\ \A s \in Slice : ProjectOf[s.file] # p => rows'[s] = rows[s]
  BY <1>1 DEF IndInv, TypeOK, Rows, Merge, Of
<1>3. TypeOK'
  BY <1>1, <1>2 DEF IndInv, TypeOK
<1>4. WithinFile'
  BY <1>1 DEF IndInv, WithinFile
<1>5. CursorCovered'
  BY <1>1, <1>2 DEF IndInv, CursorCovered
<1>6. CountedOnceUnlessImported'
  <2> SUFFICES ASSUME NEW q \in Project \ imported' PROVE CountedOnce(q)'
    BY DEF CountedOnceUnlessImported
  <2>1. q # p /\ CountedOnce(q)
    BY <1>1 DEF IndInv, CountedOnceUnlessImported
  <2>2. \A s \in Of(q) : rows'[s] = rows[s]
    BY <1>2, <2>1 DEF Of
  <2> QED BY <1>1, <2>1, <2>2 DEF CountedOnce
<1>7. ExportIsPart' /\ ValidatedIsWhole'
  BY <1>1 DEF ExportIsPart, ValidatedIsWhole, At, Idle
<1> QED BY <1>3, <1>4, <1>5, <1>6, <1>7 DEF IndInv

-----------------------------------------------------------------------------
\* The steps that leave the central database alone.
LEMMA SameStore ==
    ASSUME IndInv, TypeOK', UNCHANGED <<cursor, rows, imported>>,
           \A f \in File : len[f] <= len'[f], ExportIsPart', ValidatedIsWhole'
    PROVE  IndInv'
<1>1. WithinFile'
  BY DEF IndInv, WithinFile, TypeOK
<1>2. CursorCovered' /\ CountedOnceUnlessImported'
  BY DEF IndInv, CursorCovered, CountedOnceUnlessImported, CountedOnce
<1> QED BY <1>1, <1>2 DEF IndInv

LEMMA WriteLineStep ==
    ASSUME IndInv, NEW f \in File, WriteLine(f)
    PROVE  IndInv'
<1>1. /\ len[f] < MaxLines /\ len' = [len EXCEPT ![f] = @ + 1]
      /\ UNCHANGED <<cursor, rows, mirror, export, hand, cmd, raced, imported, deletes, imports>>
  BY DEF WriteLine, store, history
<1>2. len[f] \in 0 .. MaxLines /\ MaxLines \in Nat
  BY StorageAssumption DEF IndInv, TypeOK
<1>3. len[f] + 1 \in 0 .. MaxLines /\ len[f] <= len[f] + 1
  BY <1>1, <1>2
<1>4. TypeOK'
  BY <1>1, <1>3 DEF IndInv, TypeOK
<1>5. \A g \in File : len[g] <= len'[g]
  BY <1>1, <1>3 DEF IndInv, TypeOK
<1>6. ExportIsPart' /\ ValidatedIsWhole'
  BY <1>1 DEF IndInv, ExportIsPart, ValidatedIsWhole, At
<1> QED BY <1>1, <1>4, <1>5, <1>6, SameStore

LEMMA MirrorStep ==
    ASSUME IndInv, NEW h \in Hook, MirrorWrite(h) \/ NotMirrored(h)
    PROVE  IndInv'
<1>1. /\ hand' = [hand EXCEPT ![h] = NoSlice] /\ hand[h] # NoSlice
      /\ UNCHANGED <<len, cursor, rows, export, cmd, raced, imported, deletes, imports>>
  BY DEF MirrorWrite, NotMirrored, store, history
<1>2. hand[h] \in Slice
  BY <1>1 DEF IndInv, TypeOK
<1>3. mirror' = mirror \/ mirror' = [mirror EXCEPT ![hand[h]] = @ + 1]
  BY DEF MirrorWrite, NotMirrored
<1>4. mirror' \in Rows
  BY <1>2, <1>3 DEF IndInv, TypeOK, Rows
<1>5. TypeOK'
  BY <1>1, <1>4 DEF IndInv, TypeOK
<1>6. ExportIsPart' /\ ValidatedIsWhole'
  BY <1>1 DEF IndInv, ExportIsPart, ValidatedIsWhole, At
<1>7. \A g \in File : len[g] <= len'[g]
  BY <1>1 DEF IndInv, TypeOK
<1> QED BY <1>1, <1>5, <1>6, <1>7, SameStore

LEMMA CommandStep ==
    ASSUME IndInv,
           Stop \/ \E p \in Project : Export(p) \/ ExportFails(p) \/ Validate(p) \/ Confirm(p)
    PROVE  IndInv'
<1>1. /\ UNCHANGED <<len, cursor, rows, mirror, hand, imported, deletes, imports>>
      /\ raced' \in BOOLEAN
  BY DEF Stop, Export, ExportFails, Validate, Confirm, store, history, IndInv, TypeOK
<1>2. cmd' \in Cmd \cup {Idle}
  BY DEF Stop, Export, ExportFails, Validate, Confirm, Goto, Cmd, IndInv, TypeOK
<1>3. export' \in Rows
  BY DEF Stop, Export, ExportFails, Validate, Confirm, Only, Empty, Rows, IndInv, TypeOK
<1>4. TypeOK'
  BY <1>1, <1>2, <1>3 DEF IndInv, TypeOK
<1>5. ExportIsPart'
  <2> SUFFICES ASSUME NEW p \in Project, At("exported", p)', NEW s \in Of(p)
               PROVE  export'[s] <= rows'[s]
    BY DEF ExportIsPart
  <2>0. s \in Slice /\ rows[s] \in Nat
    BY DEF Of, IndInv, TypeOK, Rows
  <2>1. CASE \E q \in Project : Export(q)
    <3>1. export' = Only(rows, p)
      BY <2>1 DEF Export, Goto, At
    <3> QED BY <1>1, <2>0, <3>1 DEF Only
  <2>2. CASE Stop \/ \E q \in Project : ExportFails(q) \/ Validate(q) \/ Confirm(q)
    <3>1. cmd' = Idle \/ \E q \in Project : \/ cmd' = [stage |-> "validated", project |-> q]
                                            \/ cmd' = [stage |-> "confirmed", project |-> q]
      BY <2>2 DEF Stop, ExportFails, Validate, Confirm, Goto
    <3>2. cmd'.stage \in {"idle", "validated", "confirmed"}
      BY <3>1 DEF Idle
    <3>3. cmd' = [stage |-> "exported", project |-> p]
      BY DEF At
    <3>4. cmd'.stage = "exported"
      BY <3>3
    <3> QED BY <3>2, <3>4
  <2> QED BY <2>1, <2>2
<1>6. \A g \in File : len[g] <= len'[g]
  BY <1>1 DEF IndInv, TypeOK
<1>7. ValidatedIsWhole'
  <2> SUFFICES ASSUME NEW p \in Project, At("validated", p)', ~raced'
               PROVE  \A s \in Of(p) : rows[s] = export'[s]
    BY <1>1 DEF ValidatedIsWhole
  <2>1. CASE \E q \in Project : Validate(q)
    <3>1. PICK q \in Project : Validate(q)
      BY <2>1
    <3>2. cmd' # Idle
      BY DEF At, Idle
    <3>3. Counted(q) /\ cmd' = [stage |-> "validated", project |-> q] /\ At("exported", q)
          /\ export' = export
      BY <3>1, <3>2 DEF Validate, Goto
    <3>4. q = p
      <4>1. cmd'.project = q /\ cmd'.project = p
        BY <3>3 DEF At
      <4> QED BY <4>1
    <3>5. \A s \in Of(p) : export[s] <= rows[s]
      BY <3>3, <3>4 DEF IndInv, ExportIsPart
    <3>6. export \in Rows /\ rows \in Rows /\ Count(export, p) = Count(rows, p)
      BY <3>3, <3>4 DEF IndInv, TypeOK, Counted
    <3> QED BY <3>3, <3>5, <3>6, EqualCounts
  <2>2. CASE Stop \/ \E q \in Project : Export(q) \/ Confirm(q)
    <3>1. cmd' = Idle \/ \E q \in Project : \/ cmd' = [stage |-> "exported", project |-> q]
                                            \/ cmd' = [stage |-> "confirmed", project |-> q]
      BY <2>2 DEF Stop, Export, Confirm, Goto
    <3>2. cmd'.stage \in {"idle", "exported", "confirmed"}
      BY <3>1 DEF Idle
    <3>3. cmd'.stage = "validated"
      BY DEF At
    <3> QED BY <3>2, <3>3
  <2>3. CASE \E q \in Project : ExportFails(q)
    BY <2>3 DEF ExportFails, At, Idle
  <2> QED BY <2>1, <2>2, <2>3
<1> QED BY <1>1, <1>4, <1>5, <1>6, <1>7, SameStore

LEMMA StepKeepsIndInv == IndInv /\ [Next]_vars => IndInv'
<1> SUFFICES ASSUME IndInv, [Next]_vars PROVE IndInv'
  OBVIOUS
<1>1. CASE UNCHANGED vars
  BY <1>1 DEF vars, store, history, IndInv, TypeOK, WithinFile, CursorCovered,
              CountedOnceUnlessImported, CountedOnce, ExportIsPart, ValidatedIsWhole, At
<1>2. CASE \E f \in File : WriteLine(f)
  BY <1>2, WriteLineStep
<1>3. CASE \E h \in Hook : HookStep(h)
  BY <1>3, CaptureSliceStep, MirrorStep DEF HookStep
<1>4. ASSUME NEW p \in Project, Command(p) PROVE IndInv'
  <2>1. mirror \in Rows /\ export \in Rows
    BY DEF IndInv, TypeOK
  <2> QED BY <1>4, <2>1, DeleteStep, ImportStep, CommandStep DEF Command
<1>5. CASE Stop
  BY <1>5, CommandStep
<1> QED BY <1>1, <1>2, <1>3, <1>4, <1>5 DEF Next

\* The storage commands keep the inductive invariant of the central database
\* (manage.py export, delete, import_project beside capture).
THEOREM StorageInductive == Spec => []IndInv
<1>1. Init => IndInv
  BY InitEstablishes
<1>2. IndInv /\ [Next]_vars => IndInv'
  BY StepKeepsIndInv
<1> QED BY <1>1, <1>2, PTL DEF Spec

\* No line is skipped: what lies behind a cursor is recorded.
THEOREM StorageCursorCovered == Spec => []CursorCovered
<1>1. IndInv => CursorCovered
  BY DEF IndInv
<1> QED BY <1>1, StorageInductive, PTL

\* Without an import, a project's usage is counted once, through any number of
\* exports and deletions.
THEOREM StorageCountedOnce == Spec => []CountedOnceUnlessImported
<1>1. IndInv => CountedOnceUnlessImported
  BY DEF IndInv
<1> QED BY <1>1, StorageInductive, PTL

\* Equal counts are enough: what is deleted after the check is in the export,
\* unless a capture came in between (storage-separate).
THEOREM StorageValidatedIsWhole == Spec => []ValidatedIsWhole
<1>1. IndInv => ValidatedIsWhole
  BY DEF IndInv
<1> QED BY <1>1, StorageInductive, PTL

-----------------------------------------------------------------------------
(***************************************************************************)
(* The sums of successive captures of one transcript.                      *)
(***************************************************************************)
\* The tokens of the lines in K.
TokenSum(l, K) == MapThenSumSet(LAMBDA i : l[i].tok, K)
Snapshots(l, U) == [i \in U |-> l[i].tok]

LEMMA TokenSumIsSum ==
  ASSUME NEW l, NEW U, IsFiniteSet(U), \A i \in U : l[i].tok \in Nat,
         NEW it, Sums(it, Snapshots(l, U), U), NEW K \in SUBSET U
  PROVE  TokenSum(l, K) = it[K]
<1> DEFINE jt == CHOOSE f : f = [s \in SUBSET K |-> IF s = {} THEN 0
                                    ELSE l[CHOOSE x \in s : TRUE].tok + f[s \ {CHOOSE x \in s : TRUE}]]
           r == Snapshots(l, U)
           q == [i \in K |-> l[i].tok]
<1>1. IsFiniteSet(U) /\ IsFiniteSet(K) /\ K \subseteq U
  BY FS_Subset
<1>2. /\ \A x \in U : r[x] \in Nat
      /\ \A x \in K : q[x] \in Nat /\ q[x] = l[x].tok /\ q[x] = r[x]
  BY DEF Snapshots
<1>3. PICK f : Sums(f, q, K)
  BY <1>1, <1>2, SumsExist
<1>4. \A s \in SUBSET K : s # {} => q[Taken(s)] = l[Taken(s)].tok
  BY <1>2, TakenIn
<1>5. Sums(it, r, U)
  OBVIOUS
<1> HIDE DEF r, q
<1>6. \A g : Sums(g, q, K) <=>
             g = [s \in SUBSET K |-> IF s = {} THEN 0 ELSE l[Taken(s)].tok + g[Rest(s)]]
  BY <1>4 DEF Sums
<1>7. f = [s \in SUBSET K |-> IF s = {} THEN 0
               ELSE l[CHOOSE x \in s : TRUE].tok + f[s \ {CHOOSE x \in s : TRUE}]]
  BY <1>3, <1>6 DEF Taken, Rest
<1>8. jt = [s \in SUBSET K |-> IF s = {} THEN 0
               ELSE l[CHOOSE x \in s : TRUE].tok + jt[s \ {CHOOSE x \in s : TRUE}]]
  BY <1>7
<1>9. TokenSum(l, K) = jt[K]
  BY DEF TokenSum, MapThenSumSet, MapThenFoldSet
<1> HIDE DEF jt
<1>10. Sums(jt, q, K)
  BY <1>6, <1>8 DEF Taken, Rest
<1>11. \A x \in K : q[x] = r[x]
  BY <1>2
<1>12. it[K] = jt[K]
  BY <1>1, <1>2, <1>5, <1>10, <1>11, SumsEqual
<1> QED BY <1>9, <1>12

LEMMA TokenSumSame ==
  ASSUME NEW l, NEW m, NEW U, IsFiniteSet(U), \A i \in U : l[i].tok \in Nat /\ m[i].tok = l[i].tok,
         NEW K \in SUBSET U
  PROVE  TokenSum(l, K) = TokenSum(m, K)
<1>1. \A i \in U : Snapshots(l, U)[i] \in Nat
  BY DEF Snapshots
<1>2. PICK it : Sums(it, Snapshots(l, U), U)
  BY <1>1, SumsExist
<1>3. Snapshots(m, U) = Snapshots(l, U)
  BY DEF Snapshots
<1>4. TokenSum(l, K) = it[K]
  BY <1>2, TokenSumIsSum
<1>5. TokenSum(m, K) = it[K]
  BY <1>2, <1>3, TokenSumIsSum
<1> QED BY <1>4, <1>5

LEMMA SlicesDefs ==
  /\ \A S, g : Tokens(S, g) = TokenSum(lines, Kept(S, g))
  /\ \A g : TrueTokens(g) = TokenSum(lines, FinalOf(g))
BY DEF Tokens, TrueTokens, TokenSum, MapThenSumSet, MapThenFoldSet

LEMMA SlicesTypes ==
  ASSUME SlicesTypeOK
  PROVE  /\ Len(lines) \in Nat /\ offset \in Nat /\ offset <= Len(lines)
         /\ DOMAIN lines = 1 .. Len(lines)
         /\ \A i \in 1 .. Len(lines) : /\ lines[i] \in UsageLine
                                       /\ lines[i].tok \in Nat
         /\ \A g \in Group : total[g].tok \in Nat /\ total[g].calls \in Nat
<1>1. lines \in Seq(UsageLine) /\ Len(lines) \in Nat /\ offset \in 0 .. Len(lines)
  BY DEF SlicesTypeOK
<1>2. DOMAIN lines = 1 .. Len(lines) /\ \A i \in 1 .. Len(lines) : lines[i] \in UsageLine
  BY <1>1
<1>3. \A u \in UsageLine : u.tok \in Nat
  BY SlicesAssumption DEF UsageLine
<1>4. \A g \in Group : total[g].tok \in Nat /\ total[g].calls \in Nat
  BY DEF SlicesTypeOK
<1> QED BY <1>1, <1>2, <1>3, <1>4

\* One slice more: its lines that count join the final lines, except those a
\* later line of the same call takes the place of.
LEMMA FinalAfterSlice ==
  ASSUME SlicesTypeOK, OneGroup, CaptureUsage,
         NEW g \in Group
  PROVE  LET K == Kept(offset + 1 .. Len(lines), g)
         IN  /\ K \subseteq FinalOf(g)'
             /\ FinalOf(g)' \subseteq FinalOf(g) \cup K
             /\ K \cap FinalOf(g) = {}
             /\ K \subseteq 1 .. Len(lines) /\ FinalOf(g) \subseteq 1 .. Len(lines)
<1> DEFINE n == Len(lines)
           S == offset + 1 .. n
           K == Kept(S, g)
           F == FinalOf(g)
<1>0. /\ n \in Nat /\ offset \in Nat /\ offset <= n /\ DOMAIN lines = 1 .. n
      /\ offset' = n /\ lines' = lines
  BY SlicesTypes DEF CaptureUsage
<1> HIDE DEF n
<1>1. \A i : i \in K <=> /\ i \in S /\ lines[i].group = g
                         /\ \A j \in S : /\ lines[j].group = g
                                         /\ i = j \/ (lines[i].id = lines[j].id /\ lines[i].id # NoId)
                                         => j <= i
  BY DEF Kept, InGroup, SameCall
<1>2. \A i : i \in F <=> /\ i \in 1 .. offset /\ lines[i].group = g
                         /\ \A j \in 1 .. offset : lines[j].id = lines[i].id /\ j > i
                                                   => lines[i].id = NoId
  BY DEF FinalOf, Consumed
<1>3. \A i : i \in FinalOf(g)' <=>
                         /\ i \in 1 .. n /\ lines[i].group = g
                         /\ \A j \in 1 .. n : lines[j].id = lines[i].id /\ j > i
                                              => lines[i].id = NoId
  BY <1>0 DEF FinalOf, Consumed
<1> DEFINE G == FinalOf(g)'
<1> HIDE DEF K, F, G
<1>4. \A i \in S : i \in 1 .. n /\ i \notin 1 .. offset
  BY <1>0
<1>5. \A i \in 1 .. n : i \in S \/ i \in 1 .. offset
  BY <1>0
<1>6. ASSUME NEW i \in K PROVE i \in G
  <2>1. i \in S /\ i \in 1 .. n /\ lines[i].group = g
    BY <1>1, <1>4
  <2>2. ASSUME NEW j \in 1 .. n, lines[j].id = lines[i].id, j > i, lines[i].id # NoId PROVE FALSE
    <3>1. lines[j].group = g
      BY <1>0, <2>1, <2>2 DEF OneGroup
    <3>2. j \in S /\ j \in Nat /\ i \in Nat
      BY <1>0, <2>1, <2>2
    <3>3. j <= i
      BY <1>1, <2>2, <3>1, <3>2
    <3> QED BY <2>2, <3>2, <3>3
  <2> QED BY <1>3, <2>1, <2>2 DEF G
<1>7. ASSUME NEW i \in G, i \notin F PROVE i \in K
  <2>1. i \in 1 .. n /\ lines[i].group = g
    BY <1>3, <1>7 DEF G
  <2>2. \A j \in 1 .. n : lines[j].id = lines[i].id /\ j > i => lines[i].id = NoId
    BY <1>3, <1>7 DEF G
  <2>3. i \in S
    BY <1>0, <1>2, <1>5, <1>7, <2>1, <2>2
  <2>4. ASSUME NEW j \in S, i = j \/ (lines[i].id = lines[j].id /\ lines[i].id # NoId)
        PROVE  j <= i
    <3>1. j \in 1 .. n
      BY <1>4
    <3>2. ~(j > i)
      BY <2>2, <2>4, <3>1
    <3> QED BY <2>1, <3>1, <3>2
  <2> QED BY <1>1, <2>1, <2>3, <2>4
<1>8. K \cap F = {} /\ K \subseteq 1 .. n /\ F \subseteq 1 .. n
  BY <1>0, <1>1, <1>2, <1>4
<1>9. K \subseteq G /\ G \subseteq F \cup K
  BY <1>6, <1>7
<1> QED BY <1>8, <1>9 DEF K, F, G, n

\* Unless the slice began inside a call, none is taken the place of.
LEMMA FinalBetweenCalls ==
  ASSUME SlicesTypeOK, CutsBehind, CaptureUsage,
         ~Straddled', NEW g \in Group
  PROVE  /\ FinalOf(g) \subseteq FinalOf(g)'
         /\ ~Straddled
<1> DEFINE n == Len(lines)
<1>0. /\ n \in Nat /\ offset \in Nat /\ offset <= n
      /\ offset' = n /\ lines' = lines /\ cuts' = cuts \cup {n} /\ cuts \subseteq 1 .. offset
      /\ offset # 0 => offset \in cuts
  BY SlicesTypes DEF CaptureUsage, CutsBehind
<1> HIDE DEF n
<1>1. \A c \in cuts : \A i \in 1 .. c, j \in c + 1 .. n : ~(lines[i].id = lines[j].id /\ lines[i].id # NoId)
  BY <1>0 DEF Straddled
<1>2. ~Straddled
  <2>1. \A c \in cuts : \A j \in c + 1 .. offset : j \in c + 1 .. n
    BY <1>0
  <2> QED BY <1>1, <2>1 DEF Straddled
<1>3. ASSUME NEW i \in FinalOf(g) PROVE i \in FinalOf(g)'
  <2>1. /\ i \in 1 .. offset /\ lines[i].group = g
        /\ \A j \in 1 .. offset : lines[j].id = lines[i].id /\ j > i => lines[i].id = NoId
    BY <1>3 DEF FinalOf, Consumed
  <2>2. ASSUME NEW j \in 1 .. n, lines[j].id = lines[i].id, j > i PROVE lines[i].id = NoId
    <3>1. CASE j \in 1 .. offset
      BY <2>1, <2>2, <3>1
    <3>2. CASE j \notin 1 .. offset
      <4>1. j \in offset + 1 .. n /\ offset \in cuts
        BY <1>0, <2>1, <3>2
      <4> QED BY <1>1, <2>1, <2>2, <4>1
    <3> QED BY <3>1, <3>2
  <2>3. i \in 1 .. n
    BY <1>0, <2>1
  <2> QED BY <1>0, <2>1, <2>2, <2>3 DEF FinalOf, Consumed
<1> QED BY <1>2, <1>3

\* What a capture adds to the sums covers what it adds to the true usage, and is
\* all of it between calls.
LEMMA SliceSums ==
  ASSUME SlicesTypeOK, OneGroup, CaptureUsage,
         NEW g \in Group
  PROVE  LET S == offset + 1 .. Len(lines)
         IN  /\ Tokens(S, g) \in Nat /\ Calls(S, g) \in Nat
             /\ TrueTokens(g) \in Nat /\ Cardinality(FinalOf(g)) \in Nat
             /\ TrueTokens(g)' \in Nat /\ Cardinality(FinalOf(g)') \in Nat
             /\ TrueTokens(g)' <= TrueTokens(g) + Tokens(S, g)
             /\ Cardinality(FinalOf(g)') <= Cardinality(FinalOf(g)) + Calls(S, g)
             /\ FinalOf(g) \subseteq FinalOf(g)' =>
                    /\ TrueTokens(g)' = TrueTokens(g) + Tokens(S, g)
                    /\ Cardinality(FinalOf(g)') = Cardinality(FinalOf(g)) + Calls(S, g)
<1> DEFINE U == 1 .. Len(lines)
           S == offset + 1 .. Len(lines)
           K == Kept(S, g)
           F == FinalOf(g)
           G == FinalOf(g)'
<1>1. K \subseteq G /\ G \subseteq F \cup K /\ K \cap F = {} /\ K \subseteq U /\ F \subseteq U
  BY FinalAfterSlice
<1>2. IsFiniteSet(U) /\ \A i \in U : lines[i].tok \in Nat
  <2>1. Len(lines) \in Nat
    BY SlicesTypes
  <2> QED BY <2>1, FS_Interval, SlicesTypes
<1>3. /\ Tokens(S, g) = TokenSum(lines, K) /\ Calls(S, g) = Cardinality(K)
      /\ TrueTokens(g) = TokenSum(lines, F)
  BY SlicesDefs DEF Calls
<1>4. TrueTokens(g)' = TokenSum(lines, G)
  <2>1. lines' = lines
    BY DEF CaptureUsage
  <2>2. TrueTokens(g)' = TokenSum(lines', G)
    BY DEF TrueTokens, TokenSum, MapThenSumSet, MapThenFoldSet
  <2> QED BY <2>1, <2>2
<1> HIDE DEF U, K, F, G
<1>5. \A i \in U : Snapshots(lines, U)[i] \in Nat
  BY <1>2 DEF Snapshots
<1>6. PICK it : Sums(it, Snapshots(lines, U), U)
  BY <1>2, <1>5, SumsExist
<1>7. F \cup K \subseteq U /\ G \subseteq U
  BY <1>1
<1>8. \A A \in SUBSET U : TokenSum(lines, A) = it[A]
  BY <1>2, <1>6, TokenSumIsSum
<1>9. it[F] \in Nat /\ it[K] \in Nat /\ it[G] \in Nat
  BY <1>1, <1>2, <1>5, <1>6, <1>7, SumsType
<1>10. it[F \cup K] = it[F] + it[K]
  <2>1. F \subseteq U /\ K \subseteq U /\ F \cap K = {}
    BY <1>1
  <2>2. IsFiniteSet(U)
    BY <1>2
  <2> QED BY <1>5, <1>6, <2>1, <2>2, SumsUnion
<1>11. it[G] <= it[F \cup K]
  BY <1>1, <1>2, <1>5, <1>6, <1>7, SumsMonotone
<1>12. IsFiniteSet(F) /\ IsFiniteSet(K) /\ IsFiniteSet(F \cup K) /\ IsFiniteSet(G)
  BY <1>1, <1>2, <1>7, FS_Subset
<1>13. /\ Cardinality(F) \in Nat /\ Cardinality(K) \in Nat /\ Cardinality(G) \in Nat
       /\ Cardinality(F \cup K) = Cardinality(F) + Cardinality(K)
       /\ Cardinality(G) <= Cardinality(F \cup K)
  <2>1. Cardinality(F \cup K) = Cardinality(F) + Cardinality(K) - Cardinality(F \cap K)
    BY <1>12, FS_Union
  <2>2. Cardinality(F \cap K) = 0
    <3>1. F \cap K = {}
      BY <1>1
    <3> QED BY <3>1, FS_EmptySet
  <2>3. Cardinality(F) \in Nat /\ Cardinality(K) \in Nat /\ Cardinality(G) \in Nat
    BY <1>12, FS_CardinalityType
  <2>4. Cardinality(G) <= Cardinality(F \cup K)
    BY <1>1, <1>12, FS_Subset
  <2> QED BY <2>1, <2>2, <2>3, <2>4
<1>14. F \subseteq G => G = F \cup K
  BY <1>1
<1>15. /\ TokenSum(lines, F) = it[F] /\ TokenSum(lines, K) = it[K] /\ TokenSum(lines, G) = it[G]
  BY <1>1, <1>7, <1>8
<1>16. /\ Tokens(S, g) = it[K] /\ Calls(S, g) = Cardinality(K)
       /\ TrueTokens(g) = it[F] /\ TrueTokens(g)' = it[G]
  BY <1>3, <1>4, <1>15
<1>17. /\ it[G] <= it[F] + it[K] /\ Cardinality(G) <= Cardinality(F) + Cardinality(K)
       /\ F \subseteq G => it[G] = it[F] + it[K] /\ Cardinality(G) = Cardinality(F) + Cardinality(K)
  BY <1>10, <1>11, <1>13, <1>14
<1> QED BY <1>9, <1>13, <1>16, <1>17 DEF F, G

LEMMA CaptureKeepsSlices ==
  ASSUME SlicesIndInv, CaptureUsage
  PROVE  SlicesIndInv'
<1> DEFINE S == offset + 1 .. Len(lines)
<1>0. /\ Len(lines) \in Nat /\ offset \in Nat /\ offset <= Len(lines) /\ S # {}
      /\ \A g \in Group : total[g].tok \in Nat /\ total[g].calls \in Nat
      /\ SlicesTypeOK /\ OneGroup /\ CutsBehind
      /\ lines' = lines /\ offset' = Len(lines) /\ cuts' = cuts \cup {Len(lines)}
      /\ total' = [g \in Group |-> [tok   |-> total[g].tok + Tokens(S, g),
                                    calls |-> total[g].calls + Calls(S, g)]]
  BY SlicesTypes DEF SlicesIndInv, CaptureUsage
<1>1. \A g \in Group : /\ total'[g].tok = total[g].tok + Tokens(S, g)
                       /\ total'[g].calls = total[g].calls + Calls(S, g)
  BY <1>0
<1> HIDE DEF S
<1>2. SlicesTypeOK'
  <2>1. \A g \in Group : /\ total[g].tok + Tokens(S, g) \in Nat
                         /\ total[g].calls + Calls(S, g) \in Nat
    <3> SUFFICES ASSUME NEW g \in Group
                 PROVE  /\ total[g].tok + Tokens(S, g) \in Nat
                        /\ total[g].calls + Calls(S, g) \in Nat
      OBVIOUS
    <3>1. Tokens(S, g) \in Nat /\ Calls(S, g) \in Nat
      BY <1>0, SliceSums DEF S
    <3> QED BY <1>0, <3>1
  <2>2. total' \in [Group -> [tok : Nat, calls : Nat]]
    BY <1>0, <2>1
  <2> QED BY <1>0, <2>2 DEF SlicesTypeOK
<1>3. OneGroup'
  BY <1>0 DEF OneGroup
<1>4. CutsBehind'
  <2>1. 1 <= Len(lines)
    BY <1>0 DEF S
  <2>2. cuts \subseteq 1 .. offset
    BY <1>0 DEF CutsBehind
  <2>3. \A c \in 1 .. offset : c \in 1 .. Len(lines)
    BY <1>0
  <2>4. Len(lines) \in 1 .. Len(lines)
    BY <1>0, <2>1
  <2>5. offset' = Len(lines) /\ cuts' = cuts \cup {Len(lines)}
    BY <1>0
  <2> QED BY <2>2, <2>3, <2>4, <2>5 DEF CutsBehind
<1>5. NeverUnderCounted'
  <2> SUFFICES ASSUME NEW g \in Group
               PROVE  /\ total'[g].tok >= TrueTokens(g)'
                      /\ total'[g].calls >= Cardinality(FinalOf(g)')
    BY DEF NeverUnderCounted
  <2>1. total[g].tok >= TrueTokens(g) /\ total[g].calls >= Cardinality(FinalOf(g))
    BY DEF SlicesIndInv, NeverUnderCounted
  <2>2. /\ Tokens(S, g) \in Nat /\ Calls(S, g) \in Nat
        /\ TrueTokens(g) \in Nat /\ Cardinality(FinalOf(g)) \in Nat
        /\ TrueTokens(g)' \in Nat /\ Cardinality(FinalOf(g)') \in Nat
        /\ TrueTokens(g)' <= TrueTokens(g) + Tokens(S, g)
        /\ Cardinality(FinalOf(g)') <= Cardinality(FinalOf(g)) + Calls(S, g)
    BY <1>0, SliceSums DEF S
  <2>3. total[g].tok \in Nat /\ total[g].calls \in Nat
    BY <1>0
  <2>4. total'[g].tok >= TrueTokens(g)'
    BY <1>1, <2>1, <2>2, <2>3
  <2>5. total'[g].calls >= Cardinality(FinalOf(g)')
    BY <1>1, <2>1, <2>2, <2>3
  <2> QED BY <2>4, <2>5
<1>6. ExactBetweenCalls'
  <2> SUFFICES ASSUME ~Straddled', NEW g \in Group
               PROVE  /\ total'[g].tok = TrueTokens(g)'
                      /\ total'[g].calls = Cardinality(FinalOf(g)')
    BY DEF ExactBetweenCalls
  <2>1. FinalOf(g) \subseteq FinalOf(g)' /\ ~Straddled
    BY <1>0, FinalBetweenCalls
  <2>2. total[g].tok = TrueTokens(g) /\ total[g].calls = Cardinality(FinalOf(g))
    BY <2>1 DEF SlicesIndInv, ExactBetweenCalls
  <2>3. /\ TrueTokens(g)' = TrueTokens(g) + Tokens(S, g)
        /\ Cardinality(FinalOf(g)') = Cardinality(FinalOf(g)) + Calls(S, g)
    BY <1>0, <2>1, SliceSums DEF S
  <2> QED BY <1>1, <2>2, <2>3
<1> QED BY <1>2, <1>3, <1>4, <1>5, <1>6 DEF SlicesIndInv

LEMMA WriteLineKeepsSlices ==
  ASSUME SlicesIndInv, NEW l \in UsageLine, WriteUsage(l)
  PROVE  SlicesIndInv'
<1> DEFINE n == Len(lines)
<1>0. /\ n \in Nat /\ offset \in Nat /\ offset <= n /\ DOMAIN lines = 1 .. n
      /\ \A i \in 1 .. n : lines[i].tok \in Nat
      /\ SlicesTypeOK /\ OneGroup /\ CutsBehind
      /\ lines' = Append(lines, l) /\ UNCHANGED <<offset, cuts, total, row>>
      /\ \A i \in 1 .. n : lines[i].id = l.id /\ l.id # NoId => lines[i].group = l.group
  BY SlicesTypes DEF SlicesIndInv, WriteUsage
<1>1. /\ lines' \in Seq(UsageLine) /\ Len(lines') = n + 1 /\ DOMAIN lines' = 1 .. n + 1
      /\ lines'[n + 1] = l /\ \A i \in 1 .. n : lines'[i] = lines[i]
  BY <1>0 DEF SlicesTypeOK
<1> HIDE DEF n
<1>2. \A i \in 1 .. offset : i \in 1 .. n /\ lines'[i] = lines[i]
  BY <1>0, <1>1
<1>3. SlicesTypeOK'
  BY <1>0, <1>1 DEF SlicesTypeOK
<1>4. OneGroup'
  <2> SUFFICES ASSUME NEW i \in 1 .. n + 1, NEW j \in 1 .. n + 1,
                      lines'[i].id = lines'[j].id, lines'[i].id # NoId
               PROVE  lines'[i].group = lines'[j].group
    BY <1>1 DEF OneGroup
  <2>1. \A k \in 1 .. n + 1 : k \in 1 .. n \/ k = n + 1
    BY <1>0
  <2>2. CASE i \in 1 .. n /\ j \in 1 .. n
    BY <1>0, <1>1, <2>2 DEF OneGroup
  <2>3. CASE i \in 1 .. n /\ j = n + 1
    BY <1>0, <1>1, <2>3
  <2>4. CASE i = n + 1 /\ j \in 1 .. n
    BY <1>0, <1>1, <2>4
  <2>5. CASE i = n + 1 /\ j = n + 1
    BY <2>5
  <2> QED BY <2>1, <2>2, <2>3, <2>4, <2>5
<1>5. CutsBehind'
  BY <1>0 DEF CutsBehind
<1>6. ASSUME NEW g \in Group
      PROVE  /\ FinalOf(g)' = FinalOf(g)
             /\ TrueTokens(g)' = TrueTokens(g)
  <2>1. FinalOf(g)' = FinalOf(g)
    BY <1>0, <1>2 DEF FinalOf, Consumed
  <2>2. TrueTokens(g)' = TokenSum(lines', FinalOf(g)')
    BY DEF TrueTokens, TokenSum, MapThenSumSet, MapThenFoldSet
  <2>3. TokenSum(lines, FinalOf(g)) = TokenSum(lines', FinalOf(g))
    <3>0. IsFiniteSet(1 .. offset)
      <4>1. offset \in Int /\ 1 \in Int
        BY <1>0
      <4> QED BY <4>1, FS_Interval
    <3> DEFINE U == 1 .. offset
    <3>1. IsFiniteSet(U)
      BY <3>0
    <3>2. FinalOf(g) \in SUBSET U
      BY DEF FinalOf, Consumed
    <3>3. \A i \in U : lines[i].tok \in Nat /\ lines'[i].tok = lines[i].tok
      BY <1>0, <1>2
    <3> HIDE DEF U
    <3> QED BY <3>1, <3>2, <3>3, TokenSumSame
  <2> QED BY <2>1, <2>2, <2>3, SlicesDefs
<1>7. Straddled' = Straddled
  <2>1. \A c \in cuts : \A i \in 1 .. c : i \in 1 .. offset
    BY <1>0 DEF CutsBehind
  <2>2. \A c \in cuts : \A j \in c + 1 .. offset : j \in 1 .. offset
    BY <1>0 DEF CutsBehind
  <2> QED BY <1>0, <1>2, <2>1, <2>2 DEF Straddled
<1>8. NeverUnderCounted'
  <2> SUFFICES ASSUME NEW g \in Group
               PROVE  /\ total[g].tok >= TrueTokens(g)'
                      /\ total[g].calls >= Cardinality(FinalOf(g)')
    BY <1>0 DEF NeverUnderCounted
  <2>1. total[g].tok >= TrueTokens(g) /\ total[g].calls >= Cardinality(FinalOf(g))
    BY DEF SlicesIndInv, NeverUnderCounted
  <2> QED BY <1>6, <2>1
<1>9. ExactBetweenCalls'
  <2> SUFFICES ASSUME ~Straddled, NEW g \in Group
               PROVE  /\ total[g].tok = TrueTokens(g)'
                      /\ total[g].calls = Cardinality(FinalOf(g)')
    BY <1>0, <1>7 DEF ExactBetweenCalls
  <2>1. total[g].tok = TrueTokens(g) /\ total[g].calls = Cardinality(FinalOf(g))
    BY DEF SlicesIndInv, ExactBetweenCalls
  <2> QED BY <1>6, <2>1
<1> QED BY <1>3, <1>4, <1>5, <1>8, <1>9 DEF SlicesIndInv

LEMMA SlicesStart ==
  ASSUME SlicesInit
  PROVE  SlicesIndInv
<1>1. lines = <<>> /\ offset = 0 /\ cuts = {} /\ total = [g \in Group |-> [tok |-> 0, calls |-> 0]]
  BY DEF SlicesInit
<1>2. SlicesTypeOK /\ OneGroup /\ CutsBehind
  BY <1>1 DEF SlicesTypeOK, OneGroup, CutsBehind
<1>3. ASSUME NEW g \in Group
      PROVE  /\ total[g].tok = TrueTokens(g)
             /\ total[g].calls = Cardinality(FinalOf(g))
  <2>1. FinalOf(g) = {}
    BY <1>1 DEF FinalOf, Consumed
  <2>2. Cardinality({}) = 0
    BY FS_EmptySet
  <2>3. TokenSum(lines, {}) = 0
    <3>1. PICK it : Sums(it, Snapshots(lines, {}), {})
      BY FS_EmptySet, SumsExist
    <3>2. TokenSum(lines, {}) = it[{}]
      BY <3>1, FS_EmptySet, TokenSumIsSum
    <3> QED BY <3>1, <3>2, SumsUnfold
  <2>4. TrueTokens(g) = 0
    BY <2>1, <2>3, SlicesDefs
  <2> QED BY <1>1, <2>1, <2>2, <2>4
<1>4. NeverUnderCounted
  <2>1. \A g \in Group : /\ total[g].tok >= TrueTokens(g)
                         /\ total[g].calls >= Cardinality(FinalOf(g))
    <3> SUFFICES ASSUME NEW g \in Group
                 PROVE  /\ total[g].tok >= TrueTokens(g)
                        /\ total[g].calls >= Cardinality(FinalOf(g))
      OBVIOUS
    <3>1. total[g].tok = 0 /\ total[g].calls = 0
      BY <1>1
    <3> QED BY <1>3, <3>1
  <2> QED BY <2>1 DEF NeverUnderCounted
<1>5. ExactBetweenCalls
  BY <1>3 DEF ExactBetweenCalls
<1> QED BY <1>2, <1>4, <1>5 DEF SlicesIndInv

\* The sums of any number of captures keep their invariant (aggregate in
\* scripts/capture.py, one slice after the other).
THEOREM SlicesInductive ==
  SlicesSpec => []SlicesIndInv
<1>1. SlicesInit => SlicesIndInv
  BY SlicesStart
<1>2. SlicesIndInv /\ [SlicesNext]_sliceVars => SlicesIndInv'
  <2> SUFFICES ASSUME SlicesIndInv, [SlicesNext]_sliceVars PROVE SlicesIndInv'
    OBVIOUS
  <2>1. CASE CaptureUsage
    BY <2>1, CaptureKeepsSlices
  <2>2. CASE \E l \in UsageLine : WriteUsage(l)
    BY <2>2, WriteLineKeepsSlices
  <2>3. CASE UNCHANGED sliceVars
    <3>1. UNCHANGED <<lines, offset, cuts, total, row>>
      BY <2>3 DEF sliceVars
    <3>2. \A g : FinalOf(g)' = FinalOf(g)
      BY <3>1 DEF FinalOf, Consumed
    <3>3. \A g : TrueTokens(g)' = TrueTokens(g)
      BY <3>1, <3>2 DEF TrueTokens, MapThenSumSet, MapThenFoldSet
    <3>4. Straddled' = Straddled
      BY <3>1 DEF Straddled
    <3>5. NeverUnderCounted' /\ ExactBetweenCalls'
      BY <3>1, <3>2, <3>3, <3>4
         DEF SlicesIndInv, NeverUnderCounted, ExactBetweenCalls
    <3> QED BY <3>1, <3>5 DEF SlicesIndInv, SlicesTypeOK, OneGroup, CutsBehind
  <2> QED BY <2>1, <2>2, <2>3 DEF SlicesNext
<1> QED BY <1>1, <1>2, PTL DEF SlicesSpec

\* However a transcript is sliced, no usage is lost.
THEOREM SlicesNeverUnderCount ==
  SlicesSpec => []NeverUnderCounted
<1>1. SlicesIndInv => NeverUnderCounted
  BY DEF SlicesIndInv
<1> QED BY <1>1, SlicesInductive, PTL

\* Sliced between calls, a transcript is counted exactly.
THEOREM SlicesExactBetweenCalls ==
  SlicesSpec => []ExactBetweenCalls
<1>1. SlicesIndInv => ExactBetweenCalls
  BY DEF SlicesIndInv
<1> QED BY <1>1, SlicesInductive, PTL

-----------------------------------------------------------------------------
(***************************************************************************)
(* The context size of an event row.                                       *)
(***************************************************************************)
LEMMA LargestNat ==
  ASSUME NEW T, T \subseteq Nat, T # {}, NEW b \in Nat, \A n \in T : n <= b
  PROVE  \E n \in T : \A m \in T : m <= n
<1> DEFINE S == {b - n : n \in T}
<1>1. \A n \in T : n \in Nat /\ b - n \in Nat
  OBVIOUS
<1>2. S \subseteq Nat /\ S # {}
  BY <1>1
<1>3. PICK k \in S : \A m \in S : k <= m
  <2> HIDE DEF S
  <2> QED BY <1>2, LeastNat
<1>4. PICK n \in T : k = b - n
  OBVIOUS
<1>5. \A m \in T : b - n <= b - m
  BY <1>3, <1>4
<1>6. \A m \in T : m <= n
  BY <1>1, <1>5
<1> QED BY <1>6

LEMMA MaxOf ==
  ASSUME NEW T, T # {}, NEW n \in Nat, T \subseteq 1 .. n
  PROVE  Max(T) \in T /\ Max(T) \in Nat /\ \A x \in T : x <= Max(T)
<1>1. T \subseteq Nat /\ \A x \in T : x <= n
  OBVIOUS
<1>2. \E x \in T : \A y \in T : y <= x
  BY <1>1, LargestNat
<1>3. \E x \in T : \A y \in T : x >= y
  <2>1. PICK x \in T : \A y \in T : y <= x
    BY <1>2
  <2>2. \A y \in T : y \in Nat /\ x \in Nat
    BY <1>1
  <2> QED BY <2>1, <2>2
<1>4. Max(T) \in T /\ \A y \in T : Max(T) >= y
  BY <1>3 DEF Max
<1>5. \A y \in T : y \in Nat /\ Max(T) \in Nat
  BY <1>1, <1>4
<1> QED BY <1>4, <1>5

LEMMA MinOf ==
  ASSUME NEW T, T # {}, T \subseteq Nat
  PROVE  \E x \in T : \A y \in T : x <= y
BY LeastNat

\* The line an accumulated call stands at is its first line in the slice.
LEMMA EnteredFirst ==
  ASSUME NEW n \in Nat, NEW S, S \subseteq 1 .. n, NEW g, NEW i \in InGroup(S, g)
  PROVE  LET e == Entered(S, g, i)
         IN  /\ e \in InGroup(S, g) /\ SameCall(i, e)
             /\ \A k \in InGroup(S, g) : SameCall(i, k) => e <= k
<1> DEFINE T == {j \in InGroup(S, g) : SameCall(i, j)}
<1>1. T \subseteq Nat /\ T # {}
  <2>1. i \in T
    BY DEF SameCall
  <2>2. \A j \in InGroup(S, g) : j \in Nat
    BY DEF InGroup
  <2> QED BY <2>1, <2>2
<1>2. \E x \in T : \A y \in T : x <= y
  <2> HIDE DEF T
  <2> QED BY <1>1, LeastNat
<1>3. \E j \in InGroup(S, g) :
         SameCall(i, j) /\ \A k \in InGroup(S, g) : SameCall(i, k) => j <= k
  BY <1>2
<1> QED BY <1>3 DEF Entered

LineNumbers(S) == \E n \in Nat : S \subseteq 1 .. n

\* The lines of a group at which its calls start, and those of the last of them.
Started(G) == {i \in G : \A j \in G : lines[j].id = lines[i].id => i <= j}
LastStarted(G) == {i \in G : lines[i].id = lines[Max(Started(G))].id}

LEMMA ContextIsLastStarted ==
  ASSUME NEW S, LineNumbers(S), NEW g, NEW G, G = InGroup(S, g), G # {},
         \A i \in G : lines[i].id # NoId
  PROVE  Context(S, g) = lines[Max(LastStarted(G))].tok
<1> DEFINE started == Started(G)
           call == LastStarted(G)
           m == Max(started)
           c == Max(call)
<1> PICK n \in Nat : S \subseteq 1 .. n
  BY DEF LineNumbers
<1>1. G \subseteq S /\ G \subseteq 1 .. n /\ \A i \in G : i \in Nat
  <2>1. G \subseteq S
    BY DEF InGroup
  <2>2. G \subseteq 1 .. n
    BY <2>1
  <2> QED BY <2>1, <2>2
<1>2. \A i, j \in G : SameCall(i, j) <=> lines[i].id = lines[j].id
  BY DEF SameCall
<1> DEFINE Start(i) == Entered(S, g, i)
<1>3. ASSUME NEW i \in G
      PROVE  /\ Start(i) \in G /\ lines[Start(i)].id = lines[i].id
             /\ \A k \in G : lines[k].id = lines[i].id => Start(i) <= k
             /\ Start(i) \in Started(G)
  <2>1. /\ Start(i) \in G /\ SameCall(i, Start(i))
        /\ \A k \in G : SameCall(i, k) => Start(i) <= k
    BY EnteredFirst
  <2>2. /\ Start(i) \in G /\ lines[Start(i)].id = lines[i].id
        /\ \A k \in G : lines[k].id = lines[i].id => Start(i) <= k
    BY <1>2, <2>1
  <2> HIDE DEF Start
  <2>3. Start(i) \in Started(G)
    BY <2>2 DEF Started
  <2> QED BY <2>2, <2>3
<1> HIDE DEF Start
<1>4. m \in started /\ m \in Nat /\ \A x \in started : x <= m
  <2>1. started # {} /\ started \subseteq 1 .. n
    BY <1>1, <1>3 DEF Started
  <2> HIDE DEF started
  <2> QED BY <2>1, MaxOf
<1>5. m \in G /\ \A j \in G : lines[j].id = lines[m].id => m <= j
  BY <1>4 DEF Started
<1>0. call = {i \in G : lines[i].id = lines[m].id}
  BY DEF LastStarted
<1> HIDE DEF m, started, call
<1>6. c \in call /\ c \in Nat /\ \A x \in call : x <= c
  <2>1. call # {} /\ call \subseteq 1 .. n
    BY <1>0, <1>1, <1>5
  <2> QED BY <2>1, MaxOf
<1>7. c \in G /\ lines[c].id = lines[m].id /\ \A x \in G : lines[x].id = lines[m].id => x <= c
  BY <1>0, <1>6
<1> HIDE DEF c
<1>8. \A i : i \in Kept(S, g) <=> i \in G /\ \A j \in G : lines[i].id = lines[j].id => j <= i
  BY <1>2 DEF Kept
<1>9. {j \in Kept(S, g) : lines[j].id = NoId} = {}
  BY <1>8
<1>10. \A i : ListedLast(S, g, i) <=>
                  i \in Kept(S, g) /\ \A j \in Kept(S, g) : Start(j) <= Start(i)
  BY <1>9 DEF ListedLast, Start
<1>11. c \in Kept(S, g) /\ Start(c) = m
  <2>1. c \in Kept(S, g)
    BY <1>7, <1>8
  <2>2. Start(c) \in Nat /\ Start(c) <= m
    BY <1>1, <1>3, <1>4, <1>7 DEF started
  <2>3. m <= Start(c)
    BY <1>3, <1>5, <1>7
  <2> QED BY <1>4, <2>1, <2>2, <2>3
<1>12. ListedLast(S, g, c)
  BY <1>3, <1>4, <1>8, <1>10, <1>11 DEF started
<1>13. ASSUME NEW i, ListedLast(S, g, i) PROVE i = c
  <2>1. i \in Kept(S, g) /\ Start(c) <= Start(i) /\ i \in G
    BY <1>8, <1>10, <1>11, <1>13
  <2>2. Start(i) \in Nat /\ Start(i) <= m /\ Start(i) \in G
    BY <1>1, <1>3, <1>4, <2>1 DEF started
  <2>3. Start(i) = m
    BY <1>4, <1>11, <2>1, <2>2
  <2>4. lines[i].id = lines[m].id
    BY <1>3, <2>1, <2>3
  <2>5. i <= c
    BY <1>7, <2>1, <2>4
  <2>6. c <= i
    BY <1>7, <1>8, <2>1, <2>4
  <2> QED BY <1>1, <1>6, <2>1, <2>5, <2>6
<1>14. (CHOOSE i \in S : ListedLast(S, g, i)) = c
  <2>1. \A i \in S : ListedLast(S, g, i) <=> i = c
    BY <1>12, <1>13
  <2>2. c \in S
    BY <1>1, <1>7
  <2> QED BY <2>1, <2>2
<1>15. Context(S, g) = lines[c].tok
  BY <1>14 DEF Context
<1> QED BY <1>15 DEF c, call

\* The context size of an event row is the final snapshot of the call that
\* started last in the slice, where every line has an id (aggregate: "the LAST
\* call's input side is the context size when the slice ended").
THEOREM SlicesContextOfLastCall ==
  SlicesSpec => ContextOfLastCall
<1> DEFINE Right(g) ==
      LET S == {i \in offset + 1 .. offset' : lines[i].group = g}
          started == {i \in S : \A j \in S : lines[j].id = lines[i].id => i <= j}
          call == {i \in S : lines[i].id = lines[Max(started)].id}
      IN  S # {} /\ (\A i \in S : lines[i].id # NoId) => row'[g] = lines[Max(call)].tok
<1>1. ASSUME SlicesIndInv, CaptureUsage, NEW g \in Group PROVE Right(g)
  <2> DEFINE n == Len(lines)
             S == offset + 1 .. n
             G == {i \in S : lines[i].group = g}
  <2>1. n \in Nat /\ offset \in Nat
    BY <1>1, SlicesTypes DEF SlicesIndInv
  <2>2. LineNumbers(S)
    BY <2>1 DEF LineNumbers
  <2>3. G = InGroup(S, g)
    BY DEF InGroup
  <2>4. /\ offset' = n
        /\ row' = [h \in Group |-> IF InGroup(S, h) = {} THEN row[h] ELSE Context(S, h)]
    BY <1>1 DEF CaptureUsage
  <2>5. ASSUME G # {}, \A i \in G : lines[i].id # NoId
        PROVE  row'[g] = lines[Max(LastStarted(G))].tok
    <3>1. row'[g] = Context(S, g)
      BY <2>3, <2>4, <2>5
    <3> HIDE DEF n, S, G
    <3>2. Context(S, g) = lines[Max(LastStarted(G))].tok
      BY <2>2, <2>3, <2>5, ContextIsLastStarted
    <3> QED BY <3>1, <3>2
  <2> QED BY <2>4, <2>5 DEF LastStarted, Started
<1>2. ASSUME SlicesIndInv, offset' = offset, NEW g \in Group PROVE Right(g)
  <2>1. offset \in Nat
    BY <1>2, SlicesTypes DEF SlicesIndInv
  <2>2. {i \in offset + 1 .. offset' : lines[i].group = g} = {}
    BY <1>2, <2>1
  <2> QED BY <2>2
<1>3. SlicesIndInv /\ [SlicesNext]_sliceVars => \A g \in Group : Right(g)
  <2> SUFFICES ASSUME SlicesIndInv, [SlicesNext]_sliceVars, NEW g \in Group PROVE Right(g)
    OBVIOUS
  <2> HIDE DEF Right
  <2>1. CASE CaptureUsage
    BY <1>1, <2>1
  <2>2. CASE \E l \in UsageLine : WriteUsage(l)
    BY <1>2, <2>2 DEF WriteUsage
  <2>3. CASE UNCHANGED sliceVars
    BY <1>2, <2>3 DEF sliceVars
  <2> QED BY <2>1, <2>2, <2>3 DEF SlicesNext
<1>4. SlicesSpec => [][\A g \in Group : Right(g)]_sliceVars
  <2> HIDE DEF Right
  <2> QED BY <1>3, SlicesInductive, PTL DEF SlicesSpec
<1>5. [][\A g \in Group : Right(g)]_sliceVars => ContextOfLastCall
  <2>1. [\A g \in Group : Right(g)]_sliceVars =>
        [\A g \in Group :
          LET S == {i \in offset + 1 .. offset' : lines[i].group = g}
              started == {i \in S : \A j \in S : lines[j].id = lines[i].id => i <= j}
              call == {i \in S : lines[i].id = lines[Max(started)].id}
          IN  S # {} /\ (\A i \in S : lines[i].id # NoId) => row'[g] = lines[Max(call)].tok]_sliceVars
    OBVIOUS
  <2> QED BY <2>1, PTL DEF ContextOfLastCall
<1> QED BY <1>4, <1>5, PTL

-----------------------------------------------------------------------------
(***************************************************************************)
(* The buckets of the dashboard's chart.                                   *)
(***************************************************************************)
LEMMA ClockFacts ==
  ASSUME NEW z \in Zone
  PROVE  /\ z.at \in Nat /\ z.shift \in Int
         /\ z.shift # 0 /\ -4 <= z.shift /\ z.shift <= 4
<1>1. z.at \in ClockChange /\ z.shift \in Shift
  BY DEF Zone
<1>2. ClockChange \subseteq Nat /\ Shift \subseteq -(2 * 2) .. 2 * 2 /\ 0 \notin Shift
  BY TimelineAssumption DEF Hour
<1>3. \A s \in -(2 * 2) .. 2 * 2 : s \in Int /\ -4 <= s /\ s <= 4
  OBVIOUS
<1> QED BY <1>1, <1>2, <1>3

LEMMA LocalFacts ==
  ASSUME NEW z \in Zone, NEW t \in Int
  PROVE  /\ Local(z, t) \in Int /\ t - 4 <= Local(z, t) /\ Local(z, t) <= t + 4
         /\ Fold(z, t) \in {0, 1}
BY ClockFacts DEF Local, Fold

LEMMA PairFacts ==
  ASSUME NEW a \in Int, NEW b \in Int, a <= b
  PROVE  Max({a, b}) = b /\ Min({a, b}) = a
<1>1. \A x \in {a, b} : (\A y \in {a, b} : x >= y) <=> x = b
  OBVIOUS
<1>2. \A x \in {a, b} : (\A y \in {a, b} : x <= y) <=> x = a
  OBVIOUS
<1> QED BY <1>1, <1>2 DEF Max, Min

\* Which instant a local time means: in the repeated stretch the one the fold
\* says, in the gap the one of the offset before the change.
LEMMA InstantValue ==
  ASSUME NEW z \in Zone, NEW l \in Int, NEW fold \in {0, 1}
  PROVE  Instant(z, l, fold) =
           IF l < z.at THEN IF fold = 1 /\ z.at <= l - z.shift THEN l - z.shift ELSE l
                       ELSE IF z.at <= l - z.shift THEN l - z.shift ELSE l
<1> DEFINE other == l - z.shift
           candidates == {l, other}
           meant == {t \in candidates : Local(z, t) = l}
<1>1. /\ z.at \in Nat /\ z.shift \in Int /\ z.shift # 0 /\ other \in Int
  BY ClockFacts
<1>2. /\ l \in meant <=> l < z.at
      /\ other \in meant <=> z.at <= other
  BY <1>1 DEF Local
<1>3. meant \subseteq {l, other}
  OBVIOUS
<1>4. Instant(z, l, fold) = IF meant = {} THEN Max(candidates)
                            ELSE IF fold = 0 THEN Min(meant) ELSE Max(meant)
  BY DEF Instant
<1> HIDE DEF meant
<1>5. CASE l < z.at /\ z.at <= other
  <2>1. meant = {l, other}
    <3> HIDE DEF other
    <3> QED BY <1>2, <1>3, <1>5
  <2>3. l <= other
    BY <1>1, <1>5
  <2>2. Max(meant) = other /\ Min(meant) = l
    <3> HIDE DEF other
    <3> QED BY <1>1, <2>1, <2>3, PairFacts
  <2> QED BY <1>4, <1>5, <2>1, <2>2
<1>6. CASE l < z.at /\ ~(z.at <= other)
  <2>1. meant = {l, l}
    BY <1>2, <1>3, <1>6
  <2>2. Max(meant) = l /\ Min(meant) = l
    BY <2>1, PairFacts
  <2> QED BY <1>4, <1>6, <2>1, <2>2
<1>7. CASE ~(l < z.at) /\ z.at <= other
  <2>1. meant = {other, other}
    BY <1>2, <1>3, <1>7
  <2>2. Max(meant) = other /\ Min(meant) = other
    <3> HIDE DEF other
    <3> QED BY <1>1, <2>1, PairFacts
  <2> QED BY <1>4, <1>7, <2>1, <2>2
<1>8. CASE ~(l < z.at) /\ ~(z.at <= other)
  <2>1. meant = {} /\ other <= l /\ candidates = {other, l}
    BY <1>1, <1>2, <1>3, <1>8
  <2>2. Max(candidates) = l
    <3> HIDE DEF other, candidates
    <3> QED BY <1>1, <2>1, PairFacts
  <2> QED BY <1>4, <1>8, <2>1, <2>2
<1> QED BY <1>5, <1>6, <1>7, <1>8

\* Local time and fold determine the instant.
LEMMA InstantOfLocal ==
  ASSUME NEW z \in Zone, NEW t \in Int
  PROVE  Instant(z, Local(z, t), Fold(z, t)) = t
<1>1. Instant(z, Local(z, t), Fold(z, t)) =
        IF Local(z, t) < z.at
        THEN IF Fold(z, t) = 1 /\ z.at <= Local(z, t) - z.shift THEN Local(z, t) - z.shift ELSE Local(z, t)
        ELSE IF z.at <= Local(z, t) - z.shift THEN Local(z, t) - z.shift ELSE Local(z, t)
  BY LocalFacts, InstantValue
<1> QED BY <1>1, ClockFacts DEF Local, Fold

-----------------------------------------------------------------------------
(***************************************************************************)
(* Hours, days and months are multiples.                                   *)
(***************************************************************************)
Multiple(d, w) == \E q \in Int : d = w * q

LEMMA FloorOf ==
  ASSUME NEW l \in Int, NEW g, Width(g) \in Nat \ {0}
  PROVE  /\ Floor(l, g) \in Int /\ Multiple(Floor(l, g), Width(g))
         /\ Floor(l, g) <= l /\ l < Floor(l, g) + Width(g)
<1> DEFINE w == Width(g)
<1>1. w \in Nat /\ w > 0
  OBVIOUS
<1> HIDE DEF w
<1>2. l % w \in 0 .. w - 1 /\ l \div w \in Int
  BY <1>1
<1>3. l % w = l - w * (l \div w)
  BY <1>1
<1>4. PICK q \in Int, r \in 0 .. w - 1 : l % w = r /\ r = l - w * q
  BY <1>2, <1>3
<1>5. Floor(l, g) = l - r
  BY <1>4 DEF Floor, w
<1>6. l - r \in Int /\ l - r <= l /\ l < l - r + w
  BY <1>1
<1>7. Multiple(l - r, w)
  <2>1. l - r = w * q
    BY <1>1, <1>4
  <2> QED BY <2>1 DEF Multiple
<1> QED BY <1>5, <1>6, <1>7 DEF w

LEMMA MultiplesApart ==
  ASSUME NEW w \in Nat \ {0}, NEW d \in Int, NEW e \in Int, Multiple(d, w), Multiple(e, w), d < e
  PROVE  \E n \in Nat \ {0} : e = d + w * n
<1>1. PICK q \in Int : d = w * q
  BY DEF Multiple
<1>2. PICK r \in Int : e = w * r
  BY DEF Multiple
<1>3. r - q >= 1
  <2>1. r <= q => w * r <= w * q
    OBVIOUS
  <2> QED BY <1>1, <1>2, <2>1
<1>4. e = d + w * (r - q)
  BY <1>1, <1>2
<1>5. r - q \in Nat \ {0}
  BY <1>3
<1> QED BY <1>4, <1>5

LEMMA StepsApart ==
  ASSUME NEW w \in Nat, NEW i \in Nat, NEW j \in Nat, i < j
  PROVE  w * i + w <= w * j
<1>1. PICK k \in Nat : j = i + 1 + k
  <2>1. j - i - 1 \in Nat /\ j = i + 1 + (j - i - 1)
    OBVIOUS
  <2> QED BY <2>1
<1>2. w * j = w * i + w + w * k /\ w * k >= 0
  BY <1>1
<1> QED BY <1>2

LEMMA FloorIs ==
  ASSUME NEW l \in Int, NEW g, Width(g) \in Nat \ {0}, NEW d \in Int, Multiple(d, Width(g)),
         d <= l, l < d + Width(g)
  PROVE  Floor(l, g) = d
<1> DEFINE e == Floor(l, g)
           w == Width(g)
<1>1. e \in Int /\ Multiple(e, w) /\ e <= l /\ l < e + w
  BY FloorOf
<1> HIDE DEF e
<1>2. CASE d < e
  <2>1. PICK n \in Nat \ {0} : e = d + w * n
    BY <1>1, <1>2, MultiplesApart
  <2>2. w * n >= w
    BY StepsApart
  <2> QED BY <1>1, <2>1, <2>2
<1>3. CASE e < d
  <2>1. PICK n \in Nat \ {0} : d = e + w * n
    BY <1>1, <1>3, MultiplesApart
  <2>2. w * n >= w
    BY StepsApart
  <2> QED BY <1>1, <2>1, <2>2
<1> QED BY <1>1, <1>2, <1>3 DEF e
-----------------------------------------------------------------------------
(***************************************************************************)
(* The loop.  If b lists the buckets from the first on, growing, and the   *)
(* last round could be past the end, the loop makes all of b up to the     *)
(* first past the end and no more.                                         *)
(***************************************************************************)
Rounds(p, now, g) == (now - Since(p, now)) \div Width(g) + 4

Lists(b, z, p, now, g) ==
  /\ b \in [Nat -> Int]
  /\ Rounds(p, now, g) \in Nat /\ BucketStart(z, now, g) \in Int
  /\ b[0] = BucketStart(z, Since(p, now), g)
  /\ \A i \in Nat : NextBucket(z, b[i], g) = b[i + 1]
  /\ \A i, j \in Nat : i < j => b[i] < b[j]
  /\ b[Rounds(p, now, g)] > BucketStart(z, now, g)

LEMMA LoopVisits ==
  ASSUME NEW z, NEW p, NEW now, NEW g, NEW b, Lists(b, z, p, now, g)
  PROVE  \E m \in Nat : /\ Visited(z, p, now, g) = {b[i] : i \in 0 .. m}
                        /\ b[m] > BucketStart(z, now, g) /\ \A i \in 0 .. m : b[i] <= b[m]
                        /\ \A i \in Nat : b[i] <= BucketStart(z, now, g) => i < m
<1> DEFINE rounds == Rounds(p, now, g)
           end == BucketStart(z, now, g)
<1>   /\ b \in [Nat -> Int] /\ rounds \in Nat /\ end \in Int
      /\ b[0] = BucketStart(z, Since(p, now), g)
      /\ \A i \in Nat : NextBucket(z, b[i], g) = b[i + 1]
      /\ \A i, j \in Nat : i < j => b[i] < b[j]
      /\ b[rounds] > end
  BY DEF Lists
<1>0. Visited(z, p, now, g) =
        LET round == [keys \in SUBSET Int |->
                       IF Max(keys) > end THEN keys ELSE keys \cup {NextBucket(z, Max(keys), g)}]
        IN  (CHOOSE f : f = [n \in Nat |-> IF n = 0 THEN {b[0]} ELSE round[f[n - 1]]])[rounds]
  BY DEF Visited, Rounds
<1> HIDE DEF rounds, end
<1> DEFINE past == {i \in Nat : b[i] > end}
<1>1. PICK m \in past : \A i \in past : m <= i
  <2>1. past \subseteq Nat /\ past # {}
    OBVIOUS
  <2> HIDE DEF past
  <2> QED BY <2>1, LeastNat
<1>2. m \in Nat /\ m <= rounds /\ b[m] > end /\ \A i \in Nat : i < m => b[i] <= end
  BY <1>1
<1> HIDE DEF past
<1>3. \A i, j \in Nat : i <= j => b[i] <= b[j]
  <2> SUFFICES ASSUME NEW i \in Nat, NEW j \in Nat, i <= j PROVE b[i] <= b[j]
    OBVIOUS
  <2>1. CASE i = j
    BY <2>1
  <2>2. CASE i < j
    BY <2>2
  <2> QED BY <2>1, <2>2
<1> DEFINE upTo(n) == {b[i] : i \in 0 .. n}
           round == [keys \in SUBSET Int |->
                       IF Max(keys) > end THEN keys ELSE keys \cup {NextBucket(z, Max(keys), g)}]
           Holds(f) == f = [n \in Nat |-> IF n = 0 THEN {b[0]} ELSE round[f[n - 1]]]
           last(n) == IF n <= m THEN n ELSE m
           all == [n \in Nat |-> upTo(last(n))]
\* A round adds the next bucket, or nothing past the end.
<1>4. ASSUME NEW n \in Nat PROVE Max(upTo(n)) = b[n] /\ upTo(n) \in SUBSET Int
  <2>1. b[n] \in upTo(n) /\ \A x \in upTo(n) : x \in Int /\ b[n] >= x
    BY <1>3
  <2>2. \A x \in upTo(n) : (\A y \in upTo(n) : x >= y) <=> x = b[n]
    <3> HIDE DEF upTo
    <3> QED BY <2>1
  <2>3. Max(upTo(n)) = b[n]
    <3> HIDE DEF upTo
    <3> QED BY <2>1, <2>2 DEF Max
  <2> QED BY <2>1, <2>3
<1>5. ASSUME NEW n \in Nat
      PROVE  round[upTo(n)] = IF b[n] > end THEN upTo(n) ELSE upTo(n + 1)
  <2>1. round[upTo(n)] = IF b[n] > end THEN upTo(n) ELSE upTo(n) \cup {NextBucket(z, b[n], g)}
    <3> HIDE DEF upTo
    <3> QED BY <1>4
  <2>2. upTo(n) \cup {NextBucket(z, b[n], g)} = upTo(n + 1)
    <3>1. 0 .. n + 1 = (0 .. n) \cup {n + 1} /\ NextBucket(z, b[n], g) = b[n + 1]
      OBVIOUS
    <3> QED BY <3>1
  <2> HIDE DEF upTo, round
  <2> QED BY <2>1, <2>2
<1> HIDE DEF round
<1>6. Holds(all)
  <2> SUFFICES ASSUME NEW n \in Nat
               PROVE  upTo(last(n)) = IF n = 0 THEN {b[0]} ELSE round[all[n - 1]]
    OBVIOUS
  <2>1. CASE n = 0
    <3>1. last(n) = 0
      BY <1>2, <2>1
    <3>2. 0 .. 0 = {0}
      OBVIOUS
    <3> QED BY <2>1, <3>1, <3>2
  <2>2. CASE n # 0
    <3>1. n - 1 \in Nat /\ all[n - 1] = upTo(last(n - 1)) /\ last(n - 1) \in Nat
      BY <1>2, <2>2
    <3>2. round[upTo(last(n - 1))] =
            IF b[last(n - 1)] > end THEN upTo(last(n - 1)) ELSE upTo(last(n - 1) + 1)
      BY <1>5, <3>1
    <3> HIDE DEF upTo, all
    <3>3. CASE n <= m
      <4>1. last(n) = n /\ last(n - 1) = n - 1 /\ n - 1 < m /\ n = (n - 1) + 1
        BY <1>2, <2>2, <3>3
      <4>2. ~(b[n - 1] > end)
        BY <1>2, <3>1, <4>1
      <4> HIDE DEF last
      <4> QED BY <2>2, <3>1, <3>2, <4>1, <4>2
    <3>4. CASE ~(n <= m)
      <4>1. last(n) = m /\ last(n - 1) = m
        BY <1>2, <2>2, <3>4
      <4> HIDE DEF last
      <4> QED BY <1>2, <2>2, <3>1, <3>2, <4>1
    <3> QED BY <3>3, <3>4
  <2> QED BY <2>1, <2>2
<1> HIDE DEF all
\* There is one such function.
<1>7. ASSUME NEW f, Holds(f) PROVE \A n \in Nat : f[n] = all[n]
  <2> DEFINE wrong == {n \in Nat : f[n] # all[n]}
  <2>1. SUFFICES ASSUME wrong # {} PROVE FALSE
    OBVIOUS
  <2>2. PICK n \in wrong : \A i \in wrong : n <= i
    <3>1. wrong \subseteq Nat
      OBVIOUS
    <3> HIDE DEF wrong
    <3> QED BY <2>1, <3>1, LeastNat
  <2>3. n \in Nat /\ f[n] # all[n]
    OBVIOUS
  <2>4. /\ f[n] = IF n = 0 THEN {b[0]} ELSE round[f[n - 1]]
        /\ all[n] = IF n = 0 THEN {b[0]} ELSE round[all[n - 1]]
    BY <1>6, <1>7, <2>3
  <2>5. n # 0
    BY <2>3, <2>4
  <2>6. n - 1 \in Nat /\ ~(n <= n - 1)
    BY <2>3, <2>5
  <2>7. f[n - 1] = all[n - 1]
    BY <2>2, <2>6
  <2> QED BY <2>3, <2>4, <2>5, <2>7
<1>8. Visited(z, p, now, g) = (CHOOSE f : Holds(f))[rounds]
  BY <1>0 DEF round
<1>9. Visited(z, p, now, g) = all[rounds]
  <2> HIDE DEF Holds
  <2>1. Holds(CHOOSE f : Holds(f))
    BY <1>6
  <2> QED BY <1>7, <1>8, <2>1
<1>10. all[rounds] = {b[i] : i \in 0 .. m}
  BY <1>2 DEF all
<1>11. \A i \in 0 .. m : b[i] <= b[m]
  BY <1>2, <1>3
<1>12. \A i \in Nat : b[i] <= end => i < m
  <2> SUFFICES ASSUME NEW i \in Nat, b[i] <= end, m <= i PROVE FALSE
    BY <1>2
  <2>1. b[m] <= b[i] /\ b[m] \in Int /\ b[i] \in Int
    BY <1>2, <1>3
  <2> QED BY <1>2, <2>1
<1> QED BY <1>2, <1>9, <1>10, <1>11, <1>12 DEF end
-----------------------------------------------------------------------------
(***************************************************************************)
(* Charts of hours.                                                        *)
(***************************************************************************)
LEMMA Widths ==
  /\ Width("hour") = 2 /\ Width("day") = 48 /\ Day = 48
  /\ Width("month") \in Nat /\ Width("month") >= 48 /\ Width("month") = 48 * MonthDays
<1>1. MonthDays \in Nat /\ MonthDays >= 1
  BY TimelineAssumption
<1>2. Width("hour") = 2 /\ Width("day") = 48 /\ Day = 48 /\ Width("month") = MonthDays * 48
  BY DEF Width, Day, Hour
<1>3. \A m \in Nat : m >= 1 => m * 48 = 48 * m /\ m * 48 >= 48
  OBVIOUS
<1> QED BY <1>1, <1>2, <1>3

LEMMA EvenIsMultiple ==
  ASSUME NEW x \in Int
  PROVE  x % 2 = 0 <=> Multiple(x, 2)
<1>1. x % 2 = x - 2 * (x \div 2) /\ x \div 2 \in Int
  OBVIOUS
<1>2. ASSUME x % 2 = 0 PROVE Multiple(x, 2)
  <2>1. x = 2 * (x \div 2)
    BY <1>1, <1>2
  <2> QED BY <1>1, <2>1 DEF Multiple
<1>3. ASSUME Multiple(x, 2) PROVE x % 2 = 0
  <2>1. PICK q \in Int : x = 2 * q
    BY <1>3 DEF Multiple
  <2> QED BY <2>1
<1> QED BY <1>2, <1>3

\* The start of an hour, and how far it can be from the time asked for.
LEMMA HourKey ==
  ASSUME NEW z \in Zone, WholeHours(z), NEW t \in Int
  PROVE  LET k == BucketStart(z, t, "hour")
         IN  /\ k \in Int /\ k % 2 = 0
             /\ t - 1 <= k \/ (z.shift < 0 /\ t + z.shift - 1 <= k)
             /\ k <= t \/ (z.shift > 0 /\ k <= t + z.shift)
             /\ t % 2 = 0 => k = t
             /\ z.at % 2 = 0 => k <= t /\ t < k + 2
<1> DEFINE l == Local(z, t)
           e == Floor(l, "hour")
           fold == Fold(z, t)
<1>1. /\ z.at \in Nat /\ z.shift \in Int /\ z.shift % 2 = 0
      /\ l \in Int /\ fold \in {0, 1}
  BY ClockFacts, LocalFacts DEF WholeHours, Hour
<1>2. /\ l = IF t < z.at THEN t ELSE t + z.shift
      /\ fold = IF z.at <= t /\ t < z.at - z.shift THEN 1 ELSE 0
  BY DEF Local, Fold
<1>3. e \in Int /\ e % 2 = 0 /\ e <= l /\ l < e + 2
  <2>1. e \in Int /\ Multiple(e, 2) /\ e <= l /\ l < e + 2
    BY <1>1, Widths, FloorOf
  <2> QED BY <2>1, EvenIsMultiple
<1>4. Instant(z, e, fold) =
        IF e < z.at THEN IF fold = 1 /\ z.at <= e - z.shift THEN e - z.shift ELSE e
                    ELSE IF z.at <= e - z.shift THEN e - z.shift ELSE e
  <2> HIDE DEF e, fold
  <2> QED BY <1>1, <1>3, InstantValue
<1>5. BucketStart(z, t, "hour") = Instant(z, e, fold)
  BY DEF BucketStart
<1> HIDE DEF l, e, fold
<1> DEFINE k == Instant(z, e, fold)
<1>6. k \in Int /\ k % 2 = 0
  BY <1>1, <1>3, <1>4
<1>7. t - 1 <= k \/ (z.shift < 0 /\ t + z.shift - 1 <= k)
  BY <1>1, <1>2, <1>3, <1>4
<1>8. k <= t \/ (z.shift > 0 /\ k <= t + z.shift)
  BY <1>1, <1>2, <1>3, <1>4
<1>9. ASSUME t % 2 = 0 PROVE k = t
  <2>1. e = l
    BY <1>1, <1>2, <1>3, <1>9
  <2> QED BY <1>1, <1>2, <1>4, <2>1
<1>10. ASSUME z.at % 2 = 0 PROVE k <= t /\ t < k + 2
  BY <1>1, <1>2, <1>3, <1>4, <1>10
<1> QED BY <1>5, <1>6, <1>7, <1>8, <1>9, <1>10

LEMMA HourNext ==
  ASSUME NEW z \in Zone, WholeHours(z), NEW k \in Int, k % 2 = 0
  PROVE  NextBucket(z, k, "hour") = k + 2
<1>1. k + 2 \in Int /\ (k + 2) % 2 = 0
  OBVIOUS
<1>2. BucketStart(z, k + 2, "hour") = k + 2
  BY <1>1, HourKey
<1> QED BY <1>2 DEF NextBucket, Hour

\* The days of a window, in half-hours.
LEMMA WindowFacts ==
  ASSUME NEW now \in ChartTime, NEW p \in Period
  PROVE  /\ now \in Int /\ Since(p, now) \in Int /\ now \in Nat
         /\ PeriodDays[p] \in Nat \ {0} /\ now - Since(p, now) = 48 * PeriodDays[p]
         /\ Since(p, now) <= now
<1>1. now \in Nat /\ PeriodDays[p] \in Nat \ {0}
  BY TimelineAssumption
<1>2. Since(p, now) = now - PeriodDays[p] * 48
  BY Widths DEF Since
<1> QED BY <1>1, <1>2

\* The keys of a chart of hours that starts at a certain time.
HourKeys(z, since) == [i \in Nat |-> BucketStart(z, since, "hour") + 2 * i]

LEMMA HourLists ==
  ASSUME NEW z \in Zone, WholeHours(z), NEW p \in Period, NEW now \in ChartTime
  PROVE  Lists(HourKeys(z, Since(p, now)), z, p, now, "hour")
<1> DEFINE start == BucketStart(z, Since(p, now), "hour")
           end == BucketStart(z, now, "hour")
           n == (now - Since(p, now)) \div Width("hour") + 4
           b == [i \in Nat |-> start + 2 * i]
<1>1. /\ now \in Int /\ Since(p, now) \in Int
      /\ PeriodDays[p] \in Nat /\ now - Since(p, now) = 48 * PeriodDays[p]
  BY WindowFacts
<1>2. n = 24 * PeriodDays[p] + 4
  BY <1>1, Widths
<1>3. /\ start \in Int /\ start % 2 = 0 /\ end \in Int
      /\ start >= Since(p, now) - 1 \/ (z.shift < 0 /\ start >= Since(p, now) + z.shift - 1)
      /\ end <= now \/ (z.shift > 0 /\ end <= now + z.shift)
  BY <1>1, HourKey
<1> HIDE DEF start, end, n
<1>4. /\ b \in [Nat -> Int] /\ b[0] = start /\ n \in Nat
      /\ \A i, j \in Nat : i < j => b[i] < b[j]
  BY <1>1, <1>2, <1>3
<1>5. ASSUME NEW i \in Nat PROVE NextBucket(z, b[i], "hour") = b[i + 1]
  <2>1. b[i] \in Int /\ b[i] % 2 = 0 /\ b[i + 1] = b[i] + 2
    BY <1>3
  <2> QED BY <2>1, HourNext
<1>6. b[n] > end
  <2>1. b[n] = start + 48 * PeriodDays[p] + 8
    BY <1>1, <1>2, <1>3
  <2> HIDE DEF b
  <2> QED BY <1>1, <1>3, <2>1, ClockFacts
<1>7. Lists(b, z, p, now, "hour")
  <2> HIDE DEF b
  <2> QED BY <1>3, <1>4, <1>5, <1>6 DEF Lists, Rounds, start, end, n
<1> QED BY <1>7 DEF HourKeys, start

-----------------------------------------------------------------------------
(***************************************************************************)
(* Charts of days and months.                                              *)
(***************************************************************************)
Long == {"day", "month"}

LEMMA LongWidth ==
  ASSUME NEW g \in Long
  PROVE  /\ Width(g) \in Nat /\ Width(g) >= 48 /\ Width(g) \in Nat \ {0}
         /\ \A d \in Int : Multiple(d, Width(g)) => Multiple(d, 48)
<1>1. Width(g) \in Nat /\ Width(g) >= 48
  BY Widths DEF Long
<1>2. ASSUME NEW d \in Int, Multiple(d, Width(g)) PROVE Multiple(d, 48)
  <2>1. CASE g = "day"
    BY <1>2, <2>1, Widths
  <2>2. CASE g = "month"
    <3>1. MonthDays \in Nat
      BY TimelineAssumption
    <3>2. PICK q \in Int : d = (48 * MonthDays) * q
      BY <1>2, <2>2, Widths DEF Multiple
    <3>3. d = 48 * (MonthDays * q) /\ MonthDays * q \in Int
      BY <3>1, <3>2
    <3> QED BY <3>3 DEF Multiple
  <2> QED BY <2>1, <2>2 DEF Long
<1> QED BY <1>1, <1>2

\* The key of a day or month is within the largest change of its midnight, and
\* back in local time in the first hours of that day.
LEMMA LongKey ==
  ASSUME NEW z \in Zone, NEW g \in Long, NEW d \in Int, Multiple(d, Width(g)), NEW f \in {0, 1}
  PROVE  LET k == Instant(z, d, f)
         IN  /\ k \in Int /\ d - 4 <= k /\ k <= d + 4
             /\ Local(z, k) \in Int /\ d <= Local(z, k) /\ Local(z, k) <= d + 4
             /\ Floor(Local(z, k), g) = d
<1> DEFINE k == Instant(z, d, f)
<1>1. k = IF d < z.at THEN IF f = 1 /\ z.at <= d - z.shift THEN d - z.shift ELSE d
                      ELSE IF z.at <= d - z.shift THEN d - z.shift ELSE d
  BY InstantValue
<1> HIDE DEF k
<1>2. k \in Int /\ d - 4 <= k /\ k <= d + 4
  BY <1>1, ClockFacts
<1>3. Local(z, k) \in Int /\ d <= Local(z, k) /\ Local(z, k) <= d + 4
  BY <1>1, ClockFacts DEF Local
<1>4. Floor(Local(z, k), g) = d
  BY <1>3, LongWidth, FloorIs
<1> QED BY <1>2, <1>3, <1>4 DEF k

Repeated(z, d) == z.at + z.shift <= d /\ d < z.at

LEMMA FoldIrrelevant ==
  ASSUME NEW z \in Zone, NEW d \in Int, ~Repeated(z, d), NEW f \in {0, 1}, NEW h \in {0, 1}
  PROVE  Instant(z, d, f) = Instant(z, d, h)
<1>1. \A x \in {0, 1} :
        Instant(z, d, x) = IF d < z.at THEN IF x = 1 /\ z.at <= d - z.shift THEN d - z.shift ELSE d
                                       ELSE IF z.at <= d - z.shift THEN d - z.shift ELSE d
  BY InstantValue
<1>2. ~(d < z.at /\ z.at <= d - z.shift)
  BY ClockFacts DEF Repeated
<1> QED BY <1>1, <1>2

LEMMA MidnightNotRepeated ==
  ASSUME NEW z \in Zone, ~RepeatsMidnight(z), NEW d \in Int, Multiple(d, 48)
  PROVE  ~Repeated(z, d)
<1> SUFFICES ASSUME Repeated(z, d) PROVE FALSE
  OBVIOUS
<1>1. /\ z.at \in Nat /\ z.shift \in Int /\ -4 <= z.shift
      /\ z.at + z.shift <= d /\ d < z.at
  BY ClockFacts DEF Repeated
<1>2. PICK q \in Int : d = 48 * q
  BY DEF Multiple
<1>3. z.at \div 48 \in Int /\ z.at % 48 < 48 /\ z.at % 48 = z.at - 48 * (z.at \div 48)
  BY <1>1
<1>4. q \in 0 .. (z.at \div 48) + 1
  <2>1. PICK a \in Int : a = z.at \div 48 /\ z.at - 48 * a < 48
    BY <1>3
  <2>2. q >= 0 /\ q <= a + 1
    BY <1>1, <1>2, <2>1
  <2> QED BY <2>1, <2>2
<1>5. d = q * Day
  BY <1>2, Widths
<1> QED BY <1>1, <1>4, <1>5, Widths DEF RepeatsMidnight

\* The fold with which a round makes a key.
NextFold(z, g, d) == IF g = "day" THEN Fold(z, d + 4) ELSE 0

LEMMA LongNext ==
  ASSUME NEW z \in Zone, NEW g \in Long, NEW d \in Int, Multiple(d, Width(g)), NEW f \in {0, 1}
  PROVE  NextBucket(z, Instant(z, d, f), g)
           = Instant(z, d + Width(g), NextFold(z, g, d + Width(g)))
<1> DEFINE k == Instant(z, d, f)
<1>1. /\ k \in Int /\ d - 4 <= k /\ k <= d + 4
      /\ Local(z, k) \in Int /\ d <= Local(z, k) /\ Local(z, k) <= d + 4
      /\ Floor(Local(z, k), g) = d
  BY LongKey
<1>2. k = IF d < z.at THEN IF f = 1 /\ z.at <= d - z.shift THEN d - z.shift ELSE d
                      ELSE IF z.at <= d - z.shift THEN d - z.shift ELSE d
  BY InstantValue
<1> HIDE DEF k
<1>3. CASE g = "month"
  BY <1>1, <1>3 DEF NextBucket, NextFold, k
<1>4. CASE g = "day"
  <2> DEFINE t == k + 52
             e == d + 48
  <2>0. t \in Int /\ e \in Int /\ Width(g) = 48
    BY <1>1, <1>4, Widths
  <2>1. NextBucket(z, k, g) = Instant(z, Floor(Local(z, t), g), Fold(z, t))
    BY <1>1, <1>4, Widths DEF NextBucket, BucketStart, Hour
  <2>2. Local(z, t) \in Int /\ e <= Local(z, t) /\ Local(z, t) < e + 48
    BY <1>1, ClockFacts DEF Local
  <2>3. Multiple(e, Width(g))
    <3>1. PICK q \in Int : d = 48 * q
      BY <2>0 DEF Multiple
    <3>2. e = 48 * (q + 1) /\ q + 1 \in Int
      BY <3>1
    <3> QED BY <2>0, <3>2 DEF Multiple
  <2>4. Floor(Local(z, t), g) = e
    <3> HIDE DEF t, e
    <3> QED BY <2>0, <2>2, <2>3, FloorIs
  <2>5. Fold(z, t) \in {0, 1} /\ Fold(z, e + 4) \in {0, 1}
    BY <2>0, LocalFacts
  <2>6. Instant(z, e, Fold(z, t)) = Instant(z, e, Fold(z, e + 4))
    <3>1. CASE Repeated(z, e)
      <4>1. k = d
        BY <1>2, <3>1, ClockFacts DEF Repeated
      <4>2. t = e + 4
        BY <4>1
      <4> QED BY <4>2
    <3>2. CASE ~Repeated(z, e)
      <4> HIDE DEF t, e
      <4> QED BY <2>0, <2>5, <3>2, FoldIrrelevant
    <3> QED BY <3>1, <3>2
  <2>7. NextFold(z, g, d + Width(g)) = Fold(z, e + 4) /\ d + Width(g) = e
    BY <1>4, <2>0 DEF NextFold
  <2> HIDE DEF t, e
  <2> QED BY <2>1, <2>4, <2>6, <2>7 DEF k
<1> QED BY <1>3, <1>4 DEF Long
\* The midnights of the days or months of a chart, from its first on, as local
\* times; and the keys the rounds make of them.
Midnight(z, since, g, i) == Floor(Local(z, since), g) + Width(g) * i

LongKeys(z, since, g) ==
  [i \in Nat |-> Instant(z, Midnight(z, since, g, i),
                         IF i = 0 THEN Fold(z, since) ELSE NextFold(z, g, Midnight(z, since, g, i)))]

KeyOf(b, z, since, g, i) ==
  LET d == Midnight(z, since, g, i)
  IN  /\ d \in Int /\ Multiple(d, Width(g)) /\ d - 4 <= b[i] /\ b[i] <= d + 4
      /\ ~Repeated(z, d) => \A f \in {0, 1} : b[i] = Instant(z, d, f)

LEMMA LongKeysFacts ==
  ASSUME NEW z \in Zone, NEW g \in Long, NEW since \in Int,
         NEW b, b = LongKeys(z, since, g)
  PROVE  /\ b \in [Nat -> Int] /\ b[0] = BucketStart(z, since, g)
         /\ \A i \in Nat : KeyOf(b, z, since, g, i)
         /\ \A i \in Nat : NextBucket(z, b[i], g) = b[i + 1]
         /\ \A i, j \in Nat : i < j => b[i] < b[j]
<1> DEFINE first == Floor(Local(z, since), g)
           w == Width(g)
           d(i) == Midnight(z, since, g, i)
           fold(i) == IF i = 0 THEN Fold(z, since) ELSE NextFold(z, g, d(i))
<1>0. \A i : d(i) = first + w * i
  BY DEF Midnight
<1> HIDE DEF d
<1>1. w \in Nat /\ w >= 48 /\ w \in Nat \ {0}
  BY LongWidth
<1>2. first \in Int /\ Multiple(first, w)
  BY <1>1, LocalFacts, FloorOf
<1> HIDE DEF first, w
<1>3. b = [i \in Nat |-> Instant(z, d(i), fold(i))]
  BY DEF LongKeys, d
<1>4. b[0] = BucketStart(z, since, g)
  <2>1. d(0) = first
    BY <1>0, <1>1, <1>2
  <2>2. b[0] = Instant(z, d(0), fold(0))
    BY <1>3
  <2>3. fold(0) = Fold(z, since)
    OBVIOUS
  <2>4. BucketStart(z, since, g) = Instant(z, first, Fold(z, since))
    BY DEF BucketStart, first
  <2> HIDE DEF fold
  <2> QED BY <2>1, <2>2, <2>3, <2>4
<1>5. ASSUME NEW i \in Nat
      PROVE  /\ d(i) \in Int /\ Multiple(d(i), w) /\ fold(i) \in {0, 1} /\ d(i + 1) = d(i) + w
  <2>1. d(i) \in Int /\ d(i + 1) = d(i) + w
    BY <1>0, <1>1, <1>2
  <2>2. Multiple(d(i), w)
    <3>1. PICK q \in Int : first = w * q
      BY <1>2 DEF Multiple
    <3>2. d(i) = w * (q + i) /\ q + i \in Int
      BY <1>0, <1>1, <3>1
    <3> QED BY <3>2 DEF Multiple
  <2>3. fold(i) \in {0, 1}
    <3>1. d(i) + 4 \in Int
      BY <2>1
    <3>2. Fold(z, since) \in {0, 1} /\ Fold(z, d(i) + 4) \in {0, 1}
      BY <3>1, LocalFacts
    <3> QED BY <3>2 DEF NextFold
  <2> QED BY <2>1, <2>2, <2>3
<1>6. \A i \in Nat : b[i] = Instant(z, d(i), fold(i))
  BY <1>3
<1> HIDE DEF fold
<1>7. ASSUME NEW i \in Nat
      PROVE  b[i] \in Int /\ d(i) - 4 <= b[i] /\ b[i] <= d(i) + 4
  BY <1>5, <1>6, LongKey DEF w
<1>8. b \in [Nat -> Int]
  BY <1>3, <1>6, <1>7
<1>9. ASSUME NEW i \in Nat, ~Repeated(z, d(i)), NEW f \in {0, 1} PROVE b[i] = Instant(z, d(i), f)
  BY <1>5, <1>6, <1>9, FoldIrrelevant
<1>10. ASSUME NEW i \in Nat PROVE NextBucket(z, b[i], g) = b[i + 1]
  <2>1. NextBucket(z, Instant(z, d(i), fold(i)), g) = Instant(z, d(i) + w, NextFold(z, g, d(i) + w))
    BY <1>5, LongNext DEF w
  <2>2. i + 1 \in Nat /\ i + 1 # 0
    OBVIOUS
  <2>3. fold(i + 1) = NextFold(z, g, d(i + 1))
    BY <2>2 DEF fold
  <2> QED BY <1>5, <1>6, <2>1, <2>2, <2>3
<1>11. ASSUME NEW i \in Nat, NEW j \in Nat, i < j PROVE b[i] < b[j]
  <2>1. w * i + w <= w * j
    BY <1>1, <1>11, StepsApart
  <2>2. d(i) + w <= d(j)
    BY <1>0, <1>1, <1>2, <2>1
  <2> QED BY <1>1, <1>5, <1>7, <2>2
<1>12. \A i \in Nat : KeyOf(b, z, since, g, i)
  BY <1>5, <1>7, <1>9 DEF KeyOf, d, w
<1> QED BY <1>4, <1>8, <1>10, <1>11, <1>12

\* Where a time's day or month starts, as far as the bounds go.
LEMMA LongFloor ==
  ASSUME NEW z \in Zone, NEW g \in Long, NEW t \in Int
  PROVE  LET e == Floor(Local(z, t), g)
         IN  /\ e \in Int /\ Multiple(e, Width(g)) /\ e <= Local(z, t) /\ Local(z, t) < e + Width(g)
             /\ BucketStart(z, t, g) = Instant(z, e, Fold(z, t))
             /\ BucketStart(z, t, g) \in Int /\ BucketStart(z, t, g) <= t + 8
             /\ t - 4 - Width(g) < e
<1> DEFINE e == Floor(Local(z, t), g)
<1>1. Local(z, t) \in Int /\ t - 4 <= Local(z, t) /\ Local(z, t) <= t + 4 /\ Fold(z, t) \in {0, 1}
  BY LocalFacts
<1>2. e \in Int /\ Multiple(e, Width(g)) /\ e <= Local(z, t) /\ Local(z, t) < e + Width(g)
  BY <1>1, LongWidth, FloorOf
<1>3. BucketStart(z, t, g) = Instant(z, e, Fold(z, t))
  BY DEF BucketStart
<1> HIDE DEF e
<1>4. BucketStart(z, t, g) \in Int /\ BucketStart(z, t, g) <= e + 4
  BY <1>1, <1>2, <1>3, LongKey
<1> QED BY <1>1, <1>2, <1>3, <1>4, LongWidth DEF e

LEMMA LongLists ==
  ASSUME NEW z \in Zone, NEW g \in Long, NEW p \in Period, NEW now \in ChartTime
  PROVE  Lists(LongKeys(z, Since(p, now), g), z, p, now, g)
<1> DEFINE since == Since(p, now)
           first == Floor(Local(z, since), g)
           end == BucketStart(z, now, g)
           w == Width(g)
           b == LongKeys(z, since, g)
           n == Rounds(p, now, g)
           span == 48 * PeriodDays[p]
<1>1. now \in Int /\ since \in Int /\ span \in Nat /\ now - since = span
  BY WindowFacts
<1>2. w \in Nat /\ w >= 48
  BY LongWidth
<1> HIDE DEF since
<1>3. /\ first \in Int /\ since - 4 - w < first /\ end \in Int /\ end <= now + 8
  BY <1>1, LongFloor
<1>4. /\ b \in [Nat -> Int] /\ b[0] = BucketStart(z, since, g)
      /\ \A i \in Nat : KeyOf(b, z, since, g, i) /\ NextBucket(z, b[i], g) = b[i + 1]
      /\ \A i, j \in Nat : i < j => b[i] < b[j]
  <2>1. since \in Int
    BY <1>1
  <2> HIDE DEF first, end, w, n, span
  <2>2. \A c : c = LongKeys(z, since, g) =>
          /\ c \in [Nat -> Int] /\ c[0] = BucketStart(z, since, g)
          /\ \A i \in Nat : KeyOf(c, z, since, g, i)
          /\ \A i \in Nat : NextBucket(z, c[i], g) = c[i + 1]
          /\ \A i, j \in Nat : i < j => c[i] < c[j]
    BY <2>1, LongKeysFacts
  <2> QED BY <2>2
<1>5. n = span \div w + 4
  BY <1>1 DEF Rounds, since
<1> HIDE DEF first, end, w, b, n, span
<1>6. PICK a \in Int, r \in 0 .. w - 1 : a = span \div w /\ r = span - w * a
  <2>1. span \div w \in Int /\ span % w \in 0 .. w - 1 /\ span % w = span - w * (span \div w)
    BY <1>1, <1>2
  <2> QED BY <2>1
<1>7. a >= 0
  <2> SUFFICES ASSUME a <= -1 PROVE FALSE
    OBVIOUS
  <2>1. w * a <= -w
    BY <1>2
  <2> QED BY <1>1, <1>2, <1>6, <2>1
<1>8. n \in Nat /\ w * n = w * a + 4 * w
  BY <1>2, <1>5, <1>6, <1>7
<1>9. b[n] > end
  <2> DEFINE d == Midnight(z, since, g, n)
  <2>1. KeyOf(b, z, since, g, n) /\ b[n] \in Int
    BY <1>4, <1>8
  <2>2. d \in Int /\ d - 4 <= b[n]
    BY <2>1 DEF KeyOf
  <2>3. d = first + w * n
    BY DEF Midnight, first, w
  <2> HIDE DEF d
  <2>4. w * a > span - w /\ w * a \in Int
    BY <1>1, <1>2, <1>6
  <2>5. d > since + span + 2 * w - 4
    BY <1>1, <1>2, <1>3, <1>8, <2>2, <2>3, <2>4
  <2> QED BY <1>1, <1>2, <1>3, <2>1, <2>2, <2>5
<1> QED BY <1>3, <1>4, <1>8, <1>9 DEF Lists, since, end, b, n
-----------------------------------------------------------------------------
LEMMA ListsEnd ==
  ASSUME NEW z, NEW p, NEW now, NEW g, NEW b, Lists(b, z, p, now, g)
  PROVE  Max(Visited(z, p, now, g)) > BucketStart(z, now, g)
<1>1. b \in [Nat -> Int]
  BY DEF Lists
<1>2. PICK m \in Nat : /\ Visited(z, p, now, g) = {b[i] : i \in 0 .. m}
                       /\ b[m] > BucketStart(z, now, g) /\ \A i \in 0 .. m : b[i] <= b[m]
  BY LoopVisits
<1> DEFINE keys == {b[i] : i \in 0 .. m}
<1>3. b[m] \in keys /\ \A x \in keys : x \in Int /\ b[m] >= x
  BY <1>1, <1>2
<1> HIDE DEF keys
<1>4. \A x \in keys : (\A y \in keys : x >= y) <=> x = b[m]
  BY <1>3
<1>5. Max(keys) = b[m]
  BY <1>3, <1>4 DEF Max
<1> QED BY <1>2, <1>5 DEF keys

LEMMA ChartFacts ==
  ASSUME NEW c \in Charts
  PROVE  /\ c.zone \in Zone /\ c.period \in Period /\ c.now \in ChartTime
         /\ c.grain = "hour" \/ c.grain \in Long
<1>1. PICK z \in Zone, p \in Period, now \in ChartTime, requested \in Grain :
         c = [zone |-> z, period |-> p, now |-> now, grain |-> ResolveGrain(p, requested)]
  BY DEF Charts
<1>2. ResolveGrain(p, requested) = "hour" \/ ResolveGrain(p, requested) \in Long
  BY DEF ResolveGrain, GrainAllowed, TimelineGrain, Grain, Period, Long
<1> QED BY <1>1, <1>2

\* The loop over the buckets of a chart's window ends, for every zone whose clock
\* changes by no more than two hours, every window and every month's length
\* (_next_bucket: "+26h clears the boundary even on a DST-shortened day"); hours
\* are to be changed by whole hours.
THEOREM ChartsEnd == ChartEnds
<1> SUFFICES ASSUME NEW c \in Charts, WholeHours(c.zone) \/ c.grain # "hour"
             PROVE  Max(Visited(c.zone, c.period, c.now, c.grain)) > BucketStart(c.zone, c.now, c.grain)
  BY DEF ChartEnds
<1>1. /\ c.zone \in Zone /\ c.period \in Period /\ c.now \in ChartTime
      /\ c.grain = "hour" \/ c.grain \in Long
  BY ChartFacts
<1>2. CASE c.grain = "hour"
  BY <1>1, <1>2, HourLists, ListsEnd
<1>3. CASE c.grain \in Long
  BY <1>1, <1>3, LongLists, ListsEnd
<1> QED BY <1>1, <1>2, <1>3

\* An hour of the window is one of those the rounds make.
LEMMA HourCharted ==
  ASSUME NEW z \in Zone, WholeHours(z), z.at % Hour = 0, NEW p \in Period, NEW now \in ChartTime,
         NEW t \in Since(p, now) .. now
  PROVE  BucketStart(z, t, "hour") \in Buckets(z, p, now, "hour")
<1> DEFINE since == Since(p, now)
           start == BucketStart(z, since, "hour")
           end == BucketStart(z, now, "hour")
           key == BucketStart(z, t, "hour")
           b == HourKeys(z, since)
<1>1. now \in Int /\ since \in Int /\ t \in Int /\ since <= t /\ t <= now
  BY WindowFacts
<1>2. z.at % 2 = 0
  BY DEF Hour
<1> HIDE DEF since
<1>3. /\ start \in Int /\ start % 2 = 0 /\ start <= since /\ since < start + 2
      /\ end \in Int /\ end % 2 = 0 /\ end <= now /\ now < end + 2
      /\ key \in Int /\ key % 2 = 0 /\ key <= t /\ t < key + 2
  BY <1>1, <1>2, HourKey
<1>4. Lists(b, z, p, now, "hour")
  BY HourLists DEF since
<1>5. PICK m \in Nat : /\ Visited(z, p, now, "hour") = {b[i] : i \in 0 .. m}
                       /\ \A i \in Nat : b[i] <= end => i < m
  BY <1>4, LoopVisits
<1>6. \A i \in Nat : b[i] = start + 2 * i
  BY DEF HourKeys
<1> HIDE DEF start, end, key, b
<1>7. key <= end /\ start <= key
  BY <1>1, <1>3
<1>8. PICK i \in Nat : key = start + 2 * i
  <2>1. (key - start) % 2 = 0 /\ key - start \in Nat
    BY <1>3, <1>7
  <2>2. Multiple(key - start, 2)
    BY <2>1, EvenIsMultiple
  <2>3. PICK q \in Int : key - start = 2 * q
    BY <2>2 DEF Multiple
  <2>4. q \in Nat /\ key = start + 2 * q
    BY <1>3, <2>1, <2>3
  <2> QED BY <2>4
<1>9. key = b[i] /\ i \in 0 .. m
  BY <1>5, <1>6, <1>7, <1>8
<1>10. key \in Visited(z, p, now, "hour")
  BY <1>5, <1>9
<1> QED BY <1>7, <1>10 DEF Buckets, key, end

\* Local time may go back, but over no midnight that is not repeated.
LEMMA DaysInOrder ==
  ASSUME NEW z \in Zone, ~RepeatsMidnight(z), NEW g \in Long,
         NEW s \in Int, NEW t \in Int, s <= t
  PROVE  \E n \in Nat : Floor(Local(z, t), g) = Floor(Local(z, s), g) + Width(g) * n
<1> DEFINE d == Floor(Local(z, s), g)
           e == Floor(Local(z, t), g)
           w == Width(g)
<1>1. /\ d \in Int /\ Multiple(d, w) /\ d <= Local(z, s) /\ Local(z, s) < d + w
      /\ e \in Int /\ Multiple(e, w) /\ e <= Local(z, t) /\ Local(z, t) < e + w
  BY LongFloor
<1>2. w \in Nat \ {0} /\ Multiple(d, 48)
  BY <1>1, LongWidth
<1> HIDE DEF d, e, w
<1>3. ASSUME e < d PROVE FALSE
  <2>1. PICK n \in Nat \ {0} : d = e + w * n
    BY <1>1, <1>2, <1>3, MultiplesApart
  <2>2. w * n >= w
    BY <1>2, StepsApart
  <2>3. Local(z, t) < d
    <3>1. Local(z, t) \in Int /\ w * n \in Int
      BY <1>2, LocalFacts
    <3> QED BY <1>1, <1>2, <2>1, <2>2, <3>1
  <2>4. ~Repeated(z, d)
    BY <1>1, <1>2, MidnightNotRepeated
  <2> QED BY <1>1, <2>3, <2>4, ClockFacts DEF Local, Repeated
<1>4. CASE d = e
  <2>1. e = d + w * 0
    BY <1>1, <1>2, <1>4
  <2> QED BY <2>1 DEF d, e, w
<1>5. CASE d < e
  <2>1. PICK n \in Nat \ {0} : e = d + w * n
    BY <1>1, <1>2, <1>5, MultiplesApart
  <2> QED BY <2>1 DEF d, e, w
<1> QED BY <1>1, <1>3, <1>4, <1>5

LEMMA LongCharted ==
  ASSUME NEW z \in Zone, ~RepeatsMidnight(z), NEW g \in Long, NEW p \in Period, NEW now \in ChartTime,
         NEW t \in Since(p, now) .. now
  PROVE  BucketStart(z, t, g) \in Buckets(z, p, now, g)
<1> DEFINE since == Since(p, now)
           first == Floor(Local(z, since), g)
           b == LongKeys(z, since, g)
           w == Width(g)
<1>1. now \in Int /\ since \in Int /\ t \in Int /\ since <= t /\ t <= now
  BY WindowFacts
<1>2. w \in Nat \ {0} /\ w \in Nat
  BY LongWidth
<1> HIDE DEF since
<1>3. first \in Int
  BY <1>1, LongFloor
<1>4. Lists(b, z, p, now, g)
  BY LongLists DEF since
<1>5. PICK m \in Nat : /\ Visited(z, p, now, g) = {b[i] : i \in 0 .. m}
                       /\ \A i \in Nat : b[i] <= BucketStart(z, now, g) => i < m
  BY <1>4, LoopVisits
<1>6. /\ b \in [Nat -> Int] /\ \A i, j \in Nat : i < j => b[i] < b[j]
      /\ \A i \in Nat : KeyOf(b, z, since, g, i)
  BY <1>1, LongKeysFacts
\* The bucket of a time at or after the first is the n-th key.
<1>7. ASSUME NEW s \in Int, since <= s, NEW n \in Nat, Floor(Local(z, s), g) = first + w * n
      PROVE  BucketStart(z, s, g) = b[n]
  <2> DEFINE e == first + w * n
  <2>1. KeyOf(b, z, since, g, n) /\ Midnight(z, since, g, n) = e
    BY <1>6 DEF Midnight
  <2>2. e \in Int /\ Multiple(e, w)
    BY <2>1 DEF KeyOf
  <2>3. ~Repeated(z, e)
    BY <2>2, LongWidth, MidnightNotRepeated
  <2>4. \A f \in {0, 1} : b[n] = Instant(z, e, f)
    BY <2>1, <2>3 DEF KeyOf
  <2>5. BucketStart(z, s, g) = Instant(z, e, Fold(z, s)) /\ Fold(z, s) \in {0, 1}
    BY <1>7, LocalFacts DEF BucketStart
  <2> HIDE DEF e
  <2> QED BY <2>4, <2>5
<1>8. PICK n \in Nat : Floor(Local(z, t), g) = first + w * n
  BY <1>1, DaysInOrder
<1>9. PICK k \in Nat : Floor(Local(z, now), g) = Floor(Local(z, t), g) + w * k
  BY <1>1, DaysInOrder
<1>10. Floor(Local(z, now), g) = first + w * (n + k)
  <2>1. w * (n + k) = w * n + w * k /\ w * n \in Int /\ w * k \in Int
    BY <1>2
  <2> HIDE DEF first, w
  <2> QED BY <1>3, <1>8, <1>9, <2>1
<1> HIDE DEF first, b, w
<1>11. BucketStart(z, t, g) = b[n] /\ BucketStart(z, now, g) = b[n + k]
  <2>1. n + k \in Nat /\ since <= now
    BY <1>1
  <2> QED BY <1>1, <1>7, <1>8, <1>10, <2>1
<1>12. b[n] <= b[n + k] /\ b[n] \in Int
  <2>1. CASE k = 0
    BY <1>6, <2>1
  <2>2. CASE k # 0
    BY <1>6, <2>2
  <2> QED BY <2>1, <2>2
<1>13. n \in 0 .. m
  BY <1>5, <1>11, <1>12
<1> QED BY <1>5, <1>11, <1>12, <1>13 DEF Buckets

\* Every event of a chart's window has a bucket, and one that the rounds make
\* (_timeline: "One point per bucket across the WHOLE window"), for every zone
\* whose clock changes by no more than two hours; but for a day with two
\* midnights, and an hour in which the clock is changed.
THEOREM EveryRowIsCharted == EveryRowCharted
<1> SUFFICES ASSUME NEW c \in Charts,
                    IF c.grain = "hour" THEN WholeHours(c.zone) /\ c.zone.at % Hour = 0
                                        ELSE ~RepeatsMidnight(c.zone),
                    NEW t \in Since(c.period, c.now) .. c.now
             PROVE  BucketStart(c.zone, t, c.grain) \in Buckets(c.zone, c.period, c.now, c.grain)
  BY DEF EveryRowCharted
<1>1. /\ c.zone \in Zone /\ c.period \in Period /\ c.now \in ChartTime
      /\ c.grain = "hour" \/ c.grain \in Long
  BY ChartFacts
<1>2. CASE c.grain = "hour"
  BY <1>1, <1>2, HourCharted
<1>3. CASE c.grain \in Long
  <2>1. c.grain # "hour"
    BY <1>3 DEF Long
  <2> QED BY <1>1, <1>3, <2>1, LongCharted
<1> QED BY <1>1, <1>2, <1>3

\* Both at once, as the run has it (_timeline in scripts/dashboard.py).
THEOREM ChartsAreWhole == EveryChartWhole
BY ChartsEnd, EveryRowIsCharted DEF EveryChartWhole
=============================================================================
