-------------------------- MODULE ImageBuildProofs --------------------------
(***************************************************************************)
(* Theorems about ImageBuild, for any names, contents, layers, recipes and *)
(* number of stages.                                                       *)
(*                                                                         *)
(* A layer is a sequence of members and applying it a fold over them, of   *)
(* which only what it does to each name matters: Makes says that a         *)
(* sequence of members turns one tree into another, Blocks that it does so *)
(* name by name.  DiffReplays and CopyReplays are what a cached layer owes *)
(* to the step it stands for; BuildInv carries them through the steps and  *)
(* the stages of a build.                                                  *)
(*                                                                         *)
(* What the folds compute is proved by the least number at which they      *)
(* would go wrong: see Least and Recursion.                                *)
(***************************************************************************)
EXTENDS ImageBuild, Integers, TLAPS, SequenceTheorems, FiniteSetTheorems, WellFoundedInduction

-----------------------------------------------------------------------------
(* Induction and recursion on the natural numbers, for sets and functions. *)

LEMMA Least ==
  ASSUME NEW S \in SUBSET Nat, S # {}
  PROVE  \E n \in S : \A m \in S : n <= m
<1> DEFINE R == OpToRel(<, Nat)
<1>1. IsWellFoundedOn(R, Nat)
  BY NatLessThanWellFounded
<1>2. \A a, b \in Nat : a < b => <<a, b>> \in R
  BY DEF OpToRel
<1> HIDE DEF R
<1>3. PICK n \in S : \A m \in S : <<m, n>> \notin R
  BY <1>1, WFMin
<1>4. \A m \in S : ~(m < n)
  BY <1>2, <1>3
<1> QED
  BY <1>4

\* Induction over the natural numbers, for a set.
LEMMA Induct ==
  ASSUME NEW S, 0 \in S, \A n \in Nat : n \in S => n + 1 \in S
  PROVE  Nat \subseteq S
<1> SUFFICES ASSUME Nat \ S # {}
             PROVE  FALSE
  OBVIOUS
<1>1. PICK n \in Nat \ S : \A m \in Nat \ S : n <= m
  BY Least
<1>2. n - 1 \in Nat /\ n - 1 \in S
  BY <1>1
<1> QED
  BY <1>1, <1>2

\* And along an interval.
LEMMA InductTo ==
  ASSUME NEW n \in Nat, NEW S, 0 \in S, \A i \in 1..n : i - 1 \in S => i \in S
  PROVE  0..n \subseteq S
<1> SUFFICES ASSUME (0..n) \ S # {}
             PROVE  FALSE
  OBVIOUS
<1>1. PICK i \in (0..n) \ S : \A m \in (0..n) \ S : i <= m
  <2>1. (0..n) \ S \in SUBSET Nat
    OBVIOUS
  <2> QED
    BY <2>1, Least
<1>2. i \in 1..n /\ i - 1 \in 0..n /\ i - 1 \in S
  BY <1>1
<1> QED
  BY <1>1, <1>2

\* What is below comes first: no set is without a least member.
Grounded(S, R) == \A T \in SUBSET S : T # {} => \E x \in T : \A y \in T : <<y, x>> \notin R

LEMMA GroundedInduct ==
  ASSUME NEW S, NEW R, Grounded(S, R), NEW T,
         \A x \in S : (\A y \in S : <<y, x>> \in R => y \in T) => x \in T
  PROVE  S \subseteq T
<1> SUFFICES ASSUME S \ T # {}
             PROVE  FALSE
  OBVIOUS
<1>1. PICK x \in S \ T : \A y \in S \ T : <<y, x>> \notin R
  BY DEF Grounded
<1> QED
  BY <1>1

\* A function may be defined by what it is below.
StepsUp(S, R, V, step) ==
  /\ step \in [S -> [[S -> V] -> V]]
  /\ \A x \in S : \A f, g \in [S -> V] :
       (\A y \in S : <<y, x>> \in R => f[y] = g[y]) => step[x][f] = step[x][g]

LEMMA Recursion ==
  ASSUME NEW S, NEW R, NEW V, NEW step, Grounded(S, R), V # {}, StepsUp(S, R, V, step)
  PROVE  \E f \in [S -> V] : \A x \in S : f[x] = step[x][f]
<1>0. /\ step \in [S -> [[S -> V] -> V]]
      /\ \A x \in S : \A f, g \in [S -> V] :
           (\A y \in S : <<y, x>> \in R => f[y] = g[y]) => step[x][f] = step[x][g]
  BY DEF StepsUp
<1> DEFINE Down(A) == A \in SUBSET S /\ \A x \in A : \A y \in S : <<y, x>> \in R => y \in A
           Good(A, f) == Down(A) /\ f \in [S -> V] /\ \A x \in A : f[x] = step[x][f]
           U == {x \in S : \E A \in SUBSET S : \E f \in [S -> V] : Good(A, f) /\ x \in A}
           F == [x \in S |-> CHOOSE v \in V :
                   x \in U => \E A \in SUBSET S : \E f \in [S -> V] : Good(A, f) /\ x \in A /\ v = f[x]]
<1>1. ASSUME NEW A \in SUBSET S, NEW B \in SUBSET S, NEW f \in [S -> V], NEW g \in [S -> V], Good(A, f), Good(B, g)
      PROVE  \A x \in A \cap B : f[x] = g[x]
  <2> SUFFICES ASSUME {x \in A \cap B : f[x] # g[x]} # {}
               PROVE  FALSE
    OBVIOUS
  <2>1. PICK x \in A \cap B : f[x] # g[x] /\ \A y \in A \cap B : f[y] # g[y] => <<y, x>> \notin R
    <3> DEFINE D == {x \in A \cap B : f[x] # g[x]}
    <3>1. D \in SUBSET S /\ D # {}
      OBVIOUS
    <3>2. PICK x \in D : \A y \in D : <<y, x>> \notin R
      BY <3>1 DEF Grounded
    <3> QED
      BY <3>2
  <2>2. \A y \in S : <<y, x>> \in R => f[y] = g[y]
    BY <1>1, <2>1
  <2>3. step[x][f] = step[x][g]
    BY <1>0, <2>2
  <2> QED
    BY <1>1, <2>1, <2>3
<1>2. F \in [S -> V]
  <2>1. ASSUME NEW x \in S
        PROVE  \E v \in V : x \in U => \E A \in SUBSET S : \E f \in [S -> V] : Good(A, f) /\ x \in A /\ v = f[x]
    <3>1. CASE x \in U
      <4>1. PICK A \in SUBSET S, f \in [S -> V] : Good(A, f) /\ x \in A
        BY <3>1
      <4> HIDE DEF Good, U
      <4> QED
        BY <4>1
    <3>2. CASE x \notin U
      BY <3>2
    <3> QED
      BY <3>1, <3>2
  <2> HIDE DEF U, Good
  <2> QED
    BY <2>1
<1>3. ASSUME NEW A \in SUBSET S, NEW f \in [S -> V], Good(A, f), NEW x \in A
      PROVE  F[x] = f[x]
  <2>1. x \in U
    BY <1>3
  <2>2. \E B \in SUBSET S : \E g \in [S -> V] : Good(B, g) /\ x \in B /\ F[x] = g[x]
    <3>1. \E v \in V : x \in U => \E B \in SUBSET S : \E g \in [S -> V] : Good(B, g) /\ x \in B /\ v = g[x]
      <4> HIDE DEF U, Good
      <4> QED
        BY <1>3
    <3> HIDE DEF U, Good
    <3> QED
      BY <2>1, <3>1
  <2> HIDE DEF U, F, Good
  <2> QED
    BY <1>1, <1>3, <2>2
<1>4. Good(U, F)
  <2>1. ASSUME NEW x \in U
        PROVE  /\ \A y \in S : <<y, x>> \in R => y \in U
               /\ F[x] = step[x][F]
    <3>1. PICK A \in SUBSET S, f \in [S -> V] : Good(A, f) /\ x \in A
      BY <2>1
    <3>2. A \subseteq U
      BY <3>1
    <3>3. \A y \in A : F[y] = f[y]
      <4> HIDE DEF F, U, Good
      <4> QED
        BY <1>3, <3>1
    <3>4. \A y \in S : <<y, x>> \in R => y \in A
      BY <3>1
    <3>5. step[x][F] = step[x][f]
      <4> HIDE DEF F, U, Good
      <4> QED
        BY <1>0, <1>2, <3>1, <3>3, <3>4
    <3>6. f[x] = step[x][f]
      BY <3>1
    <3> HIDE DEF F, U
    <3> QED
      BY <3>1, <3>2, <3>3, <3>4, <3>5, <3>6
  <2>2. U \in SUBSET S
    OBVIOUS
  <2> HIDE DEF F, U
  <2> QED
    BY <1>2, <2>1, <2>2
<1>5. S \subseteq U
  <2> SUFFICES ASSUME S \ U # {}
               PROVE  FALSE
    OBVIOUS
  <2>1. PICK x \in S \ U : \A y \in S \ U : <<y, x>> \notin R
    <3>1. S \ U \in SUBSET S
      OBVIOUS
    <3> HIDE DEF U
    <3> QED
      BY <3>1 DEF Grounded
  <2> DEFINE G == [F EXCEPT ![x] = step[x][F]]
             W == U \cup {x}
  <2>2. step[x][F] \in V
    <3> HIDE DEF F, U
    <3> QED
      BY <1>0, <1>2, <2>1
  <2>3. G \in [S -> V] /\ G[x] = step[x][F] /\ \A y \in S : y # x => G[y] = F[y]
    <3> HIDE DEF F, U
    <3> QED
      BY <1>2, <2>1, <2>2
  <2>4. Down(W)
    <3>1. Down(U)
      BY <1>4
    <3> HIDE DEF U, F
    <3> QED
      BY <2>1, <3>1
  <2>5. ASSUME NEW y \in W
        PROVE  G[y] = step[y][G]
    <3>1. \A z \in S : <<z, y>> \in R => z # x
      <4>1. CASE y = x
        <5>1. <<x, x>> \notin R
          BY <2>1
        <5> QED
          BY <4>1, <5>1
      <4>2. CASE y \in U
        <5>1. \A z \in S : <<z, y>> \in R => z \in U
          BY <1>4, <4>2
        <5> HIDE DEF U
        <5> QED
          BY <2>1, <5>1
      <4> HIDE DEF U
      <4> QED
        BY <2>5, <4>1, <4>2
    <3>2. y \in S
      BY <2>5
    <3>3. step[y][G] = step[y][F]
      <4> HIDE DEF G, F, U
      <4> QED
        BY <1>0, <1>2, <2>3, <3>1, <3>2
    <3>4. y # x => F[y] = step[y][F]
      <4>1. y # x => y \in U
        BY <2>5
      <4>2. \A z \in U : F[z] = step[z][F]
        BY <1>4
      <4> HIDE DEF F, U
      <4> QED
        BY <4>1, <4>2
    <3> HIDE DEF G, F, U
    <3> QED
      BY <2>3, <3>2, <3>3, <3>4
  <2>6. Good(W, G)
    <3> HIDE DEF G, F, U, W
    <3> QED
      BY <2>3, <2>4, <2>5
  <2>7. x \in U
    <3>1. W \in SUBSET S /\ x \in W
      OBVIOUS
    <3> HIDE DEF G, W, F
    <3> QED
      BY <2>3, <2>6, <3>1
  <2> QED
    BY <2>1, <2>7
<1>6. \A x \in S : F[x] = step[x][F]
  <2>1. \A x \in U : F[x] = step[x][F]
    BY <1>4
  <2> HIDE DEF F, U
  <2> QED
    BY <1>5, <2>1
<1> HIDE DEF F
<1> QED
  BY <1>2, <1>6
\* What comes first by one count, and by another where that is equal.
Before(S, a, b) ==
  {p \in S \X S : a[p[1]] < a[p[2]] \/ (a[p[1]] = a[p[2]] /\ b[p[1]] < b[p[2]])}

LEMMA BeforeGrounded ==
  ASSUME NEW S, NEW a \in [S -> Nat], NEW b \in [S -> Nat]
  PROVE  Grounded(S, Before(S, a, b))
<1> SUFFICES ASSUME NEW T \in SUBSET S, T # {}
             PROVE  \E x \in T : \A y \in T : <<y, x>> \notin Before(S, a, b)
  BY DEF Grounded
<1>1. PICK n \in {a[x] : x \in T} : \A m \in {a[x] : x \in T} : n <= m
  <2>1. {a[x] : x \in T} \in SUBSET Nat /\ {a[x] : x \in T} # {}
    OBVIOUS
  <2> QED
    BY <2>1, Least
<1> DEFINE U == {x \in T : a[x] = n}
<1>2. PICK k \in {b[x] : x \in U} : \A m \in {b[x] : x \in U} : k <= m
  <2>1. {b[x] : x \in U} \in SUBSET Nat /\ {b[x] : x \in U} # {}
    BY <1>1
  <2> HIDE DEF U
  <2> QED
    BY <2>1, Least
<1>3. PICK x \in U : b[x] = k
  BY <1>2
<1>4. \A y \in T : <<y, x>> \notin Before(S, a, b)
  <2> SUFFICES ASSUME NEW y \in T, <<y, x>> \in Before(S, a, b)
               PROVE  FALSE
    OBVIOUS
  <2>1. n <= a[y] /\ a[x] = n
    BY <1>1, <1>3
  <2>2. a[x] \in Nat /\ a[y] \in Nat /\ b[x] \in Nat /\ b[y] \in Nat
    BY <1>3
  <2>3. a[y] < a[x] \/ (a[y] = a[x] /\ b[y] < b[x])
    BY DEF Before
  <2>4. y \in U /\ b[y] < k
    BY <1>3, <2>1, <2>2, <2>3
  <2>5. k <= b[y]
    BY <1>2, <2>4
  <2> QED
    BY <1>3, <2>2, <2>4, <2>5
<1> QED
  BY <1>4, <1>3

-----------------------------------------------------------------------------
(* Folds: a fold over a sequence or over the names, as the run of its steps, *)
(* and what applying one member or a layer does to a tree.                 *)

LEMMA MaxIs ==
  ASSUME NEW n \in Nat, NEW s \in SUBSET (1..n), s # {}
  PROVE  Max(s) \in s /\ \A y \in s : y <= Max(s)
<1> DEFINE D == {n - y : y \in s}
<1>1. D \in SUBSET Nat /\ D # {}
  <2>1. \A y \in s : n - y \in Nat
    OBVIOUS
  <2>2. PICK y \in s : TRUE
    OBVIOUS
  <2>3. n - y \in D
    OBVIOUS
  <2> QED
    BY <2>1, <2>3
<1>2. PICK k \in D : \A m \in D : k <= m
  <2> HIDE DEF D
  <2> QED
    BY <1>1, Least
<1>3. PICK x \in s : k = n - x
  BY <1>2
<1>4. \A y \in s : n - x <= n - y
  BY <1>2, <1>3
<1>5. \A y \in s : x >= y
  BY <1>4
<1> QED
  BY <1>5 DEF Max

LEMMA MaxTo ==
  ASSUME NEW i \in Nat, i > 0
  PROVE  Max(1..i) = i /\ (1..i) \ {i} = 1..(i - 1)
<1>1. Max(1..i) \in 1..i /\ \A y \in 1..i : y <= Max(1..i)
  <2>1. 1..i \in SUBSET (1..i) /\ 1..i # {}
    OBVIOUS
  <2> QED
    BY <2>1, MaxIs
<1> QED
  BY <1>1

LEMMA SubsetsGrounded ==
  ASSUME NEW n \in Nat
  PROVE  Grounded(SUBSET (1..n), Before(SUBSET (1..n), [s \in SUBSET (1..n) |-> Cardinality(s)],
                                        [s \in SUBSET (1..n) |-> 0]))
<1>1. \A s \in SUBSET (1..n) : Cardinality(s) \in Nat
  <2> TAKE s \in SUBSET (1..n)
  <2>1. IsFiniteSet(s)
    <3>1. IsFiniteSet(1..n)
      BY FS_Interval
    <3> QED
      BY <3>1, FS_Subset
  <2> QED
    BY <2>1, FS_CardinalityType
<1> QED
  BY <1>1, BeforeGrounded

Folded(n, V, first, op, it) ==
  it \in [SUBSET (1..n) -> V] /\ \A s \in SUBSET (1..n) :
    it[s] = IF s = {} THEN first ELSE op[Max(s)][it[s \ {Max(s)}]]

LEMMA FoldExists ==
  ASSUME NEW n \in Nat, NEW V, NEW first \in V, NEW op \in [1..n -> [V -> V]]
  PROVE  \E it : Folded(n, V, first, op, it)
<1> DEFINE S == SUBSET (1..n)
           R == Before(S, [s \in S |-> Cardinality(s)], [s \in S |-> 0])
           step == [s \in S |-> [f \in [S -> V] |->
                      IF s = {} THEN first ELSE op[Max(s)][f[s \ {Max(s)}]]]]
<1>1. ASSUME NEW s \in S, s # {}
      PROVE  Max(s) \in 1..n /\ s \ {Max(s)} \in S /\ <<s \ {Max(s)}, s>> \in R
  <2>1. Max(s) \in s
    BY <1>1, MaxIs
  <2>2. IsFiniteSet(s)
    <3>1. IsFiniteSet(1..n)
      BY FS_Interval
    <3> QED
      BY <3>1, FS_Subset
  <2>3. Cardinality(s \ {Max(s)}) = Cardinality(s) - 1 /\ Cardinality(s) \in Nat
    BY <2>1, <2>2, FS_RemoveElement, FS_CardinalityType
  <2>4. s \ {Max(s)} \in S /\ Max(s) \in 1..n
    BY <2>1
  <2>5. \A r \in S : Cardinality(r) < Cardinality(s) => <<r, s>> \in R
    BY DEF Before
  <2>6. Cardinality(s \ {Max(s)}) < Cardinality(s)
    BY <2>3
  <2> HIDE DEF R
  <2> QED
    BY <2>4, <2>5, <2>6
<1>2. step \in [S -> [[S -> V] -> V]]
  <2>1. ASSUME NEW s \in S, NEW f \in [S -> V]
        PROVE  (IF s = {} THEN first ELSE op[Max(s)][f[s \ {Max(s)}]]) \in V
    <3>1. CASE s = {}
      BY <3>1
    <3>2. CASE s # {}
      <4>1. f[s \ {Max(s)}] \in V /\ op[Max(s)] \in [V -> V]
        BY <1>1, <3>2
      <4> QED
        BY <3>2, <4>1
    <3> QED
      BY <3>1, <3>2
  <2> QED
    BY <2>1
<1>3. ASSUME NEW s \in S, NEW f \in [S -> V], NEW g \in [S -> V],
             \A r \in S : <<r, s>> \in R => f[r] = g[r]
      PROVE  step[s][f] = step[s][g]
  <2>1. s # {} => f[s \ {Max(s)}] = g[s \ {Max(s)}]
    <3> HIDE DEF S, R
    <3> QED
      BY <1>1, <1>3
  <2> QED
    BY <2>1
<1>4. StepsUp(S, R, V, step)
  <2> HIDE DEF S, R, step
  <2> QED
    BY <1>2, <1>3 DEF StepsUp
<1>5. Grounded(S, R)
  BY SubsetsGrounded
<1>6. \E f \in [S -> V] : \A x \in S : f[x] = step[x][f]
  <2> HIDE DEF S, R, step
  <2> QED
    BY <1>4, <1>5, Recursion
<1> QED
  BY <1>6 DEF Folded

\* A fold as a run of its steps.
Folding(n, V, first, op, f) ==
  f \in [0..n -> V] /\ f[0] = first /\ \A i \in 1..n : f[i] = op[i][f[i - 1]]

Unfolds(n, V, first, op, C) ==
  C[{}] = first /\ \A s \in SUBSET (1..n) :
    s # {} /\ C[s \ {Max(s)}] \in V => C[s] = op[Max(s)][C[s \ {Max(s)}]]

LEMMA FoldRuns ==
  ASSUME NEW n \in Nat, NEW V, NEW first \in V, NEW op \in [1..n -> [V -> V]], NEW C,
         Unfolds(n, V, first, op, C)
  PROVE  \E f : Folding(n, V, first, op, f) /\ f[n] = C[1..n]
<1> DEFINE f == [i \in 0..n |-> C[1..i]]
           Good == {i \in 0..n : C[1..i] \in V}
<1>1. C[1..0] = first
  <2>1. 1..0 = {}
    OBVIOUS
  <2> QED
    BY <2>1 DEF Unfolds
<1>2. ASSUME NEW i \in 1..n, C[1..(i - 1)] \in V
      PROVE  C[1..i] = op[i][C[1..(i - 1)]] /\ C[1..i] \in V
  <2>1. i \in Nat \ {0} /\ 1..i \in SUBSET (1..n) /\ 1..i # {}
    OBVIOUS
  <2>2. (1..i) \ {i} = 1..(i - 1)
    BY <2>1
  <2>3. Max(1..i) = i
    BY <2>1, MaxTo
  <2>4. C[1..i] = op[i][C[1..(i - 1)]]
    BY <1>2, <2>1, <2>2, <2>3 DEF Unfolds
  <2> QED
    BY <1>2, <2>4
<1>3. 0..n \subseteq Good
  <2>1. 0 \in Good
    BY <1>1
  <2>2. ASSUME NEW i \in 1..n, i - 1 \in Good
        PROVE  i \in Good
    BY <1>2, <2>2
  <2> HIDE DEF Good
  <2> QED
    BY <2>1, <2>2, InductTo
<1>4. f \in [0..n -> V] /\ f[0] = first /\ f[n] = C[1..n]
  BY <1>1, <1>3
<1>5. \A i \in 1..n : f[i] = op[i][f[i - 1]]
  <2> TAKE i \in 1..n
  <2>1. i \in 0..n /\ i - 1 \in 0..n /\ i - 1 \in Good
    BY <1>3
  <2> QED
    BY <1>2, <2>1
<1> HIDE DEF f
<1> QED
  BY <1>4, <1>5 DEF Folding

LEMMA RunsAgree ==
  ASSUME NEW n \in Nat, NEW V, NEW first, NEW op, NEW f, NEW g,
         Folding(n, V, first, op, f), Folding(n, V, first, op, g)
  PROVE  \A i \in 0..n : f[i] = g[i]
<1> DEFINE S == {i \in 0..n : f[i] = g[i]}
<1>1. 0 \in S
  BY DEF Folding
<1>2. ASSUME NEW i \in 1..n, i - 1 \in S
      PROVE  i \in S
  BY <1>2 DEF Folding
<1> HIDE DEF S
<1>3. 0..n \subseteq S
  BY <1>1, <1>2, InductTo
<1> QED
  BY <1>3 DEF S

---------------------------------------------------------------------------
Results == Tree \cup {None}
Member ==
  {At(d, e) : d \in Top, e \in Entries \ {Absent}} \cup {In(d, v) : d \in Top, v \in Data}
  \cup {Gone(d) : d \in Top} \cup {GoneIn(d) : d \in Top}

LEMMA TopFinite == IsFiniteSet(Top)
<1>1. Tops \in Seq(Top) /\ Len(Tops) \in Nat /\ Tops \in [1..Len(Tops) -> Top]
  BY RootfsAssumption, LenProperties
<1>2. Tops \in Surjection(1..Len(Tops), Top)
  BY <1>1 DEF Surjection, Top
<1> QED
  BY <1>1, <1>2, FS_Interval, FS_Surjection

LEMMA NoneApart == None \notin Top /\ None \notin Data /\ None \notin Entries /\ None \notin Tree
  BY RootfsAssumption

LEMMA EntryForm ==
  ASSUME NEW e \in Entries
  PROVE  /\ e.kind \in {"absent", "file", "link", "dir"}
         /\ e = Absent <=> e.kind = "absent"
         /\ e.kind = "file" => e = File(e.data) /\ e.data \in Data
         /\ e.kind = "link" => e = Link(e.to) /\ e.to \in Top
         /\ e.kind = "dir" => e = Dir(e.mode, e.x) /\ e.mode \in {"plain", "special"} /\ e.x \in Data \cup {None}
         /\ X(e) = IF e.kind = "dir" THEN e.x ELSE None
<1>1. CASE e = Absent
  BY <1>1 DEF Absent, X
<1>2. CASE e \in {File(v) : v \in Data}
  BY <1>2 DEF Absent, X, File
<1>3. CASE e \in {Link(d) : d \in Top}
  BY <1>3 DEF Absent, X, Link
<1>4. CASE e \in {Dir(m, x) : m \in {"plain", "special"}, x \in Data \cup {None}}
  BY <1>4 DEF Absent, X, Dir
<1> QED
  BY <1>1, <1>2, <1>3, <1>4 DEF Entries

LEMMA EntryFrom ==
  /\ Absent \in Entries /\ Absent.kind = "absent" /\ X(Absent) = None
  /\ \A v : File(v).kind = "file" /\ File(v).data = v /\ X(File(v)) = None
  /\ \A v \in Data : File(v) \in Entries
  /\ \A d : Link(d).kind = "link" /\ Link(d).to = d /\ X(Link(d)) = None
  /\ \A d \in Top : Link(d) \in Entries
  /\ \A m, x : Dir(m, x).kind = "dir" /\ Dir(m, x).mode = m /\ Dir(m, x).x = x /\ X(Dir(m, x)) = x
  /\ \A m \in {"plain", "special"}, x \in Data \cup {None} : Dir(m, x) \in Entries
<1>1. Absent \in Entries /\ Absent.kind = "absent" /\ X(Absent) = None
  BY DEF Absent, Entries, X
<1>2. \A v : File(v).kind = "file" /\ File(v).data = v /\ X(File(v)) = None
  BY DEF File, X
<1>3. \A d : Link(d).kind = "link" /\ Link(d).to = d /\ X(Link(d)) = None
  BY DEF Link, X
<1>4. \A m, x : Dir(m, x).kind = "dir" /\ Dir(m, x).mode = m /\ Dir(m, x).x = x /\ X(Dir(m, x)) = x
  BY DEF Dir, X
<1>5. \A v \in Data : File(v) \in Entries
  BY DEF Entries
<1>6. \A d \in Top : Link(d) \in Entries
  BY DEF Entries
<1>7. \A m \in {"plain", "special"}, x \in Data \cup {None} : Dir(m, x) \in Entries
  BY DEF Entries
<1> QED
  BY <1>1, <1>2, <1>3, <1>4, <1>5, <1>6, <1>7

---------------------------------------------------------------------------
\* Where a path goes on.
LEMMA ResolvedIs ==
  ASSUME NEW t \in Tree, NEW d \in Top
  PROVE  /\ Resolved(t, d) \in Top \cup {None}
         /\ Resolved(t, d) # None => t[Resolved(t, d)].kind # "link"
         /\ t[d].kind # "link" => Resolved(t, d) = d
<1> DEFINE N == Cardinality(Top)
           V == [Top -> Top \cup {None}]
           body(f, n) == [e \in Top |-> IF t[e].kind # "link" THEN e
                                       ELSE IF n = 0 THEN None ELSE f[n - 1][t[e].to]]
           hop == CHOOSE f : f = [n \in 0..N |-> body(f, n)]
           R == Before(0..N, [n \in 0..N |-> n], [n \in 0..N |-> 0])
           step == [n \in 0..N |-> [f \in [0..N -> V] |-> body(f, n)]]
<1>0. N \in Nat
  BY TopFinite, FS_CardinalityType
<1>1. \A e \in Top : t[e] \in Entries /\ (t[e].kind = "link" => t[e].to \in Top)
  BY EntryForm DEF Tree
<1>2. ASSUME NEW n \in 0..N, NEW f, n # 0 => f[n - 1] \in V
      PROVE  body(f, n) \in V
  BY <1>1, <1>2
<1>3. step \in [0..N -> [[0..N -> V] -> V]]
  <2>1. \A n \in 0..N, f \in [0..N -> V] : body(f, n) \in V
    <3> TAKE n \in 0..N, f \in [0..N -> V]
    <3>1. n # 0 => f[n - 1] \in V
      BY <1>0
    <3> HIDE DEF body, V, N
    <3> QED
      BY <1>2, <3>1
  <2> HIDE DEF body, V, N
  <2> QED
    BY <2>1
<1>4. ASSUME NEW n \in 0..N, NEW f \in [0..N -> V], NEW g \in [0..N -> V],
             \A m \in 0..N : <<m, n>> \in R => f[m] = g[m]
      PROVE  step[n][f] = step[n][g]
  <2>1. n # 0 => n - 1 \in 0..N /\ <<n - 1, n>> \in R
    BY <1>0 DEF Before
  <2>2. n # 0 => f[n - 1] = g[n - 1]
    <3> HIDE DEF R, V, N
    <3> QED
      BY <1>4, <2>1
  <2>3. body(f, n) = body(g, n)
    BY <2>2
  <2> HIDE DEF body, V, N
  <2> QED
    BY <2>3
<1>5. StepsUp(0..N, R, V, step)
  <2> HIDE DEF step, R, V, N
  <2> QED
    BY <1>3, <1>4 DEF StepsUp
<1>6. Grounded(0..N, R)
  <2>1. [n \in 0..N |-> n] \in [0..N -> Nat] /\ [n \in 0..N |-> 0] \in [0..N -> Nat]
    OBVIOUS
  <2> HIDE DEF N
  <2> QED
    BY <2>1, BeforeGrounded
<1>7. \E f \in [0..N -> V] : \A n \in 0..N : f[n] = step[n][f]
  <2>1. V # {}
    <3>1. [e \in Top |-> None] \in V
      OBVIOUS
    <3> QED
      BY <3>1
  <2> DEFINE D == 0..N
  <2>2. StepsUp(D, R, V, step) /\ Grounded(D, R)
    BY <1>5, <1>6
  <2> HIDE DEF step, R, V, D
  <2>3. \E f \in [D -> V] : \A n \in D : f[n] = step[n][f]
    BY <2>1, <2>2, Recursion
  <2> QED
    BY <2>3 DEF D
<1>8. PICK f \in [0..N -> V] : \A n \in 0..N : f[n] = body(f, n)
  <2> HIDE DEF body, V, N
  <2> QED
    BY <1>7
<1>9. f = [n \in 0..N |-> body(f, n)]
  <2> HIDE DEF body, V, N
  <2> QED
    BY <1>8
<1>10. hop = [n \in 0..N |-> body(hop, n)]
  <2> HIDE DEF body, N
  <2> QED
    BY <1>9
<1>11. \A n \in 0..N : hop[n] = body(hop, n)
  <2> HIDE DEF body, hop, N
  <2> QED
    BY <1>10
<1> DEFINE S == {n \in 0..N : \A e \in Top : /\ hop[n][e] \in Top \cup {None}
                                             /\ hop[n][e] # None => t[hop[n][e]].kind # "link"}
<1> HIDE DEF hop
<1>12. ASSUME NEW n \in 0..N, NEW e \in Top
       PROVE  hop[n][e] = IF t[e].kind # "link" THEN e ELSE IF n = 0 THEN None ELSE hop[n - 1][t[e].to]
  <2>1. hop[n] = body(hop, n)
    <3> HIDE DEF body, N
    <3> QED
      BY <1>11
  <2> QED
    BY <2>1
<1>13. 0 \in S
  BY <1>0, <1>12
<1>14. ASSUME NEW n \in 1..N, n - 1 \in S
       PROVE  n \in S
  <2> SUFFICES ASSUME NEW e \in Top
               PROVE  /\ hop[n][e] \in Top \cup {None}
                      /\ hop[n][e] # None => t[hop[n][e]].kind # "link"
    BY <1>0
  <2>1. CASE t[e].kind # "link"
    BY <1>0, <1>12, <2>1
  <2>2. CASE t[e].kind = "link"
    <3>1. hop[n][e] = hop[n - 1][t[e].to] /\ t[e].to \in Top
      BY <1>0, <1>1, <1>12, <2>2
    <3> QED
      BY <1>14, <3>1
  <2> QED
    BY <2>1, <2>2
<1>15. 0..N \subseteq S
  <2> HIDE DEF S, N
  <2> QED
    BY <1>0, <1>13, <1>14, InductTo
<1>16. Resolved(t, d) = hop[N][d]
  BY DEF Resolved, hop
<1>17. N \in 0..N /\ N \in S
  BY <1>0, <1>15
<1> QED
  BY <1>12, <1>16, <1>17

---------------------------------------------------------------------------
LEMMA MemberKinds ==
  ASSUME NEW m \in Member
  PROVE  /\ m.top \in Top /\ m.do \in {"put", "putIn", "gone", "goneIn"}
         /\ m.do = "put" => m.arg \in Entries /\ m.arg # Absent /\ m = At(m.top, m.arg)
         /\ m.do = "putIn" => m.arg \in Data /\ m = In(m.top, m.arg)
  BY DEF Member, At, In, Gone, GoneIn

LEMMA MergedIs ==
  ASSUME NEW old \in Entries, NEW new \in Entries, new # Absent
  PROVE  /\ new.kind = "dir" => Merged(old, new) = DirOver(old, new)
         /\ new.kind = "link" => Merged(old, new) = new
         /\ new.kind = "file" => Merged(old, new) = FileOver(old, new)
         /\ Merged(old, new) \in Entries \cup {None}
<1>1. new.kind \in {"dir", "link", "file"}
  BY EntryForm
<1>2. CASE new.kind = "dir"
  <2>1. Merged(old, new) = DirOver(old, new)
    BY <1>2 DEF Merged
  <2>2. new.mode \in {"plain", "special"} /\ X(old) \in Data \cup {None}
    BY <1>2, EntryForm
  <2> QED
    BY <1>2, <2>1, <2>2, EntryFrom DEF DirOver
<1>3. CASE new.kind = "link"
  BY <1>3 DEF Merged, LinkOver
<1>4. CASE new.kind = "file"
  BY <1>4 DEF Merged, FileOver
<1> QED
  BY <1>1, <1>2, <1>3, <1>4

\* A change at one name.
LEMMA TreePut ==
  ASSUME NEW t \in Tree, NEW d \in Top, NEW e \in Entries
  PROVE  [t EXCEPT ![d] = e] \in Tree /\ [t EXCEPT ![d] = e][d] = e
  BY DEF Tree

LEMMA PlacedPut ==
  ASSUME NEW t \in Tree, NEW d \in Top, NEW e \in Entries, e # Absent
  PROVE  Placed(t, At(d, e)) = IF Merged(t[d], e) = None THEN None ELSE [t EXCEPT ![d] = Merged(t[d], e)]
  BY DEF Placed, At

LEMMA PlacedIn ==
  ASSUME NEW t \in Tree, NEW d \in Top, NEW v \in Data
  PROVE  Placed(t, In(d, v)) = PutIn(t, d, v)
  BY DEF Placed, In

LEMMA PlacedGone ==
  ASSUME NEW t \in Tree, NEW d \in Top
  PROVE  /\ Placed(t, Gone(d)) = [t EXCEPT ![d] = Absent]
         /\ Placed(t, GoneIn(d)) = RemoveIn(t, d)
  BY DEF Placed, Gone, GoneIn

\* x under a name that is no symlink.
LEMMA InsideIs ==
  ASSUME NEW t \in Tree, NEW d \in Top, NEW v \in Data, t[d].kind # "link"
  PROVE  /\ PutIn(t, d, v) = IF t[d].kind = "file" THEN None
                             ELSE [t EXCEPT ![d] = Dir(IF t[d].kind = "dir" THEN t[d].mode ELSE "plain", v)]
         /\ RemoveIn(t, d) = IF t[d].kind = "dir" THEN [t EXCEPT ![d] = Dir(t[d].mode, None)] ELSE t
<1>1. Resolved(t, d) = d /\ d # None
  BY ResolvedIs, NoneApart
<1>2. t[d] \in Entries
  BY DEF Tree
<1>3. PutIn(t, d, v) = IF t[d].kind = "file" THEN None
                       ELSE [t EXCEPT ![d] = Dir(IF t[d].kind = "dir" THEN t[d].mode ELSE "plain", v)]
  BY <1>1 DEF PutIn
<1>4. t[d].kind = "dir" => [t EXCEPT ![d].x = None] = [t EXCEPT ![d] = Dir(t[d].mode, None)]
  <2> SUFFICES ASSUME t[d].kind = "dir"
               PROVE  [t EXCEPT ![d].x = None] = [t EXCEPT ![d] = Dir(t[d].mode, None)]
    OBVIOUS
  <2>1. t[d] = Dir(t[d].mode, t[d].x)
    BY <1>2, EntryForm
  <2>2. [t[d] EXCEPT !.x = None] = Dir(t[d].mode, None)
    BY <2>1 DEF Dir
  <2>3. [t EXCEPT ![d].x = None] = [t EXCEPT ![d] = [t[d] EXCEPT !.x = None]]
    OBVIOUS
  <2> QED
    BY <2>2, <2>3
<1>5. RemoveIn(t, d) = IF t[d].kind = "dir" THEN [t EXCEPT ![d] = Dir(t[d].mode, None)] ELSE t
  BY <1>1, <1>4 DEF RemoveIn
<1> QED
  BY <1>3, <1>5

LEMMA PlacedTyped ==
  ASSUME NEW t \in Tree, NEW m \in Member
  PROVE  Placed(t, m) \in Results
<1> DEFINE d == m.top
           p == Resolved(t, d)
<1>0. m.do \in {"put", "putIn", "gone", "goneIn"} /\ d \in Top /\ p \in Top \cup {None} /\ t[d] \in Entries
  BY MemberKinds, ResolvedIs DEF Tree
<1>1. CASE m.do = "put"
  <2>1. m.arg \in Entries /\ m.arg # Absent /\ m = At(d, m.arg)
    BY <1>1, MemberKinds
  <2>2. Merged(t[d], m.arg) \in Entries \cup {None}
    BY <1>0, <2>1, MergedIs
  <2>3. Placed(t, m) = IF Merged(t[d], m.arg) = None THEN None ELSE [t EXCEPT ![d] = Merged(t[d], m.arg)]
    BY <1>0, <2>1, PlacedPut
  <2> QED
    BY <1>0, <2>2, <2>3, TreePut DEF Results
<1>2. CASE m.do = "putIn"
  <2>1. m.arg \in Data /\ Placed(t, m) = PutIn(t, d, m.arg)
    BY <1>2, MemberKinds DEF Placed
  <2>2. CASE p # None
    <3>1. t[p] \in Entries
      BY <1>0, <2>2 DEF Tree
    <3>2. Dir(IF t[p].kind = "dir" THEN t[p].mode ELSE "plain", m.arg) \in Entries
      BY <2>1, <3>1, EntryForm, EntryFrom
    <3> QED
      BY <1>0, <2>1, <2>2, <3>2, TreePut DEF PutIn, Results
  <2> QED
    BY <2>1, <2>2 DEF PutIn, Results
<1>3. CASE m.do = "gone"
  <2>1. Placed(t, m) = [t EXCEPT ![d] = Absent]
    BY <1>3 DEF Placed
  <2>2. [t EXCEPT ![d] = Absent] \in Tree
    BY <1>0, EntryFrom DEF Tree
  <2> QED
    BY <2>1, <2>2 DEF Results
<1>4. CASE m.do = "goneIn"
  <2>1. Placed(t, m) = RemoveIn(t, d)
    BY <1>4 DEF Placed
  <2>2. CASE p # None /\ t[p].kind = "dir"
    <3>1. t[p] \in Entries /\ t[p] = Dir(t[p].mode, t[p].x) /\ t[p].mode \in {"plain", "special"}
      BY <1>0, <2>2, EntryForm DEF Tree
    <3>2. [t[p] EXCEPT !.x = None] \in Entries
      <4>1. [t[p] EXCEPT !.x = None] = Dir(t[p].mode, None)
        BY <3>1 DEF Dir
      <4> QED
        BY <3>1, <4>1, EntryFrom
    <3>3. [t EXCEPT ![p].x = None] = [t EXCEPT ![p] = [t[p] EXCEPT !.x = None]]
      OBVIOUS
    <3>4. [t EXCEPT ![p] = [t[p] EXCEPT !.x = None]] \in Tree
      <4> HIDE DEF p
      <4> QED
        BY <1>0, <2>2, <3>2 DEF Tree
    <3>5. Placed(t, m) = [t EXCEPT ![p].x = None]
      BY <2>1, <2>2 DEF RemoveIn
    <3> QED
      BY <3>3, <3>4, <3>5 DEF Results
  <2>3. CASE ~(p # None /\ t[p].kind = "dir")
    BY <2>1, <2>3 DEF RemoveIn, Results
  <2> QED
    BY <2>2, <2>3
<1> QED
  BY <1>0, <1>1, <1>2, <1>3, <1>4

---------------------------------------------------------------------------
\* What the folds do at each member, layer or name.
ApplySteps(layer) ==
  [i \in 1..Len(layer) |-> [r \in Results |-> IF r = None THEN None ELSE Placed(r, layer[i])]]

LEMMA ApplyRuns ==
  ASSUME NEW t \in Results, NEW layer \in Seq(Member)
  PROVE  \E f : /\ Folding(Len(layer), Results, t, ApplySteps(layer), f)
               /\ f[Len(layer)] = Apply(t, layer)
<1> DEFINE n == Len(layer)
           onto(r, m) == IF r = None THEN None ELSE Placed(r, m)
           body(f, s) == IF s = {} THEN t ELSE onto(f[s \ {Max(s)}], layer[Max(s)])
           C == CHOOSE f : f = [s \in SUBSET (1..n) |-> body(f, s)]
           op == [i \in 1..n |-> [r \in Results |-> onto(r, layer[i])]]
<1>1. n \in Nat /\ DOMAIN layer = 1..n
  BY LenProperties
<1>2. \A r \in Results, i \in 1..n : onto(r, layer[i]) \in Results
  <2>1. \A i \in 1..n : layer[i] \in Member
    OBVIOUS
  <2> QED
    BY <2>1, PlacedTyped DEF Results
<1>3. op \in [1..n -> [Results -> Results]]
  <2> HIDE DEF onto, n
  <2> QED
    BY <1>2
<1>4. PICK it : Folded(n, Results, t, op, it)
  <2> HIDE DEF op, n
  <2> QED
    BY <1>1, <1>3, FoldExists
<1>5. it = [s \in SUBSET (1..n) |-> body(it, s)]
  <2>1. ASSUME NEW s \in SUBSET (1..n), s # {}
        PROVE  op[Max(s)][it[s \ {Max(s)}]] = onto(it[s \ {Max(s)}], layer[Max(s)])
    <3>1. Max(s) \in 1..n /\ s \ {Max(s)} \in SUBSET (1..n)
      BY <1>1, <2>1, MaxIs
    <3>2. it[s \ {Max(s)}] \in Results
      BY <1>4, <3>1 DEF Folded
    <3> HIDE DEF onto, n
    <3> QED
      BY <3>1, <3>2
  <2>2. it \in [SUBSET (1..n) -> Results] /\ \A s \in SUBSET (1..n) : it[s] = body(it, s)
    <3> HIDE DEF onto, n, op
    <3> QED
      BY <1>4, <2>1 DEF Folded
  <2> HIDE DEF body, n
  <2> QED
    BY <2>2
<1>6. C = [s \in SUBSET (1..n) |-> body(C, s)]
  <2> HIDE DEF body
  <2> QED
    BY <1>5
<1>7. Apply(t, layer) = C[1..n]
  BY <1>1 DEF Apply, FoldLeft, MapThenFoldSet
<1>8. \A s \in SUBSET (1..n) : C[s] = body(C, s)
  <2> HIDE DEF body, C, n
  <2> QED
    BY <1>6
<1>9. C[{}] = t
  <2> HIDE DEF C, n
  <2> QED
    BY <1>8
<1>10. ASSUME NEW s \in SUBSET (1..n), s # {}, C[s \ {Max(s)}] \in Results
       PROVE  C[s] = op[Max(s)][C[s \ {Max(s)}]]
  <2>1. Max(s) \in 1..n
    BY <1>1, <1>10, MaxIs
  <2> HIDE DEF C, n, onto
  <2> QED
    BY <1>8, <1>10, <2>1
<1>11. \E f : Folding(n, Results, t, op, f) /\ f[n] = C[1..n]
  <2> HIDE DEF C, n, op
  <2>1. Unfolds(n, Results, t, op, C)
    BY <1>9, <1>10 DEF Unfolds
  <2> QED
    BY <1>1, <1>3, <2>1, FoldRuns
<1> HIDE DEF C
<1> QED
  BY <1>7, <1>11 DEF ApplySteps

LEMMA ApplyTyped ==
  ASSUME NEW t \in Results, NEW layer \in Seq(Member)
  PROVE  Apply(t, layer) \in Results
<1>1. PICK f : Folding(Len(layer), Results, t, ApplySteps(layer), f) /\ f[Len(layer)] = Apply(t, layer)
  BY ApplyRuns
<1> QED
  BY <1>1 DEF Folding

ApplyAllSteps(ls) ==
  [i \in 1..Len(ls) |-> [r \in Results |-> IF r = None THEN None ELSE Apply(r, ls[i])]]

LEMMA ApplyAllRuns ==
  ASSUME NEW t \in Results, NEW ls \in Seq(Seq(Member))
  PROVE  \E f : /\ Folding(Len(ls), Results, t, ApplyAllSteps(ls), f)
               /\ f[Len(ls)] = ApplyAll(t, ls)
<1> DEFINE n == Len(ls)
           onto(r, m) == IF r = None THEN None ELSE Apply(r, m)
           body(f, s) == IF s = {} THEN t ELSE onto(f[s \ {Max(s)}], ls[Max(s)])
           C == CHOOSE f : f = [s \in SUBSET (1..n) |-> body(f, s)]
           op == [i \in 1..n |-> [r \in Results |-> onto(r, ls[i])]]
<1>1. n \in Nat /\ DOMAIN ls = 1..n
  BY LenProperties
<1>2. \A r \in Results, i \in 1..n : onto(r, ls[i]) \in Results
  <2>1. \A i \in 1..n : ls[i] \in Seq(Member)
    OBVIOUS
  <2> QED
    BY <2>1, ApplyTyped DEF Results
<1>3. op \in [1..n -> [Results -> Results]]
  <2> HIDE DEF onto, n
  <2> QED
    BY <1>2
<1>4. PICK it : Folded(n, Results, t, op, it)
  <2> HIDE DEF op, n
  <2> QED
    BY <1>1, <1>3, FoldExists
<1>5. it = [s \in SUBSET (1..n) |-> body(it, s)]
  <2>1. ASSUME NEW s \in SUBSET (1..n), s # {}
        PROVE  op[Max(s)][it[s \ {Max(s)}]] = onto(it[s \ {Max(s)}], ls[Max(s)])
    <3>1. Max(s) \in 1..n /\ s \ {Max(s)} \in SUBSET (1..n)
      BY <1>1, <2>1, MaxIs
    <3>2. it[s \ {Max(s)}] \in Results
      BY <1>4, <3>1 DEF Folded
    <3> HIDE DEF onto, n
    <3> QED
      BY <3>1, <3>2
  <2>2. it \in [SUBSET (1..n) -> Results] /\ \A s \in SUBSET (1..n) : it[s] = body(it, s)
    <3> HIDE DEF onto, n, op
    <3> QED
      BY <1>4, <2>1 DEF Folded
  <2> HIDE DEF body, n
  <2> QED
    BY <2>2
<1>6. C = [s \in SUBSET (1..n) |-> body(C, s)]
  <2> HIDE DEF body
  <2> QED
    BY <1>5
<1>7. ApplyAll(t, ls) = C[1..n]
  BY <1>1 DEF ApplyAll, FoldLeft, MapThenFoldSet
<1>8. \A s \in SUBSET (1..n) : C[s] = body(C, s)
  <2> HIDE DEF body, C, n
  <2> QED
    BY <1>6
<1>9. C[{}] = t
  <2> HIDE DEF C, n
  <2> QED
    BY <1>8
<1>10. ASSUME NEW s \in SUBSET (1..n), s # {}, C[s \ {Max(s)}] \in Results
       PROVE  C[s] = op[Max(s)][C[s \ {Max(s)}]]
  <2>1. Max(s) \in 1..n
    BY <1>1, <1>10, MaxIs
  <2> HIDE DEF C, n, onto
  <2> QED
    BY <1>8, <1>10, <2>1
<1>11. \E f : Folding(n, Results, t, op, f) /\ f[n] = C[1..n]
  <2> HIDE DEF C, n, op
  <2>1. Unfolds(n, Results, t, op, C)
    BY <1>9, <1>10 DEF Unfolds
  <2> QED
    BY <1>1, <1>3, <2>1, FoldRuns
<1> HIDE DEF C
<1> QED
  BY <1>7, <1>11 DEF ApplyAllSteps

MatOver(t, items) ==
  FoldLeft(LAMBDA r, m : IF r = None THEN None ELSE Materialised(r, m), t, items)

MatSteps(items) ==
  [i \in 1..Len(items) |-> [r \in Results |-> IF r = None THEN None ELSE Materialised(r, items[i])]]

LEMMA MatRuns ==
  ASSUME NEW t \in Results, NEW items \in Seq(Member)
  PROVE  \E f : /\ Folding(Len(items), Results, t, MatSteps(items), f)
               /\ f[Len(items)] = MatOver(t, items)
<1> DEFINE n == Len(items)
           onto(r, m) == IF r = None THEN None ELSE Materialised(r, m)
           body(f, s) == IF s = {} THEN t ELSE onto(f[s \ {Max(s)}], items[Max(s)])
           C == CHOOSE f : f = [s \in SUBSET (1..n) |-> body(f, s)]
           op == [i \in 1..n |-> [r \in Results |-> onto(r, items[i])]]
<1>1. n \in Nat /\ DOMAIN items = 1..n
  BY LenProperties
<1>2. \A r \in Results, i \in 1..n : onto(r, items[i]) \in Results
  <2>1. \A i \in 1..n : items[i] \in Member
    OBVIOUS
  <2> QED
    BY <2>1, PlacedTyped DEF Results, Materialised
<1>3. op \in [1..n -> [Results -> Results]]
  <2> HIDE DEF onto, n
  <2> QED
    BY <1>2
<1>4. PICK it : Folded(n, Results, t, op, it)
  <2> HIDE DEF op, n
  <2> QED
    BY <1>1, <1>3, FoldExists
<1>5. it = [s \in SUBSET (1..n) |-> body(it, s)]
  <2>1. ASSUME NEW s \in SUBSET (1..n), s # {}
        PROVE  op[Max(s)][it[s \ {Max(s)}]] = onto(it[s \ {Max(s)}], items[Max(s)])
    <3>1. Max(s) \in 1..n /\ s \ {Max(s)} \in SUBSET (1..n)
      BY <1>1, <2>1, MaxIs
    <3>2. it[s \ {Max(s)}] \in Results
      BY <1>4, <3>1 DEF Folded
    <3> HIDE DEF onto, n
    <3> QED
      BY <3>1, <3>2
  <2>2. it \in [SUBSET (1..n) -> Results] /\ \A s \in SUBSET (1..n) : it[s] = body(it, s)
    <3> HIDE DEF onto, n, op
    <3> QED
      BY <1>4, <2>1 DEF Folded
  <2> HIDE DEF body, n
  <2> QED
    BY <2>2
<1>6. C = [s \in SUBSET (1..n) |-> body(C, s)]
  <2> HIDE DEF body
  <2> QED
    BY <1>5
<1>7. MatOver(t, items) = C[1..n]
  BY <1>1 DEF MatOver, FoldLeft, MapThenFoldSet
<1>8. \A s \in SUBSET (1..n) : C[s] = body(C, s)
  <2> HIDE DEF body, C, n
  <2> QED
    BY <1>6
<1>9. C[{}] = t
  <2> HIDE DEF C, n
  <2> QED
    BY <1>8
<1>10. ASSUME NEW s \in SUBSET (1..n), s # {}, C[s \ {Max(s)}] \in Results
       PROVE  C[s] = op[Max(s)][C[s \ {Max(s)}]]
  <2>1. Max(s) \in 1..n
    BY <1>1, <1>10, MaxIs
  <2> HIDE DEF C, n, onto
  <2> QED
    BY <1>8, <1>10, <2>1
<1>11. \E f : Folding(n, Results, t, op, f) /\ f[n] = C[1..n]
  <2> HIDE DEF C, n, op
  <2>1. Unfolds(n, Results, t, op, C)
    BY <1>9, <1>10 DEF Unfolds
  <2> QED
    BY <1>1, <1>3, <2>1, FoldRuns
<1> HIDE DEF C
<1> QED
  BY <1>7, <1>11 DEF MatSteps

TopSteps(of) ==
  [i \in 1..Len(Tops) |-> [q \in Seq(Member) |-> q \o of[Tops[i]]]]

LEMMA TopRuns ==
  ASSUME NEW of \in [Top -> Seq(Member)]
  PROVE  \E f : /\ Folding(Len(Tops), Seq(Member), <<>>, TopSteps(of), f)
               /\ f[Len(Tops)] = ForTops(of)
<1> DEFINE n == Len(Tops)
           onto(r, m) == r \o of[m]
           body(f, s) == IF s = {} THEN <<>> ELSE onto(f[s \ {Max(s)}], Tops[Max(s)])
           C == CHOOSE f : f = [s \in SUBSET (1..n) |-> body(f, s)]
           op == [i \in 1..n |-> [r \in Seq(Member) |-> onto(r, Tops[i])]]
<1>0. <<>> \in Seq(Member)
  OBVIOUS
<1>1. n \in Nat /\ DOMAIN Tops = 1..n
  BY RootfsAssumption, LenProperties
<1>2. \A r \in Seq(Member), i \in 1..n : onto(r, Tops[i]) \in Seq(Member)
  <2>1. \A i \in 1..n : of[Tops[i]] \in Seq(Member)
    BY <1>1 DEF Top
  <2> QED
    BY <2>1
<1>3. op \in [1..n -> [Seq(Member) -> Seq(Member)]]
  <2> HIDE DEF onto, n
  <2> QED
    BY <1>2
<1>4. PICK it : Folded(n, Seq(Member), <<>>, op, it)
  <2> HIDE DEF op, n
  <2> QED
    BY <1>0, <1>1, <1>3, FoldExists
<1>5. it = [s \in SUBSET (1..n) |-> body(it, s)]
  <2>1. ASSUME NEW s \in SUBSET (1..n), s # {}
        PROVE  op[Max(s)][it[s \ {Max(s)}]] = onto(it[s \ {Max(s)}], Tops[Max(s)])
    <3>1. Max(s) \in 1..n /\ s \ {Max(s)} \in SUBSET (1..n)
      BY <1>1, <2>1, MaxIs
    <3>2. it[s \ {Max(s)}] \in Seq(Member)
      BY <1>4, <3>1 DEF Folded
    <3> HIDE DEF onto, n
    <3> QED
      BY <3>1, <3>2
  <2>2. it \in [SUBSET (1..n) -> Seq(Member)] /\ \A s \in SUBSET (1..n) : it[s] = body(it, s)
    <3> HIDE DEF onto, n, op
    <3> QED
      BY <1>4, <2>1 DEF Folded
  <2> HIDE DEF body, n
  <2> QED
    BY <2>2
<1>6. C = [s \in SUBSET (1..n) |-> body(C, s)]
  <2> HIDE DEF body
  <2> QED
    BY <1>5
<1>7. ForTops(of) = C[1..n]
  BY <1>1 DEF ForTops, FoldLeft, MapThenFoldSet
<1>8. \A s \in SUBSET (1..n) : C[s] = body(C, s)
  <2> HIDE DEF body, C, n
  <2> QED
    BY <1>6
<1>9. C[{}] = <<>>
  <2> HIDE DEF C, n
  <2> QED
    BY <1>8
<1>10. ASSUME NEW s \in SUBSET (1..n), s # {}, C[s \ {Max(s)}] \in Seq(Member)
       PROVE  C[s] = op[Max(s)][C[s \ {Max(s)}]]
  <2>1. Max(s) \in 1..n
    BY <1>1, <1>10, MaxIs
  <2> HIDE DEF C, n, onto
  <2> QED
    BY <1>8, <1>10, <2>1
<1>11. \E f : Folding(n, Seq(Member), <<>>, op, f) /\ f[n] = C[1..n]
  <2> HIDE DEF C, n, op
  <2>1. Unfolds(n, Seq(Member), <<>>, op, C)
    BY <1>9, <1>10 DEF Unfolds
  <2> DEFINE W == Seq(Member)
             e == <<>>
  <2>2. n \in Nat /\ e \in W /\ op \in [1..n -> [W -> W]] /\ Unfolds(n, W, e, op, C)
    BY <1>0, <1>1, <1>3, <2>1
  <2> HIDE DEF W, e
  <2>3. \E f : Folding(n, W, e, op, f) /\ f[n] = C[1..n]
    BY <2>2, FoldRuns
  <2> QED
    BY <2>3 DEF W, e
<1> HIDE DEF C
<1> QED
  BY <1>7, <1>11 DEF TopSteps

---------------------------------------------------------------------------
LEMMA ApplyNothing ==
  ASSUME NEW t \in Results
  PROVE  Apply(t, <<>>) = t
<1>1. <<>> \in Seq(Member) /\ Len(<<>>) = 0
  OBVIOUS
<1>2. PICK f : Folding(Len(<<>>), Results, t, ApplySteps(<<>>), f) /\ f[Len(<<>>)] = Apply(t, <<>>)
  BY <1>1, ApplyRuns
<1> QED
  BY <1>1, <1>2 DEF Folding

\* The steps of a run.
LEMMA ApplyStepIs ==
  ASSUME NEW t \in Results, NEW layer \in Seq(Member), NEW f,
         Folding(Len(layer), Results, t, ApplySteps(layer), f)
  PROVE  /\ f \in [0..Len(layer) -> Results] /\ f[0] = t
         /\ \A i \in 1..Len(layer) :
              f[i] = IF f[i - 1] = None THEN None ELSE Placed(f[i - 1], layer[i])
<1>1. \A i \in 1..Len(layer) : f[i - 1] \in Results /\ f[i] = ApplySteps(layer)[i][f[i - 1]]
  BY LenProperties DEF Folding
<1>2. \A i \in 1..Len(layer), r \in Results :
        ApplySteps(layer)[i][r] = IF r = None THEN None ELSE Placed(r, layer[i])
  BY DEF ApplySteps
<1> QED
  BY <1>1, <1>2 DEF Folding

LEMMA ApplyOne ==
  ASSUME NEW t \in Tree, NEW m \in Member
  PROVE  Apply(t, <<m>>) = Placed(t, m)
<1>1. <<m>> \in Seq(Member) /\ Len(<<m>>) = 1 /\ <<m>>[1] = m /\ t \in Results
  BY DEF Results
<1>2. PICK f : Folding(Len(<<m>>), Results, t, ApplySteps(<<m>>), f) /\ f[Len(<<m>>)] = Apply(t, <<m>>)
  BY <1>1, ApplyRuns
<1>3. f[0] = t /\ f[1] = IF f[0] = None THEN None ELSE Placed(f[0], m)
  <2> DEFINE q == <<m>>
  <2>1. f[0] = t /\ \A i \in 1..Len(q) :
          f[i] = IF f[i - 1] = None THEN None ELSE Placed(f[i - 1], q[i])
    <3>1. q \in Seq(Member) /\ Folding(Len(q), Results, t, ApplySteps(q), f)
      BY <1>1, <1>2
    <3> HIDE DEF q
    <3> QED
      BY <1>1, <3>1, ApplyStepIs
  <2>2. 1 \in 1..Len(<<m>>) /\ 1 - 1 = 0
    BY <1>1
  <2>3. f[1] = IF f[1 - 1] = None THEN None ELSE Placed(f[1 - 1], <<m>>[1])
    BY <2>1, <2>2
  <2> QED
    BY <1>1, <2>1, <2>2, <2>3
<1> QED
  BY <1>1, <1>2, <1>3, NoneApart

Then(r, layer) == IF r = None THEN None ELSE Apply(r, layer)

LEMMA ApplyNone ==
  ASSUME NEW layer \in Seq(Member)
  PROVE  Apply(None, layer) = None
<1> DEFINE n == Len(layer)
<1>0. n \in Nat /\ None \in Results
  BY LenProperties DEF Results
<1>1. PICK f : Folding(n, Results, None, ApplySteps(layer), f) /\ f[n] = Apply(None, layer)
  BY <1>0, ApplyRuns
<1>2. f[0] = None /\ \A i \in 1..n : f[i - 1] = None => f[i] = None
  BY <1>0, <1>1, ApplyStepIs
<1> DEFINE S == {i \in 0..n : f[i] = None}
<1>3. 0 \in S /\ \A i \in 1..n : i - 1 \in S => i \in S
  BY <1>0, <1>2
<1> HIDE DEF n, S
<1>4. 0..n \subseteq S
  BY <1>0, <1>3, InductTo
<1>5. n \in S
  BY <1>0, <1>4
<1> QED
  BY <1>1, <1>5 DEF S

\* One layer after another.
LEMMA ApplyThen ==
  ASSUME NEW t \in Results, NEW a \in Seq(Member), NEW b \in Seq(Member)
  PROVE  Apply(t, a \o b) = Apply(Apply(t, a), b)
<1> DEFINE k == Len(a)
           n == Len(b)
           c == a \o b
<1>0. /\ k \in Nat /\ n \in Nat /\ c \in Seq(Member) /\ Len(c) = k + n
      /\ \A i \in 1..k : c[i] = a[i]
      /\ \A i \in 1..n : c[k + i] = b[i]
  BY LenProperties
<1>1. PICK f : Folding(k, Results, t, ApplySteps(a), f) /\ f[k] = Apply(t, a)
  BY ApplyRuns
<1>2. f \in [0..k -> Results] /\ f[0] = t
      /\ \A i \in 1..k : f[i] = IF f[i - 1] = None THEN None ELSE Placed(f[i - 1], a[i])
  BY <1>1, ApplyStepIs
<1>3. f[k] \in Results
  BY <1>0, <1>2
<1>4. PICK g : Folding(n, Results, f[k], ApplySteps(b), g) /\ g[n] = Apply(f[k], b)
  BY <1>3, ApplyRuns
<1>5. g \in [0..n -> Results] /\ g[0] = f[k]
      /\ \A i \in 1..n : g[i] = IF g[i - 1] = None THEN None ELSE Placed(g[i - 1], b[i])
  BY <1>3, <1>4, ApplyStepIs
<1>6. PICK h : Folding(Len(c), Results, t, ApplySteps(c), h) /\ h[Len(c)] = Apply(t, c)
  BY <1>0, ApplyRuns
<1>7. h \in [0..(k + n) -> Results] /\ h[0] = t
      /\ \A i \in 1..(k + n) : h[i] = IF h[i - 1] = None THEN None ELSE Placed(h[i - 1], c[i])
  <2> HIDE DEF c
  <2>1. h \in [0..Len(c) -> Results] /\ h[0] = t
        /\ \A i \in 1..Len(c) : h[i] = IF h[i - 1] = None THEN None ELSE Placed(h[i - 1], c[i])
    BY <1>0, <1>6, ApplyStepIs
  <2> QED
    BY <1>0, <2>1
<1> HIDE DEF k, n, c
<1> DEFINE S == {i \in 0..k : h[i] = f[i]}
           D == {i \in 0..n : h[k + i] = g[i]}
<1>8. 0..k \subseteq S
  <2>1. 0 \in S
    BY <1>0, <1>2, <1>7
  <2>2. ASSUME NEW i \in 1..k, i - 1 \in S
        PROVE  i \in S
    <3>1. i \in 1..(k + n) /\ h[i - 1] = f[i - 1]
      BY <1>0, <2>2
    <3>2. h[i] = IF h[i - 1] = None THEN None ELSE Placed(h[i - 1], a[i])
      BY <1>0, <1>7, <3>1
    <3> QED
      BY <1>2, <3>1, <3>2
  <2> HIDE DEF S
  <2> QED
    BY <1>0, <2>1, <2>2, InductTo
<1>9. 0..n \subseteq D
  <2>1. 0 \in D
    <3>1. k \in S
      BY <1>0, <1>8
    <3> QED
      BY <1>0, <1>5, <3>1
  <2>2. ASSUME NEW i \in 1..n, i - 1 \in D
        PROVE  i \in D
    <3>1. k + i \in 1..(k + n) /\ h[k + i - 1] = g[i - 1] /\ k + (i - 1) = k + i - 1
      BY <1>0, <2>2
    <3>2. h[k + i] = IF h[k + i - 1] = None THEN None ELSE Placed(h[k + i - 1], b[i])
      BY <1>0, <1>7, <3>1
    <3> QED
      BY <1>5, <3>1, <3>2
  <2> HIDE DEF D
  <2> QED
    BY <1>0, <2>1, <2>2, InductTo
<1>10. n \in D
  BY <1>0, <1>9
<1> QED
  BY <1>0, <1>1, <1>4, <1>6, <1>10 DEF c

\* And layers.
AllRuns(t, ls, f) ==
  /\ f \in [0..Len(ls) -> Results] /\ f[0] = t /\ f[Len(ls)] = ApplyAll(t, ls)
  /\ \A i \in 1..Len(ls) : f[i] = IF f[i - 1] = None THEN None ELSE Apply(f[i - 1], ls[i])

LEMMA ApplyAllSome ==
  ASSUME NEW t \in Results, NEW ls \in Seq(Seq(Member))
  PROVE  \E f : AllRuns(t, ls, f)
<1>1. PICK f : Folding(Len(ls), Results, t, ApplyAllSteps(ls), f) /\ f[Len(ls)] = ApplyAll(t, ls)
  BY ApplyAllRuns
<1>2. \A i \in 1..Len(ls) : f[i - 1] \in Results /\ f[i] = ApplyAllSteps(ls)[i][f[i - 1]]
  <2>1. Len(ls) \in Nat
    BY LenProperties
  <2>2. \A i \in 1..Len(ls) : i - 1 \in 0..Len(ls)
    BY <2>1
  <2> QED
    BY <1>1, <2>2 DEF Folding
<1>3. \A i \in 1..Len(ls), r \in Results :
        ApplyAllSteps(ls)[i][r] = IF r = None THEN None ELSE Apply(r, ls[i])
  BY DEF ApplyAllSteps
<1>4. \A i \in 1..Len(ls) : f[i] = IF f[i - 1] = None THEN None ELSE Apply(f[i - 1], ls[i])
  BY <1>2, <1>3
<1> QED
  BY <1>1, <1>4 DEF Folding, AllRuns

LEMMA ApplyAllNothing ==
  ASSUME NEW t \in Results
  PROVE  ApplyAll(t, <<>>) = t
<1>1. <<>> \in Seq(Seq(Member)) /\ Len(<<>>) = 0
  OBVIOUS
<1>2. PICK f : AllRuns(t, <<>>, f)
  BY <1>1, ApplyAllSome
<1> QED
  BY <1>1, <1>2 DEF AllRuns

LEMMA ApplyAllTyped ==
  ASSUME NEW t \in Results, NEW ls \in Seq(Seq(Member))
  PROVE  ApplyAll(t, ls) \in Results
<1>1. PICK f : f \in [0..Len(ls) -> Results] /\ f[Len(ls)] = ApplyAll(t, ls)
  BY ApplyAllSome DEF AllRuns
<1> QED
  BY <1>1, LenProperties

LEMMA ApplyAllOneMore ==
  ASSUME NEW t \in Results, NEW ls \in Seq(Seq(Member)), NEW layer \in Seq(Member)
  PROVE  ApplyAll(t, Append(ls, layer)) = Then(ApplyAll(t, ls), layer)
<1> DEFINE n == Len(ls)
           more == Append(ls, layer)
<1>0. /\ n \in Nat /\ more \in Seq(Seq(Member)) /\ Len(more) = n + 1 /\ more[n + 1] = layer
      /\ \A i \in 1..n : more[i] = ls[i]
  BY LenProperties
<1>1. PICK f : /\ f \in [0..n -> Results] /\ f[0] = t /\ f[n] = ApplyAll(t, ls)
               /\ \A i \in 1..n : f[i] = IF f[i - 1] = None THEN None ELSE Apply(f[i - 1], ls[i])
  BY ApplyAllSome DEF AllRuns
<1> HIDE DEF more
<1>2. PICK h : /\ h[0] = t /\ h[Len(more)] = ApplyAll(t, more)
               /\ \A i \in 1..Len(more) : h[i] = IF h[i - 1] = None THEN None ELSE Apply(h[i - 1], more[i])
  <2>1. \E h : AllRuns(t, more, h)
    BY <1>0, ApplyAllSome
  <2> QED
    BY <2>1 DEF AllRuns
<1> HIDE DEF n
<1> DEFINE S == {i \in 0..n : h[i] = f[i]}
<1>3. 0..n \subseteq S
  <2>1. 0 \in S
    BY <1>0, <1>1, <1>2
  <2>2. ASSUME NEW i \in 1..n, i - 1 \in S
        PROVE  i \in S
    <3>0. i \in 1..Len(more)
      BY <1>0
    <3>1. more[i] = ls[i] /\ h[i - 1] = f[i - 1]
      BY <1>0, <2>2
    <3>2. h[i] = IF h[i - 1] = None THEN None ELSE Apply(h[i - 1], ls[i])
      BY <1>2, <3>0, <3>1
    <3> QED
      BY <1>1, <3>1, <3>2
  <2> HIDE DEF S
  <2> QED
    BY <1>0, <2>1, <2>2, InductTo
<1>4. h[n] = f[n]
  <2>1. n \in 0..n
    BY <1>0
  <2> QED
    BY <1>3, <2>1
<1>5. h[n + 1] = IF h[n] = None THEN None ELSE Apply(h[n], layer)
  <2>1. n + 1 \in 1..Len(more) /\ (n + 1) - 1 = n
    BY <1>0
  <2> QED
    BY <1>0, <1>2, <2>1
<1> QED
  BY <1>0, <1>1, <1>2, <1>4, <1>5 DEF Then, more

---------------------------------------------------------------------------
LEMMA MatTyped ==
  ASSUME NEW t \in Results, NEW items \in Seq(Member)
  PROVE  MatOver(t, items) \in Results
<1>1. PICK f : Folding(Len(items), Results, t, MatSteps(items), f) /\ f[Len(items)] = MatOver(t, items)
  BY MatRuns
<1> QED
  BY <1>1 DEF Folding

\* What could be written one by one is what an extraction makes.
LEMMA MatApplies ==
  ASSUME NEW t \in Tree, NEW items \in Seq(Member), MatOver(t, items) # None
  PROVE  Apply(t, items) = MatOver(t, items)
<1> DEFINE n == Len(items)
<1>0. n \in Nat /\ t \in Results
  BY LenProperties DEF Results
<1>1. PICK f : Folding(n, Results, t, MatSteps(items), f) /\ f[n] = MatOver(t, items)
  BY <1>0, MatRuns
<1>2. f \in [0..n -> Results] /\ f[0] = t
      /\ \A i \in 1..n : f[i] = IF f[i - 1] = None THEN None ELSE Materialised(f[i - 1], items[i])
  <2>1. \A i \in 1..n : f[i - 1] \in Results /\ f[i] = MatSteps(items)[i][f[i - 1]]
    BY <1>0, <1>1 DEF Folding
  <2>2. \A i \in 1..n, r \in Results :
          MatSteps(items)[i][r] = IF r = None THEN None ELSE Materialised(r, items[i])
    BY DEF MatSteps
  <2> QED
    BY <1>1, <2>1, <2>2 DEF Folding
<1>3. PICK g : Folding(n, Results, t, ApplySteps(items), g) /\ g[n] = Apply(t, items)
  BY <1>0, ApplyRuns
<1>4. g[0] = t /\ \A i \in 1..n : g[i] = IF g[i - 1] = None THEN None ELSE Placed(g[i - 1], items[i])
  BY <1>0, <1>3, ApplyStepIs
<1> HIDE DEF n
<1> DEFINE S == {i \in 0..n : f[i] = None \/ g[i] = f[i]}
<1>5. 0..n \subseteq S
  <2>1. 0 \in S
    BY <1>0, <1>2, <1>4
  <2>2. ASSUME NEW i \in 1..n, i - 1 \in S
        PROVE  i \in S
    <3>1. f[i] # None => f[i - 1] # None /\ f[i] = Placed(f[i - 1], items[i])
      BY <1>2 DEF Materialised
    <3> QED
      BY <1>0, <1>4, <2>2, <3>1
  <2> HIDE DEF S
  <2> QED
    BY <1>0, <2>1, <2>2, InductTo
<1>6. n \in S
  BY <1>0, <1>5
<1> QED
  BY <1>1, <1>3, <1>6

LEMMA TopPrefixes ==
  ASSUME NEW of \in [Top -> Seq(Member)]
  PROVE  \E p : /\ p \in [0..Len(Tops) -> Seq(Member)] /\ p[0] = <<>> /\ p[Len(Tops)] = ForTops(of)
               /\ \A i \in 1..Len(Tops) : p[i] = p[i - 1] \o of[Tops[i]]
<1>1. PICK p : Folding(Len(Tops), Seq(Member), <<>>, TopSteps(of), p) /\ p[Len(Tops)] = ForTops(of)
  BY TopRuns
<1>2. \A i \in 1..Len(Tops) : p[i - 1] \in Seq(Member) /\ p[i] = TopSteps(of)[i][p[i - 1]]
  <2>1. Len(Tops) \in Nat
    BY RootfsAssumption, LenProperties
  <2>2. \A i \in 1..Len(Tops) : i - 1 \in 0..Len(Tops)
    BY <2>1
  <2> QED
    BY <1>1, <2>2 DEF Folding
<1>3. \A i \in 1..Len(Tops), q \in Seq(Member) : TopSteps(of)[i][q] = q \o of[Tops[i]]
  BY DEF TopSteps
<1>4. \A i \in 1..Len(Tops) : p[i] = p[i - 1] \o of[Tops[i]]
  BY <1>2, <1>3
<1> QED
  BY <1>1, <1>4 DEF Folding

LEMMA ForTopsTyped ==
  ASSUME NEW of \in [Top -> Seq(Member)]
  PROVE  ForTops(of) \in Seq(Member)
<1>1. PICK p : p \in [0..Len(Tops) -> Seq(Member)] /\ p[Len(Tops)] = ForTops(of)
  BY TopPrefixes
<1> QED
  BY <1>1, RootfsAssumption, LenProperties

\* What members make of the entry under one name.
Makes(old, q, d, new) ==
  \A r \in Tree : r[d] = old => Apply(r, q) = IF new = None THEN None ELSE [r EXCEPT ![d] = new]

LEMMA MakesNothing ==
  ASSUME NEW old, NEW d \in Top, old # None
  PROVE  Makes(old, <<>>, d, old)
<1>1. \A r \in Tree : r[d] = old => [r EXCEPT ![d] = old] = r
  BY DEF Tree
<1> QED
  BY <1>1, ApplyNothing DEF Makes, Results

LEMMA MakesPut ==
  ASSUME NEW old \in Entries, NEW d \in Top, NEW e \in Entries, e # Absent
  PROVE  Makes(old, <<At(d, e)>>, d, Merged(old, e))
<1>1. At(d, e) \in Member
  BY DEF Member
<1> QED
  BY <1>1, ApplyOne, PlacedPut DEF Makes

LEMMA MakesIn ==
  ASSUME NEW old \in Entries, NEW d \in Top, NEW v \in Data, old.kind # "link"
  PROVE  Makes(old, <<In(d, v)>>, d,
               IF old.kind = "file" THEN None ELSE Dir(IF old.kind = "dir" THEN old.mode ELSE "plain", v))
<1>1. In(d, v) \in Member
  BY DEF Member
<1>2. old.kind # "file" => Dir(IF old.kind = "dir" THEN old.mode ELSE "plain", v) \in Entries
  BY EntryForm, EntryFrom
<1> QED
  BY <1>1, <1>2, ApplyOne, PlacedIn, InsideIs, NoneApart DEF Makes

LEMMA MakesGone ==
  ASSUME NEW old \in Entries, NEW d \in Top
  PROVE  Makes(old, <<Gone(d)>>, d, Absent)
<1>1. Gone(d) \in Member
  BY DEF Member
<1>2. Absent # None
  BY NoneApart, EntryFrom
<1> QED
  BY <1>1, <1>2, ApplyOne, PlacedGone DEF Makes

LEMMA MakesGoneIn ==
  ASSUME NEW old \in Entries, NEW d \in Top, old.kind # "link"
  PROVE  Makes(old, <<GoneIn(d)>>, d, IF old.kind = "dir" THEN Dir(old.mode, None) ELSE old)
<1>1. GoneIn(d) \in Member
  BY DEF Member
<1>2. old # None /\ (old.kind = "dir" => Dir(old.mode, None) \in Entries)
  BY NoneApart, EntryForm, EntryFrom
<1>3. old.kind = "dir" => Dir(old.mode, None) # None
  BY <1>2, NoneApart
<1> SUFFICES ASSUME NEW r \in Tree, r[d] = old
             PROVE  Apply(r, <<GoneIn(d)>>)
                    = [r EXCEPT ![d] = IF old.kind = "dir" THEN Dir(old.mode, None) ELSE old]
  BY <1>2, <1>3 DEF Makes
<1>4. Apply(r, <<GoneIn(d)>>) = RemoveIn(r, d)
  BY <1>1, ApplyOne, PlacedGone
<1>5. RemoveIn(r, d) = IF r[d].kind = "dir" THEN [r EXCEPT ![d] = Dir(r[d].mode, None)] ELSE r
  <2>1. Resolved(r, d) = d /\ d # None
    BY ResolvedIs, NoneApart
  <2>2. r[d].kind = "dir" => [r EXCEPT ![d].x = None] = [r EXCEPT ![d] = Dir(r[d].mode, None)]
    <3> SUFFICES ASSUME r[d].kind = "dir"
                 PROVE  [r EXCEPT ![d].x = None] = [r EXCEPT ![d] = Dir(r[d].mode, None)]
      OBVIOUS
    <3>1. r[d] = Dir(r[d].mode, r[d].x)
      BY EntryForm
    <3>2. [r[d] EXCEPT !.x = None] = Dir(r[d].mode, None)
      BY <3>1 DEF Dir
    <3>3. [r EXCEPT ![d].x = None] = [r EXCEPT ![d] = [r[d] EXCEPT !.x = None]]
      OBVIOUS
    <3> QED
      BY <3>2, <3>3
  <2> QED
    BY <2>1, <2>2 DEF RemoveIn
<1>6. [r EXCEPT ![d] = old] = r
  BY DEF Tree
<1> QED
  BY <1>4, <1>5, <1>6

LEMMA MakesThen ==
  ASSUME NEW old \in Entries, NEW d \in Top, NEW a \in Seq(Member), NEW b \in Seq(Member),
         NEW e \in Entries \cup {None}, NEW new \in Entries \cup {None},
         Makes(old, a, d, e), IF e = None THEN new = None ELSE Makes(e, b, d, new)
  PROVE  Makes(old, a \o b, d, new)
<1> SUFFICES ASSUME NEW r \in Tree, r[d] = old
             PROVE  Apply(r, a \o b) = IF new = None THEN None ELSE [r EXCEPT ![d] = new]
  BY DEF Makes
<1>1. Apply(r, a \o b) = Apply(Apply(r, a), b)
  BY ApplyThen DEF Results
<1>2. Apply(r, a) = IF e = None THEN None ELSE [r EXCEPT ![d] = e]
  BY DEF Makes
<1>3. CASE e = None
  BY <1>1, <1>2, <1>3, ApplyNone
<1>4. CASE e # None
  <2> DEFINE u == [r EXCEPT ![d] = e]
  <2>1. u \in Tree /\ u[d] = e
    BY <1>4, TreePut
  <2>2. Apply(u, b) = IF new = None THEN None ELSE [u EXCEPT ![d] = new]
    <3> HIDE DEF u
    <3> QED
      BY <1>4, <2>1 DEF Makes
  <2>3. [u EXCEPT ![d] = new] = [r EXCEPT ![d] = new]
    BY DEF Tree
  <2> QED
    BY <1>1, <1>2, <1>4, <2>2, <2>3
<1> QED
  BY <1>3, <1>4

\* A layer with the members of each name in turn.
LEMMA Blocks ==
  ASSUME NEW t \in Tree, NEW of \in [Top -> Seq(Member)], NEW g \in [Top -> Entries \cup {None}],
         \A d \in Top : Makes(t[d], of[d], d, g[d])
  PROVE  Apply(t, ForTops(of)) = IF \E d \in Top : g[d] = None THEN None ELSE g
<1> DEFINE n == Len(Tops)
           done(k) == {Tops[i] : i \in 1..k}
           mix(k) == [d \in Top |-> IF d \in done(k) THEN g[d] ELSE t[d]]
           now(k) == IF \E d \in done(k) : g[d] = None THEN None ELSE mix(k)
<1>0. /\ n \in Nat /\ \A i \in 1..n : Tops[i] \in Top
      /\ \A i, j \in 1..n : Tops[i] = Tops[j] => i = j
  <2>1. n \in Nat /\ DOMAIN Tops = 1..n
    BY RootfsAssumption, LenProperties
  <2>2. \A i, j \in 1..n : Tops[i] = Tops[j] => i = j
    BY <2>1, RootfsAssumption DEF IsInjective
  <2> QED
    BY <2>1, <2>2 DEF Top
<1>1. PICK p : /\ p \in [0..n -> Seq(Member)] /\ p[0] = <<>> /\ p[n] = ForTops(of)
               /\ \A i \in 1..n : p[i] = p[i - 1] \o of[Tops[i]]
  BY TopPrefixes
<1> DEFINE S == {k \in 0..n : Apply(t, p[k]) = now(k)}
<1>2. 0 \in S
  <2>1. done(0) = {}
    OBVIOUS
  <2>2. mix(0) = t
    BY <2>1 DEF Tree
  <2>3. Apply(t, <<>>) = t
    BY ApplyNothing DEF Results
  <2> HIDE DEF done, mix
  <2> QED
    BY <1>0, <1>1, <2>1, <2>2, <2>3
<1>3. ASSUME NEW k \in 1..n, k - 1 \in S
      PROVE  k \in S
  <2> DEFINE c == Tops[k]
             r == mix(k - 1)
  <2>1. c \in Top /\ done(k) = done(k - 1) \cup {c} /\ c \notin done(k - 1) /\ done(k) \subseteq Top
    <3>1. \A i \in 1..k : i \in 1..n /\ (i # k => i \in 1..(k - 1))
      BY <1>0
    <3>2. \A i \in 1..(k - 1) : i \in 1..k /\ i # k
      BY <1>0
    <3>3. k \in 1..k
      BY <1>0
    <3> HIDE DEF n
    <3> QED
      BY <1>0, <3>1, <3>2, <3>3
  <2>2. Apply(t, p[k]) = Apply(now(k - 1), of[c])
    <3>1. p[k] = p[k - 1] \o of[c] /\ p[k - 1] \in Seq(Member) /\ of[c] \in Seq(Member)
      <4>1. p[k] = p[k - 1] \o of[c]
        BY <1>1, <1>3
      <4>2. k - 1 \in 0..n
        BY <1>0
      <4>3. p[k - 1] \in Seq(Member)
        <5> HIDE DEF n
        <5> QED
          BY <1>1, <4>2
      <4>4. of[c] \in Seq(Member)
        <5> HIDE DEF c
        <5> QED
          BY <2>1
      <4> QED
        BY <4>1, <4>3, <4>4
    <3>2. Apply(t, p[k - 1]) = now(k - 1)
      BY <1>3
    <3>3. t \in Results
      BY DEF Results
    <3> HIDE DEF now, c
    <3> QED
      BY <3>1, <3>2, <3>3, ApplyThen
  <2>3. CASE \E d \in done(k - 1) : g[d] = None
    <3>1. now(k - 1) = None /\ now(k) = None
      <4> HIDE DEF done, mix
      <4> QED
        BY <2>1, <2>3
    <3>2. of[c] \in Seq(Member)
      BY <2>1
    <3>3. Apply(t, p[k]) = None
      <4> HIDE DEF now, c
      <4> QED
        BY <2>2, <3>1, <3>2, ApplyNone
    <3> HIDE DEF now
    <3> QED
      BY <1>0, <3>1, <3>3
  <2>4. CASE \A d \in done(k - 1) : g[d] # None
    <3>1. now(k - 1) = r
      <4> HIDE DEF done, mix
      <4> QED
        BY <2>4
    <3>2. r \in Tree /\ r[c] = t[c]
      <4>1. \A d \in done(k - 1) : g[d] \in Entries
        <5> HIDE DEF done
        <5> QED
          BY <2>1, <2>4
      <4> HIDE DEF done, c
      <4> QED
        BY <2>1, <4>1 DEF Tree
    <3>3. Apply(r, of[c]) = IF g[c] = None THEN None ELSE [r EXCEPT ![c] = g[c]]
      <4> HIDE DEF r, c
      <4> QED
        BY <2>1, <3>2 DEF Makes
    <3>4. [r EXCEPT ![c] = g[c]] = mix(k)
      <4> HIDE DEF done, c
      <4> QED
        BY <2>1
    <3>5. now(k) = IF g[c] = None THEN None ELSE mix(k)
      <4> HIDE DEF done, mix, c
      <4> QED
        BY <2>1, <2>4
    <3>6. Apply(t, p[k]) = now(k)
      <4> HIDE DEF now, mix, r, c
      <4> QED
        BY <2>2, <3>1, <3>3, <3>4, <3>5
    <3> HIDE DEF now
    <3> QED
      BY <1>0, <3>6
  <2> QED
    BY <2>3, <2>4
<1>4. n \in S
  <2> HIDE DEF S, n
  <2>1. 0..n \subseteq S
    BY <1>0, <1>2, <1>3, InductTo
  <2> QED
    BY <1>0, <2>1
<1>5. done(n) = Top
  BY DEF Top
<1>6. mix(n) = g
  <2> HIDE DEF done
  <2> QED
    BY <1>5
<1> HIDE DEF done, mix, n
<1> QED
  BY <1>1, <1>4, <1>5, <1>6

-----------------------------------------------------------------------------
(* layer_diff: the members of a diff turn the old tree into the new one.   *)

LEMMA EntriesApart ==
  /\ \A v : File(v) # Absent
  /\ \A d : Link(d) # Absent
  /\ \A m, x : Dir(m, x) # Absent
  /\ \A v, w : File(v) = File(w) => v = w
  /\ \A m, x, n, y : Dir(m, x) = Dir(n, y) => m = n /\ x = y
<1>1. \A v : File(v) # Absent
  BY EntryFrom
<1>2. \A d : Link(d) # Absent
  BY EntryFrom
<1>3. \A m, x : Dir(m, x) # Absent
  BY EntryFrom
<1>4. \A v, w : File(v) = File(w) => v = w
  BY DEF File
<1>5. \A m, x, n, y : Dir(m, x) = Dir(n, y) => m = n /\ x = y
  BY DEF Dir
<1> QED
  BY <1>1, <1>2, <1>3, <1>4, <1>5

LEMMA WhenIs ==
  ASSUME NEW c, NEW m, c => m \in Member
  PROVE  When(c, m) \in Seq(Member)
  BY DEF When

LEMMA Joined ==
  ASSUME NEW a \in Seq(Member), NEW b \in Seq(Member)
  PROVE  a \o b \in Seq(Member)
  OBVIOUS

\* What a member that may be left out makes.
LEMMA MakesWhen ==
  ASSUME NEW c \in BOOLEAN, NEW m, NEW d \in Top, NEW old, NEW new, old # None,
         c => Makes(old, <<m>>, d, new), ~c => new = old
  PROVE  Makes(old, When(c, m), d, new)
<1>1. CASE c
  BY <1>1 DEF When
<1>2. CASE ~c
  <2>1. When(c, m) = <<>>
    BY <1>2 DEF When
  <2> QED
    BY <1>2, <2>1, MakesNothing
<1> QED
  BY <1>1, <1>2

\* What is in a layer of changes of one name, and what the first half of it makes.
Packed(b, a, d) ==
  When(Fresh(Bare(b), Bare(a)), At(d, Bare(a))) \o When(Fresh(Inside(b), Inside(a)), In(d, X(a)))
Withdrawn(b, a, d) ==
  When(Deleted(b, a), Gone(d)) \o When(Deleted(Inside(b), Inside(a)), GoneIn(d))
Halfway(b, a) ==
  IF a = Absent THEN b ELSE IF a.kind = "dir" /\ X(a) = None THEN Dir(a.mode, X(b)) ELSE a

LEMMA BareIs ==
  ASSUME NEW e \in Entries
  PROVE  /\ Bare(e) \in Entries /\ (Bare(e) = Absent <=> e = Absent)
         /\ e.kind # "dir" => Bare(e) = e
         /\ e.kind = "dir" => Bare(e) = Dir(e.mode, None) /\ e = Dir(e.mode, X(e))
         /\ X(e) \in Data \cup {None} /\ (e.kind # "dir" => X(e) = None)
         /\ Inside(e) = IF X(e) = None THEN Absent ELSE File(X(e))
<1>1. e.kind = "dir" => e.mode \in {"plain", "special"} /\ e = Dir(e.mode, X(e))
  BY EntryForm
<1>2. X(e) \in Data \cup {None} /\ (e.kind # "dir" => X(e) = None)
  BY EntryForm
<1>3. CASE e.kind = "dir"
  <2>1. Bare(e) = Dir(e.mode, None) /\ Dir(e.mode, None) \in Entries /\ Dir(e.mode, None) # Absent
    BY <1>1, <1>3, EntryFrom, EntriesApart DEF Bare
  <2>2. e # Absent
    BY <1>3, EntryForm
  <2> QED
    BY <1>1, <1>2, <1>3, <2>1, <2>2 DEF Inside
<1>4. CASE e.kind # "dir"
  BY <1>2, <1>4 DEF Bare, Inside
<1> QED
  BY <1>3, <1>4

LEMMA ChangesTyped ==
  ASSUME NEW b \in Entries, NEW a \in Entries, NEW d \in Top
  PROVE  Packed(b, a, d) \in Seq(Member) /\ Withdrawn(b, a, d) \in Seq(Member)
<1>1. Fresh(Bare(b), Bare(a)) => At(d, Bare(a)) \in Member
  BY BareIs DEF Fresh, Member
<1>2. Fresh(Inside(b), Inside(a)) => In(d, X(a)) \in Member
  BY BareIs DEF Fresh, Member
<1>3. Gone(d) \in Member /\ GoneIn(d) \in Member
  BY DEF Member
<1>4. /\ When(Fresh(Bare(b), Bare(a)), At(d, Bare(a))) \in Seq(Member)
      /\ When(Fresh(Inside(b), Inside(a)), In(d, X(a))) \in Seq(Member)
      /\ When(Deleted(b, a), Gone(d)) \in Seq(Member)
      /\ When(Deleted(Inside(b), Inside(a)), GoneIn(d)) \in Seq(Member)
  BY <1>1, <1>2, <1>3, WhenIs
<1> QED
  BY <1>4, Joined DEF Packed, Withdrawn

LEMMA DiffTyped ==
  ASSUME NEW before \in Tree, NEW after \in Tree
  PROVE  /\ [d \in Top |-> Packed(before[d], after[d], d)] \in [Top -> Seq(Member)]
         /\ [d \in Top |-> Withdrawn(before[d], after[d], d)] \in [Top -> Seq(Member)]
         /\ DiffLayer(before, after) = ForTops([d \in Top |-> Packed(before[d], after[d], d)])
                                       \o ForTops([d \in Top |-> Withdrawn(before[d], after[d], d)])
         /\ DiffLayer(before, after) \in Seq(Member)
<1>1. \A d \in Top : before[d] \in Entries /\ after[d] \in Entries
  BY DEF Tree
<1> DEFINE one == [d \in Top |-> Packed(before[d], after[d], d)]
           two == [d \in Top |-> Withdrawn(before[d], after[d], d)]
<1>2. one \in [Top -> Seq(Member)] /\ two \in [Top -> Seq(Member)]
  BY <1>1, ChangesTyped
<1>3. DiffLayer(before, after) = ForTops(one) \o ForTops(two)
  BY DEF DiffLayer, Packed, Withdrawn, Whiteouts
<1>4. ForTops(one) \o ForTops(two) \in Seq(Member)
  <2> HIDE DEF one, two
  <2> QED
    BY <1>2, ForTopsTyped, Joined
<1> QED
  BY <1>2, <1>3, <1>4

\* A change of a name that a layer can tell: not to or from a directory, but for
\* a symlink that becomes one.
Told(b, a) ==
  \/ Absent \in {b, a}
  \/ (b.kind = "dir") = (a.kind = "dir")
  \/ b.kind = "link"

LEMMA PackedMakes ==
  ASSUME NEW b \in Entries, NEW a \in Entries, NEW d \in Top, Told(b, a)
  PROVE  Halfway(b, a) \in Entries /\ Makes(b, Packed(b, a, d), d, Halfway(b, a))
<1> DEFINE bare == When(Fresh(Bare(b), Bare(a)), At(d, Bare(a)))
           in == When(Fresh(Inside(b), Inside(a)), In(d, X(a)))
           e == IF a = Absent THEN b ELSE IF a.kind = "dir" THEN Dir(a.mode, X(b)) ELSE a
           h == Halfway(b, a)
<1>0. /\ Fresh(Bare(b), Bare(a)) \in BOOLEAN /\ Fresh(Inside(b), Inside(a)) \in BOOLEAN
      /\ a # None /\ b # None
  BY NoneApart DEF Fresh
<1>1. e \in Entries /\ e # None
  <2>1. a.kind = "dir" => Dir(a.mode, X(b)) \in Entries
    BY BareIs, EntryForm, EntryFrom
  <2> QED
    BY <2>1, NoneApart
<1>2. Makes(b, bare, d, e)
  <2>1. ASSUME Fresh(Bare(b), Bare(a))
        PROVE  Makes(b, <<At(d, Bare(a))>>, d, e)
    <3>1. a # Absent /\ Bare(a) \in Entries /\ Bare(a) # Absent
      BY <2>1, BareIs DEF Fresh
    <3>2. Merged(b, Bare(a)) = e
      <4>1. CASE a.kind = "dir"
        <5>1. Bare(a) = Dir(a.mode, None) /\ Bare(a).kind = "dir" /\ Bare(a).mode = a.mode
          BY <4>1, BareIs, EntryFrom
        <5>2. b.kind # "file"
          BY <3>1, <4>1, EntryForm DEF Told
        <5> QED
          BY <3>1, <4>1, <5>1, <5>2, MergedIs DEF DirOver
      <4>2. CASE a.kind # "dir"
        <5>1. Bare(a) = a
          BY <4>2, BareIs
        <5>3. b.kind # "dir"
          <6>1. b = Absent => b.kind = "absent"
            BY EntryForm
          <6>2. b = Absent \/ (b.kind = "dir") = (a.kind = "dir") \/ b.kind = "link"
            BY <3>1 DEF Told
          <6> QED
            BY <4>2, <6>1, <6>2
        <5>2. a.kind \in {"file", "link"}
          BY <3>1, <4>2, EntryForm
        <5> QED
          BY <3>1, <4>2, <5>1, <5>2, <5>3, MergedIs DEF FileOver
      <4> QED
        BY <4>1, <4>2
    <3> QED
      BY <3>1, <3>2, MakesPut
  <2>2. ASSUME ~Fresh(Bare(b), Bare(a))
        PROVE  e = b
    <3>1. a = Absent \/ Bare(a) = Bare(b)
      BY <2>2, BareIs DEF Fresh
    <3>2. CASE a # Absent /\ a.kind = "dir"
      <4>1. b.kind = "dir"
        BY <3>1, <3>2, BareIs, EntryFrom
      <4>2. b = Dir(b.mode, X(b)) /\ a.mode = b.mode
        BY <3>1, <3>2, <4>1, BareIs, EntriesApart
      <4> QED
        BY <3>2, <4>2
    <3>3. CASE a # Absent /\ a.kind # "dir"
      <4>1. b.kind # "dir"
        BY <3>1, <3>3, BareIs, EntryFrom
      <4> QED
        BY <3>1, <3>3, <4>1, BareIs
    <3> QED
      BY <3>2, <3>3
  <2> HIDE DEF e
  <2> QED
    BY <1>0, <2>1, <2>2, MakesWhen
<1>3. h \in Entries /\ h # None
  <2>1. a.kind = "dir" => Dir(a.mode, X(b)) \in Entries
    BY BareIs, EntryForm, EntryFrom
  <2> QED
    BY <2>1, NoneApart DEF Halfway
<1>4. Makes(e, in, d, h)
  <2>1. ASSUME Fresh(Inside(b), Inside(a))
        PROVE  Makes(e, <<In(d, X(a))>>, d, h)
    <3>1. X(a) # None /\ X(a) \in Data /\ a.kind = "dir" /\ a # Absent
      BY <2>1, BareIs, EntryForm DEF Fresh
    <3>2. e = Dir(a.mode, X(b)) /\ e.kind = "dir" /\ e.mode = a.mode
      BY <3>1, EntryFrom
    <3>3. h = Dir(a.mode, X(a))
      BY <3>1, BareIs DEF Halfway
    <3> HIDE DEF e, h
    <3>4. Makes(e, <<In(d, X(a))>>, d,
                IF e.kind = "file" THEN None ELSE Dir(IF e.kind = "dir" THEN e.mode ELSE "plain", X(a)))
      BY <1>1, <3>1, <3>2, MakesIn
    <3> QED
      BY <3>2, <3>3, <3>4
  <2>2. ASSUME ~Fresh(Inside(b), Inside(a))
        PROVE  h = e
    <3>1. X(a) = None \/ X(a) = X(b)
      BY <2>2, BareIs, EntriesApart DEF Fresh
    <3>2. CASE a # Absent /\ a.kind = "dir" /\ X(a) # None
      BY <3>1, <3>2, BareIs DEF Halfway
    <3>3. CASE ~(a # Absent /\ a.kind = "dir" /\ X(a) # None)
      BY <3>3 DEF Halfway
    <3> QED
      BY <3>2, <3>3
  <2> HIDE DEF e, h
  <2> QED
    BY <1>0, <1>1, <2>1, <2>2, MakesWhen
<1>5. bare \in Seq(Member) /\ in \in Seq(Member)
  <2>1. Fresh(Bare(b), Bare(a)) => At(d, Bare(a)) \in Member
    BY BareIs DEF Fresh, Member
  <2>2. Fresh(Inside(b), Inside(a)) => In(d, X(a)) \in Member
    BY BareIs DEF Fresh, Member
  <2> QED
    BY <2>1, <2>2, WhenIs
<1>6. Packed(b, a, d) = bare \o in
  BY DEF Packed
<1> HIDE DEF bare, in, e, h
<1>7. Makes(b, bare \o in, d, h)
  BY <1>1, <1>2, <1>3, <1>4, <1>5, MakesThen
<1> QED
  BY <1>3, <1>6, <1>7 DEF h

LEMMA DroppedMakes ==
  ASSUME NEW b \in Entries, NEW a \in Entries, NEW d \in Top, Told(b, a)
  PROVE  Makes(Halfway(b, a), Withdrawn(b, a, d), d, a)
<1> DEFINE gone == When(Deleted(b, a), Gone(d))
           in == When(Deleted(Inside(b), Inside(a)), GoneIn(d))
           h == Halfway(b, a)
           e == IF a = Absent THEN Absent ELSE h
<1>0. /\ Deleted(b, a) \in BOOLEAN /\ Deleted(Inside(b), Inside(a)) \in BOOLEAN
      /\ a # None /\ b # None /\ Absent \in Entries
  BY NoneApart, EntryFrom DEF Deleted
<1>1. h \in Entries /\ h # None
  BY PackedMakes, NoneApart
<1>2. e \in Entries /\ e # None
  BY <1>0, <1>1, NoneApart
<1>3. Makes(h, gone, d, e)
  <2>1. ASSUME Deleted(b, a)
        PROVE  Makes(h, <<Gone(d)>>, d, e)
    <3>1. e = Absent
      BY <2>1 DEF Deleted
    <3> HIDE DEF e, h
    <3> QED
      BY <1>1, <3>1, MakesGone
  <2>2. ASSUME ~Deleted(b, a)
        PROVE  e = h
    BY <2>2 DEF Deleted, Halfway
  <2> HIDE DEF e, h
  <2> QED
    BY <1>0, <1>1, <2>1, <2>2, MakesWhen
<1>4. Makes(e, in, d, a)
  <2>1. ASSUME Deleted(Inside(b), Inside(a))
        PROVE  Makes(e, <<GoneIn(d)>>, d, a)
    <3>1. X(a) = None /\ X(b) # None /\ b.kind = "dir"
      BY <2>1, BareIs, EntriesApart DEF Deleted
    <3>2. CASE a = Absent
      <4>1. e = a /\ e.kind # "link" /\ e.kind # "dir"
        BY <3>2, EntryFrom
      <4> HIDE DEF e
      <4> QED
        BY <1>2, <4>1, MakesGoneIn
    <3>3. CASE a # Absent
      <4>1. a.kind = "dir"
        BY <3>1, <3>3, EntryForm DEF Told
      <4>2. e = Dir(a.mode, X(b)) /\ e.kind = "dir" /\ e.mode = a.mode
        BY <3>1, <3>3, <4>1, EntryFrom DEF Halfway
      <4>3. a = Dir(a.mode, None)
        BY <3>1, <4>1, BareIs
      <4> HIDE DEF e
      <4>4. Makes(e, <<GoneIn(d)>>, d, IF e.kind = "dir" THEN Dir(e.mode, None) ELSE e)
        BY <1>2, <4>2, MakesGoneIn
      <4> QED
        BY <4>2, <4>3, <4>4
    <3> QED
      BY <3>2, <3>3
  <2>2. ASSUME ~Deleted(Inside(b), Inside(a))
        PROVE  a = e
    <3>1. X(b) = None \/ X(a) # None
      BY <2>2, BareIs, EntriesApart DEF Deleted
    <3>2. CASE a # Absent /\ a.kind = "dir" /\ X(a) = None
      BY <3>1, <3>2, BareIs DEF Halfway
    <3>3. CASE ~(a # Absent /\ a.kind = "dir" /\ X(a) = None)
      BY <3>3 DEF Halfway
    <3> QED
      BY <3>2, <3>3
  <2> HIDE DEF e, h
  <2> QED
    BY <1>0, <1>2, <2>1, <2>2, MakesWhen
<1>5. gone \in Seq(Member) /\ in \in Seq(Member)
  <2>1. Gone(d) \in Member /\ GoneIn(d) \in Member
    BY DEF Member
  <2> QED
    BY <2>1, WhenIs
<1>6. Withdrawn(b, a, d) = gone \o in
  BY DEF Withdrawn
<1> HIDE DEF gone, in, e, h
<1>7. Makes(h, gone \o in, d, a)
  BY <1>1, <1>2, <1>3, <1>4, <1>5, MakesThen
<1> QED
  BY <1>6, <1>7 DEF h

\* The layer of the changes of a RUN, applied to what was there before it, gives
\* what was there after it.
LEMMA DiffReplays ==
  ASSUME NEW before \in Tree, NEW after \in Tree, \A d \in Top : Told(before[d], after[d])
  PROVE  Apply(before, DiffLayer(before, after)) = after
<1> DEFINE one == [d \in Top |-> Packed(before[d], after[d], d)]
           two == [d \in Top |-> Withdrawn(before[d], after[d], d)]
           mid == [d \in Top |-> Halfway(before[d], after[d])]
<1>0. \A d \in Top : before[d] \in Entries /\ after[d] \in Entries
  BY DEF Tree
<1>1. /\ one \in [Top -> Seq(Member)] /\ two \in [Top -> Seq(Member)]
      /\ DiffLayer(before, after) = ForTops(one) \o ForTops(two)
  BY DiffTyped
<1>2. mid \in Tree /\ mid \in [Top -> Entries \cup {None}] /\ \A d \in Top : mid[d] # None
  BY <1>0, PackedMakes, NoneApart DEF Tree
<1>3. \A d \in Top : Makes(before[d], one[d], d, mid[d])
  BY <1>0, PackedMakes
<1>4. \A d \in Top : Makes(mid[d], two[d], d, after[d])
  BY <1>0, DroppedMakes
<1>5. after \in [Top -> Entries \cup {None}] /\ \A d \in Top : after[d] # None
  BY <1>0, NoneApart DEF Tree
<1> HIDE DEF one, two, mid
<1>6. Apply(before, ForTops(one)) = mid
  BY <1>1, <1>2, <1>3, Blocks
<1>7. Apply(mid, ForTops(two)) = after
  BY <1>1, <1>2, <1>4, <1>5, Blocks
<1>8. Apply(before, ForTops(one) \o ForTops(two)) = Apply(Apply(before, ForTops(one)), ForTops(two))
  BY <1>1, ForTopsTyped, ApplyThen DEF Results
<1> QED
  BY <1>1, <1>6, <1>7, <1>8

-----------------------------------------------------------------------------
(* COPY: the members of a tidy map of files replay.                        *)

LEMMA SetToSeqNone == SetToSeq({}) = <<>>
<1>1. Cardinality({}) = 0
  BY FS_EmptySet
<1>2. <<>> \in [1..0 -> {}] /\ \A c \in [1..0 -> {}] : c = <<>>
  <2>1. <<>> \in [1..0 -> {}]
    OBVIOUS
  <2>2. ASSUME NEW c \in [1..0 -> {}]
        PROVE  c = <<>>
    <3>1. c \in Seq({})
      OBVIOUS
    <3>2. Len(c) = 0
      BY <3>1, LenProperties
    <3> QED
      BY <3>1, <3>2, EmptySeq
  <2> QED
    BY <2>1, <2>2
<1>3. IsInjective(<<>>)
  BY DEF IsInjective
<1> DEFINE P(f) == f \in [1..Cardinality({}) -> {}] /\ IsInjective(f)
<1>4. P(<<>>)
  BY <1>1, <1>2, <1>3
<1>5. SetToSeq({}) = CHOOSE f : P(f)
  BY DEF SetToSeq
<1>6. P(CHOOSE f : P(f))
  <2> HIDE DEF P
  <2> QED
    BY <1>4
<1> QED
  BY <1>1, <1>2, <1>5, <1>6

LEMMA SetToSeqOne ==
  ASSUME NEW m
  PROVE  SetToSeq({m}) = <<m>>
<1> DEFINE P(f) == f \in [1..Cardinality({m}) -> {m}] /\ IsInjective(f)
           q == <<m>>
<1>1. Cardinality({m}) = 1
  BY FS_Singleton
<1>2. q \in [1..1 -> {m}] /\ DOMAIN q = 1..1
  OBVIOUS
<1>3. IsInjective(q)
  <2> HIDE DEF q
  <2> QED
    BY <1>2 DEF IsInjective
<1>4. P(q)
  <2> HIDE DEF q
  <2> QED
    BY <1>1, <1>2, <1>3
<1>5. SetToSeq({m}) = CHOOSE f : P(f)
  BY DEF SetToSeq
<1>6. P(CHOOSE f : P(f))
  <2> HIDE DEF P, q
  <2> QED
    BY <1>4
<1> DEFINE c == CHOOSE f : P(f)
<1>7. c \in [1..1 -> {m}]
  BY <1>1, <1>6
<1>8. c = q
  <2> HIDE DEF c
  <2> QED
    BY <1>7
<1> QED
  BY <1>5, <1>8

\* A file map: one entry for a path, and nothing but a directory at the name of
\* one that has an entry inside.
Tidy(map) ==
  /\ map \subseteq Member
  /\ \A m \in map : m.do \in {"put", "putIn"}
  /\ \A m, n \in map : m.top = n.top /\ m.do = n.do => m = n
  /\ \A m, n \in map : m.top = n.top /\ m.do = "put" /\ n.do = "putIn" => m.arg.kind = "dir"

Has(map, d, do) == \E m \in map : m.top = d /\ m.do = do
Given(map, d, do) == (CHOOSE m \in map : m.top = d /\ m.do = do).arg
Piece(map, d, do) == SetToSeq({m \in map : m.top = d /\ m.do = do})

LEMMA ListedIs ==
  ASSUME NEW map, Tidy(map), NEW d \in Top, NEW do
  PROVE  /\ ~Has(map, d, do) => Piece(map, d, do) = <<>>
         /\ Has(map, d, do) => \E m \in map : /\ m.top = d /\ m.do = do /\ m.arg = Given(map, d, do)
                                              /\ Piece(map, d, do) = <<m>>
<1> DEFINE all == {m \in map : m.top = d /\ m.do = do}
<1>1. CASE ~Has(map, d, do)
  <2>1. all = {}
    BY <1>1 DEF Has
  <2> HIDE DEF all
  <2>2. SetToSeq(all) = <<>>
    BY <2>1, SetToSeqNone
  <2> QED
    BY <1>1, <2>2 DEF all, Piece
<1>2. CASE Has(map, d, do)
  <2> DEFINE m == CHOOSE m \in map : m.top = d /\ m.do = do
  <2>1. m \in map /\ m.top = d /\ m.do = do
    BY <1>2 DEF Has
  <2>2. m.arg = Given(map, d, do)
    BY DEF Given
  <2> HIDE DEF m
  <2>3. all = {m}
    BY <2>1 DEF Tidy
  <2> HIDE DEF all
  <2>4. SetToSeq(all) = <<m>>
    BY <2>3, SetToSeqOne
  <2> QED
    BY <1>2, <2>1, <2>2, <2>4 DEF all, Piece
<1> QED
  BY <1>1, <1>2

LEMMA ListedTyped ==
  ASSUME NEW map, Tidy(map), NEW d \in Top, NEW do
  PROVE  Piece(map, d, do) \in Seq(Member)
<1>1. CASE ~Has(map, d, do)
  <2>1. Piece(map, d, do) = <<>>
    BY <1>1, ListedIs
  <2> QED
    BY <2>1, EmptySeq
<1>2. CASE Has(map, d, do)
  <2>1. PICK m \in map : Piece(map, d, do) = <<m>>
    BY <1>2, ListedIs
  <2>2. m \in Member
    BY DEF Tidy
  <2> QED
    BY <2>1, <2>2
<1> QED
  BY <1>1, <1>2

\* What the entries of a file map make of what stands under a name.
AfterPut(map, b, d) == IF Has(map, d, "put") THEN Merged(b, Given(map, d, "put")) ELSE b
InOver(h, v) ==
  IF h.kind = "file" THEN None ELSE Dir(IF h.kind = "dir" THEN h.mode ELSE "plain", v)
Outcome(map, b, d) ==
  IF AfterPut(map, b, d) = None THEN None
  ELSE IF Has(map, d, "putIn") THEN InOver(AfterPut(map, b, d), Given(map, d, "putIn"))
  ELSE AfterPut(map, b, d)

LEMMA GivenIs ==
  ASSUME NEW map, Tidy(map), NEW d \in Top
  PROVE  /\ Has(map, d, "put") => /\ Given(map, d, "put") \in Entries /\ Given(map, d, "put") # Absent
                                  /\ Piece(map, d, "put") = <<At(d, Given(map, d, "put"))>>
                                  /\ Has(map, d, "putIn") => Given(map, d, "put").kind = "dir"
         /\ Has(map, d, "putIn") => /\ Given(map, d, "putIn") \in Data
                                    /\ Piece(map, d, "putIn") = <<In(d, Given(map, d, "putIn"))>>
<1>1. ASSUME Has(map, d, "put")
      PROVE  /\ Given(map, d, "put") \in Entries /\ Given(map, d, "put") # Absent
             /\ Piece(map, d, "put") = <<At(d, Given(map, d, "put"))>>
             /\ Has(map, d, "putIn") => Given(map, d, "put").kind = "dir"
  <2>1. PICK m \in map : /\ m.top = d /\ m.do = "put" /\ m.arg = Given(map, d, "put")
                         /\ Piece(map, d, "put") = <<m>>
    BY <1>1, ListedIs
  <2>2. m \in Member
    BY DEF Tidy
  <2>3. m.arg \in Entries /\ m.arg # Absent /\ m = At(m.top, m.arg)
    BY <2>1, <2>2, MemberKinds
  <2>4. Has(map, d, "putIn") => m.arg.kind = "dir"
    BY <2>1 DEF Tidy, Has
  <2> QED
    BY <2>1, <2>3, <2>4
<1>2. ASSUME Has(map, d, "putIn")
      PROVE  /\ Given(map, d, "putIn") \in Data
             /\ Piece(map, d, "putIn") = <<In(d, Given(map, d, "putIn"))>>
  <2>1. PICK m \in map : /\ m.top = d /\ m.do = "putIn" /\ m.arg = Given(map, d, "putIn")
                         /\ Piece(map, d, "putIn") = <<m>>
    BY <1>2, ListedIs
  <2>2. m \in Member
    BY DEF Tidy
  <2>3. m.arg \in Data /\ m = In(m.top, m.arg)
    BY <2>1, <2>2, MemberKinds
  <2> QED
    BY <2>1, <2>3
<1> QED
  BY <1>1, <1>2

LEMMA InOverIs ==
  ASSUME NEW h \in Entries, NEW v \in Data
  PROVE  InOver(h, v) \in Entries \cup {None}
<1>1. h.kind = "dir" => h.mode \in {"plain", "special"}
  BY EntryForm
<1> QED
  BY <1>1, EntryFrom DEF InOver

LEMMA ListMakes ==
  ASSUME NEW map, Tidy(map), NEW d \in Top, NEW b \in Entries,
         Has(map, d, "putIn") => b.kind # "link"
  PROVE  /\ AfterPut(map, b, d) \in Entries \cup {None}
         /\ Outcome(map, b, d) \in Entries \cup {None}
         /\ Makes(b, Piece(map, d, "put") \o Piece(map, d, "putIn"), d, Outcome(map, b, d))
<1> DEFINE e == Given(map, d, "put")
           v == Given(map, d, "putIn")
           h == AfterPut(map, b, d)
           new == Outcome(map, b, d)
           one == Piece(map, d, "put")
           two == Piece(map, d, "putIn")
<1>0. b # None /\ one \in Seq(Member) /\ two \in Seq(Member)
  BY NoneApart, ListedTyped
<1>1. h \in Entries \cup {None}
  BY GivenIs, MergedIs DEF AfterPut
<1>2. Makes(b, one, d, h)
  <2>1. CASE Has(map, d, "put")
    <3>1. h = Merged(b, e) /\ one = <<At(d, e)>> /\ e \in Entries /\ e # Absent
      BY <2>1, GivenIs DEF AfterPut
    <3> HIDE DEF h, e, one
    <3> QED
      BY <3>1, MakesPut
  <2>2. CASE ~Has(map, d, "put")
    <3>1. h = b /\ one = <<>>
      BY <2>2, ListedIs DEF AfterPut
    <3> HIDE DEF h, one
    <3> QED
      BY <1>0, <3>1, MakesNothing
  <2> QED
    BY <2>1, <2>2
<1>3. new \in Entries \cup {None}
  <2>1. h # None /\ Has(map, d, "putIn") => v \in Data /\ new = InOver(h, v)
    BY GivenIs DEF Outcome
  <2>2. ~(h # None /\ Has(map, d, "putIn")) => new = h
    BY DEF Outcome
  <2> HIDE DEF h, v, new
  <2> QED
    BY <1>1, <2>1, <2>2, InOverIs
<1>4. ASSUME h # None
      PROVE  Makes(h, two, d, new)
  <2>1. CASE Has(map, d, "putIn")
    <3>1. new = InOver(h, v) /\ two = <<In(d, v)>> /\ v \in Data
      BY <1>4, <2>1, GivenIs DEF Outcome
    <3>2. h.kind # "link"
      <4>1. CASE Has(map, d, "put")
        <5>1. h = Merged(b, e) /\ e.kind = "dir" /\ e \in Entries /\ e # Absent
          BY <2>1, <4>1, GivenIs DEF AfterPut
        <5>2. h = DirOver(b, e)
          BY <5>1, MergedIs
        <5> HIDE DEF h, e
        <5> QED
          BY <1>4, <5>2, EntryFrom DEF DirOver
      <4>2. CASE ~Has(map, d, "put")
        BY <2>1, <4>2 DEF AfterPut
      <4> QED
        BY <4>1, <4>2
    <3>3. h \in Entries
      BY <1>1, <1>4
    <3> HIDE DEF h, v, new, two
    <3>4. Makes(h, <<In(d, v)>>, d,
                IF h.kind = "file" THEN None ELSE Dir(IF h.kind = "dir" THEN h.mode ELSE "plain", v))
      BY <3>1, <3>2, <3>3, MakesIn
    <3> QED
      BY <3>1, <3>4 DEF InOver
  <2>2. CASE ~Has(map, d, "putIn")
    <3>1. new = h /\ two = <<>>
      BY <1>4, <2>2, ListedIs DEF Outcome
    <3> HIDE DEF h, new, two
    <3> QED
      BY <1>4, <3>1, MakesNothing
  <2> QED
    BY <2>1, <2>2
<1>5. h = None => new = None
  BY DEF Outcome
<1> HIDE DEF h, new, one, two
<1>6. Makes(b, one \o two, d, new)
  BY <1>0, <1>1, <1>2, <1>3, <1>4, <1>5, MakesThen
<1> QED
  BY <1>1, <1>3, <1>6 DEF h, new, one, two

InOrderOf(map) == [d \in Top |-> Piece(map, d, "put") \o Piece(map, d, "putIn")]
Parents(map) == [d \in Top |-> When(Has(map, d, "putIn"), At(d, Dir("plain", None)))]

LEMMA FilesTyped ==
  ASSUME NEW map, Tidy(map)
  PROVE  /\ InOrderOf(map) \in [Top -> Seq(Member)] /\ Parents(map) \in [Top -> Seq(Member)]
         /\ InOrder(map) = ForTops(InOrderOf(map))
         /\ FilesLayer(map) = ForTops(Parents(map)) \o ForTops(InOrderOf(map))
         /\ InOrder(map) \in Seq(Member) /\ FilesLayer(map) \in Seq(Member)
<1>1. InOrderOf(map) \in [Top -> Seq(Member)]
  <2>1. \A d \in Top : Piece(map, d, "put") \o Piece(map, d, "putIn") \in Seq(Member)
    BY ListedTyped, Joined
  <2> QED
    BY <2>1 DEF InOrderOf
<1>2. Parents(map) \in [Top -> Seq(Member)]
  <2>1. ASSUME NEW d \in Top
        PROVE  When(Has(map, d, "putIn"), At(d, Dir("plain", None))) \in Seq(Member)
    <3>1. Dir("plain", None) \in Entries /\ Dir("plain", None) # Absent
      BY EntryFrom, EntriesApart
    <3>2. At(d, Dir("plain", None)) \in Member
      BY <3>1 DEF Member
    <3> QED
      BY <3>2, WhenIs
  <2> QED
    BY <2>1 DEF Parents
<1>3. InOrder(map) = ForTops(InOrderOf(map))
  BY DEF InOrder, InOrderOf, Piece
<1>4. Parents(map) = [d \in Top |-> When(\E m \in map : m.do = "putIn" /\ m.top = d, At(d, Dir("plain", None)))]
  <2>1. \A d \in Top : (\E m \in map : m.do = "putIn" /\ m.top = d) <=> Has(map, d, "putIn")
    BY DEF Has
  <2> QED
    BY <2>1 DEF Parents, When
<1>5. FilesLayer(map) = ForTops(Parents(map)) \o ForTops(InOrderOf(map))
  BY <1>3, <1>4 DEF FilesLayer
<1> QED
  BY <1>1, <1>2, <1>3, <1>5, ForTopsTyped, Joined

\* Every directory that something goes into stands there with mode 0755, or not at all.
PlainIn(t, map) ==
  \A d \in Top : Has(map, d, "putIn") => /\ t[d].kind # "link"
                                         /\ t[d].kind = "dir" => t[d].mode = "plain"

LEMMA InOrderMakes ==
  ASSUME NEW t \in Tree, NEW map, Tidy(map),
         \A d \in Top : Has(map, d, "putIn") => t[d].kind # "link"
  PROVE  Apply(t, InOrder(map)) = IF \E d \in Top : Outcome(map, t[d], d) = None THEN None
                                  ELSE [d \in Top |-> Outcome(map, t[d], d)]
<1> DEFINE g == [d \in Top |-> Outcome(map, t[d], d)]
           of == InOrderOf(map)
<1>0. \A d \in Top : t[d] \in Entries
  BY DEF Tree
<1>1. of \in [Top -> Seq(Member)] /\ InOrder(map) = ForTops(of)
  BY FilesTyped
<1>2. g \in [Top -> Entries \cup {None}] /\ \A d \in Top : Makes(t[d], of[d], d, g[d])
  BY <1>0, ListMakes DEF InOrderOf
<1>3. (\E d \in Top : g[d] = None) <=> \E d \in Top : Outcome(map, t[d], d) = None
  OBVIOUS
<1> HIDE DEF g, of
<1>4. Apply(t, ForTops(of)) = IF \E d \in Top : g[d] = None THEN None ELSE g
  BY <1>1, <1>2, Blocks
<1> QED
  BY <1>1, <1>3, <1>4 DEF g

\* The layer of a file map, applied, gives what writing its entries gives.
LEMMA FilesReplay ==
  ASSUME NEW t \in Tree, NEW map, Tidy(map), PlainIn(t, map),
         \A d \in Top : Outcome(map, t[d], d) # None
  PROVE  Apply(t, FilesLayer(map)) = [d \in Top |-> Outcome(map, t[d], d)]
<1> DEFINE plain == Dir("plain", None)
           u == [d \in Top |-> IF Has(map, d, "putIn") THEN Dir("plain", X(t[d])) ELSE t[d]]
           of == Parents(map)
<1>0. \A d \in Top : t[d] \in Entries /\ t[d] # None
  BY NoneApart DEF Tree
<1>1. \A d \in Top : Has(map, d, "putIn") =>
        /\ t[d].kind \in {"absent", "dir"}
        /\ t[d].kind = "dir" => t[d] = Dir("plain", X(t[d]))
        /\ X(t[d]) \in Data \cup {None}
  <2> SUFFICES ASSUME NEW d \in Top, Has(map, d, "putIn")
               PROVE  /\ t[d].kind \in {"absent", "dir"}
                      /\ t[d].kind = "dir" => t[d] = Dir("plain", X(t[d]))
                      /\ X(t[d]) \in Data \cup {None}
    OBVIOUS
  <2>1. t[d].kind # "file"
    <3> SUFFICES ASSUME t[d].kind = "file"
                 PROVE  Outcome(map, t[d], d) = None
      OBVIOUS
    <3>1. CASE Has(map, d, "put")
      <4>1. /\ Given(map, d, "put") \in Entries /\ Given(map, d, "put") # Absent
            /\ Given(map, d, "put").kind = "dir"
        BY <3>1, GivenIs
      <4>2. AfterPut(map, t[d], d) = None
        BY <1>0, <3>1, <4>1, MergedIs DEF AfterPut, DirOver
      <4> QED
        BY <4>2 DEF Outcome
    <3>2. CASE ~Has(map, d, "put")
      BY <3>2 DEF Outcome, AfterPut, InOver
    <3> QED
      BY <3>1, <3>2
  <2>2. t[d].kind # "link" /\ (t[d].kind = "dir" => t[d].mode = "plain")
    BY DEF PlainIn
  <2> QED
    BY <1>0, <2>1, <2>2, BareIs, EntryForm
<1>2. u \in Tree
  <2>1. \A d \in Top : Has(map, d, "putIn") => Dir("plain", X(t[d])) \in Entries
    BY <1>1, EntryFrom
  <2> QED
    BY <1>0, <2>1 DEF Tree
<1>3. Apply(t, ForTops(of)) = u
  <2>1. of \in [Top -> Seq(Member)]
    BY FilesTyped
  <2>2. ASSUME NEW d \in Top
        PROVE  Makes(t[d], of[d], d, u[d])
    <3>1. of[d] = When(Has(map, d, "putIn"), At(d, plain))
      BY DEF Parents
    <3>2. ASSUME Has(map, d, "putIn")
          PROVE  Makes(t[d], <<At(d, plain)>>, d, u[d])
      <4>1. plain \in Entries /\ plain # Absent /\ plain.kind = "dir" /\ plain.mode = "plain"
        BY EntryFrom, EntriesApart
      <4>2. u[d] = Dir("plain", X(t[d])) /\ t[d].kind # "file"
        BY <1>1, <3>2
      <4> HIDE DEF plain, u
      <4>3. Merged(t[d], plain) = u[d]
        BY <1>0, <4>1, <4>2, MergedIs DEF DirOver
      <4> QED
        BY <1>0, <4>1, <4>3, MakesPut
    <3>3. ~Has(map, d, "putIn") => u[d] = t[d]
      OBVIOUS
    <3>4. Has(map, d, "putIn") \in BOOLEAN
      BY DEF Has
    <3> HIDE DEF plain, u, of
    <3> QED
      BY <1>0, <3>1, <3>2, <3>3, <3>4, MakesWhen
  <2>3. u \in [Top -> Entries \cup {None}] /\ \A d \in Top : u[d] # None
    <3> HIDE DEF u
    <3> QED
      BY <1>2, NoneApart DEF Tree
  <2> HIDE DEF of, u
  <2> QED
    BY <2>1, <2>2, <2>3, Blocks
<1>4. \A d \in Top : Has(map, d, "putIn") => u[d].kind # "link"
  BY EntryFrom
<1>5. ASSUME NEW d \in Top
      PROVE  Outcome(map, u[d], d) = Outcome(map, t[d], d)
  <2>1. CASE ~Has(map, d, "putIn")
    BY <2>1
  <2>2. CASE Has(map, d, "putIn")
    <3>1. u[d] = Dir("plain", X(t[d])) /\ u[d].kind = "dir" /\ u[d].mode = "plain" /\ X(u[d]) = X(t[d])
      BY <2>2, EntryFrom
    <3>2. u[d] \in Entries
      BY <1>2 DEF Tree
    <3>3. t[d].kind \in {"absent", "dir"} /\ (t[d].kind = "dir" => t[d] = u[d])
      BY <1>1, <2>2, <3>1
    <3> HIDE DEF u
    <3>4. CASE Has(map, d, "put")
      <4> DEFINE e == Given(map, d, "put")
      <4>1. e \in Entries /\ e # Absent /\ e.kind = "dir"
        BY <2>2, <3>4, GivenIs
      <4>2. Merged(u[d], e) = DirOver(u[d], e) /\ Merged(t[d], e) = DirOver(t[d], e)
        BY <1>0, <3>2, <4>1, MergedIs
      <4>3. AfterPut(map, u[d], d) = AfterPut(map, t[d], d)
        BY <3>1, <3>3, <3>4, <4>2 DEF AfterPut, DirOver
      <4> QED
        BY <4>3 DEF Outcome
    <3>5. CASE ~Has(map, d, "put")
      <4>1. AfterPut(map, u[d], d) = u[d] /\ AfterPut(map, t[d], d) = t[d]
        BY <3>5 DEF AfterPut
      <4>2. u[d] # None
        BY <3>2, NoneApart
      <4>3. InOver(u[d], Given(map, d, "putIn")) = InOver(t[d], Given(map, d, "putIn"))
        BY <3>1, <3>3 DEF InOver
      <4> QED
        BY <1>0, <2>2, <4>1, <4>2, <4>3 DEF Outcome
    <3> QED
      BY <3>4, <3>5
  <2> QED
    BY <2>1, <2>2
<1> HIDE DEF u, of
<1>6. Apply(u, InOrder(map)) = [d \in Top |-> Outcome(map, t[d], d)]
  <2>1. Apply(u, InOrder(map)) = IF \E d \in Top : Outcome(map, u[d], d) = None THEN None
                                 ELSE [d \in Top |-> Outcome(map, u[d], d)]
    BY <1>2, <1>4, InOrderMakes
  <2> QED
    BY <1>5, <2>1
<1>7. Apply(t, FilesLayer(map)) = Apply(Apply(t, ForTops(of)), InOrder(map))
  <2>1. FilesLayer(map) = ForTops(of) \o InOrder(map) /\ ForTops(of) \in Seq(Member) /\ InOrder(map) \in Seq(Member)
    BY FilesTyped, ForTopsTyped DEF of
  <2> QED
    BY <2>1, ApplyThen DEF Results
<1> QED
  BY <1>3, <1>6, <1>7

\* The layer of a COPY gives what the copy made.
LEMMA CopyReplays ==
  ASSUME NEW t \in Tree, NEW map, Tidy(map), PlainIn(t, map), MaterialiseAll(t, map) # None
  PROVE  Apply(t, FilesLayer(map)) = MaterialiseAll(t, map)
<1>1. MaterialiseAll(t, map) = MatOver(t, InOrder(map))
  BY DEF MaterialiseAll, MatOver
<1>2. Apply(t, InOrder(map)) = MatOver(t, InOrder(map))
  BY <1>1, FilesTyped, MatApplies
<1>3. \A d \in Top : Has(map, d, "putIn") => t[d].kind # "link"
  BY DEF PlainIn
<1>4. Apply(t, InOrder(map)) = IF \E d \in Top : Outcome(map, t[d], d) = None THEN None
                               ELSE [d \in Top |-> Outcome(map, t[d], d)]
  BY <1>3, InOrderMakes
<1>5. \A d \in Top : Outcome(map, t[d], d) # None
  BY <1>1, <1>2, <1>4
<1> QED
  BY <1>1, <1>2, <1>4, <1>5, FilesReplay

-----------------------------------------------------------------------------
(* The build: its invariant, step by step.                                 *)

LEMMA FoundIs ==
  ASSUME NEW t \in Tree, NEW p \in Paths
  PROVE  Found(t, p) \in Entries
<1>1. CASE p = Root
  BY <1>1, EntryFrom DEF Root, Found
<1>2. CASE p \in [top : Top, x : BOOLEAN]
  <2>1. p.top \in Top /\ p.top # None /\ t[p.top] \in Entries
    BY <1>2, NoneApart DEF Tree
  <2>2. X(t[p.top]) \in Data \cup {None}
    BY <2>1, BareIs
  <2> QED
    BY <2>1, <2>2, EntryFrom DEF Found
<1> QED
  BY <1>1, <1>2 DEF Paths

LEMMA TidyOne ==
  ASSUME NEW m \in Member, m.do \in {"put", "putIn"}
  PROVE  Tidy({m})
  BY DEF Tidy

LEMMA TidyNone == Tidy({})
  BY DEF Tidy

LEMMA AllTidy ==
  ASSUME NEW t \in Tree, NEW ignored
  PROVE  Tidy(AllMembers(t, ignored))
<1> DEFINE named == {d \in Top : t[d] # Absent /\ [top |-> d, x |-> FALSE] \notin ignored}
           inside == {d \in named : X(t[d]) # None /\ [top |-> d, x |-> TRUE] \notin ignored}
           map == {At(d, Bare(t[d])) : d \in named} \cup {In(d, X(t[d])) : d \in inside}
<1>1. map = AllMembers(t, ignored)
  BY DEF AllMembers
<1>2. \A d \in named : d \in Top /\ t[d] \in Entries /\ t[d] # Absent
  BY DEF Tree
<1>3. \A d \in inside : d \in named /\ X(t[d]) # None
  OBVIOUS
<1> HIDE DEF named, inside
<1>4. \A d \in named : /\ At(d, Bare(t[d])) \in Member
                       /\ At(d, Bare(t[d])).top = d /\ At(d, Bare(t[d])).do = "put"
                       /\ At(d, Bare(t[d])).arg = Bare(t[d])
  BY <1>2, BareIs DEF Member, At
<1>5. \A d \in inside : /\ In(d, X(t[d])) \in Member
                        /\ In(d, X(t[d])).top = d /\ In(d, X(t[d])).do = "putIn"
                        /\ Bare(t[d]).kind = "dir"
  <2>1. \A d \in inside : d \in Top /\ X(t[d]) \in Data /\ Bare(t[d]).kind = "dir"
    BY <1>2, <1>3, BareIs, EntryFrom
  <2> QED
    BY <2>1 DEF Member, In
<1>6. Tidy(map)
  <2>1. \A m \in map : \/ \E d \in named : m = At(d, Bare(t[d]))
                       \/ \E d \in inside : m = In(d, X(t[d]))
    OBVIOUS
  <2> HIDE DEF map
  <2>2. map \subseteq Member
    BY <1>4, <1>5, <2>1
  <2>3. \A m \in map : m.do \in {"put", "putIn"}
    BY <1>4, <1>5, <2>1
  <2>4. \A m, n \in map : m.top = n.top /\ m.do = n.do => m = n
    BY <1>4, <1>5, <2>1
  <2>5. \A m, n \in map : m.top = n.top /\ m.do = "put" /\ n.do = "putIn" => m.arg.kind = "dir"
    BY <1>4, <1>5, <2>1
  <2> QED
    BY <2>2, <2>3, <2>4, <2>5 DEF Tidy
<1> QED
  BY <1>1, <1>6

\* What a COPY or ADD has to write.
LEMMA FileMapTidy ==
  ASSUME NEW t \in Tree, NEW from \in Paths, NEW to \in Paths, NEW ignored,
         Found(t, from) # Absent, Fits(t, from, to)
  PROVE  Tidy(FileMap(t, from, to, ignored))
<1> DEFINE found == Found(t, from)
           map == FileMap(t, from, to, ignored)
<1>0. found \in Entries
  BY FoundIs
<1>1. CASE from = Root
  BY <1>1, AllTidy DEF FileMap
<1>2. CASE from # Root
  <2>1. to.top \in Top
    BY <1>2 DEF Fits, Paths
  <2>2. to.x => found.kind = "file" /\ found.data \in Data
    BY <1>0, EntryForm DEF Fits
  <2> HIDE DEF found
  <2>3. Tidy(OneMember(found, to))
    <3>1. CASE to.x
      <4>1. In(to.top, found.data) \in Member /\ In(to.top, found.data).do = "putIn"
        BY <2>1, <2>2, <3>1 DEF Member, In
      <4> QED
        BY <3>1, <4>1, TidyOne DEF OneMember
    <3>2. CASE ~to.x
      <4>1. found # Absent
        BY DEF found
      <4>2. At(to.top, found) \in Member /\ At(to.top, found).do = "put"
        BY <1>0, <2>1, <4>1 DEF Member, At
      <4> QED
        BY <3>2, <4>2, TidyOne DEF OneMember
    <3> QED
      BY <3>1, <3>2
  <2>4. Tidy(DirMembers(found, to))
    <3>1. CASE X(found) = None
      BY <3>1, TidyNone DEF DirMembers
    <3>2. CASE X(found) # None
      <4>1. X(found) \in Data
        BY <1>0, <3>2, BareIs
      <4>2. In(to.top, X(found)) \in Member /\ In(to.top, X(found)).do = "putIn"
        BY <2>1, <4>1 DEF Member, In
      <4> QED
        BY <3>2, <4>2, TidyOne DEF DirMembers
    <3> QED
      BY <3>1, <3>2
  <2>5. map \in {{}, OneMember(found, to), DirMembers(found, to)}
    BY <1>2 DEF FileMap, found
  <2> HIDE DEF map
  <2>6. CASE map = {}
    BY <2>6, TidyNone DEF map
  <2>7. CASE map = OneMember(found, to)
    BY <2>3, <2>7 DEF map
  <2>8. CASE map = DirMembers(found, to)
    BY <2>4, <2>8 DEF map
  <2> QED
    BY <2>5, <2>6, <2>7, <2>8
<1> QED
  BY <1>1, <1>2

LEMMA SourceIs ==
  ASSUME NEW t \in Tree, NEW spec \in Paths,
         ~(Source(t, spec).x /\ Source(t, spec).top = None)
  PROVE  Source(t, spec) \in Paths
<1>1. CASE ~spec.x
  BY <1>1 DEF Source
<1>2. CASE spec.x
  <2>1. spec \in [top : Top, x : BOOLEAN] /\ spec.x = TRUE
    BY <1>2 DEF Paths, Root
  <2>2. Resolved(t, spec.top) \in Top \cup {None}
    BY <2>1, ResolvedIs
  <2>3. Source(t, spec) = [top |-> Resolved(t, spec.top), x |-> TRUE]
    BY <2>1 DEF Source
  <2> QED
    BY <2>2, <2>3 DEF Paths
<1> QED
  BY <1>1, <1>2

LEMMA PlainInIs ==
  ASSUME NEW map, ParentsPlain(map)
  PROVE  PlainIn(tree, map)
  BY DEF ParentsPlain, PlainIn, Has

LEMMA RetypedIs ==
  ASSUME NEW t \in Tree, NEW u \in Tree, ~Retyped(t, u)
  PROVE  \A d \in Top : Told(t[d], u[d])
<1> SUFFICES ASSUME NEW d \in Top
             PROVE  Told(t[d], u[d])
  OBVIOUS
<1>1. t[d] \in Entries /\ u[d] \in Entries
  BY DEF Tree
<1>2. \/ Absent \in {t[d], u[d]}
      \/ (t[d].kind = "dir") = (u[d].kind = "dir")
      \/ ~("file" \in {t[d].kind, u[d].kind} \/ u[d].kind = "link")
  BY DEF Retyped
<1>3. t[d] # Absent => t[d].kind \in {"file", "link", "dir"}
  BY <1>1, EntryForm
<1>4. u[d] # Absent => u[d].kind \in {"file", "link", "dir"}
  BY <1>1, EntryForm
<1> QED
  BY <1>2, <1>3, <1>4 DEF Told

---------------------------------------------------------------------------
Layers == Seq(Seq(Member))

\* What the build keeps: layers and trees, and that the ones replay to the others.
BuildInv ==
  /\ BuildTypeOK
  /\ layers \in Layers
  /\ \A r \in runs : r.layer \in Seq(Member)
  /\ parent # None => parent.tree \in Tree
  /\ CleanLayersReplay

LEMMA BuildInvInit == BuildInit \/ NoBuild => BuildInv
<1> SUFFICES ASSUME BuildInit \/ NoBuild
             PROVE  BuildInv
  OBVIOUS
<1>1. base \in Tree
  BY ImageBuildAssumption, EntryFrom DEF BuildInit, NoBuild, Tree
<1>2. BuildTypeOK
  <2>1. 0 \in 0..MaxSteps /\ 1 \in 1..MaxStages
    BY ImageBuildAssumption
  <2>2. /\ build \in {"idle", "building"} /\ tree = base /\ clean = TRUE
        /\ steps = 0 /\ stages = 1
    BY DEF BuildInit, NoBuild
  <2> QED
    BY <1>1, <2>1, <2>2 DEF BuildTypeOK
<1>3. layers \in Layers /\ runs = {} /\ parent = None
  <2>1. layers = <<>> /\ runs = {} /\ parent = None
    BY DEF BuildInit, NoBuild
  <2> QED
    BY <2>1, EmptySeq DEF Layers
<1>4. tree = base /\ layers = <<>>
  BY DEF BuildInit, NoBuild
<1>5. ApplyAll(base, <<>>) = base
  BY <1>1, ApplyAllNothing DEF Results
<1>6. CleanLayersReplay
  BY <1>4, <1>5 DEF CleanLayersReplay, LayersReplay, Replayed
<1> QED
  BY <1>2, <1>3, <1>6 DEF BuildInv

\* An instruction that leaves a tree and a layer.
LEMMA DoneStep ==
  ASSUME BuildInv, build = "building", NEW t \in Results, NEW layer \in Seq(Member),
         NEW replays \in BOOLEAN, NEW records, \A r \in records : r.layer \in Seq(Member),
         clean /\ replays /\ t # None => Apply(tree, layer) = t,
         Instruction, Done(t, layer, replays, records)
  PROVE  BuildInv'
<1>0. BuildTypeOK /\ layers \in Layers /\ steps' \in 0..MaxSteps
  BY ImageBuildAssumption DEF BuildInv, BuildTypeOK, Instruction
<1>1. CASE t = None
  <2>1. build' = "failed" /\ UNCHANGED <<base, stage, parent, runs, stages>>
    BY <1>1 DEF Done, Fails
  <2> QED
    BY <1>0, <2>1 DEF BuildInv, BuildTypeOK, CleanLayersReplay, LayersReplay, stage
<1>2. CASE t # None
  <2>1. /\ tree' = t /\ layers' = Append(layers, layer) /\ clean' = (clean /\ replays)
        /\ runs' = records /\ UNCHANGED <<build, base, parent, stages>>
    BY <1>2 DEF Done
  <2>2. tree' \in Tree /\ BuildTypeOK'
    BY <1>0, <1>2, <2>1 DEF BuildTypeOK, Results
  <2>3. layers' \in Layers
    BY <1>0, <2>1 DEF Layers
  <2>4. ASSUME clean'
        PROVE  Replayed' = tree'
    <3>1. ApplyAll(base, layers) = tree /\ clean /\ replays
      BY <2>1, <2>4 DEF BuildInv, CleanLayersReplay, LayersReplay, Replayed
    <3>2. ApplyAll(base, Append(layers, layer)) = Then(ApplyAll(base, layers), layer)
      BY <1>0, ApplyAllOneMore DEF BuildTypeOK, Results, Layers
    <3>3. tree # None
      BY <1>0, NoneApart DEF BuildTypeOK
    <3> QED
      BY <1>2, <2>1, <3>1, <3>2, <3>3 DEF Then, Replayed
  <2> QED
    BY <2>1, <2>2, <2>3, <2>4 DEF BuildInv, CleanLayersReplay, LayersReplay
<1> QED
  BY <1>1, <1>2

LEMMA RunKeeps ==
  ASSUME BuildInv, NEW c \in Commands, Run(c) \/ RunCached(c)
  PROVE  BuildInv'
<1>0. tree \in Tree /\ build = "building" /\ Instruction /\ \A r \in runs : r.layer \in Seq(Member)
  BY DEF BuildInv, BuildTypeOK, Run, RunCached, Instruction
<1>1. CASE Run(c)
  <2>1. PICK d \in Top, e \in Left :
          LET after == [tree EXCEPT ![d] = e]
              layer == DiffLayer(tree, after)
              record == [recipe |-> Recipe(c), layer |-> layer]
          IN Done(after, layer, ~Retyped(tree, after), (runs \ RunsOf(record.recipe)) \cup {record})
    BY <1>1 DEF Run
  <2> DEFINE after == [tree EXCEPT ![d] = e]
             layer == DiffLayer(tree, after)
             record == [recipe |-> Recipe(c), layer |-> layer]
             records == (runs \ RunsOf(record.recipe)) \cup {record}
  <2>2. after \in Tree
    <3>1. e \in Entries
      BY ImageBuildAssumption
    <3> QED
      BY <1>0, <3>1, TreePut
  <2>3. Done(after, layer, ~Retyped(tree, after), records)
    BY <2>1
  <2> HIDE DEF after
  <2>4. layer \in Seq(Member)
    BY <1>0, <2>2, DiffTyped
  <2>5. ~Retyped(tree, after) => Apply(tree, layer) = after
    BY <1>0, <2>2, RetypedIs, DiffReplays
  <2>6. \A r \in records : r.layer \in Seq(Member)
    <3> HIDE DEF layer
    <3> QED
      BY <1>0, <2>4
  <2>7. (~Retyped(tree, after)) \in BOOLEAN /\ after \in Results
    BY <2>2 DEF Retyped, Results
  <2> HIDE DEF layer, records
  <2> QED
    BY <1>0, <2>3, <2>4, <2>5, <2>6, <2>7, DoneStep
<1>2. CASE RunCached(c)
  <2>1. PICK r \in RunsOf(Recipe(c)) : Done(Apply(tree, r.layer), r.layer, TRUE, runs)
    BY <1>2 DEF RunCached
  <2>2. r.layer \in Seq(Member)
    BY <1>0, <2>1 DEF RunsOf
  <2>3. Apply(tree, r.layer) \in Results
    BY <1>0, <2>2, ApplyTyped DEF Results
  <2> QED
    BY <1>0, <2>1, <2>2, <2>3, DoneStep
<1> QED
  BY <1>1, <1>2

LEMMA CopyKeeps ==
  ASSUME BuildInv, Instruction, NEW t \in Tree, NEW ignored, CopyFrom(t, ignored)
  PROVE  BuildInv'
<1>0. BuildTypeOK /\ tree \in Tree /\ build = "building" /\ steps' \in 0..MaxSteps
      /\ \A r \in runs : r.layer \in Seq(Member)
  BY ImageBuildAssumption DEF BuildInv, BuildTypeOK, Instruction
<1>1. PICK spec \in Paths, to \in Paths :
        LET from == Source(t, spec) IN
        IF (from.x /\ from.top = None) \/ Found(t, from) = Absent
          THEN Fails
          ELSE /\ Fits(t, from, to)
               /\ LET map == FileMap(t, from, to, ignored) IN
                  IF map = {} THEN Nothing
                  ELSE Done(MaterialiseAll(tree, map), FilesLayer(map), ParentsPlain(map), runs)
  BY DEF CopyFrom
<1> DEFINE from == Source(t, spec)
           map == FileMap(t, from, to, ignored)
<1>2. CASE (from.x /\ from.top = None) \/ Found(t, from) = Absent
  <2>1. Fails
    BY <1>1, <1>2
  <2> QED
    BY <1>0, <2>1 DEF Fails, BuildInv, BuildTypeOK, CleanLayersReplay, LayersReplay, stage
<1>3. CASE ~((from.x /\ from.top = None) \/ Found(t, from) = Absent)
  <2>1. /\ Fits(t, from, to)
        /\ IF map = {} THEN Nothing
           ELSE Done(MaterialiseAll(tree, map), FilesLayer(map), ParentsPlain(map), runs)
    BY <1>1, <1>3
  <2>2. from \in Paths
    BY <1>3, SourceIs
  <2>3. Tidy(map)
    <3> HIDE DEF from
    <3> QED
      BY <1>3, <2>1, <2>2, FileMapTidy
  <2> HIDE DEF map, from
  <2>4. CASE map = {}
    <3>1. Nothing
      BY <2>1, <2>4
    <3> QED
      BY <1>0, <3>1 DEF Nothing, BuildInv, BuildTypeOK, CleanLayersReplay, LayersReplay, Replayed, stage
  <2>5. CASE map # {}
    <3>1. Done(MaterialiseAll(tree, map), FilesLayer(map), ParentsPlain(map), runs)
      BY <2>1, <2>5
    <3>2. FilesLayer(map) \in Seq(Member) /\ InOrder(map) \in Seq(Member)
      BY <2>3, FilesTyped
    <3>3. MaterialiseAll(tree, map) \in Results
      <4>1. MaterialiseAll(tree, map) = MatOver(tree, InOrder(map))
        BY DEF MaterialiseAll, MatOver
      <4> QED
        BY <1>0, <3>2, <4>1, MatTyped DEF Results
    <3>4. ParentsPlain(map) /\ MaterialiseAll(tree, map) # None
          => Apply(tree, FilesLayer(map)) = MaterialiseAll(tree, map)
      BY <1>0, <2>3, PlainInIs, CopyReplays
    <3>5. ParentsPlain(map) \in BOOLEAN
      BY DEF ParentsPlain
    <3> QED
      BY <1>0, <3>1, <3>2, <3>3, <3>4, <3>5, DoneStep
  <2> QED
    BY <2>4, <2>5
<1> QED
  BY <1>2, <1>3

LEMMA WorkdirKeeps ==
  ASSUME BuildInv, NEW d \in Top, Workdir(d)
  PROVE  BuildInv'
<1> DEFINE p == Resolved(tree, d)
           made == Dir("plain", None)
<1>0. BuildTypeOK /\ tree \in Tree /\ build = "building" /\ steps' \in 0..MaxSteps
      /\ Instruction /\ \A r \in runs : r.layer \in Seq(Member)
  BY ImageBuildAssumption DEF BuildInv, BuildTypeOK, Instruction, Workdir
<1>1. p \in Top \cup {None} /\ (p # None => tree[p].kind # "link" /\ tree[p] \in Entries)
  BY <1>0, ResolvedIs DEF Tree
<1>2. made \in Entries /\ made # Absent /\ made # None /\ made.kind = "dir" /\ made.mode = "plain"
  BY EntryFrom, EntriesApart, NoneApart
<1>3. CASE p = None \/ (p # None /\ tree[p].kind = "file")
  <2>1. Nothing
    BY <1>3 DEF Workdir
  <2> QED
    BY <1>0, <2>1 DEF Nothing, BuildInv, BuildTypeOK, CleanLayersReplay, LayersReplay, Replayed, stage
<1>4. CASE p # None /\ tree[p] = Absent
  <2> DEFINE map == {At(p, made)}
             after == [tree EXCEPT ![p] = made]
  <2>1. Done(after, FilesLayer(map), TRUE, runs)
    <3>1. tree[p].kind # "file"
      BY <1>4, EntryFrom
    <3> QED
      BY <1>4, <3>1 DEF Workdir
  <2>2. Tidy(map) /\ \A m \in map : m.do = "put" /\ m.top = p /\ m.arg = made
    <3>1. At(p, made) \in Member
      BY <1>1, <1>2, <1>4 DEF Member
    <3>2. At(p, made).do = "put" /\ At(p, made).top = p /\ At(p, made).arg = made
      BY DEF At
    <3> QED
      BY <3>1, <3>2, TidyOne
  <2>3. At(p, made) \in map
    OBVIOUS
  <2>4. after \in Tree
    BY <1>0, <1>1, <1>2, <1>4, TreePut
  <2> HIDE DEF p, map, made
  <2>5. Apply(tree, FilesLayer(map)) = after
    <3>1. PlainIn(tree, map)
      BY <2>2 DEF PlainIn, Has
    <3>2. \A n \in Top : ~Has(map, n, "putIn") /\ (Has(map, n, "put") <=> n = p)
      BY <2>2, <2>3 DEF Has
    <3>3. Given(map, p, "put") = made
      BY <2>2, <2>3 DEF Given
    <3>4. Merged(Absent, made) = Dir("plain", None)
      BY <1>2, EntryFrom, MergedIs DEF DirOver
    <3>5. \A n \in Top : Outcome(map, tree[n], n) = after[n]
      <4>1. \A n \in Top : AfterPut(map, tree[n], n) = after[n]
        BY <1>0, <1>1, <1>4, <3>2, <3>3, <3>4 DEF AfterPut, Tree, made
      <4>2. \A n \in Top : after[n] # None
        BY <2>4, NoneApart DEF Tree
      <4> HIDE DEF after
      <4> QED
        BY <3>2, <4>1, <4>2 DEF Outcome
    <3>6. \A n \in Top : Outcome(map, tree[n], n) # None
      BY <2>4, <3>5, NoneApart DEF Tree
    <3>7. Apply(tree, FilesLayer(map)) = [n \in Top |-> Outcome(map, tree[n], n)]
      BY <1>0, <2>2, <3>1, <3>6, FilesReplay
    <3>8. [n \in Top |-> Outcome(map, tree[n], n)] = after
      <4> HIDE DEF after
      <4> QED
        BY <2>4, <3>5 DEF Tree
    <3> QED
      BY <3>7, <3>8
  <2>6. FilesLayer(map) \in Seq(Member) /\ after \in Results
    BY <2>2, <2>4, FilesTyped DEF Results
  <2> HIDE DEF after
  <2> QED
    BY <1>0, <2>1, <2>5, <2>6, DoneStep
<1>5. CASE p # None /\ tree[p] # Absent /\ tree[p].kind # "file"
  <2>1. tree[p] = Dir(tree[p].mode, tree[p].x) /\ tree[p].x \in Data \cup {None}
    BY <1>1, <1>5, EntryForm
  <2>2. /\ tree' = [tree EXCEPT ![p].mode = "plain"]
        /\ clean' = (clean /\ tree[p].mode = "plain")
        /\ UNCHANGED <<build, base, layers, parent, runs, stages>>
    BY <1>5 DEF Workdir
  <2> HIDE DEF p
  <2>3. [tree[p] EXCEPT !.mode = "plain"] = Dir("plain", tree[p].x)
    BY <2>1 DEF Dir
  <2>4. [tree EXCEPT ![p].mode = "plain"] = [tree EXCEPT ![p] = [tree[p] EXCEPT !.mode = "plain"]]
    OBVIOUS
  <2>5. Dir("plain", tree[p].x) \in Entries
    BY <2>1, EntryFrom
  <2>6. tree' = [tree EXCEPT ![p] = Dir("plain", tree[p].x)]
    BY <2>2, <2>3, <2>4
  <2>7. tree' \in Tree
    BY <1>0, <1>1, <1>5, <2>5, <2>6, TreePut
  <2>8. clean' => tree' = tree
    BY <1>0, <2>1, <2>2, <2>6 DEF Tree
  <2>9. BuildTypeOK'
    BY <1>0, <2>2, <2>7 DEF BuildTypeOK
  <2>10. CleanLayersReplay'
    BY <2>2, <2>8 DEF BuildInv, CleanLayersReplay, LayersReplay, Replayed
  <2> QED
    BY <2>2, <2>9, <2>10 DEF BuildInv
<1> QED
  BY <1>3, <1>4, <1>5

LEMMA FromKeeps ==
  ASSUME BuildInv, FromImage \/ FromStage
  PROVE  BuildInv'
<1>0. BuildTypeOK /\ base \in Tree /\ tree \in Tree /\ layers \in Layers
  BY DEF BuildInv, BuildTypeOK
<1>1. \E below \in Layers : From(ApplyAll(base, below), below)
  <2>1. CASE FromImage
    <3>1. ApplyAll(base, <<>>) = base /\ <<>> \in Layers
      BY <1>0, ApplyAllNothing DEF Results, Layers
    <3> QED
      BY <2>1, <3>1 DEF FromImage
  <2>2. CASE FromStage
    BY <1>0, <2>2 DEF FromStage, Replayed
  <2> QED
    BY <2>1, <2>2
<1>2. PICK below \in Layers : From(ApplyAll(base, below), below)
  BY <1>1
<1> DEFINE onto == ApplyAll(base, below)
<1>3. onto \in Results
  BY <1>0, ApplyAllTyped DEF Results, Layers
<1>4. /\ stages' \in 1..MaxStages /\ parent' = [tree |-> tree, layers |-> layers]
      /\ UNCHANGED <<base, runs, steps>>
  BY <1>0, <1>2, ImageBuildAssumption DEF From, BuildTypeOK
<1>5. parent'.tree \in Tree
  BY <1>0, <1>4
<1>6. CASE onto = None
  <2>1. build' = "failed" /\ UNCHANGED stage
    BY <1>2, <1>6 DEF From
  <2> QED
    BY <1>0, <1>4, <1>5, <2>1 DEF BuildInv, BuildTypeOK, CleanLayersReplay, LayersReplay, stage
<1>7. CASE onto # None
  <2>1. tree' = onto /\ layers' = below /\ clean' = TRUE /\ UNCHANGED build
    BY <1>2, <1>7 DEF From
  <2>2. tree' \in Tree
    BY <1>3, <1>7, <2>1 DEF Results
  <2>3. Replayed' = tree'
    BY <1>4, <2>1 DEF Replayed
  <2> QED
    BY <1>0, <1>4, <1>5, <2>1, <2>2, <2>3 DEF BuildInv, BuildTypeOK, CleanLayersReplay, LayersReplay
<1> QED
  BY <1>6, <1>7

LEMMA BuildInvStep == BuildInv /\ [BuildStep]_buildVars => BuildInv'
<1> SUFFICES ASSUME BuildInv, [BuildStep]_buildVars
             PROVE  BuildInv'
  OBVIOUS
<1>0. BuildTypeOK
  BY DEF BuildInv
<1>1. CASE UNCHANGED buildVars
  BY <1>0, <1>1 DEF BuildInv, BuildTypeOK, CleanLayersReplay, LayersReplay, Replayed, buildVars, stage
<1>2. CASE \E c \in Commands : Run(c) \/ RunCached(c)
  BY <1>2, RunKeeps
<1>3. CASE RunFails
  <2>1. steps' \in 0..MaxSteps
    BY <1>0, <1>3, ImageBuildAssumption DEF RunFails, Instruction, BuildTypeOK
  <2> QED
    BY <1>0, <1>3, <2>1
       DEF RunFails, Fails, BuildInv, BuildTypeOK, CleanLayersReplay, LayersReplay, stage
<1>4. CASE Copy
  <2>1. Context \in Tree
    BY ImageBuildAssumption
  <2> QED
    BY <1>4, <2>1, CopyKeeps DEF Copy
<1>5. CASE CopyFromStage
  <2>1. parent.tree \in Tree
    BY <1>5 DEF CopyFromStage, BuildInv
  <2> QED
    BY <1>5, <2>1, CopyKeeps DEF CopyFromStage
<1>6. CASE \E d \in Top : Workdir(d)
  BY <1>6, WorkdirKeeps
<1>7. CASE FromImage \/ FromStage
  BY <1>7, FromKeeps
<1>8. CASE Finish
  BY <1>0, <1>8 DEF Finish, BuildInv, BuildTypeOK, CleanLayersReplay, LayersReplay, Replayed, stage
<1> QED
  BY <1>1, <1>2, <1>3, <1>4, <1>5, <1>6, <1>7, <1>8 DEF BuildStep

\* The build engine, for any base images, contexts, commands and recipes: the
\* layers of a stage, of the stage before it and of the build cache are layers
\* whose members an extraction can apply, and as long as no instruction did what a
\* layer cannot tell they replay to the tree of the stage.
THEOREM BuildInvariant == BuildSpec => []BuildInv
<1>1. BuildInit => BuildInv
  BY BuildInvInit
<1>2. BuildInv /\ [BuildStep]_buildVars => BuildInv'
  BY BuildInvStep
<1> QED
  BY <1>1, <1>2, PTL DEF BuildSpec

\* However a build goes, from a Dockerfile's first FROM to its end or its failure,
\* what it works on is a tree, and its counts stay in their bounds.
THEOREM BuildTypeCorrect == BuildSpec => []BuildTypeOK
<1>1. BuildInv => BuildTypeOK
  BY DEF BuildInv
<1> QED
  BY <1>1, BuildInvariant, PTL

\* What is installed is what was built, unless an instruction did what a layer
\* cannot tell: the layers layer_diff() and COPY pack, and those a hit of the build
\* cache takes over, applied one after another by extract_layer() to the base
\* image, give the tree the instructions worked on.
THEOREM CleanBuildsReplay == BuildSpec => []CleanLayersReplay
<1>1. BuildInv => CleanLayersReplay
  BY DEF BuildInv
<1> QED
  BY <1>1, BuildInvariant, PTL
=============================================================================
