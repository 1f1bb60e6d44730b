------------------------------ MODULE SequenceFacts ------------------------------
(***************************************************************************)
(* Facts the proofs share: sets of numbers, sequences, and what a fold     *)
(* over a sequence is, told without recursion.                             *)
(***************************************************************************)
EXTENDS Integers, Sequences, FiniteSets, SequencesExt, SequenceTheorems, FiniteSetTheorems,
        TLAPS

-----------------------------------------------------------------------------
(* Sequences and sets of numbers.                                          *)

\* What is known of a sequence and of its tail.
LEMMA Sequence ==
    ASSUME NEW S, NEW q \in Seq(S)
    PROVE  /\ Len(q) \in Nat /\ DOMAIN q = 1..Len(q) /\ \A i \in 1..Len(q) : q[i] \in S
           /\ q # <<>> => /\ Len(q) > 0 /\ Head(q) = q[1]
                          /\ Tail(q) \in Seq(S) /\ Len(Tail(q)) = Len(q) - 1
                          /\ \A i \in 1..(Len(q) - 1) : Tail(q)[i] = q[i + 1]
           /\ q = <<>> => Len(q) = 0
<1>1. Len(q) \in Nat /\ DOMAIN q = 1..Len(q)
  BY LenProperties
<1>2. \A i \in 1..Len(q) : q[i] \in S
  BY ElementOfSeq
<1>3. q # <<>> => Len(q) > 0
  BY EmptySeq
<1>4. q # <<>> => /\ Tail(q) \in Seq(S) /\ Len(Tail(q)) = Len(q) - 1
                  /\ \A i \in 1..Len(Tail(q)) : Tail(q)[i] = q[i + 1]
  BY HeadTailProperties
<1>5. q = <<>> => Len(q) = 0
  BY EmptySeq
<1> QED BY <1>1, <1>2, <1>3, <1>4, <1>5

\* A function on 1..n is a sequence of length n.
LEMMA SeqOfFunction ==
    ASSUME NEW S, NEW n \in Nat, NEW f \in [1..n -> S]
    PROVE  f \in Seq(S) /\ Len(f) = n
<1>1. f \in Seq(S)
  BY SeqDef
<1>2. DOMAIN f = 1..n
  OBVIOUS
<1> QED
  BY <1>1, <1>2, LenProperties

\* A set of natural numbers that is not empty has a least member.
LEMMA LeastNat ==
    ASSUME NEW F, F \subseteq Nat, F # {}
    PROVE  \E m \in F : \A k \in F : m <= k
<1> DEFINE Less == OpToRel(<, Nat)
<1>1. IsWellFoundedOn(Less, Nat)
  BY NatLessThanWellFounded
<1> HIDE DEF Less
<1>2. PICK m \in F : \A k \in F : ~(<<k, m>> \in Less)
  BY <1>1, WFMin
<1>3. \A k \in F : k \in Nat /\ m \in Nat
  OBVIOUS
<1>4. ASSUME NEW k \in F PROVE m <= k
  <2>1. ~(<<k, m>> \in OpToRel(<, Nat)) /\ k \in Nat /\ m \in Nat
    BY <1>2, <1>3, <1>4 DEF Less
  <2>2. ~(k < m)
    BY <2>1 DEF OpToRel
  <2>3. k \in Nat /\ m \in Nat
    BY <1>3, <1>4
  <2> QED BY <2>2, <2>3
<1> QED BY <1>4

\* Max returns the greatest.
LEMMA Greatest ==
    ASSUME NEW n \in Nat, NEW s \in SUBSET (1..n), s # {}
    PROVE  Max(s) \in s /\ \A y \in s : y <= Max(s)
<1> DEFINE F == {m \in Nat : \A y \in s : y <= m}
<1>1. n \in F
  OBVIOUS
<1>2. PICK m \in F : \A k \in F : m <= k
  <2>1. F \subseteq Nat /\ F # {}
    BY <1>1
  <2> HIDE DEF F
  <2> QED BY <2>1, LeastNat
<1>3. m \in s
  <2> SUFFICES ASSUME m \notin s PROVE FALSE
    OBVIOUS
  <2>1. PICK y \in s : TRUE
    OBVIOUS
  <2>2. m - 1 \in Nat /\ \A z \in s : z <= m - 1
    BY <2>1
  <2>3. m - 1 \in F
    BY <2>2
  <2> QED BY <1>2, <2>3
<1> QED BY <1>2, <1>3 DEF Max

-----------------------------------------------------------------------------
(* Folds over sequences.                                                  *)

\* A fold from the left over a sequence of length n by `step`, an element at a
\* time from the last: the function FoldLeft builds.
Folding(base, step, n, fold) ==
    fold = [s \in SUBSET (1..n) |->
              IF s = {} THEN base ELSE step[<<fold[s \ {Max(s)}], Max(s)>>]]

\* Folds exist, and keep within the values of the step.
LEMMA FoldsExist ==
    ASSUME NEW V, NEW base \in V, NEW n \in Nat, NEW step \in [V \X (1..n) -> V]
    PROVE  \E fold \in [SUBSET (1..n) -> V] : Folding(base, step, n, fold)
<1> DEFINE Upto(k, fold) ==
             /\ fold \in [SUBSET (1..k) -> V]
             /\ \A s \in SUBSET (1..k) :
                  fold[s] = IF s = {} THEN base ELSE step[<<fold[s \ {Max(s)}], Max(s)>>]
           bad == {k \in 0..n : ~\E fold : Upto(k, fold)}
<1>1. SUFFICES \E fold : Upto(n, fold)
  <2>1. PICK fold : Upto(n, fold)
    BY <1>1
  <2> QED BY <2>1 DEF Folding
<1>2. SUFFICES ASSUME bad # {} PROVE FALSE
  <2>1. n \in 0..n
    OBVIOUS
  <2> HIDE DEF Upto
  <2> QED BY <2>1
<1>3. PICK k \in bad : \A j \in bad : k <= j
  <2>1. bad \subseteq 0..n /\ 0..n \subseteq Nat
    <3> HIDE DEF Upto
    <3>1. bad \subseteq 0..n
      BY Zenon
    <3> QED BY <3>1
  <2> HIDE DEF bad
  <2> QED BY <1>2, <2>1, LeastNat
<1>4. k # 0
  <2>1. SUFFICES ASSUME k = 0 PROVE \E fold : Upto(k, fold)
    OBVIOUS
  <2> DEFINE f == [s \in {{}} |-> base]
  <2>2. SUBSET (1..0) = {{}}
    OBVIOUS
  <2>3. f \in [SUBSET (1..0) -> V] /\ \A s \in SUBSET (1..0) : s = {} /\ f[s] = base
    BY <2>2
  <2>4. Upto(0, f)
    <3> HIDE DEF f
    <3> QED BY <2>3
  <2> HIDE DEF f
  <2> QED BY <2>1, <2>4
<1>5. k \in 1..n
  <2> HIDE DEF Upto
  <2> QED BY <1>3, <1>4
<1>6. PICK f : Upto(k - 1, f)
  <2>1. k - 1 \in 0..n /\ k - 1 \notin bad
    <3> HIDE DEF Upto
    <3> QED BY <1>3, <1>5
  <2> QED BY <2>1
<1> HIDE DEF bad
<1> DEFINE g == [s \in SUBSET (1..k) |->
                   IF k \in s THEN step[<<f[s \ {k}], k>>] ELSE f[s]]
<1>7. \A s \in SUBSET (1..k) : s \ {k} \in SUBSET (1..(k - 1)) /\ (k \notin s => s \in SUBSET (1..(k - 1)))
  BY <1>5
<1>8. g \in [SUBSET (1..k) -> V]
  <2>1. \A s \in SUBSET (1..k) : f[s \ {k}] \in V /\ (k \notin s => f[s] \in V)
    BY <1>6, <1>7
  <2> QED BY <1>5, <2>1
<1>9. ASSUME NEW s \in SUBSET (1..k)
      PROVE  g[s] = IF s = {} THEN base ELSE step[<<g[s \ {Max(s)}], Max(s)>>]
  <2>1. s # {} => Max(s) \in s /\ \A y \in s : y <= Max(s)
    <3>1. k \in Nat
      BY <1>5
    <3> QED BY <3>1, Greatest
  <2>2. CASE k \in s
    <3>1. Max(s) = k
      <4>1. Max(s) \in s /\ k <= Max(s) /\ Max(s) \in 1..k
        BY <2>1, <2>2
      <4> QED BY <1>5, <4>1
    <3>2. g[s \ {k}] = f[s \ {k}]
      BY <1>7
    <3> QED BY <2>2, <3>1, <3>2
  <2>3. CASE k \notin s
    <3>1. s \in SUBSET (1..(k - 1)) /\ s \ {Max(s)} \in SUBSET (1..k) /\ k \notin s \ {Max(s)}
      BY <1>7, <2>3
    <3>2. g[s] = f[s] /\ g[s \ {Max(s)}] = f[s \ {Max(s)}]
      BY <2>3, <3>1
    <3>3. f[s] = IF s = {} THEN base ELSE step[<<f[s \ {Max(s)}], Max(s)>>]
      BY <1>6, <3>1
    <3> QED BY <3>2, <3>3
  <2> QED BY <2>2, <2>3
<1>10. Upto(k, g)
  <2> HIDE DEF g
  <2> QED BY <1>8, <1>9
<1> QED
  <2>1. \E fold : Upto(k, fold)
    BY <1>10
  <2> QED BY <1>3, <2>1 DEF bad

\* What a fold returns is a value of its step.
LEMMA FoldedIn ==
    ASSUME NEW V, NEW n \in Nat, NEW f, f[{}] \in V,
           \A s \in SUBSET (1..n) : s # {} /\ f[s \ {Max(s)}] \in V => f[s] \in V
    PROVE  f[1..n] \in V
<1> DEFINE bad == {k \in 0..n : \E s \in SUBSET (1..k) : f[s] \notin V}
<1>1. SUFFICES ASSUME bad # {} PROVE FALSE
  BY DEF bad
<1>2. PICK k \in bad : \A j \in bad : k <= j
  <2>1. bad \subseteq Nat
    OBVIOUS
  <2> HIDE DEF bad
  <2> QED BY <1>1, <2>1, LeastNat
<1>3. PICK s \in SUBSET (1..k) : f[s] \notin V
  BY <1>2
<1>4. k \in 0..n /\ s # {} /\ s \in SUBSET (1..n)
  <2>1. k \in 0..n
    BY <1>2
  <2> HIDE DEF bad
  <2>2. 1..k \subseteq 1..n
    BY <2>1
  <2>3. s # {}
    BY <1>3
  <2> QED BY <2>1, <2>2, <2>3
<1>5. Max(s) \in s /\ \A y \in s : y <= Max(s)
  BY <1>4, Greatest
<1>6. k - 1 \in 0..n /\ k - 1 < k /\ s \ {Max(s)} \in SUBSET (1..(k - 1))
  <2> HIDE DEF bad
  <2>1. Max(s) \in 1..k
    BY <1>3, <1>5
  <2>2. ASSUME NEW y \in s \ {Max(s)} PROVE y \in 1..(k - 1)
    <3>1. y \in 1..k /\ y <= Max(s) /\ y # Max(s)
      BY <1>3, <1>5
    <3> QED BY <1>4, <2>1, <3>1
  <2>3. k - 1 \in 0..n /\ k - 1 < k
    BY <1>4, <2>1
  <2> QED BY <2>2, <2>3
<1>7. f[s \ {Max(s)}] \in V
  <2> SUFFICES ASSUME f[s \ {Max(s)}] \notin V PROVE FALSE
    OBVIOUS
  <2>1. k - 1 \in bad
    BY <1>6
  <2> HIDE DEF bad
  <2>2. k <= k - 1
    BY <1>2, <2>1
  <2> QED BY <1>4, <2>2
<1> QED BY <1>3, <1>4, <1>7

\* A fold of which every step is known is a run of that step from index to index:
\* run[k] is the fold of the first k elements.
Follows(V, n, step, f) ==
    /\ f[{}] \in V
    /\ \A s \in SUBSET (1..n) : s # {} /\ f[s \ {Max(s)}] \in V =>
          f[s] = step[<<f[s \ {Max(s)}], Max(s)>>]
RunOf(n, step, f, run) ==
    /\ run[0] = f[{}] /\ run[n] = f[1..n]
    /\ \A k \in 1..n : run[k] = step[<<run[k - 1], k>>]

\* A fold over 1..n is a run: what each index makes of the one before it.
LEMMA FoldRuns ==
    ASSUME NEW V, NEW n \in Nat, NEW step \in [V \X (1..n) -> V], NEW f, Follows(V, n, step, f)
    PROVE  \E run \in [0..n -> V] : RunOf(n, step, f, run)
<1> USE DEF Follows
<1> DEFINE run == [k \in 0..n |-> f[1..k]]
           bad == {k \in 0..n : f[1..k] \notin V}
<1>1. 1..0 = {}
  OBVIOUS
<1>2. ASSUME NEW k \in 1..n
      PROVE  /\ 1..k \in SUBSET (1..n) /\ 1..k # {} /\ Max(1..k) = k
             /\ (1..k) \ {k} = 1..(k - 1) /\ k - 1 \in 0..n
  <2>1. 1..k \in SUBSET (1..n) /\ k \in 1..k /\ (1..k) \ {k} = 1..(k - 1) /\ k - 1 \in 0..n
    OBVIOUS
  <2>2. Max(1..k) \in 1..k /\ k <= Max(1..k)
    BY <2>1, Greatest
  <2>3. Max(1..k) = k
    BY <2>2
  <2> QED BY <2>1, <2>3
<1>3. ASSUME NEW k \in 1..n, f[1..(k - 1)] \in V
      PROVE  f[1..k] = step[<<f[1..(k - 1)], k>>] /\ f[1..k] \in V
  <2>1. f[1..k] = step[<<f[1..(k - 1)], k>>]
    BY <1>2, <1>3
  <2> QED BY <1>3, <2>1
<1>4. bad = {}
  <2> SUFFICES ASSUME bad # {} PROVE FALSE
    OBVIOUS
  <2>1. bad \subseteq Nat
    OBVIOUS
  <2>2. PICK k \in bad : \A j \in bad : k <= j
    <3> HIDE DEF bad
    <3> QED BY <2>1, LeastNat
  <2>3. k \in 0..n /\ f[1..k] \notin V
    OBVIOUS
  <2>4. k \in 1..n
    BY <1>1, <2>3
  <2>5. k - 1 \in 0..n /\ ~(k <= k - 1)
    BY <2>4
  <2>6. k - 1 \notin bad
    <3> HIDE DEF bad
    <3> QED BY <2>2, <2>5
  <2>7. f[1..(k - 1)] \in V
    BY <2>5, <2>6
  <2> QED BY <1>3, <2>3, <2>4, <2>7
<1>5. \A k \in 0..n : f[1..k] \in V
  BY <1>4
<1>6. run \in [0..n -> V] /\ run[0] = f[{}] /\ run[n] = f[1..n]
  BY <1>1, <1>5
<1>7. ASSUME NEW k \in 1..n PROVE run[k] = step[<<run[k - 1], k>>]
  <2>1. k - 1 \in 0..n /\ k \in 0..n
    OBVIOUS
  <2>2. run[k] = f[1..k] /\ run[k - 1] = f[1..(k - 1)]
    BY <2>1
  <2>3. f[1..(k - 1)] \in V
    BY <1>5, <2>1
  <2> QED BY <1>3, <2>2, <2>3
<1> HIDE DEF run
<1> QED BY <1>6, <1>7 DEF RunOf

\* What holds at the start and is kept by every step holds all along a run.
LEMMA KeptAlong ==
    ASSUME NEW n \in Nat, NEW good \in SUBSET (0..n), 0 \in good,
           \A k \in 1..n : k - 1 \in good => k \in good
    PROVE  \A k \in 0..n : k \in good
<1> DEFINE bad == (0..n) \ good
<1> SUFFICES ASSUME bad # {} PROVE FALSE
  OBVIOUS
<1>1. bad \subseteq Nat
  OBVIOUS
<1>2. PICK k \in bad : \A j \in bad : k <= j
  <2> HIDE DEF bad
  <2> QED BY <1>1, LeastNat
<1>3. k \in 1..n /\ k - 1 \in 0..n /\ ~(k <= k - 1)
  OBVIOUS
<1>4. k - 1 \in good
  BY <1>2, <1>3
<1> QED BY <1>3, <1>4

\* A sum of numbers one after another is a run of numbers, and there is one.
Summing(n, x, f) ==
    f = [s \in SUBSET (1..n) |-> IF s = {} THEN 0 ELSE f[s \ {Max(s)}] + x[Max(s)]]

\* The sums of a list of integers exist.
LEMMA SumsExist ==
    ASSUME NEW n \in Nat, NEW x \in [1..n -> Int]
    PROVE  \E f : Summing(n, x, f)
<1> DEFINE step == [p \in Int \X (1..n) |-> p[1] + x[p[2]]]
<1>1. step \in [Int \X (1..n) -> Int]
  OBVIOUS
<1>2. PICK base \in Int : base = 0
  OBVIOUS
<1>3. PICK f \in [SUBSET (1..n) -> Int] : Folding(base, step, n, f)
  <2> HIDE DEF step
  <2> QED BY <1>1, FoldsExist
<1>4. \A s \in SUBSET (1..n) : s # {} => Max(s) \in 1..n /\ s \ {Max(s)} \in SUBSET (1..n)
  BY Greatest
<1>5. \A s \in SUBSET (1..n) : s # {} => step[<<f[s \ {Max(s)}], Max(s)>>] = f[s \ {Max(s)}] + x[Max(s)]
  BY <1>4
<1> HIDE DEF step
<1>6. Summing(n, x, f)
  BY <1>2, <1>3, <1>5 DEF Folding, Summing
<1> QED BY <1>6

AddsUp(n, x, f, run) ==
    run[0] = 0 /\ run[n] = f[1..n] /\ \A k \in 1..n : run[k] = run[k - 1] + x[k]

\* A sum is the end of a run in which each index adds its own term.
LEMMA SumRuns ==
    ASSUME NEW n \in Nat, NEW x \in [1..n -> Int], NEW f, Summing(n, x, f)
    PROVE  \E run \in [0..n -> Int] : AddsUp(n, x, f, run)
<1> DEFINE step == [p \in Int \X (1..n) |-> p[1] + x[p[2]]]
<1>1. step \in [Int \X (1..n) -> Int]
  OBVIOUS
<1>2. f[{}] = 0 /\ f[{}] \in Int
  BY DEF Summing
<1>3. ASSUME NEW s \in SUBSET (1..n), s # {}, f[s \ {Max(s)}] \in Int
      PROVE  f[s] = step[<<f[s \ {Max(s)}], Max(s)>>]
  <2>1. Max(s) \in 1..n
    BY <1>3, Greatest
  <2>2. f[s] = f[s \ {Max(s)}] + x[Max(s)]
    BY <1>3 DEF Summing
  <2> QED BY <1>3, <2>1, <2>2
<1>4. \A r \in Int, k \in 1..n : step[<<r, k>>] = r + x[k]
  OBVIOUS
<1> HIDE DEF step
<1>5. PICK run \in [0..n -> Int] :
         run[0] = f[{}] /\ run[n] = f[1..n] /\ \A k \in 1..n : run[k] = step[<<run[k - 1], k>>]
  <2> DEFINE V == Int
  <2>1. step \in [V \X (1..n) -> V] /\ f[{}] \in V
    BY <1>1, <1>2
  <2>2. Follows(V, n, step, f)
    BY <1>2, <1>3 DEF Follows
  <2>3. \E run \in [0..n -> V] : RunOf(n, step, f, run)
    <3> HIDE DEF V
    <3> QED BY <2>1, <2>2, FoldRuns
  <2> QED BY <2>3 DEF RunOf
<1>6. ASSUME NEW k \in 1..n PROVE run[k] = run[k - 1] + x[k]
  <2>1. k - 1 \in 0..n
    OBVIOUS
  <2>2. run[k - 1] \in Int
    BY <1>5, <2>1
  <2> QED BY <1>4, <1>5, <2>2
<1> QED BY <1>2, <1>5, <1>6 DEF AddsUp

-----------------------------------------------------------------------------
(* Sums over sets.                                                        *)

\* `total` adds up F over every subset of T, an element of choice at a time: the
\* function that SumFunction builds, with T for its domain.
Totals(F, T, total) ==
    total = [s \in SUBSET T |->
               IF s = {} THEN 0
               ELSE LET x == CHOOSE x \in s : TRUE IN F[x] + total[s \ {x}]]

\* A family of subsets of a finite set has a minimal member: the least
\* counterexample every induction below looks at.
LEMMA LeastSubset ==
    ASSUME NEW T, IsFiniteSet(T), NEW bad, bad \subseteq SUBSET T, bad # {}
    PROVE  \E s \in bad : \A x \in s : s \ {x} \notin bad
<1>1. IsWellFoundedOn(StrictSubsetOrdering(T), SUBSET T)
  BY FS_StrictSubsetOrderingWellFounded, FS_FiniteSubsetsOfFinite
<1> DEFINE Less == StrictSubsetOrdering(T)
<1>2. PICK s \in bad : \A r \in bad : ~(<<r, s>> \in Less)
  <2> HIDE DEF Less
  <2> QED
    BY <1>1, WFMin DEF Less
<1>3. ASSUME NEW x \in s PROVE s \ {x} \notin bad
  <2>1. SUFFICES ASSUME s \ {x} \in bad PROVE <<s \ {x}, s>> \in Less
    BY <1>2
  <2> QED
    BY <2>1 DEF StrictSubsetOrdering
<1> QED
  BY <1>2, <1>3

\* Two totals agree where both are defined and their functions agree.
LEMMA TotalsAgree ==
    ASSUME NEW T, IsFiniteSet(T), NEW U, T \subseteq U, NEW F, NEW G,
           \A x \in T : F[x] = G[x],
           NEW f, Totals(F, T, f), NEW g, Totals(G, U, g)
    PROVE  \A s \in SUBSET T : f[s] = g[s]
<1> DEFINE bad == {s \in SUBSET T : f[s] # g[s]}
<1>1. SUFFICES ASSUME bad # {} PROVE FALSE
  OBVIOUS
<1>2. PICK s \in bad : \A x \in s : s \ {x} \notin bad
  <2> HIDE DEF bad
  <2>1. bad \subseteq SUBSET T
    BY DEF bad
  <2> QED
    BY <1>1, <2>1, LeastSubset
<1>3. CASE s = {}
  BY <1>3 DEF Totals
<1>4. CASE s # {}
  <2> DEFINE x == CHOOSE x \in s : TRUE
  <2>1. x \in s /\ x \in T
    BY <1>4
  <2> HIDE DEF x
  <2>2. f[s \ {x}] = g[s \ {x}]
    BY <1>2, <2>1
  <2>3. f[s] = F[x] + f[s \ {x}]
    BY <1>4, <2>1 DEF Totals, x
  <2>4. g[s] = G[x] + g[s \ {x}]
    BY <1>4, <2>1 DEF Totals, x
  <2> QED
    BY <2>1, <2>2, <2>3, <2>4
<1> QED
  BY <1>3, <1>4

\* Totals exist over every finite set.
LEMMA TotalsExist ==
    ASSUME NEW S, IsFiniteSet(S), NEW F
    PROVE  \E total : Totals(F, S, total)
<1> DEFINE bad == {T \in SUBSET S : ~\E total : Totals(F, T, total)}
<1>1. SUFFICES ASSUME bad # {} PROVE FALSE
  OBVIOUS
<1>2. PICK T \in bad : \A x \in T : T \ {x} \notin bad
  <2> HIDE DEF bad
  <2>1. bad \subseteq SUBSET S
    BY DEF bad
  <2> QED
    BY <1>1, <2>1, LeastSubset
<1>3. IsFiniteSet(T)
  BY FS_Subset
<1> DEFINE below(x) == CHOOSE total : Totals(F, T \ {x}, total)
           first(s) == CHOOSE x \in s : TRUE
<1>4. ASSUME NEW x \in T PROVE Totals(F, T \ {x}, below(x))
  BY <1>2
<1> DEFINE at(s) == IF s = {} THEN 0 ELSE F[first(s)] + below(first(s))[s \ {first(s)}]
           total == [s \in SUBSET T |-> at(s)]
<1>5. ASSUME NEW s \in SUBSET T, s # {}
      PROVE  total[s \ {first(s)}] = below(first(s))[s \ {first(s)}]
  <2> DEFINE x == first(s)
             r == s \ {x}
             y == first(r)
  <2>1. x \in T /\ r \in SUBSET (T \ {x}) /\ r \in SUBSET T
    BY <1>5
  <2>2. Totals(F, T \ {x}, below(x))
    BY <1>4, <2>1
  <2>3. CASE r = {}
    <3>1. total[r] = 0
      BY <2>1, <2>3
    <3>2. below(x)[r] = 0
      <4> HIDE DEF x, below, r
      <4> QED
        BY <2>1, <2>2, <2>3 DEF Totals
    <3> QED
      BY <3>1, <3>2
  <2>4. CASE r # {}
    <3>1. y \in r /\ y \in T
      BY <2>1, <2>4
    <3>2. Totals(F, T \ {y}, below(y))
      BY <1>4, <3>1
    <3>3. total[r] = F[y] + below(y)[r \ {y}]
      BY <2>1, <2>4
    <3>4. below(x)[r] = F[y] + below(x)[r \ {y}]
      <4> HIDE DEF x, below, r
      <4> QED
        BY <2>1, <2>2, <2>4 DEF Totals
    <3>5. below(y)[r \ {y}] = below(x)[r \ {y}]
      <4> HIDE DEF x, y, r, below, total, bad
      <4>1. Totals(F, (T \ {x}) \ {y}, [u \in SUBSET ((T \ {x}) \ {y}) |-> below(x)[u]])
        BY <2>2 DEF Totals
      <4> DEFINE both == [u \in SUBSET ((T \ {x}) \ {y}) |-> below(x)[u]]
      <4>2. IsFiniteSet((T \ {x}) \ {y}) /\ r \ {y} \in SUBSET ((T \ {x}) \ {y})
        BY <1>3, <2>1, FS_RemoveElement
      <4>3. both[r \ {y}] = below(y)[r \ {y}]
        <5> HIDE DEF both
        <5> QED
          BY <3>2, <4>1, <4>2, TotalsAgree DEF both
      <4> QED
        BY <4>2, <4>3
    <3> QED
      BY <3>3, <3>4, <3>5
  <2> QED
    BY <2>3, <2>4
<1>6. Totals(F, T, total)
  <2>1. \A s \in SUBSET T : at(s) = IF s = {} THEN 0
                                    ELSE F[first(s)] + total[s \ {first(s)}]
    <3> HIDE DEF total, below, first
    <3> QED
      BY <1>5
  <2>2. total = [s \in SUBSET T |-> IF s = {} THEN 0
                                    ELSE F[first(s)] + total[s \ {first(s)}]]
    <3> HIDE DEF below, first
    <3> QED
      BY <2>1
  <2> HIDE DEF total, at, below
  <2> QED
    BY <2>2 DEF Totals
<1> QED
  BY <1>2, <1>6

\* Totals of integers are integers, and an element can be taken out of a total
\* whichever it is: the order of the additions does not matter.
LEMMA TotalsSplit ==
    ASSUME NEW T, IsFiniteSet(T), NEW F \in [T -> Int], NEW f, Totals(F, T, f)
    PROVE  /\ f[{}] = 0
           /\ \A s \in SUBSET T : f[s] \in Int
           /\ \A s \in SUBSET T : \A y \in s : f[s] = F[y] + f[s \ {y}]
<1>1. f[{}] = 0
  BY DEF Totals
<1>2. ASSUME NEW s \in SUBSET T, s # {}
      PROVE  \E x \in s : f[s] = F[x] + f[s \ {x}]
  BY <1>2 DEF Totals
<1>3. \A s \in SUBSET T : f[s] \in Int
  <2> DEFINE bad == {s \in SUBSET T : f[s] \notin Int}
  <2>1. SUFFICES ASSUME bad # {} PROVE FALSE
    OBVIOUS
  <2>2. PICK s \in bad : \A x \in s : s \ {x} \notin bad
    <3> HIDE DEF bad
    <3>1. bad \subseteq SUBSET T
      BY DEF bad
    <3> QED
      BY <2>1, <3>1, LeastSubset
  <2>3. s # {}
    BY <1>1, <2>2
  <2>4. PICK x \in s : f[s] = F[x] + f[s \ {x}]
    BY <1>2, <2>3
  <2> QED
    BY <2>2, <2>4
<1>4. \A s \in SUBSET T : \A y \in s : f[s] = F[y] + f[s \ {y}]
  <2> DEFINE bad == {s \in SUBSET T : \E y \in s : f[s] # F[y] + f[s \ {y}]}
  <2>1. SUFFICES ASSUME bad # {} PROVE FALSE
    OBVIOUS
  <2>2. PICK s \in bad : \A x \in s : s \ {x} \notin bad
    <3> HIDE DEF bad
    <3>1. bad \subseteq SUBSET T
      BY DEF bad
    <3> QED
      BY <2>1, <3>1, LeastSubset
  <2>3. PICK y \in s : f[s] # F[y] + f[s \ {y}]
    OBVIOUS
  <2>4. PICK x \in s : f[s] = F[x] + f[s \ {x}]
    BY <1>2
  <2>5. x # y
    BY <2>3, <2>4
  <2>6. f[s \ {x}] = F[y] + f[(s \ {x}) \ {y}]
    BY <2>2, <2>5
  <2>7. f[s \ {y}] = F[x] + f[(s \ {x}) \ {y}]
    <3>1. (s \ {y}) \ {x} = (s \ {x}) \ {y}
      OBVIOUS
    <3>2. f[s \ {y}] = F[x] + f[(s \ {y}) \ {x}]
      BY <2>2, <2>5
    <3> QED
      BY <3>1, <3>2
  <2>8. F[x] \in Int /\ F[y] \in Int /\ f[(s \ {x}) \ {y}] \in Int
    BY <1>3
  <2> HIDE DEF bad
  <2> QED
    BY <2>3, <2>4, <2>6, <2>7, <2>8
<1> QED
  BY <1>1, <1>3, <1>4

-----------------------------------------------------------------------------
(* Division.                                                              *)

\* Division by a positive number rounds down, and is the greatest that does.
LEMMA Quotient ==
    ASSUME NEW a \in Int, NEW b \in Nat \ {0}
    PROVE  a \div b \in Int /\ (a \div b) * b <= a /\ a < (a \div b + 1) * b
<1>1. a \div b \in Int /\ a % b \in 0..(b - 1)
  OBVIOUS
<1>2. a = b * (a \div b) + (a % b)
  OBVIOUS
<1> DEFINE q == a \div b
           m == a % b
<1>3. q \in Int /\ m \in 0..(b - 1) /\ a = b * q + m
  BY <1>1, <1>2
<1> HIDE DEF q, m
<1>4. b * q = q * b /\ (q + 1) * b = b * q + b
  BY <1>3
<1>5. q * b <= a /\ a < (q + 1) * b
  BY <1>3, <1>4
<1> QED BY <1>3, <1>5 DEF q

\* A whole number of divisors that fit is no more than the quotient.
LEMMA QuotientAtLeast ==
    ASSUME NEW a \in Int, NEW b \in Nat \ {0}, NEW q \in Int, q * b <= a
    PROVE  q <= a \div b
<1> DEFINE r == a \div b
<1>1. r \in Int /\ a < (r + 1) * b
  BY Quotient
<1> HIDE DEF r
<1> SUFFICES ASSUME r + 1 <= q PROVE FALSE
  BY <1>1 DEF r
<1> DEFINE d == q - (r + 1)
<1>2. d \in Nat /\ q = (r + 1) + d
  BY <1>1
<1> HIDE DEF d
<1>3. d * b \in Nat /\ q * b = (r + 1) * b + d * b
  BY <1>1, <1>2
<1>4. (r + 1) * b \in Int /\ q * b \in Int
  BY <1>1
<1> QED BY <1>1, <1>3, <1>4

\* A greater dividend has no lesser quotient.
LEMMA QuotientRises ==
    ASSUME NEW a \in Int, NEW c \in Int, NEW b \in Nat \ {0}, a <= c
    PROVE  a \div b <= c \div b
<1>1. a \div b \in Int /\ (a \div b) * b <= a
  BY Quotient
<1> DEFINE q == a \div b
<1>2. q \in Int /\ q * b <= c
  <2>1. q \in Int /\ q * b <= a
    BY <1>1
  <2> HIDE DEF q
  <2>2. q * b \in Int
    BY <2>1
  <2> QED BY <2>1, <2>2
<1> HIDE DEF q
<1>3. q <= c \div b
  BY <1>2, QuotientAtLeast
<1> QED BY <1>3 DEF q

================================================================================
