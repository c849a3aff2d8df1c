-------------------------------- MODULE Loops --------------------------------
(***************************************************************************)
(* Induction over a loop's index, and the existence of what a loop         *)
(* computes, for the proofs about definitions that are recursive functions *)
(* or folds.  The library's rules of induction have an operator for a      *)
(* parameter; these have a set, so that any prover can apply them.  Then   *)
(* remainders, for rings and counters that wrap.                           *)
(***************************************************************************)
EXTENDS Integers, SequencesExt, FiniteSetTheorems, SequenceTheorems, WellFoundedInduction,
        TLAPS

\* No sequence of naturals descends for ever.
LEMMA NoDescent ==
    ASSUME NEW f \in [Nat -> Nat]
    PROVE  \E n \in Nat : ~(f[n + 1] < f[n])
<1> DEFINE Below == {p \in Nat \X Nat : p[1] < p[2]}
<1>1. OpToRel(<, Nat) = Below
  BY SMT DEF OpToRel
<1>2. IsWellFoundedOn(Below, Nat)
  BY <1>1, NatLessThanWellFounded
<1>3. ~\A n \in Nat : <<f[n + 1], f[n]>> \in Below
  BY <1>2 DEF IsWellFoundedOn
<1> QED
  BY <1>3

\* A set of naturals that is not empty has a least member.
LEMMA Least ==
    ASSUME NEW S \in SUBSET Nat, S # {}
    PROVE  \E m \in S : \A n \in S : m <= n
<1> DEFINE Below == {p \in Nat \X Nat : p[1] < p[2]}
<1>1. IsWellFoundedOn(Below, Nat)
  <2> SUFFICES ASSUME NEW f \in [Nat -> Nat],
                      \A n \in Nat : <<f[n + 1], f[n]>> \in Below
               PROVE  FALSE
    BY DEF IsWellFoundedOn
  <2> QED
    BY NoDescent
<1> HIDE DEF Below
<1>2. PICK m \in S : \A n \in S : ~(<<n, m>> \in Below)
  <2>1. S \subseteq Nat
    OBVIOUS
  <2> QED
    BY <1>1, <2>1, WFMin
<1>3. ASSUME NEW n \in S PROVE m <= n
  <2>1. m \in Nat /\ n \in Nat
    OBVIOUS
  <2>2. <<n, m>> \notin Below
    BY <1>2
  <2> QED
    BY <2>1, <2>2 DEF Below
<1> QED
  BY <1>3

\* Induction from 0 to n: S holds the indexes at which something is so.
LEMMA UpTo ==
    ASSUME NEW n \in Nat, NEW S, 0 \in S,
           \A i \in 0 .. n - 1 : i \in S => i + 1 \in S
    PROVE  \A i \in 0 .. n : i \in S
<1> DEFINE Missing == {i \in 0 .. n : i \notin S}
<1> SUFFICES ASSUME Missing # {} PROVE FALSE
  OBVIOUS
<1>1. Missing \in SUBSET Nat
  OBVIOUS
<1>2. PICK m \in Missing : \A i \in Missing : m <= i
  BY <1>1, Least
<1>3. m # 0 /\ m - 1 \in 0 .. n - 1
  OBVIOUS
<1>4. m - 1 \in S
  BY <1>2, <1>3
<1> QED
  BY <1>3, <1>4

\* A finite set of naturals that is not empty has a greatest member.
LEMMA Greatest ==
    ASSUME NEW S \in SUBSET Nat, IsFiniteSet(S), S # {}
    PROVE  \E m \in S : \A x \in S : x <= m
<1> DEFINE n == Cardinality(S)
<1>1. n \in Nat /\ ExistsBijection(1 .. n, S)
  BY FS_CardinalityType
<1>2. PICK f : f \in Bijection(1 .. n, S)
  BY <1>1 DEF ExistsBijection
<1>3. f \in [1 .. n -> S] /\ \A x \in S : \E i \in 1 .. n : f[i] = x
  BY <1>2 DEF Bijection, Surjection
<1> HIDE DEF n
<1> DEFINE Below(k, b) == \A i \in 1 .. k : f[i] <= b
           Bounded == {k \in 0 .. n : \E b \in Nat : Below(k, b)}
<1>4. 0 \in Bounded
  <2>1. 0 \in Nat /\ Below(0, 0)
    OBVIOUS
  <2> QED
    BY <1>1, <2>1
<1>5. ASSUME NEW k \in 0 .. n - 1, k \in Bounded PROVE k + 1 \in Bounded
  <2>1. PICK b \in Nat : Below(k, b)
    BY <1>5
  <2>2. k + 1 \in 1 .. n /\ k + 1 \in 0 .. n
    BY <1>1
  <2>3. f[k + 1] \in Nat
    BY <1>3, <2>2
  <2>4. PICK c \in Nat : c >= b /\ c >= f[k + 1]
    BY <2>3
  <2>5. \A i \in 1 .. k : i \in 1 .. n /\ f[i] \in Nat /\ f[i] <= b
    <3> TAKE i \in 1 .. k
    <3>1. i \in 1 .. n
      BY <1>1
    <3>2. f[i] \in S
      BY <1>3, <3>1
    <3> QED
      BY <2>1, <3>1, <3>2
  <2>6. Below(k + 1, c)
    BY <2>3, <2>4, <2>5
  <2> QED
    BY <2>2, <2>6
<1> HIDE DEF Bounded
<1>6. \A k \in 0 .. n : k \in Bounded
  BY <1>1, <1>4, <1>5, UpTo
<1>7. PICK b \in Nat : \A i \in 1 .. n : f[i] <= b
  <2>1. n \in 0 .. n
    BY <1>1
  <2>2. n \in Bounded
    BY <1>6, <2>1
  <2> QED
    BY <2>2 DEF Bounded
<1>8. \A x \in S : x <= b
  BY <1>3, <1>7
<1> DEFINE below == {b - x : x \in S}
<1>9. below \in SUBSET Nat /\ below # {}
  <2>1. \A x \in S : b - x \in Nat
    BY <1>8
  <2>2. PICK x \in S : TRUE
    OBVIOUS
  <2> QED
    BY <2>1, <2>2
<1> HIDE DEF below
<1>10. PICK m \in below : \A y \in below : m <= y
  BY <1>9, Least
<1> USE DEF below
<1>11. PICK x \in S : m = b - x
  BY <1>10
<1>12. \A y \in S : y <= x
  <2> TAKE y \in S
  <2>1. m <= b - y
    BY <1>10
  <2> QED
    BY <1>11, <2>1
<1> QED
  BY <1>12

\* A step of a loop takes its index and the value so far to the next value; a
\* trace is the values from before the first step to after the last.
Steps(n, V) == [(1 .. n) \X V -> V]
Trace(n, a, step, f) == f[0] = a /\ \A k \in 1 .. n : f[k] = step[<<k, f[k - 1]>>]
Traces(n, V, a, step) == {f \in [0 .. n -> V] : Trace(n, a, step, f)}

\* A loop of n steps that keeps within V has a trace.
LEMMA LoopExists ==
    ASSUME NEW n \in Nat, NEW V, NEW a \in V, NEW step \in Steps(n, V)
    PROVE  \E f : f \in Traces(n, V, a, step)
<1> SUFFICES \E f \in [0 .. n -> V] :
               f[0] = a /\ \A k \in 1 .. n : f[k] = step[<<k, f[k - 1]>>]
  BY DEF Traces, Trace
<1> USE DEF Steps
<1> DEFINE Runs(f, m) == f[0] = a /\ \A k \in 1 .. m : f[k] = step[<<k, f[k - 1]>>]
<1> DEFINE S == {m \in Nat : \E f \in [0 .. m -> V] : Runs(f, m)}
<1>1. 0 \in S
  <2> DEFINE f == [k \in 0 .. 0 |-> a]
  <2>1. f \in [0 .. 0 -> V] /\ Runs(f, 0)
    OBVIOUS
  <2> QED
    BY <2>1
<1>2. ASSUME NEW m \in 0 .. n - 1, m \in S PROVE m + 1 \in S
  <2>1. m \in Nat /\ m + 1 \in 1 .. n
    OBVIOUS
  <2>2. PICK f \in [0 .. m -> V] : Runs(f, m)
    BY <1>2
  <2> DEFINE g == [k \in 0 .. m + 1 |->
                     IF k = m + 1 THEN step[<<m + 1, f[m]>>] ELSE f[k]]
  <2>3. f[m] \in V
    BY <2>1
  <2>4. step[<<m + 1, f[m]>>] \in V
    BY <2>1, <2>3
  <2>5. g \in [0 .. m + 1 -> V] /\ g[0] = a
    BY <2>1, <2>2, <2>4
  <2>6. ASSUME NEW k \in 1 .. m + 1 PROVE g[k] = step[<<k, g[k - 1]>>]
    <3>1. CASE k = m + 1
      <4>1. (m + 1) - 1 = m /\ m + 1 \in 0 .. m + 1 /\ m \in 0 .. m + 1 /\ m # m + 1
        BY <2>1
      <4>2. g[m + 1] = step[<<m + 1, f[m]>>] /\ g[m] = f[m]
        BY <4>1
      <4> HIDE DEF g
      <4> QED
        BY <3>1, <4>1, <4>2
    <3>2. CASE k # m + 1
      <4>1. k \in 1 .. m /\ k - 1 \in 0 .. m
        BY <2>1, <3>2
      <4>2. f[k] = step[<<k, f[k - 1]>>]
        BY <2>2, <4>1
      <4>3. g[k] = f[k] /\ g[k - 1] = f[k - 1]
        BY <2>1, <4>1
      <4> QED
        BY <4>2, <4>3
    <3> QED
      BY <3>1, <3>2
  <2> HIDE DEF g
  <2>7. Runs(g, m + 1)
    BY <2>5, <2>6
  <2> QED
    BY <2>1, <2>5, <2>7
<1> HIDE DEF S
<1>3. \A m \in 0 .. n : m \in S
  BY <1>1, <1>2, UpTo
<1>4. n \in S
  BY <1>3
<1> QED
  BY <1>4 DEF S

------------------------------------------------------------------------------
(* Folds                                                                      *)

\* The greatest of a set of indexes.
LEMMA MaxOfIndexes ==
    ASSUME NEW n \in Nat, NEW s \in SUBSET (1 .. n), s # {}
    PROVE  Max(s) \in s /\ \A y \in s : Max(s) >= y
<1> DEFINE below == {n - x : x \in s}
<1>1. below \in SUBSET Nat /\ below # {}
  <2>1. \A x \in s : n - x \in Nat
    OBVIOUS
  <2>2. below \in SUBSET Nat
    BY <2>1
  <2>3. PICK x \in s : TRUE
    OBVIOUS
  <2>4. n - x \in below
    OBVIOUS
  <2> QED
    BY <2>2, <2>4
<1> HIDE DEF below
<1>2. PICK m \in below : \A y \in below : m <= y
  BY <1>1, Least
<1> USE DEF below
<1>3. PICK x \in s : m = n - x
  BY <1>2
<1>4. \A y \in s : x >= y
  <2> TAKE y \in s
  <2>1. m <= n - y
    BY <1>2
  <2> QED
    BY <1>3, <2>1
<1>5. \E z \in s : \A y \in s : z >= y
  BY <1>4
<1> QED
  BY <1>5 DEF Max

\* What the folds of the community modules compute on the way: for every set of
\* indexes, the steps for its members, from the least to the greatest.
Folding(n, V, a, step) ==
    {f \in [SUBSET (1 .. n) -> V] :
       /\ f[{}] = a
       /\ \A s \in SUBSET (1 .. n) : s # {} => f[s] = step[<<Max(s), f[s \ {Max(s)}]>>]}

\* A fold of n steps that keeps within V exists.
LEMMA FoldExists ==
    ASSUME NEW n \in Nat, NEW V, NEW a \in V, NEW step \in Steps(n, V)
    PROVE  \E f : f \in Folding(n, V, a, step)
<1> DEFINE Sub == SUBSET (1 .. n)
           W == [Sub -> V]
           start == [s \in Sub |-> a]
           Turn(k, v) == [s \in Sub |-> IF k \in s THEN step[<<k, v[s]>>] ELSE v[s]]
           turns == [p \in (1 .. n) \X W |-> Turn(p[1], p[2])]
<1>1. start \in W
  OBVIOUS
<1>2. \A k \in 1 .. n, v \in W : Turn(k, v) \in W
  BY DEF Steps
<1> HIDE DEF W, Turn
<1>3. turns \in Steps(n, W) /\ \A k \in 1 .. n, v \in W : turns[<<k, v>>] = Turn(k, v)
  BY <1>2 DEF Steps
<1> HIDE DEF turns, start
<1>4. PICK F : F \in Traces(n, W, start, turns)
  BY <1>1, <1>3, LoopExists
<1>5. F \in [0 .. n -> W] /\ F[0] = start /\ \A k \in 1 .. n : F[k] = turns[<<k, F[k - 1]>>]
  BY <1>4 DEF Traces, Trace
<1>6. ASSUME NEW k \in 0 .. n - 1, NEW s \in Sub
      PROVE  F[k + 1][s] = IF k + 1 \in s THEN step[<<k + 1, F[k][s]>>] ELSE F[k][s]
  <2>1. k + 1 \in 1 .. n /\ (k + 1) - 1 = k /\ F[k] \in W
    BY <1>5
  <2>2. F[k + 1] = Turn(k + 1, F[k])
    BY <1>3, <1>5, <2>1
  <2> QED
    BY <2>2 DEF Turn
<1>7. \A s \in Sub : F[0][s] = a
  BY <1>5 DEF start
<1> DEFINE Blind == {j \in 0 .. n : \A s, t \in Sub :
                       (\A x \in 1 .. j : x \in s <=> x \in t) => F[j][s] = F[j][t]}
           Done == {j \in 0 .. n : \A m \in 0 .. j, s \in Sub :
                      s \subseteq 1 .. m => F[j][s] = F[m][s]}
<1>8. \A j \in 0 .. n : j \in Blind
  <2>1. 0 \in Blind
    BY <1>7
  <2>2. ASSUME NEW j \in 0 .. n - 1, j \in Blind PROVE j + 1 \in Blind
    <3>1. j + 1 \in 0 .. n /\ j + 1 \in 1 .. j + 1 /\ \A x \in 1 .. j : x \in 1 .. j + 1
      OBVIOUS
    <3>2. ASSUME NEW s \in Sub, NEW t \in Sub, \A x \in 1 .. j + 1 : x \in s <=> x \in t
          PROVE  F[j + 1][s] = F[j + 1][t]
      <4>1. F[j][s] = F[j][t] /\ (j + 1 \in s <=> j + 1 \in t)
        BY <2>2, <3>1, <3>2
      <4>2. F[j + 1][s] = IF j + 1 \in s THEN step[<<j + 1, F[j][s]>>] ELSE F[j][s]
        BY <1>6
      <4>3. F[j + 1][t] = IF j + 1 \in t THEN step[<<j + 1, F[j][t]>>] ELSE F[j][t]
        BY <1>6
      <4> QED
        BY <4>1, <4>2, <4>3
    <3> QED
      BY <3>1, <3>2
  <2> HIDE DEF Blind
  <2> QED
    BY <2>1, <2>2, UpTo
<1>9. \A j \in 0 .. n : j \in Done
  <2>1. 0 \in Done
    OBVIOUS
  <2>2. ASSUME NEW j \in 0 .. n - 1, j \in Done PROVE j + 1 \in Done
    <3>1. ASSUME NEW m \in 0 .. j + 1, NEW s \in Sub, s \subseteq 1 .. m
          PROVE  F[j + 1][s] = F[m][s]
      <4>1. CASE m = j + 1
        BY <4>1
      <4>2. CASE m # j + 1
        <5>1. m \in 0 .. j /\ j + 1 \notin s
          BY <3>1, <4>2
        <5>2. F[j][s] = F[m][s]
          BY <2>2, <3>1, <5>1
        <5> QED
          BY <1>6, <5>1, <5>2
      <4> QED
        BY <4>1, <4>2
    <3> QED
      BY <3>1
  <2> HIDE DEF Done
  <2> QED
    BY <2>1, <2>2, UpTo
<1>10. F[n] \in [Sub -> V]
  <2>1. n \in 0 .. n
    OBVIOUS
  <2>2. F[n] \in W
    BY <1>5, <2>1
  <2> QED
    BY <2>2 DEF W
<1>11. F[n][{}] = a
  <2>1. {} \in Sub /\ {} \subseteq 1 .. 0 /\ n \in Done /\ 0 \in 0 .. n
    BY <1>9
  <2> QED
    BY <1>7, <2>1
<1>12. ASSUME NEW s \in Sub, s # {}
       PROVE  F[n][s] = step[<<Max(s), F[n][s \ {Max(s)}]>>]
  <2> DEFINE m == Max(s)
             t == s \ {m}
  <2>1. m \in s /\ \A y \in s : m >= y
    BY <1>12, MaxOfIndexes
  <2> HIDE DEF m
  <2>2. m \in 1 .. n /\ m - 1 \in 0 .. n - 1 /\ (m - 1) + 1 = m /\ m - 1 \in 0 .. n /\ m \in 0 .. n
    BY <2>1
  <2>3. t \in Sub /\ s \subseteq 1 .. m /\ t \subseteq 1 .. m - 1
    BY <2>1, <2>2
  <2>4. n \in Done /\ m - 1 \in Blind /\ n \in 0 .. n
    BY <1>8, <1>9, <2>2
  <2>5. F[n][s] = F[m][s]
    BY <2>2, <2>3, <2>4
  <2>6. F[n][t] = F[m - 1][t]
    BY <2>2, <2>3, <2>4
  <2>7. F[m - 1][s] = F[m - 1][t]
    <3>1. \A x \in 1 .. m - 1 : x \in s <=> x \in t
      BY <2>2
    <3> QED
      BY <2>3, <2>4, <3>1
  <2>8. F[m][s] = step[<<m, F[m - 1][s]>>]
    BY <1>6, <2>1, <2>2
  <2>9. F[n][s] = step[<<m, F[n][t]>>]
    BY <2>5, <2>6, <2>7, <2>8
  <2> QED
    BY <2>9 DEF m
<1>13. F[n] \in Folding(n, V, a, step)
  BY <1>10, <1>11, <1>12 DEF Folding
<1> QED
  BY <1>13

\* The values a fold passes through, for the indexes up to each, are the trace of
\* the loop.
LEMMA FoldTrace ==
    ASSUME NEW n \in Nat, NEW V, NEW a \in V, NEW step \in Steps(n, V), NEW g, g[{}] = a,
           \A s \in SUBSET (1 .. n) : s # {} /\ g[s \ {Max(s)}] \in V
              => g[s] = step[<<Max(s), g[s \ {Max(s)}]>>]
    PROVE  [k \in 0 .. n |-> g[1 .. k]] \in Traces(n, V, a, step)
<1> DEFINE f == [k \in 0 .. n |-> g[1 .. k]]
           S == {k \in 0 .. n : g[1 .. k] \in V}
<1>1. ASSUME NEW k \in 0 .. n - 1, g[1 .. k] \in V
      PROVE  g[1 .. k + 1] = step[<<k + 1, g[1 .. k]>>]
  <2> DEFINE s == 1 .. k + 1
  <2>1. s \in SUBSET (1 .. n) /\ s # {} /\ k + 1 \in s
    OBVIOUS
  <2>2. Max(s) \in s /\ \A y \in s : Max(s) >= y
    BY <2>1, MaxOfIndexes
  <2>3. Max(s) = k + 1
    BY <2>1, <2>2
  <2>4. s \ {k + 1} = 1 .. k
    OBVIOUS
  <2> QED
    BY <1>1, <2>1, <2>3, <2>4
<1>2. 0 \in S
  <2>1. 1 .. 0 = {}
    OBVIOUS
  <2> QED
    BY <2>1
<1>3. ASSUME NEW k \in 0 .. n - 1, k \in S PROVE k + 1 \in S
  <2>1. g[1 .. k] \in V /\ k + 1 \in 1 .. n /\ k + 1 \in 0 .. n
    BY <1>3
  <2>2. step[<<k + 1, g[1 .. k]>>] \in V
    BY <2>1 DEF Steps
  <2> QED
    BY <1>1, <2>1, <2>2
<1> HIDE DEF S
<1>4. \A k \in 0 .. n : k \in S
  BY <1>2, <1>3, UpTo
<1>5. \A k \in 0 .. n : g[1 .. k] \in V
  BY <1>4 DEF S
<1>6. f \in [0 .. n -> V]
  BY <1>5
<1>7. f[0] = a
  <2>1. 1 .. 0 = {} /\ 0 \in 0 .. n
    OBVIOUS
  <2> QED
    BY <2>1
<1>8. ASSUME NEW k \in 1 .. n PROVE f[k] = step[<<k, f[k - 1]>>]
  <2>1. k - 1 \in 0 .. n - 1 /\ (k - 1) + 1 = k /\ k \in 0 .. n /\ k - 1 \in 0 .. n
    OBVIOUS
  <2>2. g[1 .. k] = step[<<k, g[1 .. k - 1]>>]
    BY <1>1, <1>5, <2>1
  <2> QED
    BY <2>1, <2>2
<1> HIDE DEF f
<1>9. f \in Traces(n, V, a, step)
  BY <1>6, <1>7, <1>8 DEF Traces, Trace
<1> QED
  BY <1>9 DEF f

------------------------------------------------------------------------------
(* A sequence of sequences as one                                             *)

\* What there is of it after each of the sequences.
Joining(seqs, V, f) ==
    /\ f \in [0 .. Len(seqs) -> Seq(V)]
    /\ f[0] = <<>>
    /\ \A k \in 1 .. Len(seqs) : f[k] = f[k - 1] \o seqs[k]
    /\ FlattenSeq(seqs) = f[Len(seqs)]

\* FlattenSeq passes through such values.
LEMMA FlattenTrace ==
    ASSUME NEW V, NEW seqs \in Seq(Seq(V))
    PROVE  \E f : Joining(seqs, V, f)
<1> DEFINE n == Len(seqs)
           step == [t \in (1 .. n) \X Seq(V) |-> t[2] \o seqs[t[1]]]
<1>1. n \in Nat /\ \A k \in 1 .. n : seqs[k] \in Seq(V)
  OBVIOUS
<1>2. \A k \in 1 .. n, v \in Seq(V) : v \o seqs[k] \in Seq(V)
  BY <1>1, ConcatProperties
<1> HIDE DEF n
<1>3. step \in Steps(n, Seq(V)) /\ \A k \in 1 .. n, v \in Seq(V) : step[<<k, v>>] = v \o seqs[k]
  BY <1>2 DEF Steps
<1> HIDE DEF step
<1>4. <<>> \in Seq(V)
  OBVIOUS
<1>5. PICK f : f \in Traces(n, Seq(V), <<>>, step)
  BY <1>1, <1>3, <1>4, LoopExists
<1>6. /\ f \in [0 .. n -> Seq(V)] /\ f[0] = <<>>
      /\ \A k \in 1 .. n : f[k] = step[<<k, f[k - 1]>>]
  BY <1>5 DEF Traces, Trace
<1>7. \A k \in 1 .. n : f[k - 1] \in Seq(V)
  BY <1>1, <1>6
<1>8. \A k \in 1 .. n : f[k] = f[k - 1] \o seqs[k]
  BY <1>3, <1>6, <1>7
<1>9. CASE n = 0
  <2>1. FlattenSeq(seqs) = seqs /\ seqs = <<>>
    BY <1>9 DEF FlattenSeq, n
  <2> QED
    BY <1>6, <1>8, <1>9, <2>1 DEF Joining, n
<1>10. CASE n # 0
  <2> DEFINE g == [i \in 1 .. n |-> f[i]]
             flatten[i \in 1 .. n] == IF i = 1 THEN seqs[i] ELSE flatten[i - 1] \o seqs[i]
  <2>1. \A i \in 1 .. n : g[i] = IF i = 1 THEN seqs[i] ELSE g[i - 1] \o seqs[i]
    <3> TAKE i \in 1 .. n
    <3>1. CASE i = 1
      <4>1. 1 \in 1 .. n /\ 1 - 1 = 0
        BY <1>1, <3>1
      <4>2. f[1] = f[0] \o seqs[1]
        BY <1>8, <4>1
      <4>3. <<>> \o seqs[1] = seqs[1]
        BY <1>1, <3>1, ConcatEmptySeq
      <4> QED
        BY <1>6, <3>1, <4>2, <4>3
    <3>2. CASE i # 1
      <4>1. i - 1 \in 1 .. n
        BY <1>1, <3>2
      <4> QED
        BY <1>8, <3>2, <4>1
    <3> QED
      BY <3>1, <3>2
  <2>2. g = [i \in 1 .. n |-> IF i = 1 THEN seqs[i] ELSE g[i - 1] \o seqs[i]]
    BY <2>1
  <2>3. flatten = [i \in 1 .. n |-> IF i = 1 THEN seqs[i] ELSE flatten[i - 1] \o seqs[i]]
    BY <2>2, Zenon
  <2>4. FlattenSeq(seqs) = flatten[n]
    BY <1>10, Zenon DEF FlattenSeq, n
  <2> HIDE DEF flatten, g
  <2> DEFINE Same == {i \in Nat : i + 1 \in 1 .. n => flatten[i + 1] = f[i + 1]}
  <2>5. 0 \in Same
    <3>1. 1 \in 1 .. n /\ 0 + 1 = 1 /\ 1 - 1 = 0
      BY <1>1, <1>10
    <3>2. flatten[1] = seqs[1]
      BY <2>3, <3>1
    <3>3. f[1] = <<>> \o seqs[1]
      BY <1>6, <1>8, <3>1
    <3>4. <<>> \o seqs[1] = seqs[1]
      BY <1>1, <3>1, ConcatEmptySeq
    <3> QED
      BY <3>1, <3>2, <3>3, <3>4
  <2>6. ASSUME NEW i \in 0 .. n - 1, i \in Same PROVE i + 1 \in Same
    <3> SUFFICES ASSUME (i + 1) + 1 \in 1 .. n PROVE flatten[(i + 1) + 1] = f[(i + 1) + 1]
      BY <2>6
    <3>1. i + 1 \in 1 .. n /\ (i + 1) + 1 # 1 /\ ((i + 1) + 1) - 1 = i + 1
      BY <1>1
    <3>2. flatten[i + 1] = f[i + 1]
      BY <2>6, <3>1
    <3>3. flatten[(i + 1) + 1] = flatten[i + 1] \o seqs[(i + 1) + 1]
      BY <2>3, <3>1
    <3>4. f[(i + 1) + 1] = f[i + 1] \o seqs[(i + 1) + 1]
      BY <1>8, <3>1
    <3> QED
      BY <3>2, <3>3, <3>4
  <2> HIDE DEF Same
  <2>7. \A i \in 0 .. n : i \in Same
    BY <1>1, <2>5, <2>6, UpTo
  <2>8. n - 1 \in 0 .. n /\ (n - 1) + 1 = n /\ n \in 1 .. n
    BY <1>1, <1>10
  <2>9. flatten[n] = f[n]
    BY <2>7, <2>8 DEF Same
  <2> QED
    BY <1>6, <1>8, <2>4, <2>9 DEF Joining, n
<1> QED
  BY <1>9, <1>10

\* Two sequences of sequences, one behind the other.
LEMMA FlattenConcat ==
    ASSUME NEW V, NEW a \in Seq(Seq(V)), NEW b \in Seq(Seq(V))
    PROVE  /\ FlattenSeq(a) \in Seq(V) /\ FlattenSeq(b) \in Seq(V)
           /\ FlattenSeq(a \o b) = FlattenSeq(a) \o FlattenSeq(b)
<1> DEFINE n == Len(a)
           m == Len(b)
           c == a \o b
<1>1. /\ c \in Seq(Seq(V)) /\ n \in Nat /\ m \in Nat /\ Len(c) = n + m
      /\ \A k \in 1 .. n : c[k] = a[k]
      /\ \A k \in 1 .. m : c[n + k] = b[k] /\ b[k] \in Seq(V)
  <2>1. c \in Seq(Seq(V)) /\ Len(c) = n + m
    BY ConcatProperties
  <2>2. n \in Nat /\ m \in Nat
    OBVIOUS
  <2>3. \A k \in 1 .. n + m : c[k] = IF k <= n THEN a[k] ELSE b[k - n]
    BY ConcatProperties
  <2>4. \A k \in 1 .. n : k \in 1 .. n + m /\ k <= n
    BY <2>2
  <2>5. \A k \in 1 .. m : n + k \in 1 .. n + m /\ ~(n + k <= n) /\ (n + k) - n = k
    BY <2>2
  <2>6. \A k \in 1 .. m : b[k] \in Seq(V)
    OBVIOUS
  <2> HIDE DEF c, n, m
  <2> QED
    BY <2>1, <2>2, <2>3, <2>4, <2>5, <2>6
<1>2. PICK f : Joining(a, V, f)
  BY FlattenTrace
<1>3. PICK g : Joining(b, V, g)
  BY FlattenTrace
<1>4. PICK h : Joining(c, V, h)
  BY <1>1, FlattenTrace
<1> HIDE DEF c
<1>5. /\ f \in [0 .. n -> Seq(V)] /\ f[0] = <<>> /\ FlattenSeq(a) = f[n]
      /\ \A k \in 1 .. n : f[k] = f[k - 1] \o a[k]
  BY <1>2 DEF Joining
<1>6. /\ g \in [0 .. m -> Seq(V)] /\ g[0] = <<>> /\ FlattenSeq(b) = g[m]
      /\ \A k \in 1 .. m : g[k] = g[k - 1] \o b[k]
  BY <1>3 DEF Joining
<1>7. /\ h[0] = <<>> /\ FlattenSeq(c) = h[n + m]
      /\ \A k \in 1 .. n + m : h[k] = h[k - 1] \o c[k]
  BY <1>1, <1>4 DEF Joining
<1> HIDE DEF n, m
<1>0. n \in Nat /\ m \in Nat /\ n \in 0 .. n /\ m \in 0 .. m
  BY <1>1
<1> DEFINE S == {k \in 0 .. n : h[k] = f[k]}
<1>8. 0 \in S
  BY <1>1, <1>5, <1>7
<1>9. ASSUME NEW k \in 0 .. n - 1, k \in S PROVE k + 1 \in S
  <2>1. k + 1 \in 1 .. n /\ k + 1 \in 1 .. n + m /\ k + 1 \in 0 .. n /\ (k + 1) - 1 = k
    BY <1>0
  <2>2. h[k + 1] = h[k] \o a[k + 1]
    BY <1>1, <1>7, <2>1
  <2>3. f[k + 1] = f[k] \o a[k + 1]
    BY <1>5, <2>1
  <2>4. h[k] = f[k]
    BY <1>9
  <2> QED
    BY <2>1, <2>2, <2>3, <2>4
<1> HIDE DEF S
<1>10. \A k \in 0 .. n : k \in S
  BY <1>1, <1>8, <1>9, UpTo
<1>11. h[n] = f[n] /\ f[n] \in Seq(V)
  <2>1. n \in S
    BY <1>0, <1>10
  <2> QED
    BY <1>0, <1>5, <2>1 DEF S
<1> DEFINE T == {k \in 0 .. m : h[n + k] = f[n] \o g[k]}
<1>12. 0 \in T
  <2>1. n + 0 = n /\ 0 \in 0 .. m
    BY <1>1
  <2>2. f[n] \o <<>> = f[n]
    BY <1>11, ConcatEmptySeq
  <2> QED
    BY <1>6, <1>11, <2>1, <2>2
<1>13. ASSUME NEW k \in 0 .. m - 1, k \in T PROVE k + 1 \in T
  <2>1. /\ k + 1 \in 1 .. m /\ k + 1 \in 0 .. m /\ k \in 0 .. m /\ (k + 1) - 1 = k
        /\ n + (k + 1) \in 1 .. n + m /\ (n + (k + 1)) - 1 = n + k
    BY <1>0
  <2>2. h[n + (k + 1)] = (f[n] \o g[k]) \o b[k + 1]
    BY <1>1, <1>7, <1>13, <2>1
  <2>3. g[k + 1] = g[k] \o b[k + 1]
    BY <1>6, <2>1
  <2>4. PICK x \in Seq(V), y \in Seq(V), z \in Seq(V) : x = f[n] /\ y = g[k] /\ z = b[k + 1]
    BY <1>1, <1>6, <1>11, <2>1
  <2>5. (x \o y) \o z = x \o (y \o z)
    BY ConcatAssociative
  <2> QED
    BY <2>1, <2>2, <2>3, <2>4, <2>5
<1> HIDE DEF T
<1>14. \A k \in 0 .. m : k \in T
  BY <1>1, <1>12, <1>13, UpTo
<1>15. h[n + m] = f[n] \o g[m] /\ g[m] \in Seq(V)
  <2>1. m \in T
    BY <1>0, <1>14
  <2> QED
    BY <1>0, <1>6, <2>1 DEF T
<1> QED
  BY <1>5, <1>6, <1>7, <1>11, <1>15 DEF c

\* Nothing, and one sequence.
LEMMA FlattenOne ==
    ASSUME NEW V, NEW a \in Seq(V)
    PROVE  FlattenSeq(<<>>) = <<>> /\ FlattenSeq(<<a>>) = a
<1>1. <<>> \in Seq(Seq(V)) /\ <<a>> \in Seq(Seq(V)) /\ Len(<<a>>) = 1 /\ <<a>>[1] = a
  OBVIOUS
<1>2. PICK f : Joining(<<a>>, V, f)
  BY <1>1, FlattenTrace
<1>3. f[0] = <<>> /\ FlattenSeq(<<a>>) = f[1] /\ f[1] = f[0] \o a
  <2>1. 1 \in 1 .. 1 /\ 1 - 1 = 0
    OBVIOUS
  <2> QED
    BY <1>1, <1>2, <2>1 DEF Joining
<1>4. <<>> \o a = a
  BY ConcatEmptySeq
<1> QED
  BY <1>3, <1>4 DEF FlattenSeq

-----------------------------------------------------------------------------
(* What the elements of a sequence give, one by one and joined.              *)

\* Two sequences joined, in full.
LEMMA ConcatParts ==
    ASSUME NEW S, NEW a \in Seq(S), NEW b \in Seq(S)
    PROVE  /\ a \o b \in Seq(S) /\ Len(a) \in Nat /\ Len(b) \in Nat
           /\ DOMAIN a = 1 .. Len(a) /\ DOMAIN b = 1 .. Len(b)
           /\ DOMAIN (a \o b) = 1 .. Len(a) + Len(b) /\ Len(a \o b) = Len(a) + Len(b)
           /\ \A i \in 1 .. Len(a) + Len(b) :
                 (a \o b)[i] = IF i <= Len(a) THEN a[i] ELSE b[i - Len(a)]
<1>1. /\ a \o b \in Seq(S) /\ Len(a \o b) = Len(a) + Len(b)
      /\ \A i \in 1 .. Len(a) + Len(b) :
            (a \o b)[i] = IF i <= Len(a) THEN a[i] ELSE b[i - Len(a)]
  BY ConcatProperties
<1>2. /\ Len(a) \in Nat /\ Len(b) \in Nat /\ DOMAIN a = 1 .. Len(a) /\ DOMAIN b = 1 .. Len(b)
  OBVIOUS
<1>3. DOMAIN (a \o b) = 1 .. Len(a \o b)
  BY <1>1
<1> QED
  BY <1>1, <1>2, <1>3

\* What each token of a sequence gives, and the whole of it.
Mapped(f, tokens) == [i \in DOMAIN tokens |-> f[tokens[i]]]
Spread(f, tokens) == FlattenSeq(Mapped(f, tokens))

\* The parts, and their elements one by one.
AreParts(U, f, c) ==
    /\ Mapped(f, c) \in Seq(Seq(U)) /\ Len(Mapped(f, c)) = Len(c)
    /\ Len(c) \in Nat /\ DOMAIN c = 1 .. Len(c) /\ DOMAIN Mapped(f, c) = 1 .. Len(c)
    /\ \A i \in 1 .. Len(c) : Mapped(f, c)[i] = f[c[i]]

\* The parts of a sequence, mapped, are sequences.
LEMMA PartsOK ==
    ASSUME NEW T, NEW U, NEW f \in [T -> Seq(U)], NEW c \in Seq(T)
    PROVE  AreParts(U, f, c)
<1> DEFINE parts == [i \in DOMAIN c |-> f[c[i]]]
<1>1. Len(c) \in Nat /\ DOMAIN c = 1 .. Len(c) /\ \A i \in 1 .. Len(c) : c[i] \in T
  OBVIOUS
<1>2. \A i \in 1 .. Len(c) : f[c[i]] \in Seq(U)
  BY <1>1
<1>3. parts \in Seq(Seq(U)) /\ Len(parts) = Len(c) /\ DOMAIN parts = 1 .. Len(c)
  BY <1>1, <1>2
<1>4. parts = Mapped(f, c)
  BY DEF Mapped
<1> HIDE DEF parts
<1>5. \A i \in 1 .. Len(c) : parts[i] = f[c[i]]
  BY <1>1 DEF parts
<1> QED
  BY <1>1, <1>3, <1>4, <1>5 DEF AreParts

\* Two sequences joined give what they give, joined.
Together(U, f, a, b) ==
    /\ Spread(f, a) \in Seq(U) /\ Spread(f, b) \in Seq(U)
    /\ Spread(f, a \o b) = Spread(f, a) \o Spread(f, b)

\* What two sequences give together.
LEMMA SpreadConcat ==
    ASSUME NEW T, NEW U, NEW f \in [T -> Seq(U)], NEW a \in Seq(T), NEW b \in Seq(T)
    PROVE  Together(U, f, a, b)
<1>0. \A c \in Seq(T) : AreParts(U, f, c)
  BY PartsOK
<1>1. PICK x : x = Mapped(f, a)
  OBVIOUS
<1>2. PICK y : y = Mapped(f, b)
  OBVIOUS
<1>3. PICK z : z = Mapped(f, a \o b)
  OBVIOUS
<1>4. /\ a \o b \in Seq(T) /\ Len(a) \in Nat /\ Len(b) \in Nat
      /\ Len(a \o b) = Len(a) + Len(b)
      /\ \A i \in 1 .. Len(a) + Len(b) :
            (a \o b)[i] = IF i <= Len(a) THEN a[i] ELSE b[i - Len(a)]
  BY ConcatParts
<1>5. x \in Seq(Seq(U)) /\ Len(x) = Len(a) /\ \A i \in 1 .. Len(a) : x[i] = f[a[i]]
  BY <1>0, <1>1 DEF AreParts
<1>6. y \in Seq(Seq(U)) /\ Len(y) = Len(b) /\ \A i \in 1 .. Len(b) : y[i] = f[b[i]]
  BY <1>0, <1>2 DEF AreParts
<1>7. /\ z \in Seq(Seq(U)) /\ Len(z) = Len(a) + Len(b)
      /\ \A i \in 1 .. Len(a) + Len(b) : z[i] = f[(a \o b)[i]]
  <2>1. PICK c : c = a \o b
    OBVIOUS
  <2>2. c \in Seq(T) /\ Len(c) = Len(a) + Len(b) /\ z = Mapped(f, c)
    BY <1>3, <1>4, <2>1
  <2>3. z \in Seq(Seq(U)) /\ Len(z) = Len(c) /\ \A i \in 1 .. Len(c) : z[i] = f[c[i]]
    BY <1>0, <2>2 DEF AreParts
  <2> QED
    BY <2>1, <2>2, <2>3
<1>8. /\ x \o y \in Seq(Seq(U)) /\ Len(x \o y) = Len(a) + Len(b)
      /\ \A i \in 1 .. Len(a) + Len(b) : (x \o y)[i] = IF i <= Len(a) THEN x[i] ELSE y[i - Len(a)]
  <2>1. PICK S : S = Seq(U)
    OBVIOUS
  <2>2. x \in Seq(S) /\ y \in Seq(S)
    BY <1>5, <1>6, <2>1
  <2>3. /\ x \o y \in Seq(S) /\ Len(x \o y) = Len(x) + Len(y)
        /\ \A i \in 1 .. Len(x) + Len(y) :
              (x \o y)[i] = IF i <= Len(x) THEN x[i] ELSE y[i - Len(x)]
    BY <2>2, ConcatParts
  <2> QED
    BY <1>5, <1>6, <2>1, <2>3
<1>9. ASSUME NEW i \in 1 .. Len(a) + Len(b) PROVE z[i] = (x \o y)[i]
  <2>1. CASE i <= Len(a)
    <3>1. i \in 1 .. Len(a)
      BY <1>4, <2>1
    <3> QED
      BY <1>4, <1>5, <1>7, <1>8, <2>1, <3>1
  <2>2. CASE ~(i <= Len(a))
    <3>1. i - Len(a) \in 1 .. Len(b)
      BY <1>4, <2>2
    <3> QED
      BY <1>4, <1>6, <1>7, <1>8, <2>2, <3>1
  <2> QED
    BY <2>1, <2>2
<1>10. z = x \o y
  BY <1>4, <1>7, <1>8, <1>9, SeqEqual
<1>11. /\ FlattenSeq(x) \in Seq(U) /\ FlattenSeq(y) \in Seq(U)
       /\ FlattenSeq(z) = FlattenSeq(x) \o FlattenSeq(y)
  BY <1>5, <1>6, <1>10, FlattenConcat
<1>12. Spread(f, a) = FlattenSeq(x) /\ Spread(f, b) = FlattenSeq(y) /\ Spread(f, a \o b) = FlattenSeq(z)
  BY <1>1, <1>2, <1>3 DEF Spread
<1> QED
  BY <1>11, <1>12 DEF Together

\* What no token gives, and one.
LEMMA SpreadOne ==
    ASSUME NEW T, NEW U, NEW f \in [T -> Seq(U)], NEW t \in T
    PROVE  Spread(f, <<>>) = <<>> /\ Spread(f, <<t>>) = f[t]
<1>1. f[t] \in Seq(U)
  OBVIOUS
<1>2. Mapped(f, <<>>) = <<>>
  BY DEF Mapped
<1>3. Mapped(f, <<t>>) = <<f[t]>>
  BY DEF Mapped
<1>4. FlattenSeq(<<>>) = <<>> /\ FlattenSeq(<<f[t]>>) = f[t]
  BY <1>1, FlattenOne
<1> QED
  BY <1>2, <1>3, <1>4 DEF Spread

\* The parts, joined, give what the tokens give.
Alike(U, f, parts, tokens) ==
    /\ FlattenSeq(parts) \in Seq(DOMAIN f)
    /\ Spread(f, FlattenSeq(parts)) = Spread(f, tokens)

\* Parts that give what the tokens give, one by one, give it together.
LEMMA SpreadFlatten ==
    ASSUME NEW T, NEW U, NEW f \in [T -> Seq(U)], NEW tokens \in Seq(T),
           NEW parts \in Seq(Seq(T)), Len(parts) = Len(tokens),
           \A i \in 1 .. Len(tokens) : Spread(f, parts[i]) = f[tokens[i]]
    PROVE  Alike(U, f, parts, tokens)
<1>1. PICK n : n = Len(tokens)
  OBVIOUS
<1>2. PICK m : m = Mapped(f, tokens)
  OBVIOUS
<1>3. AreParts(U, f, tokens)
  BY PartsOK
<1>4. n \in Nat /\ m \in Seq(Seq(U)) /\ Len(m) = n /\ \A i \in 1 .. n : m[i] = f[tokens[i]]
  BY <1>1, <1>2, <1>3 DEF AreParts
<1>5. PICK g : Joining(parts, T, g)
  BY FlattenTrace
<1>6. PICK h : Joining(m, U, h)
  BY <1>4, FlattenTrace
<1>7. /\ g \in [0 .. n -> Seq(T)] /\ g[0] = <<>> /\ FlattenSeq(parts) = g[n]
      /\ \A k \in 1 .. n : g[k] = g[k - 1] \o parts[k]
  BY <1>1, <1>5 DEF Joining
<1>8. /\ h[0] = <<>> /\ FlattenSeq(m) = h[n]
      /\ \A k \in 1 .. n : h[k] = h[k - 1] \o m[k]
  BY <1>4, <1>6 DEF Joining
<1> DEFINE Right == {k \in 0 .. n : Spread(f, g[k]) = h[k]}
<1>9. 0 \in Right
  <2>1. Mapped(f, <<>>) = <<>>
    BY DEF Mapped
  <2>2. FlattenSeq(<<>>) = <<>>
    <3>1. <<>> \in Seq(U)
      OBVIOUS
    <3> QED
      BY <3>1, FlattenOne
  <2>3. Spread(f, <<>>) = <<>>
    BY <2>1, <2>2 DEF Spread
  <2> QED
    BY <1>4, <1>7, <1>8, <2>3
<1>10. ASSUME NEW k \in 0 .. n - 1, k \in Right PROVE k + 1 \in Right
  <2>1. k \in 0 .. n /\ k + 1 \in 1 .. n /\ k + 1 \in 0 .. n /\ (k + 1) - 1 = k
    BY <1>4
  <2>2. g[k] \in Seq(T) /\ parts[k + 1] \in Seq(T)
    <3>1. g[k] \in Seq(T)
      BY <1>7, <2>1
    <3>2. parts[k + 1] \in Seq(T)
      BY <1>1, <2>1
    <3> QED
      BY <3>1, <3>2
  <2>3. g[k + 1] = g[k] \o parts[k + 1] /\ h[k + 1] = h[k] \o m[k + 1]
    <3>1. g[k + 1] = g[(k + 1) - 1] \o parts[k + 1] /\ h[k + 1] = h[(k + 1) - 1] \o m[k + 1]
      BY <1>7, <1>8, <2>1
    <3> QED
      BY <2>1, <3>1
  <2>4. Spread(f, g[k] \o parts[k + 1]) = Spread(f, g[k]) \o Spread(f, parts[k + 1])
    <3>1. Together(U, f, g[k], parts[k + 1])
      BY <2>2, SpreadConcat
    <3> QED
      BY <3>1 DEF Together
  <2>5. Spread(f, g[k]) = h[k] /\ Spread(f, parts[k + 1]) = m[k + 1]
    BY <1>1, <1>4, <1>10, <2>1
  <2>6. Spread(f, g[k + 1]) = h[k + 1]
    BY <2>3, <2>4, <2>5
  <2> QED
    BY <2>1, <2>6
<1> HIDE DEF Right
<1>11. n \in Right
  <2>1. \A k \in 0 .. n : k \in Right
    BY <1>4, <1>9, <1>10, UpTo
  <2> QED
    BY <1>4, <2>1
<1>12. Spread(f, g[n]) = h[n] /\ g[n] \in Seq(T)
  BY <1>4, <1>7, <1>11 DEF Right
<1> QED
  BY <1>2, <1>7, <1>8, <1>12 DEF Spread, Alike

------------------------------------------------------------------------------
(* Remainders                                                              *)

\* A positive multiple of n is at least n.
LEMMA AtLeastOnce ==
    ASSUME NEW n \in Nat \ {0}, NEW d \in Int, d >= 1
    PROVE  n * d >= n
OBVIOUS

\* Quotient and remainder are unique.
LEMMA DivisionUnique ==
    ASSUME NEW n \in Nat \ {0}, NEW p \in Int, NEW q \in Int,
           NEW r \in 0 .. n - 1, NEW s \in 0 .. n - 1, n * p + r = n * q + s
    PROVE  p = q /\ r = s
<1>1. ASSUME p > q PROVE FALSE
  <2>1. n * (p - q) >= n
    BY <1>1, AtLeastOnce
  <2>2. n * (p - q) = n * p - n * q
    OBVIOUS
  <2> QED
    BY <2>1, <2>2
<1>2. ASSUME q > p PROVE FALSE
  <2>1. n * (q - p) >= n
    BY <1>2, AtLeastOnce
  <2>2. n * (q - p) = n * q - n * p
    OBVIOUS
  <2> QED
    BY <2>1, <2>2
<1>3. p = q
  BY <1>1, <1>2
<1> QED
  BY <1>3

\* A remainder is from 0 to n - 1, and leaves a multiple of n.
LEMMA Remainder ==
    ASSUME NEW n \in Nat \ {0}, NEW x \in Int
    PROVE  /\ x % n \in 0 .. n - 1
           /\ \E q \in Int : x = n * q + (x % n)
<1>1. x = n * (x \div n) + (x % n) /\ x \div n \in Int /\ x % n \in 0 .. n - 1
  <2>1. x = n * (x \div n) + (x % n)
    OBVIOUS
  <2>2. x \div n \in Int
    OBVIOUS
  <2> QED BY <2>1, <2>2
<1> QED
  BY <1>1

\* The number from 0 to n - 1 that differs by a multiple of n is the remainder.
LEMMA RemainderIs ==
    ASSUME NEW n \in Nat \ {0}, NEW q \in Int, NEW r \in 0 .. n - 1,
           NEW x \in Int, x = n * q + r
    PROVE  x % n = r
<1>1. PICK p \in Int : x = n * p + (x % n)
  BY Remainder
<1>2. x % n \in 0 .. n - 1
  BY Remainder
<1>3. n * p + (x % n) = n * q + r
  BY <1>1
<1> QED
  BY <1>2, <1>3, DivisionUnique

\* A counter that wraps: one turn more or less shows nothing.
LEMMA RemainderTurn ==
    ASSUME NEW n \in Nat \ {0}, NEW x \in Int
    PROVE  (x + n) % n = x % n /\ (x - n) % n = x % n
<1>1. PICK q \in Int : x = n * q + (x % n)
  BY Remainder
<1>2. x % n \in 0 .. n - 1
  BY Remainder
<1> DEFINE r == x % n  above == x + n  below == x - n
<1>3. above \in Int /\ q + 1 \in Int /\ above = n * (q + 1) + r
  BY <1>1, <1>2
<1>4. below \in Int /\ q - 1 \in Int /\ below = n * (q - 1) + r
  BY <1>1, <1>2
<1>5. r \in 0 .. n - 1
  BY <1>2
<1> HIDE DEF r, above, below
<1>6. above % n = r
  BY <1>3, <1>5, RemainderIs
<1>7. below % n = r
  BY <1>4, <1>5, RemainderIs
<1> QED
  BY <1>6, <1>7 DEF r, above, below

\* A counter that wraps counts on.
LEMMA RemainderNext ==
    ASSUME NEW m \in Nat \ {0}, NEW x \in Int
    PROVE  ((x % m) + 1) % m = (x + 1) % m
<1> DEFINE r == x % m  y == x + 1  z == (x % m) + 1
<1>1. PICK q \in Int : x = m * q + (x % m)
  BY Remainder
<1>2. x % m \in 0 .. m - 1
  BY Remainder
<1>3. r \in 0 .. m - 1 /\ y \in Int /\ z \in Int /\ y = m * q + (r + 1) /\ z = r + 1
  BY <1>1, <1>2
<1> HIDE DEF r, y, z
<1>4. CASE r + 1 < m
  <2>1. r + 1 \in 0 .. m - 1 /\ z = m * 0 + (r + 1)
    BY <1>3, <1>4
  <2>2. y % m = r + 1
    BY <1>3, <2>1, RemainderIs
  <2>3. z % m = r + 1
    BY <1>3, <2>1, RemainderIs
  <2> QED
    BY <2>2, <2>3 DEF y, z
<1>5. CASE r + 1 = m
  <2> DEFINE zero == 0  p == q + 1
  <2>1. zero \in 0 .. m - 1 /\ p \in Int
    BY <1>3, <1>5
  <2>2. y = m * p + zero
    <3>1. m * (q + 1) = m * q + m
      OBVIOUS
    <3>2. m * q \in Int
      OBVIOUS
    <3> QED
      BY <1>3, <1>5, <3>1, <3>2
  <2>3. z = m * 1 + zero
    BY <1>3, <1>5
  <2> HIDE DEF zero, p
  <2>4. y % m = zero
    <3>1. y \in Int
      BY <1>3
    <3> QED
      BY <2>1, <2>2, <3>1, RemainderIs
  <2>5. z % m = zero
    BY <1>3, <2>1, <2>3, RemainderIs
  <2> QED
    BY <2>4, <2>5 DEF y, z
<1> QED
  BY <1>3, <1>4, <1>5

\* Numbers less than n apart have remainders of their own.
LEMMA RemaindersDiffer ==
    ASSUME NEW n \in Nat \ {0}, NEW x \in Int, NEW y \in Int, x < y, y - x < n
    PROVE  x % n # y % n
<1> SUFFICES ASSUME x % n = y % n PROVE FALSE
  OBVIOUS
<1>1. PICK p \in Int : x = n * p + (x % n)
  BY Remainder
<1>2. PICK q \in Int : y = n * q + (y % n)
  BY Remainder
<1>3. n * (q - p) = y - x
  BY <1>1, <1>2
<1>4. q - p \in Int /\ (q - p < 1 => n * (q - p) <= 0)
  OBVIOUS
<1>5. q - p >= 1
  BY <1>3, <1>4
<1>6. n * (q - p) >= n
  BY <1>5, AtLeastOnce
<1> QED
  BY <1>3, <1>6

\* What a counter counts shows in a ring whose size divides its range.
LEMMA RemainderOfRemainder ==
    ASSUME NEW n \in Nat \ {0}, NEW m \in Nat \ {0}, m % n = 0, NEW x \in Int
    PROVE  (x % m) % n = x % n
<1>1. PICK k \in Int : m = n * k
  <2>1. m \in Int
    OBVIOUS
  <2>2. PICK k \in Int : m = n * k + (m % n)
    BY <2>1, Remainder
  <2> QED
    BY <2>2
<1>2. PICK q \in Int : x = m * q + (x % m)
  BY Remainder
<1>3. PICK p \in Int : x = n * p + (x % n)
  BY Remainder
<1>4. x % m \in Int /\ x % n \in 0 .. n - 1
  <2>1. x % m \in 0 .. m - 1 /\ x % n \in 0 .. n - 1
    BY Remainder
  <2> QED
    BY <2>1
<1>5. x % m = n * (p - k * q) + (x % n)
  <2>1. m * q = n * (k * q)
    BY <1>1
  <2>2. n * (p - k * q) = n * p - n * (k * q)
    OBVIOUS
  <2>3. m * q \in Int /\ n * p \in Int
    OBVIOUS
  <2> QED
    BY <1>2, <1>3, <1>4, <2>1, <2>2, <2>3
<1> DEFINE r == x % n  y == x % m  d == p - k * q
<1>6. d \in Int /\ y \in Int /\ r \in 0 .. n - 1 /\ y = n * d + r
  BY <1>4, <1>5
<1> HIDE DEF r, y, d
<1>7. y % n = r
  BY <1>6, RemainderIs
<1> QED
  BY <1>7 DEF r, y

==============================================================================
