------------------------------ MODULE Folding -------------------------------
(***************************************************************************)
(* What a fold over a sequence computes, for any operator: FoldLeft goes   *)
(* through one value per element, so that a fold over a queue can be       *)
(* followed while the queue grows at one end and is read at the other.     *)
(* The modules of proofs instantiate it with what reads the queue.         *)
(***************************************************************************)
EXTENDS Integers, Sequences, SequencesExt, NaturalsInduction, WellFoundedInduction, TLAPS

CONSTANT Op(_, _)

(* A set of numbers has a least one. *)
LEMMA LeastThere ==
  ASSUME NEW S, S \subseteq Nat, S # {}
  PROVE  \E x \in S : \A y \in S : x <= y
<1>1. PICK x \in S : \A y \in S : ~(<<y, x>> \in OpToRel(<,Nat))
  BY NatLessThanWellFounded, WFMin
<1>2. \A y \in S : ~(y < x)
  BY <1>1 DEF OpToRel
<1> QED BY <1>2

(* Induction, said of a set: what holds of 0 and of each successor holds of
   every number. *)
LEMMA SetInduction ==
  ASSUME NEW S, 0 \in S, \A n \in Nat : n \in S => n + 1 \in S
  PROVE  Nat \subseteq S
<1> SUFFICES ASSUME Nat \ S # {} PROVE FALSE
  OBVIOUS
<1>1. PICK x \in Nat \ S : \A y \in Nat \ S : x <= y
  BY LeastThere, Nat \ S \subseteq Nat
<1>2. \A y \in Nat \ S : ~(y < x)
  BY <1>1
<1>3. x \in Nat /\ x \notin S /\ x # 0
  OBVIOUS
<1>4. x - 1 \in Nat /\ x - 1 < x /\ (x - 1) + 1 = x
  BY <1>3, SMT
<1>5. x - 1 \in S
  BY <1>2, <1>4
<1> QED BY <1>3, <1>4, <1>5

(* What Fold(p, q) looks up: one value for each set of positions. *)
IsFold(f, p, q, n) ==
  f = [s \in SUBSET (1..n) |-> IF s = {} THEN p ELSE Op(f[s \ {Max(s)}], q[Max(s)])]

Fold(p, q) == FoldLeft(Op, p, q)

(* The values it goes through. *)
IsRun(h, p, q) == h[0] = p /\ \A i \in 1..Len(q) : h[i] = Op(h[i - 1], q[i])

LEMMA LastIsMax ==
  ASSUME NEW n \in Nat, NEW s \in SUBSET (1..n), n \in s
  PROVE  Max(s) = n
<1>1. \A y \in s : n >= y
  BY SMT
<1>2. \A x \in s : (\A y \in s : x >= y) => x = n
  BY <1>1, SMT
<1> QED BY <1>1, <1>2 DEF Max

LEMMA FoldExists ==
  ASSUME NEW p, NEW q, NEW n \in Nat
  PROVE  \E f : IsFold(f, p, q, n)
<1> DEFINE S == {k \in Nat : \E f : IsFold(f, p, q, k)}
<1>1. 0 \in S
  <2> DEFINE f == [s \in SUBSET (1..0) |-> p]
  <2>1. SUBSET (1..0) = {{}}
    BY SMT
  <2>2. f = [s \in SUBSET (1..0) |-> IF s = {} THEN p ELSE Op(f[s \ {Max(s)}], q[Max(s)])]
    BY <2>1
  <2> QED BY <2>2 DEF IsFold
<1>2. ASSUME NEW k \in Nat, k \in S
      PROVE  k + 1 \in S
  <2>1. PICK f : IsFold(f, p, q, k)
    BY <1>2
  <2> DEFINE g == [s \in SUBSET (1..k + 1) |-> IF s = {} THEN p ELSE Op(f[s \ {Max(s)}], q[Max(s)])]
  <2>2. \A s \in SUBSET (1..k) : g[s] = f[s]
    <3>1. SUBSET (1..k) \subseteq SUBSET (1..k + 1)
      BY SMT
    <3>2. \A s \in SUBSET (1..k) : f[s] = IF s = {} THEN p ELSE Op(f[s \ {Max(s)}], q[Max(s)])
      BY <2>1, Zenon DEF IsFold
    <3> QED BY <3>1, <3>2
  <2>3. \A s \in SUBSET (1..k + 1) : s \ {Max(s)} \in SUBSET (1..k)
    <3> SUFFICES ASSUME NEW s \in SUBSET (1..k + 1)
                 PROVE  s \ {Max(s)} \in SUBSET (1..k)
      OBVIOUS
    <3>1. CASE k + 1 \in s
      <4>1. Max(s) = k + 1
        BY <3>1, LastIsMax
      <4> QED BY <4>1, SMT
    <3>2. CASE k + 1 \notin s
      <4>1. s \in SUBSET (1..k)
        BY <3>2, SMT
      <4> QED BY <4>1
    <3> QED BY <3>1, <3>2
  <2>4. g = [s \in SUBSET (1..k + 1) |-> IF s = {} THEN p ELSE Op(g[s \ {Max(s)}], q[Max(s)])]
    BY <2>2, <2>3, Zenon
  <2>5. IsFold(g, p, q, k + 1)
    BY <2>4 DEF IsFold
  <2> QED BY <2>5
<1> HIDE DEF S
<1>3. n \in S
  BY <1>1, <1>2, SetInduction
<1> QED BY <1>3 DEF S

(* The fold is the last value of a run. *)
LEMMA FoldRuns ==
  ASSUME NEW p, NEW M, NEW q \in Seq(M)
  PROVE  \E h : IsRun(h, p, q) /\ Fold(p, q) = h[Len(q)]
<1> DEFINE n == Len(q)
           f == CHOOSE f : IsFold(f, p, q, n)
           h == [i \in 0..n |-> f[1..i]]
<1>1. n \in Nat /\ DOMAIN q = 1..n
  OBVIOUS
<1>2. Fold(p, q) = (CHOOSE f1 : f1 = [s \in SUBSET DOMAIN q |->
             IF s = {} THEN p ELSE Op(f1[s \ {Max(s)}], q[Max(s)])])[DOMAIN q]
  BY DEF Fold, FoldLeft, MapThenFoldSet
<1>3. Fold(p, q) = f[1..n]
  BY <1>1, <1>2, Zenon DEF IsFold
<1>4. IsFold(f, p, q, n)
  BY <1>1, FoldExists
<1>5. \A s \in SUBSET (1..n) : f[s] = IF s = {} THEN p ELSE Op(f[s \ {Max(s)}], q[Max(s)])
  BY <1>4, Zenon DEF IsFold
<1> HIDE DEF f, n
<1>6. h[0] = p
  <2>1. 1..0 = {} /\ 0 \in 0..n
    BY <1>1, SMT
  <2>2. f[{}] = p
    BY <1>5
  <2> QED BY <2>1, <2>2
<1>7. ASSUME NEW i \in 1..n
      PROVE  h[i] = Op(h[i - 1], q[i])
  <2>1. 1..i \in SUBSET (1..n) /\ i \in 1..i /\ 1..i # {} /\ i \in Nat /\ i - 1 \in 0..n /\ i \in 0..n
    BY <1>1, SMT
  <2>2. Max(1..i) = i
    BY <2>1, LastIsMax
  <2>3. (1..i) \ {i} = 1..(i - 1)
    BY <2>1, SMT
  <2>4. f[1..i] = Op(f[1..(i - 1)], q[i])
    BY <1>5, <2>1, <2>2, <2>3
  <2> QED BY <2>1, <2>4
<1>8. h[n] = f[1..n]
  BY <1>1
<1> QED BY <1>3, <1>6, <1>7, <1>8 DEF IsRun, n

(* Two runs of the same go through the same. *)
LEMMA RunsAgree ==
  ASSUME NEW p, NEW M, NEW q \in Seq(M), NEW g, NEW h, IsRun(g, p, q), IsRun(h, p, q), NEW n \in 0..Len(q)
  PROVE  g[n] = h[n]
<1> DEFINE S == {i \in Nat : i <= Len(q) => g[i] = h[i]}
<1>1. 0 \in S
  BY DEF IsRun
<1>2. ASSUME NEW i \in Nat, i \in S
      PROVE  i + 1 \in S
  BY <1>2 DEF IsRun
<1> HIDE DEF S
<1>3. n \in S
  BY <1>1, <1>2, SetInduction
<1> QED BY <1>3 DEF S

(* The value after i elements; a fold is the value after them all. *)
After(p, q, i) == (CHOOSE h : IsRun(h, p, q))[i]

LEMMA AfterIs ==
  ASSUME NEW p, NEW M, NEW q \in Seq(M), NEW h, IsRun(h, p, q), NEW i \in 0..Len(q)
  PROVE  After(p, q, i) = h[i]
<1> DEFINE g == CHOOSE g : IsRun(g, p, q)
<1>1. IsRun(g, p, q)
  OBVIOUS
<1> HIDE DEF g
<1>2. g[i] = h[i]
  BY <1>1, RunsAgree
<1> QED BY <1>2 DEF After, g

LEMMA AfterRuns ==
  ASSUME NEW p, NEW M, NEW q \in Seq(M)
  PROVE  /\ After(p, q, 0) = p
         /\ \A i \in 1..Len(q) : After(p, q, i) = Op(After(p, q, i - 1), q[i])
         /\ Fold(p, q) = After(p, q, Len(q))
<1>1. PICK h : IsRun(h, p, q) /\ Fold(p, q) = h[Len(q)]
  BY FoldRuns
<1>2. \A i \in 0..Len(q) : After(p, q, i) = h[i]
  BY <1>1, AfterIs
<1>3. 0 \in 0..Len(q) /\ Len(q) \in 0..Len(q) /\ \A i \in 1..Len(q) : i \in 0..Len(q) /\ i - 1 \in 0..Len(q)
  OBVIOUS
<1> QED BY <1>1, <1>2, <1>3 DEF IsRun

(* What is added at the end comes last and changes nothing before it. *)
LEMMA AfterAppend ==
  ASSUME NEW p, NEW M, NEW q \in Seq(M), NEW m \in M
  PROVE  /\ \A i \in 0..Len(q) : After(p, Append(q, m), i) = After(p, q, i)
         /\ Fold(p, Append(q, m)) = Op(Fold(p, q), m)
<1> DEFINE r == Append(q, m)
<1>1. r \in Seq(M) /\ Len(r) = Len(q) + 1 /\ r[Len(r)] = m /\ \A i \in 1..Len(q) : r[i] = q[i]
  OBVIOUS
<1> HIDE DEF r
<1>2. PICK h : IsRun(h, p, r) /\ Fold(p, r) = h[Len(r)]
  BY <1>1, FoldRuns
<1>3. IsRun(h, p, q) /\ h[Len(r)] = Op(h[Len(q)], m)
  BY <1>1, <1>2 DEF IsRun
<1>4. \A i \in 0..Len(q) : i \in 0..Len(r) /\ After(p, r, i) = h[i] /\ After(p, q, i) = h[i]
  BY <1>1, <1>2, <1>3, AfterIs
<1>5. Fold(p, q) = h[Len(q)]
  <2>1. Len(q) \in 0..Len(q)
    OBVIOUS
  <2> QED BY <1>4, <2>1, AfterRuns
<1> QED BY <1>2, <1>3, <1>4, <1>5 DEF r

(* What is taken from the front leaves the rest to go through. *)
LEMMA AfterTail ==
  ASSUME NEW p, NEW M, NEW q \in Seq(M), q # <<>>
  PROVE  /\ \A i \in 1..Len(q) : After(Op(p, Head(q)), Tail(q), i - 1) = After(p, q, i)
         /\ Fold(Op(p, Head(q)), Tail(q)) = Fold(p, q)
<1> DEFINE r == Tail(q)
           c == Op(p, Head(q))
<1>1. /\ r \in Seq(M) /\ Len(r) = Len(q) - 1 /\ Len(q) \in Nat \ {0} /\ Head(q) = q[1]
      /\ \A i \in 1..Len(r) : r[i] = q[i + 1]
  OBVIOUS
<1>2. PICK h : IsRun(h, p, q) /\ Fold(p, q) = h[Len(q)]
  BY FoldRuns
<1> DEFINE k == [i \in 0..Len(r) |-> h[i + 1]]
<1> HIDE DEF r
<1>3. IsRun(k, c, r)
  <2>1. k[0] = c
    BY <1>1, <1>2 DEF IsRun
  <2>2. ASSUME NEW i \in 1..Len(r)
        PROVE  k[i] = Op(k[i - 1], r[i])
    <3>1. i + 1 \in 1..Len(q) /\ i \in 0..Len(r) /\ i - 1 \in 0..Len(r) /\ (i - 1) + 1 = i /\ (i + 1) - 1 = i
      BY <1>1, SMT
    <3>2. h[i + 1] = Op(h[(i + 1) - 1], q[i + 1])
      BY <1>2, <3>1 DEF IsRun
    <3> QED BY <1>1, <3>1, <3>2
  <2> QED BY <2>1, <2>2 DEF IsRun
<1>4. ASSUME NEW i \in 1..Len(q)
      PROVE  After(c, r, i - 1) = h[i] /\ After(p, q, i) = h[i]
  <2>1. i - 1 \in 0..Len(r) /\ i \in 0..Len(q) /\ (i - 1) + 1 = i
    BY <1>1, SMT
  <2>2. After(c, r, i - 1) = k[i - 1]
    BY <1>1, <1>3, <2>1, AfterIs
  <2>3. After(p, q, i) = h[i]
    BY <1>2, <2>1, AfterIs
  <2> HIDE DEF c
  <2> QED BY <2>1, <2>2, <2>3
<1>5. Fold(c, r) = After(c, r, Len(r))
  BY <1>1, AfterRuns
<1>6. Len(q) \in 1..Len(q) /\ Len(r) = Len(q) - 1
  BY <1>1
<1>7. Fold(c, r) = h[Len(q)]
  BY <1>4, <1>5, <1>6
<1> HIDE DEF c
<1> QED BY <1>2, <1>4, <1>7 DEF r, c

(* The folds of nothing, and of one thing after another. *)
LEMMA FoldNone ==
  ASSUME NEW p
  PROVE  Fold(p, <<>>) = p
<1>1. <<>> \in Seq({}) /\ Len(<<>>) = 0
  OBVIOUS
<1> QED BY <1>1, AfterRuns

LEMMA FoldConcat ==
  ASSUME NEW p, NEW M, NEW q \in Seq(M), NEW r \in Seq(M)
  PROVE  Fold(p, q \o r) = Fold(Fold(p, q), r)
<1> DEFINE all == q \o r
           c == Fold(p, q)
<1>1. /\ all \in Seq(M) /\ Len(all) = Len(q) + Len(r)
      /\ \A i \in 1..Len(q) : all[i] = q[i]
      /\ \A i \in 1..Len(r) : all[Len(q) + i] = r[i]
      /\ Len(q) \in Nat /\ Len(r) \in Nat
  OBVIOUS
<1> HIDE DEF all
<1>2. PICK h : IsRun(h, p, all) /\ Fold(p, all) = h[Len(all)]
  BY <1>1, FoldRuns
<1>3. IsRun(h, p, q)
  BY <1>1, <1>2 DEF IsRun
<1>4. c = h[Len(q)]
  <2>1. Len(q) \in 0..Len(q)
    BY <1>1
  <2> QED BY <1>3, <2>1, AfterIs, AfterRuns
<1> DEFINE k == [i \in 0..Len(r) |-> h[Len(q) + i]]
<1> HIDE DEF c
<1>5. IsRun(k, c, r)
  <2>1. k[0] = c
    BY <1>1, <1>4
  <2>2. ASSUME NEW i \in 1..Len(r)
        PROVE  k[i] = Op(k[i - 1], r[i])
    <3>1. /\ Len(q) + i \in 1..Len(all) /\ i \in 0..Len(r) /\ i - 1 \in 0..Len(r)
          /\ (Len(q) + i) - 1 = Len(q) + (i - 1)
      BY <1>1, SMT
    <3>2. h[Len(q) + i] = Op(h[(Len(q) + i) - 1], all[Len(q) + i])
      BY <1>2, <3>1 DEF IsRun
    <3> QED BY <1>1, <3>1, <3>2
  <2> QED BY <2>1, <2>2 DEF IsRun
<1>6. Fold(c, r) = k[Len(r)]
  <2>1. Len(r) \in 0..Len(r)
    BY <1>1
  <2> HIDE DEF k
  <2> QED BY <1>5, <2>1, AfterIs, AfterRuns
<1>7. k[Len(r)] = h[Len(all)]
  BY <1>1
<1> QED BY <1>2, <1>6, <1>7 DEF all, c

(* What every element keeps is kept. *)
Closed(T, M) == \A x \in T, m \in M : Op(x, m) \in T

LEMMA FoldStays ==
  ASSUME NEW T, NEW M, Closed(T, M), NEW p \in T, NEW q \in Seq(M)
  PROVE  Fold(p, q) \in T
<1>0. /\ After(p, q, 0) = p
      /\ \A i \in 1..Len(q) : After(p, q, i) = Op(After(p, q, i - 1), q[i])
      /\ Fold(p, q) = After(p, q, Len(q))
  BY AfterRuns
<1> DEFINE S == {i \in Nat : i <= Len(q) => After(p, q, i) \in T}
<1>1. 0 \in S
  BY <1>0
<1>2. ASSUME NEW i \in Nat, i \in S
      PROVE  i + 1 \in S
  <2> SUFFICES ASSUME i + 1 <= Len(q) PROVE After(p, q, i + 1) \in T
    OBVIOUS
  <2>1. Len(q) \in Nat /\ i + 1 \in 1..Len(q) /\ (i + 1) - 1 = i
    OBVIOUS
  <2>2. After(p, q, i) \in T /\ q[i + 1] \in M
    BY <1>2, <2>1
  <2>4. After(p, q, i + 1) = Op(After(p, q, i), q[i + 1])
    BY <1>0, <2>1, Zenon
  <2>5. Op(After(p, q, i), q[i + 1]) \in T
    BY <2>2, Zenon DEF Closed
  <2> QED BY <2>4, <2>5, Zenon
<1> HIDE DEF S
<1>3. Len(q) \in S
  BY <1>1, <1>2, SetInduction
<1> QED BY <1>0, <1>3 DEF S

=============================================================================
