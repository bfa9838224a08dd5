----------------------------- MODULE DataLemmas -----------------------------
(***************************************************************************)
(* Facts about numbers and sequences that proofs about several components  *)
(* use.                                                                    *)
(***************************************************************************)
EXTENDS Integers, Sizes, SequencesExt, SequenceTheorems, WellFoundedInduction, TLAPS

(* A set of natural numbers has a least one. *)
LEMMA LeastNat ==
  ASSUME NEW S \in SUBSET Nat, S # {}
  PROVE  \E x \in S : \A y \in S : x <= y
<1>1. PICK x \in S : \A y \in S : <<y, x>> \notin OpToRel(<, Nat)
  BY WFMin, NatLessThanWellFounded
<1>2. ASSUME NEW y \in S
      PROVE  x <= y
  <2>1. x \in Nat /\ y \in Nat
    OBVIOUS
  <2>2. y < x => <<y, x>> \in OpToRel(<, Nat)
    BY <2>1 DEF OpToRel
  <2>3. ~(y < x)
    BY <1>1, <2>2, Zenon
  <2> QED
    BY <2>1, <2>3
<1> QED
  BY <1>2

(* Induction over the natural numbers, for a set: what holds of 0, and of   *)
(* n + 1 if it does of n, holds of all.                                     *)
LEMMA NatSetInduction ==
  ASSUME NEW S, 0 \in S, \A n \in Nat : n \in S => n + 1 \in S
  PROVE  Nat \subseteq S
<1> SUFFICES ASSUME Nat \ S # {}
             PROVE  FALSE
  OBVIOUS
<1>1. PICK x \in Nat \ S : \A y \in Nat \ S : x <= y
  <2>1. Nat \ S \in SUBSET Nat
    OBVIOUS
  <2> QED
    BY <2>1, LeastNat
<1>2. x # 0 /\ x \in Nat
  OBVIOUS
<1>3. x - 1 \in Nat /\ ~(x <= x - 1) /\ (x - 1) + 1 = x
  BY <1>2
<1>4. x - 1 \in S
  BY <1>1, <1>3
<1> QED
  BY <1>3, <1>4

----------------------------------------------------------------------------
(* What Total counts up: the sums of the first n sizes. *)
Sums(s, n, f) ==
  f \in [0..n -> Nat] /\ f[0] = 0 /\ \A k \in 1..n : f[k] = f[k - 1] + s[k]

(* There are such sums, as far as the sequence goes ... *)
LEMMA SumsExist ==
  ASSUME NEW s \in Seq(Nat)
  PROVE  \E f : Sums(s, Len(s), f)
<1> DEFINE S == {n \in Nat : n <= Len(s) => \E f : Sums(s, n, f)}
<1>1. 0 \in S
  <2>1. Sums(s, 0, [k \in 0..0 |-> 0])
    BY DEF Sums
  <2> QED
    BY <2>1
<1>2. ASSUME NEW n \in Nat, n \in S
      PROVE  n + 1 \in S
  <2> SUFFICES ASSUME n + 1 <= Len(s)
               PROVE  \E f : Sums(s, n + 1, f)
    BY DEF S
  <2>1. PICK f : Sums(s, n, f)
    BY <1>2
  <2> DEFINE g == [k \in 0..(n + 1) |-> IF k = n + 1 THEN f[n] + s[n + 1] ELSE f[k]]
  <2>2. f[n] \in Nat /\ s[n + 1] \in Nat
    BY <2>1 DEF Sums
  <2>3. \A k \in 0..n : f[k] \in Nat
    BY <2>1 DEF Sums
  <2>4. g \in [0..(n + 1) -> Nat] /\ g[0] = 0
    BY <2>1, <2>2, <2>3 DEF Sums
  <2>5. ASSUME NEW k \in 1..(n + 1)
        PROVE  g[k] = g[k - 1] + s[k]
    <3>1. CASE k = n + 1
      <4>1. g[k] = f[n] + s[n + 1] /\ g[k - 1] = f[n]
        BY <3>1
      <4> QED
        BY <3>1, <4>1
    <3>2. CASE k # n + 1
      <4>1. k \in 1..n /\ k - 1 \in 0..n
        BY <3>2
      <4>2. g[k] = f[k] /\ g[k - 1] = f[k - 1]
        BY <4>1
      <4> QED
        BY <2>1, <4>1, <4>2 DEF Sums
    <3> QED
      BY <3>1, <3>2
  <2> HIDE DEF g
  <2> QED
    BY <2>4, <2>5 DEF Sums
<1> HIDE DEF S
<1>3. Nat \subseteq S
  BY <1>1, <1>2, NatSetInduction
<1> QED
  BY <1>3 DEF S

(* ... and whatever function is defined by the same recursion is them.      *)
LEMMA SumsUnique ==
  ASSUME NEW s, NEW n \in Nat, NEW f, Sums(s, n, f),
         NEW g, g = [k \in 0..n |-> IF k = 0 THEN 0 ELSE g[k - 1] + s[k]]
  PROVE  g = f
<1> DEFINE S == {k \in Nat : k <= n => g[k] = f[k]}
<1>1. \A k \in 0..n : g[k] = IF k = 0 THEN 0 ELSE g[k - 1] + s[k]
  OBVIOUS
<1>2. 0 \in S
  BY <1>1 DEF Sums
<1>3. ASSUME NEW k \in Nat, k \in S
      PROVE  k + 1 \in S
  <2> SUFFICES ASSUME k + 1 <= n
               PROVE  g[k + 1] = f[k + 1]
    OBVIOUS
  <2>1. g[k] = f[k]
    BY <1>3
  <2>2. k + 1 \in 1..n /\ k + 1 \in 0..n /\ k + 1 # 0 /\ (k + 1) - 1 = k
    OBVIOUS
  <2>3. g[k + 1] = g[k] + s[k + 1]
    BY <1>1, <2>2
  <2>4. f[k + 1] = f[k] + s[k + 1]
    BY <2>2 DEF Sums
  <2> QED
    BY <2>1, <2>3, <2>4
<1> HIDE DEF S
<1>4. Nat \subseteq S
  BY <1>2, <1>3, NatSetInduction
<1>5. ASSUME NEW k \in 0..n
      PROVE  g[k] = f[k]
  <2>1. k \in Nat /\ k <= n
    OBVIOUS
  <2>2. k \in S
    BY <1>4, <2>1
  <2> QED
    BY <2>1, <2>2 DEF S
<1>6. DOMAIN f = 0..n /\ f = [k \in 0..n |-> f[k]]
  BY DEF Sums
<1>7. g = [k \in 0..n |-> g[k]]
  OBVIOUS
<1> QED
  BY <1>5, <1>6, <1>7

(* Total is the last of the sums. *)
LEMMA TotalIsSum ==
  ASSUME NEW s \in Seq(Nat), NEW f, Sums(s, Len(s), f)
  PROVE  Total(s) = f[Len(s)]
<1> DEFINE upTo[n \in 0..Len(s)] == IF n = 0 THEN 0 ELSE upTo[n - 1] + s[n]
<1>1. f = [n \in 0..Len(s) |-> IF n = 0 THEN 0 ELSE f[n - 1] + s[n]]
  BY DEF Sums
<1>2. upTo = [n \in 0..Len(s) |-> IF n = 0 THEN 0 ELSE upTo[n - 1] + s[n]]
  BY <1>1
<1>3. Total(s) = upTo[Len(s)]
  BY DEF Total
<1> HIDE DEF upTo
<1>4. upTo = f
  <2>1. Len(s) \in Nat
    OBVIOUS
  <2>2. \A g : g = [k \in 0..Len(s) |-> IF k = 0 THEN 0 ELSE g[k - 1] + s[k]] => g = f
    BY <2>1, SumsUnique
  <2> QED
    BY <1>2, <2>2, Zenon
<1> QED
  BY <1>3, <1>4

(* A total is a natural number, that of nothing is 0. *)
LEMMA TotalNat ==
  ASSUME NEW s \in Seq(Nat)
  PROVE  Total(s) \in Nat /\ (s = <<>> => Total(s) = 0)
<1>1. PICK f : Sums(s, Len(s), f)
  BY SumsExist
<1>2. Len(s) \in Nat /\ Len(s) \in 0..Len(s) /\ (s = <<>> => Len(s) = 0)
  OBVIOUS
<1>3. Total(s) = f[Len(s)]
  BY <1>1, TotalIsSum
<1> QED
  BY <1>1, <1>2, <1>3 DEF Sums

(* One more piece adds its size. *)
LEMMA TotalAppend ==
  ASSUME NEW s \in Seq(Nat), NEW x \in Nat
  PROVE  Total(Append(s, x)) = Total(s) + x
<1> DEFINE t == Append(s, x)
<1>1. PICK f : Sums(t, Len(t), f)
  <2>1. t \in Seq(Nat)
    OBVIOUS
  <2> QED
    BY <2>1, SumsExist
<1>2. /\ t \in Seq(Nat) /\ Len(s) \in Nat /\ Len(t) = Len(s) + 1
      /\ t[Len(s) + 1] = x /\ \A k \in 1..Len(s) : t[k] = s[k]
  OBVIOUS
<1> HIDE DEF t
<1> DEFINE g == [k \in 0..Len(s) |-> f[k]]
<1>3. Sums(s, Len(s), g)
  <2>1. ASSUME NEW k \in 0..Len(s)
        PROVE  k \in 0..Len(t) /\ g[k] = f[k] /\ f[k] \in Nat
    <3>1. k \in 0..Len(t)
      BY <1>2
    <3> QED
      BY <1>1, <3>1 DEF Sums
  <2>2. g \in [0..Len(s) -> Nat] /\ g[0] = 0
    BY <1>1, <1>2, <2>1 DEF Sums
  <2>3. ASSUME NEW k \in 1..Len(s)
        PROVE  g[k] = g[k - 1] + s[k]
    <3>1. k \in 1..Len(t) /\ k \in 0..Len(s) /\ k - 1 \in 0..Len(s)
      BY <1>2
    <3>2. f[k] = f[k - 1] + t[k]
      BY <1>1, <3>1 DEF Sums
    <3> QED
      BY <1>2, <2>1, <3>1, <3>2
  <2> HIDE DEF g
  <2> QED
    BY <2>2, <2>3 DEF Sums
<1>4. Total(s) = f[Len(s)]
  <2>1. Total(s) = g[Len(s)]
    BY <1>3, TotalIsSum
  <2> QED
    BY <1>2, <2>1
<1>5. Total(t) = f[Len(s) + 1]
  BY <1>1, <1>2, TotalIsSum
<1>6. f[Len(s) + 1] = f[Len(s)] + x
  <2>1. Len(s) + 1 \in 1..Len(t) /\ (Len(s) + 1) - 1 = Len(s)
    BY <1>2
  <2> QED
    BY <1>1, <1>2, <2>1 DEF Sums
<1> QED
  BY <1>4, <1>5, <1>6 DEF t

(* A part from the beginning is no larger than the whole. *)
LEMMA TotalOfPrefix ==
  ASSUME NEW s \in Seq(Nat), NEW n \in 0..Len(s)
  PROVE  Total(SubSeq(s, 1, n)) <= Total(s)
<1> DEFINE t == SubSeq(s, 1, n)
<1>1. /\ Len(s) \in Nat /\ n \in Nat /\ t \in Seq(Nat) /\ Len(t) = n
      /\ \A k \in 1..n : t[k] = s[k]
  OBVIOUS
<1> HIDE DEF t
<1>2. PICK f : Sums(s, Len(s), f)
  BY SumsExist
<1>3. \A k \in 0..Len(s) : f[k] \in Nat
  BY <1>2 DEF Sums
<1> DEFINE g == [k \in 0..n |-> f[k]]
<1>4. Sums(t, n, g)
  <2>1. \A k \in 0..n : k \in 0..Len(s)
    BY <1>1
  <2>2. g \in [0..n -> Nat] /\ g[0] = 0
    BY <1>2, <1>3, <2>1 DEF Sums
  <2>3. ASSUME NEW k \in 1..n
        PROVE  g[k] = g[k - 1] + t[k]
    <3>1. k \in 1..Len(s) /\ k \in 0..n /\ k - 1 \in 0..n
      BY <1>1
    <3>2. f[k] = f[k - 1] + s[k]
      BY <1>2, <3>1 DEF Sums
    <3> QED
      BY <1>1, <3>1, <3>2
  <2> HIDE DEF g
  <2> QED
    BY <2>2, <2>3 DEF Sums
<1>5. Total(t) = f[n]
  <2>1. Total(t) = g[n]
    BY <1>1, <1>4, TotalIsSum
  <2> QED
    BY <1>1, <2>1
<1>6. f[n] <= f[Len(s)]
  <2> DEFINE S == {k \in Nat : n + k <= Len(s) => f[n] <= f[n + k]}
  <2>1. 0 \in S
    BY <1>1, <1>3
  <2>2. ASSUME NEW k \in Nat, k \in S
        PROVE  k + 1 \in S
    <3> SUFFICES ASSUME n + (k + 1) <= Len(s)
                 PROVE  f[n] <= f[n + (k + 1)]
      OBVIOUS
    <3>1. /\ n + (k + 1) \in 1..Len(s) /\ n + k \in 0..Len(s) /\ n + (k + 1) \in 0..Len(s)
          /\ (n + (k + 1)) - 1 = n + k
      BY <1>1
    <3>2. f[n + (k + 1)] = f[n + k] + s[n + (k + 1)]
      BY <1>2, <3>1 DEF Sums
    <3>3. s[n + (k + 1)] \in Nat
      BY <3>1
    <3>4. f[n] <= f[n + k]
      BY <1>1, <2>2, <3>1
    <3> QED
      BY <1>3, <3>1, <3>2, <3>3, <3>4
  <2> HIDE DEF S
  <2>3. Nat \subseteq S
    BY <2>1, <2>2, NatSetInduction
  <2>4. Len(s) - n \in Nat /\ n + (Len(s) - n) = Len(s)
    BY <1>1
  <2>5. Len(s) - n \in S
    BY <2>3, <2>4
  <2> QED
    BY <1>1, <2>4, <2>5 DEF S
<1>7. Total(s) = f[Len(s)]
  BY <1>2, TotalIsSum
<1> QED
  BY <1>5, <1>6, <1>7 DEF t

(* A sequence without its i-th element. *)
LEMMA RemoveAtElements ==
  ASSUME NEW S, NEW q \in Seq(S), NEW i \in 1..Len(q)
  PROVE  /\ RemoveAt(q, i) \in Seq(S)
         /\ Len(RemoveAt(q, i)) = Len(q) - 1
         /\ \A j \in 1..(Len(q) - 1) :
              RemoveAt(q, i)[j] = IF j < i THEN q[j] ELSE q[j + 1]
<1> DEFINE before == SubSeq(q, 1, i - 1)
           after  == SubSeq(q, i + 1, Len(q))
<1>1. RemoveAt(q, i) = before \o after
  BY DEF RemoveAt
<1>2. /\ Len(q) \in Nat
      /\ before \in Seq(S) /\ Len(before) = i - 1
      /\ \A j \in 1..(i - 1) : before[j] = q[j]
      /\ after \in Seq(S) /\ Len(after) = Len(q) - i
      /\ \A j \in 1..(Len(q) - i) : after[j] = q[i + j]
  OBVIOUS
<1> HIDE DEF before, after
<1>3. /\ before \o after \in Seq(S)
      /\ Len(before \o after) = Len(before) + Len(after)
      /\ \A j \in 1..(Len(before) + Len(after)) :
           (before \o after)[j] = IF j <= Len(before) THEN before[j]
                                  ELSE after[j - Len(before)]
  BY <1>2, ConcatProperties
<1>4. ASSUME NEW j \in 1..(Len(q) - 1)
      PROVE  (before \o after)[j] = IF j < i THEN q[j] ELSE q[j + 1]
  <2>1. CASE j < i
    BY <1>2, <1>3, <2>1
  <2>2. CASE ~(j < i)
    <3>1. j - (i - 1) \in 1..(Len(q) - i) /\ i + (j - (i - 1)) = j + 1
      BY <1>2, <2>2
    <3>2. j \in 1..(Len(before) + Len(after)) /\ ~(j <= Len(before))
      BY <1>2, <2>2
    <3>3. (before \o after)[j] = after[j - Len(before)]
      BY <1>3, <3>2
    <3>4. (before \o after)[j] = after[j - (i - 1)]
      BY <1>2, <3>3
    <3> QED
      BY <1>2, <2>2, <3>1, <3>4
  <2> QED
    BY <2>1, <2>2
<1> QED
  BY <1>1, <1>2, <1>3, <1>4
----------------------------------------------------------------------------
(* A line: who is in it, and who is before whom.                            *)
IsIn(q, c) == \E i \in DOMAIN q : q[i] = c

PrecedesIn(q, c, d) == \E i, j \in DOMAIN q : i < j /\ q[i] = c /\ q[j] = d

(* When one joins its end, its head is taken, or one leaves it, those who   *)
(* stay in a line keep their order.                                         *)
LEMMA LineKeepsOrder ==
  ASSUME NEW S, NEW q \in Seq(S), NEW r,
         \A i, j \in 1..Len(q) : q[i] = q[j] => i = j,
         \/ r = q
         \/ \E e \in S : r = Append(q, e)
         \/ q # <<>> /\ r = Tail(q)
         \/ \E k \in 1..Len(q) : r = RemoveAt(q, k),
         NEW c, NEW d, PrecedesIn(q, c, d), IsIn(r, c), IsIn(r, d)
  PROVE  PrecedesIn(r, c, d)
<1>1. DOMAIN q = 1..Len(q) /\ Len(q) \in Nat
  OBVIOUS
<1>2. PICK p, s \in 1..Len(q) : p < s /\ q[p] = c /\ q[s] = d
  BY <1>1 DEF PrecedesIn
<1>3. ASSUME NEW e \in S, r = Append(q, e)
      PROVE  PrecedesIn(r, c, d)
  <2>1. DOMAIN r = 1..(Len(q) + 1) /\ \A i \in 1..Len(q) : r[i] = q[i]
    BY <1>3, AppendProperties
  <2>2. p \in DOMAIN r /\ s \in DOMAIN r
    <3>1. \A i \in 1..Len(q) : i \in 1..(Len(q) + 1)
      BY <1>1
    <3> QED
      BY <1>2, <2>1, <3>1, Zenon
  <2>3. r[p] = c /\ r[s] = d
    BY <1>2, <2>1
  <2> QED
    BY <1>2, <2>2, <2>3 DEF PrecedesIn
<1>4. ASSUME NEW k \in 1..Len(q), r \in Seq(S), Len(r) = Len(q) - 1,
             \A i \in 1..(Len(q) - 1) : r[i] = IF i < k THEN q[i] ELSE q[i + 1]
      PROVE  PrecedesIn(r, c, d)
  <2>1. DOMAIN r = 1..(Len(q) - 1)
    BY <1>1, <1>4
  <2>2. ASSUME NEW x, NEW u \in 1..Len(q), q[u] = x, IsIn(r, x)
        PROVE  u # k
    <3>1. PICK i \in 1..(Len(q) - 1) : r[i] = x
      BY <2>1, <2>2 DEF IsIn
    <3>2. CASE i < k
      <4>1. i \in 1..Len(q) /\ q[i] = q[u]
        BY <1>1, <1>4, <2>2, <3>1, <3>2
      <4> QED
        BY <3>2, <4>1
    <3>3. CASE ~(i < k)
      <4>1. i + 1 \in 1..Len(q) /\ q[i + 1] = q[u]
        BY <1>1, <1>4, <2>2, <3>1, <3>3
      <4>2. i + 1 = u
        BY <4>1
      <4> QED
        BY <1>1, <3>3, <4>2
    <3> QED
      BY <3>2, <3>3
  <2>3. p # k /\ s # k
    BY <1>2, <2>2
  <2> DEFINE Now(u) == IF u < k THEN u ELSE u - 1
  <2>4. /\ Now(p) \in 1..(Len(q) - 1) /\ r[Now(p)] = c
        /\ Now(s) \in 1..(Len(q) - 1) /\ r[Now(s)] = d
    BY <1>1, <1>2, <1>4, <2>3
  <2>5. Now(p) < Now(s)
    BY <1>1, <1>2, <2>3
  <2> HIDE DEF Now
  <2> QED
    BY <2>1, <2>4, <2>5 DEF PrecedesIn
<1>5. CASE q # <<>> /\ r = Tail(q)
  <2>1. /\ 1 \in 1..Len(q) /\ Tail(q) \in Seq(S) /\ Len(Tail(q)) = Len(q) - 1
        /\ \A i \in 1..(Len(q) - 1) : Tail(q)[i] = q[i + 1]
    BY <1>2, <1>5, HeadTailProperties
  <2>2. \A i \in 1..(Len(q) - 1) : Tail(q)[i] = IF i < 1 THEN q[i] ELSE q[i + 1]
    BY <1>1, <2>1
  <2> QED
    BY <1>4, <1>5, <2>1, <2>2
<1>6. ASSUME NEW k \in 1..Len(q), r = RemoveAt(q, k)
      PROVE  PrecedesIn(r, c, d)
  <2> DEFINE rest == RemoveAt(q, k)
  <2>1. /\ rest \in Seq(S) /\ Len(rest) = Len(q) - 1
        /\ \A i \in 1..(Len(q) - 1) : rest[i] = IF i < k THEN q[i] ELSE q[i + 1]
    BY <1>6, RemoveAtElements
  <2>2. r = rest
    BY <1>6
  <2> HIDE DEF rest
  <2> QED
    BY <1>4, <1>6, <2>1, <2>2
<1> QED
  BY <1>3, <1>5, <1>6
=============================================================================
