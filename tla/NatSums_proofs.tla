--------------------------- MODULE NatSums_proofs ---------------------------
(***************************************************************************)
(* What SumTo computes, for every length.  The library's induction         *)
(* theorems are schemas over an operator; the induction used here is over  *)
(* a set (SetInduction), obtained from the well-foundedness of < on Nat.   *)
(***************************************************************************)
EXTENDS NatSums, WellFoundedInduction, TLAPS

(* Every non-empty set of naturals has a least element. *)
LEMMA LeastNat ==
  ASSUME NEW T \in SUBSET Nat, T # {}
  PROVE  \E x \in T : \A y \in T : x <= y
<1> DEFINE Lt == {ss \in Nat \X Nat : ss[1] < ss[2]}
<1>1. IsWellFoundedOn(Lt, Nat)
  BY NatLessThanWellFounded, Zenon DEF OpToRel
<1>2. PICK x \in T : \A y \in T : ~ (<<y, x>> \in Lt)
  <2> HIDE DEF Lt
  <2> QED
    BY <1>1, WFMin, Zenon
<1>3. ASSUME NEW y \in T PROVE x <= y
  <2>1. <<y, x>> \in Nat \X Nat
    OBVIOUS
  <2>2. <<y, x>>[1] = y /\ <<y, x>>[2] = x
    OBVIOUS
  <2>3. ~ (y < x)
    BY <1>2, <2>1, <2>2
  <2>4. QED
    BY <2>3
<1>4. QED
  BY <1>3

(* A set with 0 and the successor of each of its naturals has all of Nat. *)
LEMMA SetInduction ==
  ASSUME NEW S, 0 \in S, \A n \in Nat : n \in S => n + 1 \in S
  PROVE  Nat \subseteq S
<1> DEFINE T == Nat \ S
<1>1. ASSUME T # {} PROVE FALSE
  <2>1. PICK x \in T : \A y \in T : x <= y
    BY <1>1, LeastNat
  <2>2. x # 0
    BY <2>1
  <2>3. x - 1 \in Nat /\ x - 1 \notin T
    BY <2>1, <2>2
  <2>4. QED
    BY <2>3, <2>1
<1>2. QED
  BY <1>1

(* g lists the partial sums of f up to n. *)
IsPartial(f, n, g) ==
  g = [k \in 0..n |-> IF k = 0 THEN 0 ELSE g[k - 1] + f[k]]

(* The recursive function SumTo is defined by exists, and is integer-valued.*)
LEMMA PartialExists ==
  ASSUME NEW N \in Nat, NEW f \in [1..N -> Int]
  PROVE  \E g \in [0..N -> Int] : IsPartial(f, N, g)
<1> DEFINE S == {n \in Nat : n <= N => \E g \in [0..n -> Int] : IsPartial(f, n, g)}
<1>1. 0 \in S
  <2> DEFINE z == [k \in 0..0 |-> 0]
  <2>1. z \in [0..0 -> Int] /\ IsPartial(f, 0, z)
    BY DEF IsPartial
  <2>2. QED
    BY <2>1
<1>2. ASSUME NEW n \in Nat, n \in S PROVE n + 1 \in S
  <2>1. ASSUME n + 1 <= N
        PROVE  \E g \in [0..(n+1) -> Int] : IsPartial(f, n + 1, g)
    <3>1. PICK g \in [0..n -> Int] : IsPartial(f, n, g)
      BY <1>2, <2>1
    <3> DEFINE h == [k \in 0..(n+1) |-> IF k = n + 1 THEN g[n] + f[n + 1] ELSE g[k]]
    <3>2. h \in [0..(n+1) -> Int]
      BY <2>1
    <3>3. \A k \in 0..(n+1) : h[k] = IF k = 0 THEN 0 ELSE h[k - 1] + f[k]
      BY <3>1, <2>1 DEF IsPartial
    <3>4. IsPartial(f, n + 1, h)
      BY <3>2, <3>3 DEF IsPartial
    <3>5. QED
      BY <3>2, <3>4
  <2>2. QED
    BY <2>1
<1>3. Nat \subseteq S
  BY <1>1, <1>2, SetInduction
<1>4. QED
  BY <1>3

(* Partial sums are unique. *)
LEMMA PartialUnique ==
  ASSUME NEW N \in Nat, NEW f, NEW g, NEW h,
         IsPartial(f, N, g), IsPartial(f, N, h)
  PROVE  g = h
<1> DEFINE S == {n \in Nat : n <= N => g[n] = h[n]}
<1>1. 0 \in S
  BY DEF IsPartial
<1>2. ASSUME NEW n \in Nat, n \in S PROVE n + 1 \in S
  BY <1>2 DEF IsPartial
<1>3. Nat \subseteq S
  BY <1>1, <1>2, SetInduction
<1>4. \A n \in 0..N : g[n] = h[n]
  BY <1>3
<1>5. QED
  BY <1>4 DEF IsPartial

(* The recursion, step by step. *)
LEMMA PartialStep ==
  ASSUME NEW N \in Nat, NEW f, NEW g, IsPartial(f, N, g)
  PROVE  /\ g[0] = 0
         /\ \A n \in Nat : n + 1 <= N => g[n + 1] = g[n] + f[n + 1]
<1>1. \A k \in 0..N : g[k] = IF k = 0 THEN 0 ELSE g[k - 1] + f[k]
  BY DEF IsPartial
<1>2. ASSUME NEW n \in Nat, n + 1 <= N PROVE g[n + 1] = g[n] + f[n + 1]
  <2>1. n + 1 \in 0..N /\ n + 1 # 0 /\ (n + 1) - 1 = n
    BY <1>2
  <2>2. QED
    BY <1>1, <2>1
<1>3. QED
  BY <1>1, <1>2

(* SumTo(f, N) is the last of the partial sums of f. *)
LEMMA SumToSteps ==
  ASSUME NEW N \in Nat, NEW f \in [1..N -> Int]
  PROVE  \E g \in [0..N -> Int] :
            /\ g[0] = 0
            /\ \A n \in Nat : n + 1 <= N => g[n + 1] = g[n] + f[n + 1]
            /\ SumTo(f, N) = g[N]
<1> DEFINE c == CHOOSE g : IsPartial(f, N, g)
<1>1. PICK g \in [0..N -> Int] : IsPartial(f, N, g)
  BY PartialExists
<1>2. IsPartial(f, N, c)
  BY <1>1
<1>3. c = g
  BY <1>1, <1>2, PartialUnique
<1>4. SumTo(f, N) = c[N]
  BY DEF SumTo, IsPartial
<1>5. /\ g[0] = 0
      /\ \A n \in Nat : n + 1 <= N => g[n + 1] = g[n] + f[n + 1]
  BY <1>1, PartialStep, ZenonT(40)
<1>6. QED
  BY <1>1, <1>3, <1>4, <1>5

(* A sum of integers is an integer. *)
LEMMA SumToType ==
  ASSUME NEW N \in Nat, NEW f \in [1..N -> Int]
  PROVE  SumTo(f, N) \in Int
BY SumToSteps

(* A sum of zeroes is zero. *)
LEMMA SumToZero ==
  ASSUME NEW N \in Nat, NEW f \in [1..N -> Int], \A k \in 1..N : f[k] = 0
  PROVE  SumTo(f, N) = 0
<1>1. PICK g \in [0..N -> Int] :
         /\ g[0] = 0
         /\ \A n \in Nat : n + 1 <= N => g[n + 1] = g[n] + f[n + 1]
         /\ SumTo(f, N) = g[N]
  BY SumToSteps
<1> DEFINE S == {n \in Nat : n <= N => g[n] = 0}
<1>2. 0 \in S
  BY <1>1
<1>3. ASSUME NEW n \in Nat, n \in S PROVE n + 1 \in S
  <2>1. ASSUME n + 1 <= N PROVE g[n + 1] = 0
    <3>1. g[n + 1] = g[n] + f[n + 1]
      BY <1>1, <2>1
    <3>2. g[n] = 0 /\ f[n + 1] = 0
      BY <1>3, <2>1
    <3>3. QED
      BY <3>1, <3>2
  <2>2. QED
    BY <2>1
<1>4. Nat \subseteq S
  BY <1>2, <1>3, SetInduction
<1>5. QED
  BY <1>1, <1>4

(* Changing one term changes the sum by as much. *)
LEMMA SumToUpdate ==
  ASSUME NEW N \in Nat, NEW k \in 1..N,
         NEW f \in [1..N -> Int], NEW h \in [1..N -> Int],
         \A j \in 1..N : j # k => h[j] = f[j]
  PROVE  SumTo(h, N) = SumTo(f, N) + h[k] - f[k]
<1>1. PICK pf \in [0..N -> Int] :
         /\ pf[0] = 0
         /\ \A n \in Nat : n + 1 <= N => pf[n + 1] = pf[n] + f[n + 1]
         /\ SumTo(f, N) = pf[N]
  BY SumToSteps
<1>2. PICK ph \in [0..N -> Int] :
         /\ ph[0] = 0
         /\ \A n \in Nat : n + 1 <= N => ph[n + 1] = ph[n] + h[n + 1]
         /\ SumTo(h, N) = ph[N]
  BY SumToSteps
<1> DEFINE S == {n \in Nat : n <= N =>
                   /\ n < k => ph[n] = pf[n]
                   /\ n >= k => ph[n] = pf[n] + h[k] - f[k]}
<1>3. 0 \in S
  BY <1>1, <1>2
<1>4. ASSUME NEW n \in Nat, n \in S PROVE n + 1 \in S
  <2>1. ASSUME n + 1 <= N
        PROVE  /\ n + 1 < k => ph[n + 1] = pf[n + 1]
               /\ n + 1 >= k => ph[n + 1] = pf[n + 1] + h[k] - f[k]
    <3>1. /\ ph[n + 1] = ph[n] + h[n + 1]
          /\ pf[n + 1] = pf[n] + f[n + 1]
      BY <1>1, <1>2, <2>1
    <3>2. /\ n < k => ph[n] = pf[n]
          /\ n >= k => ph[n] = pf[n] + h[k] - f[k]
      BY <1>4, <2>1
    <3>3. /\ pf[n] \in Int /\ ph[n] \in Int /\ f[n + 1] \in Int /\ h[n + 1] \in Int
          /\ h[k] \in Int /\ f[k] \in Int
      BY <2>1
    <3>4. CASE n + 1 < k
      <4>1. h[n + 1] = f[n + 1]
        BY <3>4, <2>1
      <4>2. QED
        BY <3>1, <3>2, <3>3, <3>4, <4>1
    <3>5. CASE n + 1 = k
      <4>1. h[n + 1] = h[k] /\ f[n + 1] = f[k]
        BY <3>5, Zenon
      <4>2. ph[n] = pf[n]
        BY <3>2, <3>5
      <4>3. QED
        BY <3>1, <3>3, <3>5, <4>1, <4>2, SMTT(40)
    <3>6. CASE n + 1 > k
      <4>1. n >= k /\ n + 1 \in 1..N /\ n + 1 # k
        BY <3>6, <2>1
      <4>2. h[n + 1] = f[n + 1]
        BY <4>1
      <4>3. ph[n] = pf[n] + h[k] - f[k]
        BY <3>2, <4>1
      <4>4. ph[n + 1] = pf[n + 1] + h[k] - f[k]
        <5> HIDE DEF S
        <5> QED BY <3>1, <3>3, <4>2, <4>3, SMTT(40)
      <4>5. ~(n + 1 < k)
        BY <3>6
      <4>6. QED
        BY <4>4, <4>5
    <3>7. QED
      BY <3>4, <3>5, <3>6
  <2>2. QED
    BY <2>1
<1>5. Nat \subseteq S
  BY <1>3, <1>4, SetInduction
<1>6. N \in S
  BY <1>5
<1>7. QED
  BY <1>1, <1>2, <1>6

(* A sum of naturals is a natural no smaller than any of its terms. *)
LEMMA SumToNat ==
  ASSUME NEW N \in Nat, NEW f \in [1..N -> Nat]
  PROVE  /\ SumTo(f, N) \in Nat
         /\ \A k \in 1..N : f[k] <= SumTo(f, N)
<1>1. PICK g \in [0..N -> Int] :
         /\ g[0] = 0
         /\ \A n \in Nat : n + 1 <= N => g[n + 1] = g[n] + f[n + 1]
         /\ SumTo(f, N) = g[N]
  BY SumToSteps, SMTT(40)
<1> DEFINE S == {n \in Nat : n <= N => g[n] \in Nat /\ \A k \in 1..n : f[k] <= g[n]}
<1>2. 0 \in S
  BY <1>1
<1>3. ASSUME NEW n \in Nat, n \in S PROVE n + 1 \in S
  <2>1. ASSUME n + 1 <= N
        PROVE  g[n + 1] \in Nat /\ \A k \in 1..(n + 1) : f[k] <= g[n + 1]
    <3>1. g[n + 1] = g[n] + f[n + 1]
      BY <1>1, <2>1
    <3>2. g[n] \in Nat /\ \A k \in 1..n : f[k] <= g[n]
      BY <1>3, <2>1
    <3>3. \A k \in 1..(n + 1) : f[k] \in Nat
      BY <2>1
    <3>4. QED
      BY <3>1, <3>2, <3>3, SMTT(40)
  <2>2. QED
    BY <2>1
<1>4. Nat \subseteq S
  BY <1>2, <1>3, SetInduction
<1>5. QED
  BY <1>1, <1>4

(* A sum of one term is that term. *)
LEMMA SumToOne ==
  ASSUME NEW f \in [1..1 -> Int]
  PROVE  SumTo(f, 1) = f[1]
<1>1. PICK g \in [0..1 -> Int] :
         /\ g[0] = 0
         /\ \A n \in Nat : n + 1 <= 1 => g[n + 1] = g[n] + f[n + 1]
         /\ SumTo(f, 1) = g[1]
  BY SumToSteps
<1>2. g[0 + 1] = g[0] + f[0 + 1]
  BY <1>1
<1>3. QED
  BY <1>1, <1>2

(* Terms that are at most a[k] + b[k] + c add up to at most the sum of the *)
(* a[k], that of the b[k], and N times c.                                  *)
LEMMA SumToBound ==
  ASSUME NEW N \in Nat, NEW c \in Nat, NEW f \in [1..N -> Int],
         NEW a \in [1..N -> Int], NEW b \in [1..N -> Int],
         \A k \in 1..N : f[k] <= a[k] + b[k] + c
  PROVE  SumTo(f, N) <= SumTo(a, N) + SumTo(b, N) + N * c
<1>1. PICK pf \in [0..N -> Int] :
         /\ pf[0] = 0
         /\ \A n \in Nat : n + 1 <= N => pf[n + 1] = pf[n] + f[n + 1]
         /\ SumTo(f, N) = pf[N]
  BY SumToSteps
<1>2. PICK pa \in [0..N -> Int] :
         /\ pa[0] = 0
         /\ \A n \in Nat : n + 1 <= N => pa[n + 1] = pa[n] + a[n + 1]
         /\ SumTo(a, N) = pa[N]
  BY SumToSteps
<1>3. PICK pb \in [0..N -> Int] :
         /\ pb[0] = 0
         /\ \A n \in Nat : n + 1 <= N => pb[n + 1] = pb[n] + b[n + 1]
         /\ SumTo(b, N) = pb[N]
  BY SumToSteps
<1> DEFINE S == {n \in Nat : n <= N => pf[n] <= pa[n] + pb[n] + n * c}
<1>4. 0 \in S
  BY <1>1, <1>2, <1>3
<1>5. ASSUME NEW n \in Nat, n \in S PROVE n + 1 \in S
  <2>1. ASSUME n + 1 <= N PROVE pf[n + 1] <= pa[n + 1] + pb[n + 1] + (n + 1) * c
    <3>1. /\ pf[n + 1] = pf[n] + f[n + 1]
          /\ pa[n + 1] = pa[n] + a[n + 1]
          /\ pb[n + 1] = pb[n] + b[n + 1]
      BY <1>1, <1>2, <1>3, <2>1
    <3>2. pf[n] <= pa[n] + pb[n] + n * c
      BY <1>5, <2>1
    <3>3. f[n + 1] <= a[n + 1] + b[n + 1] + c
      BY <2>1
    <3>4. /\ f[n + 1] \in Int /\ a[n + 1] \in Int /\ b[n + 1] \in Int
          /\ pf[n] \in Int /\ pa[n] \in Int /\ pb[n] \in Int
      BY <2>1
    <3> DEFINE m == n * c
               mm == (n + 1) * c
    <3>5. mm = m + c /\ m \in Int
      BY SMT
    <3>6. pf[n] <= pa[n] + pb[n] + m
      BY <3>2
    <3>7. pf[n + 1] <= pa[n + 1] + pb[n + 1] + mm
      <4> HIDE DEF m, mm
      <4>1. \A f0, f1, a0, a1, b0, b1, x \in Int :
              f0 <= a0 + b0 + x /\ f1 <= a1 + b1 + c
                => f0 + f1 <= (a0 + a1) + (b0 + b1) + (x + c)
        OBVIOUS
      <4>2. pf[n] + f[n + 1] <= (pa[n] + a[n + 1]) + (pb[n] + b[n + 1]) + (m + c)
        BY <3>3, <3>4, <3>5, <3>6, <4>1
      <4>3. QED
        BY <3>1, <3>5, <4>2
    <3>8. QED
      BY <3>7
  <2>2. QED
    BY <2>1
<1>6. Nat \subseteq S
  BY <1>4, <1>5, SetInduction
<1>7. QED
  BY <1>1, <1>2, <1>3, <1>6

(* Adding a last term adds it to the sum. *)
LEMMA SumToLast ==
  ASSUME NEW N \in Nat, NEW f \in [1..N -> Int], NEW h \in [1..(N + 1) -> Int],
         \A k \in 1..N : h[k] = f[k]
  PROVE  SumTo(h, N + 1) = SumTo(f, N) + h[N + 1]
<1>1. PICK pf \in [0..N -> Int] :
         /\ pf[0] = 0
         /\ \A n \in Nat : n + 1 <= N => pf[n + 1] = pf[n] + f[n + 1]
         /\ SumTo(f, N) = pf[N]
  BY SumToSteps
<1>0. N + 1 \in Nat
  OBVIOUS
<1>2. PICK ph \in [0..(N + 1) -> Int] :
         /\ ph[0] = 0
         /\ \A n \in Nat : n + 1 <= N + 1 => ph[n + 1] = ph[n] + h[n + 1]
         /\ SumTo(h, N + 1) = ph[N + 1]
  BY <1>0, SumToSteps, ZenonT(40)
<1> DEFINE S == {n \in Nat : n <= N => ph[n] = pf[n]}
<1>3. 0 \in S
  BY <1>1, <1>2
<1>4. ASSUME NEW n \in Nat, n \in S PROVE n + 1 \in S
  <2>1. ASSUME n + 1 <= N PROVE ph[n + 1] = pf[n + 1]
    <3>1. ph[n + 1] = ph[n] + h[n + 1] /\ pf[n + 1] = pf[n] + f[n + 1]
      BY <1>1, <1>2, <2>1
    <3>2. ph[n] = pf[n] /\ h[n + 1] = f[n + 1]
      BY <1>4, <2>1
    <3>3. QED
      BY <3>1, <3>2
  <2>2. QED
    BY <2>1
<1>5. Nat \subseteq S
  BY <1>3, <1>4, SetInduction
<1>6. ph[N] = pf[N]
  BY <1>5
<1>7. ph[N + 1] = ph[N] + h[N + 1]
  BY <1>2
<1>8. QED
  BY <1>1, <1>2, <1>6, <1>7

(* Taking the first term away takes it from the sum. *)
LEMMA SumToFirst ==
  ASSUME NEW N \in Nat, NEW f \in [1..N -> Int], NEW h \in [1..(N + 1) -> Int],
         \A k \in 1..N : f[k] = h[k + 1]
  PROVE  SumTo(h, N + 1) = h[1] + SumTo(f, N)
<1>1. PICK pf \in [0..N -> Int] :
         /\ pf[0] = 0
         /\ \A n \in Nat : n + 1 <= N => pf[n + 1] = pf[n] + f[n + 1]
         /\ SumTo(f, N) = pf[N]
  BY SumToSteps
<1>0. N + 1 \in Nat
  OBVIOUS
<1>2. PICK ph \in [0..(N + 1) -> Int] :
         /\ ph[0] = 0
         /\ \A n \in Nat : n + 1 <= N + 1 => ph[n + 1] = ph[n] + h[n + 1]
         /\ SumTo(h, N + 1) = ph[N + 1]
  BY <1>0, SumToSteps, ZenonT(40)
<1> DEFINE S == {n \in Nat : n <= N => ph[n + 1] = h[1] + pf[n]}
<1>3. 0 \in S
  <2>1. ph[0 + 1] = ph[0] + h[0 + 1]
    BY <1>2
  <2>2. h[1] \in Int
    OBVIOUS
  <2>3. QED
    BY <1>1, <1>2, <2>1, <2>2
<1>4. ASSUME NEW n \in Nat, n \in S PROVE n + 1 \in S
  <2>1. ASSUME n + 1 <= N PROVE ph[(n + 1) + 1] = h[1] + pf[n + 1]
    <3>1. ph[(n + 1) + 1] = ph[n + 1] + h[(n + 1) + 1] /\ pf[n + 1] = pf[n] + f[n + 1]
      BY <1>1, <1>2, <2>1
    <3>2. ph[n + 1] = h[1] + pf[n] /\ f[n + 1] = h[(n + 1) + 1]
      BY <1>4, <2>1
    <3>3. h[1] \in Int /\ pf[n] \in Int /\ f[n + 1] \in Int
      BY <2>1
    <3> HIDE DEF S
    <3>4. QED
      BY <3>1, <3>2, <3>3
  <2>2. QED
    BY <2>1
<1>5. Nat \subseteq S
  BY <1>3, <1>4, SetInduction
<1>6. QED
  BY <1>1, <1>2, <1>5

(* Smaller terms, smaller sum. *)
LEMMA SumToMonotone ==
  ASSUME NEW N \in Nat, NEW f \in [1..N -> Int], NEW h \in [1..N -> Int],
         \A k \in 1..N : f[k] <= h[k]
  PROVE  SumTo(f, N) <= SumTo(h, N)
<1> DEFINE z == [k \in 1..N |-> 0]
<1>1. z \in [1..N -> Int] /\ \A k \in 1..N : z[k] = 0
  OBVIOUS
<1>2. SumTo(f, N) \in Int /\ SumTo(h, N) \in Int
  BY SumToType
<1> HIDE DEF z
<1>3. SumTo(z, N) = 0
  BY <1>1, SumToZero
<1>4. \A k \in 1..N : f[k] <= h[k] + z[k] + 0
  BY <1>1
<1>5. SumTo(f, N) <= SumTo(h, N) + SumTo(z, N) + N * 0
  BY <1>1, <1>4, SumToBound
<1>6. QED
  BY <1>2, <1>3, <1>5

-----------------------------------------------------------------------------
(* The sum of a table of n rows and m columns. *)
TableSum(t, n, m) == SumTo([j \in 1..n |-> SumTo(t[j], m)], n)

(* Changing one cell changes the sum of a table by as much. *)
LEMMA TableUpdate ==
  ASSUME NEW N \in Nat, NEW K \in Nat, NEW i \in 1..N, NEW q \in 1..K,
         NEW t \in [1..N -> [1..K -> Int]], NEW u \in [1..N -> [1..K -> Int]],
         \A j \in 1..N, r \in 1..K : j # i \/ r # q => u[j][r] = t[j][r]
  PROVE  TableSum(u, N, K) = TableSum(t, N, K) + u[i][q] - t[i][q]
<1> DEFINE rows(v) == [j \in 1..N |-> SumTo(v[j], K)]
<1>1. /\ \A j \in 1..N : t[j] \in [1..K -> Int] /\ u[j] \in [1..K -> Int]
      /\ \A j \in 1..N : SumTo(t[j], K) \in Int /\ SumTo(u[j], K) \in Int
  BY SumToType
<1>2. rows(t) \in [1..N -> Int] /\ rows(u) \in [1..N -> Int]
  BY <1>1
<1>3. SumTo(u[i], K) = SumTo(t[i], K) + u[i][q] - t[i][q]
  BY <1>1, SumToUpdate
<1>4. ASSUME NEW j \in 1..N, j # i PROVE u[j] = t[j]
  BY <1>1, <1>4
<1>5. /\ \A j \in 1..N : j # i => rows(u)[j] = rows(t)[j]
      /\ rows(u)[i] = SumTo(u[i], K) /\ rows(t)[i] = SumTo(t[i], K)
  BY <1>4
<1>6. SumTo(rows(u), N) = SumTo(rows(t), N) + rows(u)[i] - rows(t)[i]
  <2> HIDE DEF rows
  <2> QED BY <1>2, <1>5, SumToUpdate
<1>7. SumTo(rows(t), N) \in Int /\ u[i][q] \in Int /\ t[i][q] \in Int
  BY <1>1, <1>2, SumToType
<1>8. TableSum(u, N, K) = SumTo(rows(u), N) /\ TableSum(t, N, K) = SumTo(rows(t), N)
  BY DEF TableSum
<1> HIDE DEF rows
<1> QED BY <1>1, <1>3, <1>5, <1>6, <1>7, <1>8

(* A table of naturals sums up to no less than any of its cells. *)
LEMMA TableCovers ==
  ASSUME NEW N \in Nat, NEW K \in Nat, NEW t \in [1..N -> [1..K -> Nat]]
  PROVE  /\ TableSum(t, N, K) \in Nat
         /\ \A i \in 1..N, q \in 1..K : t[i][q] <= TableSum(t, N, K)
<1> DEFINE rows == [j \in 1..N |-> SumTo(t[j], K)]
<1>1. \A j \in 1..N : /\ t[j] \in [1..K -> Nat]
                      /\ SumTo(t[j], K) \in Nat
                      /\ \A q \in 1..K : t[j][q] <= SumTo(t[j], K)
  BY SumToNat
<1>2. rows \in [1..N -> Nat]
  BY <1>1
<1>3. SumTo(rows, N) \in Nat /\ \A j \in 1..N : rows[j] <= SumTo(rows, N)
  <2> HIDE DEF rows
  <2> QED BY <1>2, SumToNat
<1>4. TableSum(t, N, K) = SumTo(rows, N)
  BY DEF TableSum
<1>5. \A j \in 1..N : rows[j] = SumTo(t[j], K)
  OBVIOUS
<1> HIDE DEF rows
<1>6. \A i \in 1..N, q \in 1..K : t[i][q] \in Nat /\ t[i][q] <= SumTo(t[i], K)
  BY <1>1
<1>7. ASSUME NEW i \in 1..N, NEW q \in 1..K PROVE t[i][q] <= SumTo(rows, N)
  <2>1. t[i][q] \in Nat /\ t[i][q] <= rows[i] /\ rows[i] <= SumTo(rows, N)
    BY <1>3, <1>5, <1>6
  <2>2. rows[i] \in Nat
    BY <1>2
  <2> QED BY <1>3, <2>1, <2>2
<1> QED BY <1>3, <1>4, <1>7

(* A table of zeroes sums up to zero. *)
LEMMA TableZero ==
  ASSUME NEW N \in Nat, NEW K \in Nat, NEW t \in [1..N -> [1..K -> Int]],
         \A i \in 1..N, q \in 1..K : t[i][q] = 0
  PROVE  TableSum(t, N, K) = 0
<1> DEFINE rows == [j \in 1..N |-> SumTo(t[j], K)]
<1>1. \A j \in 1..N : SumTo(t[j], K) = 0
  BY SumToZero
<1>2. rows \in [1..N -> Int] /\ \A j \in 1..N : rows[j] = 0
  BY <1>1
<1>3. SumTo(rows, N) = 0
  <2> HIDE DEF rows
  <2> QED BY <1>2, SumToZero
<1> QED BY <1>3 DEF TableSum

=============================================================================
