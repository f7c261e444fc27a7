---------------------------- MODULE TcpSumProofs ----------------------------
(***************************************************************************)
(* Proofs about the checksum (TcpSum), for every size of a byte, every     *)
(* length of a segment and both byte orders.  First the folding: twice is  *)
(* enough, it computes the sum with end-around carry of RFC 1071, and it   *)
(* loses no change of a single word but that between all zeros and all     *)
(* ones.  Then the total of a sequence of words, by a least counterexample *)
(* (UpTo) in place of induction; the words of a segment; and the invariant *)
(* of the specification.                                                   *)
(***************************************************************************)
EXTENDS TcpSum, WellFoundedInduction, TLAPS

\* Division with remainder.
LEMMA DivMod ==
  ASSUME NEW n \in Nat, NEW m \in Nat, m > 0
  PROVE  /\ n \div m \in Nat /\ n % m \in 0 .. m - 1
         /\ n = m * (n \div m) + (n % m)
  OBVIOUS

\* A quotient is smaller than what bounds it.
LEMMA QuotientBound ==
  ASSUME NEW n \in Nat, NEW m \in Nat, NEW b \in Nat, m > 0, n < b * m
  PROVE  n \div m < b
<1> DEFINE q == n \div m
<1>1. q \in Nat /\ n % m \in 0 .. m - 1 /\ n = m * q + (n % m)
  BY DivMod
<1> HIDE DEF q
<1>2. SUFFICES ASSUME q >= b PROVE FALSE
  BY <1>1 DEF q
<1>3. q * m >= b * m
  BY <1>1, <1>2
<1> QED BY <1>1, <1>3

\* There are at least four words.
LEMMA WordCount == W \in Nat /\ W > 3
<1>1. ByteBase * ByteBase >= 2 * ByteBase
  BY SumAssumption
<1> QED BY <1>1, SumAssumption DEF W

\* A multiple of W - 1 that is no further from 0 is W - 1, 0 or 1 - W.
LEMMA SmallMultiple ==
  ASSUME NEW c \in Int, NEW d \in Int, d = c * (W - 1),
         d \in 1 - W .. W - 1
  PROVE  c \in {-1, 0, 1}
<1>1. W \in Nat /\ W > 3
  BY WordCount
<1>2. ASSUME c >= 2 PROVE FALSE
  <2>1. c * (W - 1) >= 2 * (W - 1)
    BY <1>1, <1>2
  <2> QED BY <1>1, <2>1
<1>3. ASSUME c <= -2 PROVE FALSE
  <2>1. c * (W - 1) <= (-2) * (W - 1)
    BY <1>1, <1>3
  <2> QED BY <1>1, <2>1
<1> QED BY <1>2, <1>3

\* What Fold() computes: a word, congruent to the sum modulo W - 1, and 0 only
\* for the sum 0.  The sum of tcp_sum.c is a signed 32-bit number, less than
\* W * W.
LEMMA FoldFacts ==
  ASSUME NEW n \in Nat, n < W * W
  PROVE  /\ Fold(n) \in Words
         /\ Fold(n) = 0 <=> n = 0
         /\ \E c \in Nat : n = Fold(n) + c * (W - 1)
<1>1. W \in Nat /\ W > 3
  BY WordCount
<1> DEFINE q == n \div W
           r == n % W
           s == q + r
<1>2. q \in Nat /\ r \in 0 .. W - 1 /\ n = W * q + r
  BY <1>1, DivMod
<1>3. q < W
  BY <1>1, QuotientBound
<1>4. Fold(n) = (s + (s \div W)) % W
  BY DEF Fold
<1> HIDE DEF q, r
<1>5. s \in Nat /\ s < 2 * W - 1 /\ n = s + q * (W - 1)
  BY <1>1, <1>2, <1>3
<1>6. s \div W \in Nat /\ s % W \in 0 .. W - 1 /\ s = W * (s \div W) + (s % W)
  BY <1>1, <1>5, DivMod
<1>7. s \div W < 2
  BY <1>1, <1>5, QuotientBound
<1>8. CASE s \div W = 0
  <2>1. s < W /\ Fold(n) = s
    BY <1>1, <1>4, <1>5, <1>6, <1>8
  <2>2. n = Fold(n) + q * (W - 1)
    BY <1>5, <2>1
  <2>3. s = 0 <=> n = 0
    BY <1>1, <1>2, <1>5
  <2>4. Fold(n) \in Words
    BY <1>1, <1>5, <2>1 DEF Words
  <2>5. Fold(n) = 0 <=> n = 0
    BY <2>1, <2>3
  <2> QED BY <1>2, <2>2, <2>4, <2>5
<1>9. CASE s \div W = 1
  <2>1. PICK t \in 0 .. W - 1 : s = W + t
    BY <1>1, <1>5, <1>6, <1>9
  <2>2. s >= W /\ s + 1 - W \in 1 .. W - 1
    BY <1>1, <1>5, <2>1
  <2>3. Fold(n) = s + 1 - W
    <3>1. Fold(n) = (s + 1) % W
      BY <1>4, <1>9
    <3> QED BY <1>1, <1>5, <2>2, <3>1
  <2>4. n = Fold(n) + (q + 1) * (W - 1)
    BY <1>1, <1>2, <1>5, <2>3
  <2>5. n # 0
    BY <1>1, <1>2, <1>5, <2>2
  <2>6. Fold(n) \in Words /\ Fold(n) # 0
    BY <1>1, <2>2, <2>3 DEF Words
  <2>7. q + 1 \in Nat
    BY <1>2
  <2> QED BY <2>4, <2>5, <2>6, <2>7
<1> QED BY <1>6, <1>7, <1>8, <1>9

\* Two words that are congruent modulo W - 1 are equal, or one is all zeros and
\* the other all ones.
LEMMA CongruentWords ==
  ASSUME NEW a \in Words, NEW b \in Words, NEW c \in Int, a - b = c * (W - 1)
  PROVE  a = b \/ {a, b} = {0, W - 1}
<1>1. W \in Nat /\ W > 3 /\ a \in Int /\ b \in Int /\ a >= 0 /\ b >= 0
      /\ a <= W - 1 /\ b <= W - 1
  BY WordCount DEF Words
<1>2. a - b \in 1 - W .. W - 1
  BY <1>1
<1>3. c \in {-1, 0, 1}
  BY <1>1, <1>2, SmallMultiple
<1>4. a - b \in {1 - W, 0, W - 1}
  BY <1>1, <1>3
<1> QED BY <1>1, <1>4

\* The check of _mysock_verify_checksum() notices that one word of what is
\* summed has become another, whatever the rest adds up to, unless one of them
\* is all zeros and the other all ones.
THEOREM OneWordNoticed ==
  ASSUME NEW rest \in Nat, NEW a \in Words, NEW b \in Words,
         rest + a < W * W, rest + b < W * W,
         Complement(Fold(rest + a)) = Complement(Fold(rest + b))
  PROVE  a = b \/ {a, b} = {0, W - 1}
<1>1. /\ W \in Nat /\ a \in Nat /\ b \in Nat
      /\ rest + a \in Nat /\ rest + b \in Nat
  BY WordCount DEF Words
<1>2. PICK c \in Nat : rest + a = Fold(rest + a) + c * (W - 1)
  BY <1>1, FoldFacts, Zenon
<1>3. PICK d \in Nat : rest + b = Fold(rest + b) + d * (W - 1)
  BY <1>1, FoldFacts, Zenon
<1>4. Fold(rest + a) \in Int /\ Fold(rest + b) \in Int
  BY <1>1, FoldFacts DEF Words
<1>5. Fold(rest + a) = Fold(rest + b)
  BY <1>1, <1>4 DEF Complement
<1>6. a - b = (c - d) * (W - 1)
  BY <1>1, <1>2, <1>3, <1>4, <1>5
<1>7. c - d \in Int
  OBVIOUS
<1> QED BY <1>6, <1>7, CongruentWords, Zenon

\* Adding up in 32 bits and folding at the end is the sum with end-around carry
\* of RFC 1071, word by word.
THEOREM FoldIsEndAroundCarry ==
  ASSUME NEW n \in Nat, NEW w \in Words, n + w < W * W
  PROVE  Fold(0) = 0 /\ Fold(n + w) = Add1(Fold(n), w)
<1>1. W \in Nat /\ W > 3 /\ w \in Nat /\ w <= W - 1 /\ n + w \in Nat
  BY WordCount DEF Words
<1>2. n < W * W /\ 0 < W * W
  BY <1>1
<1>3. Fold(n) \in 0 .. W - 1 /\ (Fold(n) = 0 <=> n = 0)
  BY <1>2, FoldFacts DEF Words
<1>4. PICK c \in Nat : n = Fold(n) + c * (W - 1)
  BY <1>2, FoldFacts
<1>5. Fold(n + w) \in 0 .. W - 1 /\ (Fold(n + w) = 0 <=> n + w = 0)
  BY <1>1, FoldFacts DEF Words
<1>6. PICK d \in Nat : n + w = Fold(n + w) + d * (W - 1)
  BY <1>1, FoldFacts, Zenon
<1> DEFINE x == Add1(Fold(n), w)
<1>7. \E e \in {0, 1} : x = Fold(n) + w - e * (W - 1)
  BY <1>1, <1>3 DEF Add1
<1>8. x \in 0 .. W - 1 /\ (x = 0 <=> n + w = 0)
  BY <1>1, <1>3 DEF Add1
<1> HIDE DEF x
<1>9. PICK e \in {0, 1} : x = Fold(n) + w - e * (W - 1)
  BY <1>7
<1>10. x - Fold(n + w) = (d - c - e) * (W - 1)
  BY <1>1, <1>3, <1>4, <1>5, <1>6, <1>8, <1>9
<1>11. x = Fold(n + w) \/ {x, Fold(n + w)} = {0, W - 1}
  BY <1>1, <1>5, <1>8, <1>10, CongruentWords DEF Words
<1>12. x = Fold(n + w)
  BY <1>1, <1>5, <1>8, <1>11
<1>13. Fold(0) = 0
  BY <1>2, FoldFacts
<1> QED BY <1>12, <1>13 DEF x

\* A word read in the other byte order is congruent to a fixed multiple of it,
\* which is why a sum taken on a host of one byte order can be checked on a host
\* of the other.
LEMMA ByteOrderScales ==
  ASSUME NEW pair \in Pair
  PROVE  ByteBase * Word("big", pair)
           = Word("little", pair) + pair[1] * (W - 1)
<1>1. pair[1] \in Nat /\ pair[2] \in Nat /\ ByteBase \in Nat
  BY SumAssumption DEF Pair, Byte
<1>2. \A x, y, z \in Nat : z * (x * z + y) = y * z + x + x * (z * z - 1)
  OBVIOUS
<1> QED BY <1>1, <1>2 DEF Word, W

----------------------------------------------------------------------------
(* Sums of words.                                                          *)

\* Counting up: a set with 0 that has with each number the next one up to N
\* has all of them.
LEMMA UpTo ==
  ASSUME NEW N \in Nat, NEW S, 0 \in S, \A n \in 1 .. N : n - 1 \in S => n \in S
  PROVE  \A n \in 0 .. N : n \in S
<1> DEFINE Bad == {n \in 0 .. N : n \notin S}
           R == OpToRel(<, Nat)
<1>1. SUFFICES ASSUME Bad # {} PROVE FALSE
  OBVIOUS
<1>2. Bad \subseteq Nat
  OBVIOUS
<1>3. \A x, y \in Nat : << y, x >> \in R <=> y < x
  BY DEF OpToRel
<1>4. PICK n \in Bad : \A y \in Bad : ~(<< y, n >> \in R)
  BY <1>1, <1>2, NatLessThanWellFounded, WFMin
<1> HIDE DEF R
<1>5. n \in 1 .. N /\ n - 1 \in 0 .. N /\ n - 1 < n /\ n - 1 \in Nat
  BY <1>4
<1>6. n - 1 \notin Bad
  BY <1>2, <1>3, <1>4, <1>5
<1> QED BY <1>4, <1>5, <1>6

\* f has the sums of the first words.
Adds(f, words) ==
  /\ f \in [0 .. Len(words) -> Nat] /\ f[0] = 0
  /\ \A k \in 1 .. Len(words) : f[k] = f[k - 1] + words[k]

LEMMA TotalAdds ==
  ASSUME NEW words \in Seq(Nat)
  PROVE  \E f : Adds(f, words) /\ Total(words) = f[Len(words)]
<1> DEFINE N == Len(words)
           Good(f, n) == /\ f \in [0 .. n -> Nat] /\ f[0] = 0
                         /\ \A k \in 1 .. n : f[k] = f[k - 1] + words[k]
           S == {n \in 0 .. N : \E f : Good(f, n)}
           Rec(g) == g = [k \in 0 .. N |-> IF k = 0 THEN 0
                                           ELSE g[k - 1] + words[k]]
<1>1. N \in Nat /\ \A k \in 1 .. N : words[k] \in Nat
  OBVIOUS
<1> HIDE DEF N
<1>2. 0 \in S
  <2>1. Good([k \in {0} |-> 0], 0)
    OBVIOUS
  <2> HIDE DEF Good
  <2> QED BY <1>1, <2>1
<1>3. ASSUME NEW n \in 1 .. N, n - 1 \in S PROVE n \in S
  <2>1. PICK f : Good(f, n - 1)
    BY <1>3
  <2> DEFINE g == [k \in 0 .. n |-> IF k = n THEN f[n - 1] + words[n] ELSE f[k]]
  <2>2. n \in Nat /\ n - 1 \in 0 .. n - 1 /\ n \in 0 .. n /\ n # 0
    BY <1>1
  <2>3. f[n - 1] \in Nat /\ words[n] \in Nat
    BY <1>1, <2>1, <2>2
  <2>4. /\ g \in [0 .. n -> Nat] /\ g[n] = f[n - 1] + words[n]
        /\ \A k \in 0 .. n - 1 : g[k] = f[k]
    BY <2>1, <2>2, <2>3
  <2> HIDE DEF g
  <2>5. g[0] = 0
    BY <2>1, <2>2, <2>4
  <2>6. ASSUME NEW k \in 1 .. n PROVE g[k] = g[k - 1] + words[k]
    <3>1. CASE k = n
      BY <2>2, <2>4, <3>1
    <3>2. CASE k \in 1 .. n - 1
      <4>1. k \in 0 .. n - 1 /\ k - 1 \in 0 .. n - 1
        BY <2>2, <3>2
      <4> QED BY <2>1, <2>4, <3>2, <4>1
    <3> QED BY <2>2, <3>1, <3>2
  <2>7. Good(g, n)
    BY <2>4, <2>5, <2>6
  <2>8. n \in 0 .. N
    BY <1>1
  <2> HIDE DEF Good
  <2> QED BY <2>7, <2>8
<1>4. PICK f : Good(f, N)
  <2>1. N \in S
    <3> HIDE DEF S
    <3>1. \A n \in 0 .. N : n \in S
      BY <1>1, <1>2, <1>3, UpTo
    <3> QED BY <1>1, <3>1
  <2> QED BY <2>1
<1>5. Rec(f)
  <2>1. f = [k \in 0 .. N |-> f[k]]
    BY <1>4
  <2>2. \A k \in 0 .. N : f[k] = IF k = 0 THEN 0 ELSE f[k - 1] + words[k]
    BY <1>1, <1>4
  <2> QED BY <2>1, <2>2
<1> DEFINE g == CHOOSE h : Rec(h)
<1>6. Rec(g)
  BY <1>5
<1>7. Total(words) = g[N]
  BY DEF Total, N
<1> HIDE DEF g
<1>8. /\ DOMAIN g = 0 .. N /\ g[0] = 0
      /\ \A k \in 1 .. N : g[k] = g[k - 1] + words[k]
  <2>1. DOMAIN g = 0 .. N
    BY <1>6
  <2>2. \A k \in 0 .. N : g[k] = IF k = 0 THEN 0 ELSE g[k - 1] + words[k]
    BY <1>6
  <2> HIDE DEF Rec
  <2>3. ASSUME NEW k \in 1 .. N PROVE g[k] = g[k - 1] + words[k]
    <3>1. k \in 0 .. N /\ k # 0
      BY <1>1
    <3> QED BY <2>2, <3>1
  <2>4. g[0] = 0
    BY <1>1, <2>2
  <2> QED BY <2>1, <2>3, <2>4
<1> HIDE DEF Rec
<1> DEFINE P == {n \in 0 .. N : g[n] \in Nat}
<1>9. 0 \in P
  BY <1>1, <1>8
<1>10. ASSUME NEW n \in 1 .. N, n - 1 \in P PROVE n \in P
  <2>1. g[n - 1] \in Nat /\ words[n] \in Nat /\ n \in 0 .. N
    BY <1>1, <1>10
  <2>2. g[n] = g[n - 1] + words[n]
    BY <1>8
  <2> QED BY <2>1, <2>2
<1>11. \A n \in 0 .. N : n \in P
  <2> HIDE DEF P
  <2> QED BY <1>1, <1>9, <1>10, UpTo
<1>12. Adds(g, words)
  <2>1. g = [k \in 0 .. N |-> g[k]]
    BY <1>6, <1>8 DEF Rec
  <2>2. g \in [0 .. N -> Nat]
    BY <1>11, <2>1
  <2> QED BY <1>8, <2>2 DEF Adds, N
<1> QED BY <1>7, <1>12 DEF N

\* Two sequences that differ in one word.
LEMMA SumsDiffer ==
  ASSUME NEW u \in Seq(Nat), NEW v \in Seq(Nat), Len(u) = Len(v),
         NEW j \in 1 .. Len(u), \A i \in 1 .. Len(u) : i # j => u[i] = v[i]
  PROVE  \E rest \in Nat : Total(u) = rest + u[j] /\ Total(v) = rest + v[j]
<1> DEFINE N == Len(u)
<1>1. /\ N \in Nat /\ Len(v) = N /\ j \in 1 .. N
      /\ \A k \in 1 .. N : u[k] \in Nat /\ v[k] \in Nat
  OBVIOUS
<1>2. PICK f : Adds(f, u) /\ Total(u) = f[N]
  BY TotalAdds
<1>3. PICK g : Adds(g, v) /\ Total(v) = g[N]
  BY TotalAdds
<1>4. /\ f \in [0 .. N -> Nat] /\ f[0] = 0
      /\ \A k \in 1 .. N : f[k] = f[k - 1] + u[k]
  BY <1>2 DEF Adds
<1>5. /\ g \in [0 .. N -> Nat] /\ g[0] = 0
      /\ \A k \in 1 .. N : g[k] = g[k - 1] + v[k]
  BY <1>3 DEF Adds
<1>6. \A i \in 1 .. N : i # j => u[i] = v[i]
  OBVIOUS
<1> HIDE DEF N
<1> DEFINE Up(n) == IF n < j THEN f[n] = g[n]
                    ELSE \E r \in Nat : f[n] = r + u[j] /\ g[n] = r + v[j]
           S == {n \in 0 .. N : Up(n)}
<1>7. 0 \in S
  BY <1>1, <1>4, <1>5
<1>8. ASSUME NEW n \in 1 .. N, n - 1 \in S PROVE n \in S
  <2>1. /\ n - 1 \in 0 .. N /\ f[n - 1] \in Nat /\ g[n - 1] \in Nat
        /\ f[n] = f[n - 1] + u[n] /\ g[n] = g[n - 1] + v[n]
        /\ u[n] \in Nat /\ v[n] \in Nat /\ u[j] \in Nat /\ v[j] \in Nat
        /\ n \in 0 .. N /\ n \in Nat /\ j \in Nat
    BY <1>1, <1>4, <1>5
  <2>2. Up(n - 1)
    BY <1>8
  <2>3. CASE n < j
    <3>1. f[n - 1] = g[n - 1] /\ u[n] = v[n]
      BY <1>6, <2>1, <2>2, <2>3
    <3> QED BY <2>1, <2>3, <3>1
  <2>4. CASE n = j
    <3>1. f[n - 1] = g[n - 1]
      BY <2>1, <2>2, <2>4
    <3>2. f[n] = f[n - 1] + u[j] /\ g[n] = f[n - 1] + v[j]
      BY <2>1, <2>4, <3>1
    <3>3. Up(n)
      BY <2>1, <2>4, <3>2
    <3> QED BY <2>1, <3>3
  <2>5. CASE n > j
    <3>1. PICK r \in Nat : f[n - 1] = r + u[j] /\ g[n - 1] = r + v[j]
      BY <2>1, <2>2, <2>5
    <3>2. u[n] = v[n]
      BY <1>6, <2>1, <2>5
    <3>5. \A a, b \in Nat : (r + b) + a = (r + a) + b /\ r + a \in Nat
      OBVIOUS
    <3>6. f[n] = (r + u[j]) + u[n] /\ g[n] = (r + v[j]) + u[n]
      BY <2>1, <3>1, <3>2
    <3>3. r + u[n] \in Nat /\ f[n] = (r + u[n]) + u[j] /\ g[n] = (r + u[n]) + v[j]
      BY <2>1, <3>5, <3>6
    <3>4. Up(n)
      BY <2>1, <2>5, <3>3
    <3> QED BY <2>1, <3>4
  <2> QED BY <2>1, <2>3, <2>4, <2>5
<1>9. N \in S
  <2> HIDE DEF S
  <2>1. \A n \in 0 .. N : n \in S
    BY <1>1, <1>7, <1>8, UpTo
  <2> QED BY <1>1, <2>1
<1>10. Up(N) /\ ~(N < j)
  BY <1>1, <1>9
<1> QED BY <1>2, <1>3, <1>10


\* a is congruent to b modulo W - 1.
Congruent(a, b) == \E c \in Int : a = b + c * (W - 1)

LEMMA CongruentSame == ASSUME NEW a \in Int PROVE Congruent(a, a)
<1>1. a = a + 0 * (W - 1)
  BY WordCount
<1> QED BY <1>1 DEF Congruent

LEMMA CongruentBack ==
  ASSUME NEW a \in Int, NEW b \in Int, Congruent(a, b) PROVE Congruent(b, a)
<1>1. PICK c \in Int : a = b + c * (W - 1)
  BY DEF Congruent
<1>2. b = a + (-c) * (W - 1) /\ -c \in Int
  BY <1>1, WordCount
<1> QED BY <1>2 DEF Congruent

LEMMA CongruentChain ==
  ASSUME NEW a \in Int, NEW b \in Int, NEW c \in Int, Congruent(a, b),
         Congruent(b, c)
  PROVE  Congruent(a, c)
<1>1. PICK d \in Int : a = b + d * (W - 1)
  BY DEF Congruent
<1>2. PICK e \in Int : b = c + e * (W - 1)
  BY DEF Congruent
<1>3. a = c + (d + e) * (W - 1) /\ d + e \in Int
  BY <1>1, <1>2, WordCount
<1> QED BY <1>3 DEF Congruent

LEMMA CongruentSum ==
  ASSUME NEW a \in Int, NEW b \in Int, NEW c \in Int, NEW d \in Int,
         Congruent(a, b), Congruent(c, d)
  PROVE  Congruent(a + c, b + d) /\ Congruent(a - c, b - d)
<1>1. PICK x \in Int : a = b + x * (W - 1)
  BY DEF Congruent
<1>2. PICK y \in Int : c = d + y * (W - 1)
  BY DEF Congruent
<1>3. /\ a + c = (b + d) + (x + y) * (W - 1) /\ x + y \in Int
      /\ a - c = (b - d) + (x - y) * (W - 1) /\ x - y \in Int
  BY <1>1, <1>2, WordCount
<1> QED BY <1>3 DEF Congruent

LEMMA CongruentProduct ==
  ASSUME NEW a \in Int, NEW b \in Int, NEW k \in Int, Congruent(a, b)
  PROVE  Congruent(k * a, k * b)
<1>1. PICK c \in Int : a = b + c * (W - 1)
  BY DEF Congruent
<1>2. W - 1 \in Int
  BY WordCount
<1>3. \A m \in Int : k * (b + c * m) = k * b + (k * c) * m
  OBVIOUS
<1>4. k * a = k * b + (k * c) * (W - 1) /\ k * c \in Int
  BY <1>1, <1>2, <1>3
<1> QED BY <1>4 DEF Congruent

\* A sequence of words that are multiples of those of another.
LEMMA SumsScale ==
  ASSUME NEW u \in Seq(Nat), NEW v \in Seq(Nat), Len(u) = Len(v), NEW m \in Nat,
         \A i \in 1 .. Len(u) : Congruent(m * u[i], v[i])
  PROVE  Congruent(m * Total(u), Total(v))
<1> DEFINE N == Len(u)
<1>1. /\ N \in Nat /\ Len(v) = N
      /\ \A k \in 1 .. N : u[k] \in Nat /\ v[k] \in Nat
      /\ \A k \in 1 .. N : Congruent(m * u[k], v[k])
  OBVIOUS
<1>2. PICK f : Adds(f, u) /\ Total(u) = f[N]
  BY TotalAdds
<1>3. PICK g : Adds(g, v) /\ Total(v) = g[N]
  BY TotalAdds
<1>4. /\ f \in [0 .. N -> Nat] /\ f[0] = 0
      /\ \A k \in 1 .. N : f[k] = f[k - 1] + u[k]
  BY <1>2 DEF Adds
<1>5. /\ g \in [0 .. N -> Nat] /\ g[0] = 0
      /\ \A k \in 1 .. N : g[k] = g[k - 1] + v[k]
  BY <1>3 DEF Adds
<1> HIDE DEF N
<1> DEFINE S == {n \in 0 .. N : Congruent(m * f[n], g[n])}
<1>6. 0 \in S
  <2>1. m * f[0] = 0 /\ g[0] = 0 /\ 0 \in 0 .. N
    BY <1>1, <1>4, <1>5
  <2> QED BY <2>1, CongruentSame
<1>7. ASSUME NEW n \in 1 .. N, n - 1 \in S PROVE n \in S
  <2>1. /\ n \in 0 .. N /\ n - 1 \in 0 .. N
        /\ f[n - 1] \in Nat /\ g[n - 1] \in Nat /\ u[n] \in Nat /\ v[n] \in Nat
    BY <1>1, <1>4, <1>5
  <2>2. f[n] = f[n - 1] + u[n] /\ g[n] = g[n - 1] + v[n]
    BY <1>4, <1>5
  <2>3. Congruent(m * f[n - 1], g[n - 1]) /\ Congruent(m * u[n], v[n])
    BY <1>1, <1>7
  <2>4. \A a, b \in Nat : /\ m * a \in Int /\ m * b \in Int /\ a \in Int
                          /\ m * (a + b) = m * a + m * b
    OBVIOUS
  <2>5. Congruent(m * f[n - 1] + m * u[n], g[n - 1] + v[n])
    BY <2>1, <2>3, <2>4, CongruentSum
  <2>6. m * f[n] = m * f[n - 1] + m * u[n]
    BY <2>1, <2>2, <2>4
  <2> QED BY <2>1, <2>2, <2>5, <2>6
<1>8. N \in S
  <2> HIDE DEF S
  <2>1. \A n \in 0 .. N : n \in S
    BY <1>1, <1>6, <1>7, UpTo
  <2> QED BY <1>1, <2>1
<1> QED BY <1>2, <1>3, <1>8

\* Sums of up to W words fit in 32 bits, the partial ones too.
LEMMA SumsFit ==
  ASSUME NEW u \in Seq(Nat), \A i \in 1 .. Len(u) : u[i] \in Words,
         Len(u) <= W, NEW f, Adds(f, u)
  PROVE  \A n \in 0 .. Len(u) : f[n] \in Nat /\ f[n] < W * W
<1> DEFINE N == Len(u)
<1>1. N \in Nat /\ N <= W /\ \A k \in 1 .. N : u[k] \in Words
  OBVIOUS
<1>2. /\ f \in [0 .. N -> Nat] /\ f[0] = 0
      /\ \A k \in 1 .. N : f[k] = f[k - 1] + u[k]
  BY DEF Adds
<1>3. W \in Nat /\ W > 3
  BY WordCount
<1> HIDE DEF N
<1> DEFINE S == {n \in 0 .. N : f[n] <= n * (W - 1)}
<1>4. 0 \in S
  BY <1>1, <1>2, <1>3
<1>5. ASSUME NEW n \in 1 .. N, n - 1 \in S PROVE n \in S
  <2>1. /\ n \in 0 .. N /\ n - 1 \in 0 .. N /\ n \in Nat /\ f[n - 1] \in Nat
        /\ u[n] \in Nat /\ u[n] <= W - 1
    BY <1>1, <1>2, <1>3 DEF Words
  <2>2. f[n] = f[n - 1] + u[n] /\ f[n - 1] <= (n - 1) * (W - 1)
    BY <1>2, <1>5
  <2>3. (n - 1) * (W - 1) + (W - 1) = n * (W - 1)
    BY <1>3, <2>1
  <2>4. (n - 1) * (W - 1) \in Int /\ n * (W - 1) \in Int
    BY <1>3, <2>1
  <2>5. f[n] <= n * (W - 1)
    BY <1>3, <2>1, <2>2, <2>3, <2>4
  <2> QED BY <2>1, <2>5
<1>6. \A n \in 0 .. N : n \in S
  <2> HIDE DEF S
  <2> QED BY <1>1, <1>4, <1>5, UpTo
<1>7. ASSUME NEW n \in 0 .. N PROVE f[n] \in Nat /\ f[n] < W * W
  <2>1. n \in Nat /\ n <= W /\ f[n] \in Nat /\ f[n] <= n * (W - 1)
    BY <1>1, <1>2, <1>3, <1>6
  <2>2. n * (W - 1) <= W * (W - 1) /\ W * (W - 1) < W * W
    BY <1>3, <2>1
  <2>3. n * (W - 1) \in Int /\ W * (W - 1) \in Int /\ W * W \in Int
    BY <1>3, <2>1
  <2> QED BY <2>1, <2>2, <2>3
<1> QED BY <1>7 DEF N

LEMMA TotalFits ==
  ASSUME NEW u \in Seq(Nat), \A i \in 1 .. Len(u) : u[i] \in Words, Len(u) <= W
  PROVE  Total(u) \in Nat /\ Total(u) < W * W
<1>1. PICK f : Adds(f, u) /\ Total(u) = f[Len(u)]
  BY TotalAdds
<1>2. Len(u) \in 0 .. Len(u)
  OBVIOUS
<1> QED BY <1>1, <1>2, SumsFit

\* Adding up first and folding at the end is adding with end-around carry.
LEMMA Sum1Folds ==
  ASSUME NEW u \in Seq(Nat), \A i \in 1 .. Len(u) : u[i] \in Words, Len(u) <= W
  PROVE  Sum1(u) = Fold(Total(u))
<1> DEFINE N == Len(u)
           Rec(g) == g = [k \in 0 .. N |-> IF k = 0 THEN 0
                                           ELSE Add1(g[k - 1], u[k])]
<1>1. N \in Nat /\ \A k \in 1 .. N : u[k] \in Words
  OBVIOUS
<1>2. PICK f : Adds(f, u) /\ Total(u) = f[N]
  BY TotalAdds
<1>3. /\ f \in [0 .. N -> Nat] /\ f[0] = 0
      /\ \A k \in 1 .. N : f[k] = f[k - 1] + u[k]
  BY <1>2 DEF Adds
<1>4. \A n \in 0 .. N : f[n] \in Nat /\ f[n] < W * W
  BY <1>2, SumsFit
<1> HIDE DEF N
<1>5. ASSUME NEW n \in 1 .. N PROVE Fold(f[n]) = Add1(Fold(f[n - 1]), u[n])
  <2>1. n \in 0 .. N /\ n - 1 \in 0 .. N
    BY <1>1
  <2>2. /\ f[n - 1] \in Nat /\ f[n - 1] + u[n] < W * W /\ u[n] \in Words
        /\ f[n] = f[n - 1] + u[n]
    BY <1>1, <1>3, <1>4, <2>1
  <2> QED BY <2>2, FoldIsEndAroundCarry
<1>6. Fold(f[0]) = 0
  BY <1>1, <1>3, <1>4, FoldFacts
<1> DEFINE h == [k \in 0 .. N |-> Fold(f[k])]
<1>7. Rec(h)
  <2>1. ASSUME NEW k \in 0 .. N
        PROVE  h[k] = IF k = 0 THEN 0 ELSE Add1(h[k - 1], u[k])
    <3>1. CASE k = 0
      BY <1>6, <3>1
    <3>2. CASE k # 0
      <4>1. k \in 1 .. N /\ k - 1 \in 0 .. N
        BY <1>1, <3>2
      <4> QED BY <1>5, <3>2, <4>1
    <3> QED BY <3>1, <3>2
  <2>2. h = [k \in 0 .. N |-> h[k]]
    OBVIOUS
  <2> HIDE DEF h
  <2> QED BY <2>1, <2>2
<1> DEFINE g == CHOOSE x : Rec(x)
<1>8. Rec(g)
  BY <1>7
<1>9. Sum1(u) = g[N]
  BY DEF Sum1, N
<1> HIDE DEF g
<1>10. \A k \in 0 .. N : g[k] = IF k = 0 THEN 0 ELSE Add1(g[k - 1], u[k])
  BY <1>8
<1> HIDE DEF Rec
<1> DEFINE S == {n \in 0 .. N : g[n] = Fold(f[n])}
<1>11. 0 \in S
  BY <1>1, <1>6, <1>10
<1>12. ASSUME NEW n \in 1 .. N, n - 1 \in S PROVE n \in S
  <2>1. n \in 0 .. N /\ n # 0
    BY <1>1
  <2>2. g[n] = Add1(g[n - 1], u[n]) /\ g[n - 1] = Fold(f[n - 1])
    BY <1>10, <1>12, <2>1
  <2> QED BY <1>5, <2>1, <2>2
<1>13. N \in S
  <2> HIDE DEF S
  <2>1. \A n \in 0 .. N : n \in S
    BY <1>1, <1>11, <1>12, UpTo
  <2> QED BY <1>1, <2>1
<1> QED BY <1>2, <1>9, <1>13


----------------------------------------------------------------------------
(* The words of a segment.                                                 *)

\* Two digits are a number below W.
LEMMA Digits ==
  ASSUME NEW x \in Byte, NEW y \in Byte
  PROVE  /\ x * ByteBase + y \in Words
         /\ (x * ByteBase + y) \div ByteBase = x
         /\ (x * ByteBase + y) % ByteBase = y
<1>1. ByteBase \in Nat /\ ByteBase > 1 /\ x \in Nat /\ y \in Nat /\ x <= ByteBase - 1
      /\ y <= ByteBase - 1
  BY SumAssumption DEF Byte
<1>2. x * ByteBase <= (ByteBase - 1) * ByteBase
  BY <1>1
<1>3. (ByteBase - 1) * ByteBase = W - ByteBase
  BY <1>1 DEF W
<1>4. x * ByteBase \in Nat /\ W \in Nat
  BY <1>1, WordCount
<1>5. x * ByteBase + y \in Words
  BY <1>1, <1>2, <1>3, <1>4 DEF Words
<1> DEFINE n == x * ByteBase + y
           q == n \div ByteBase
           r == n % ByteBase
<1>6. n \in Nat
  BY <1>1, <1>4
<1>7. q \in Nat /\ r \in 0 .. ByteBase - 1 /\ n = ByteBase * q + r
  BY <1>1, <1>6, DivMod
<1>8. ByteBase * q + r = ByteBase * x + y
  BY <1>1, <1>7
<1> HIDE DEF q, r
<1>9. ByteBase * (q - x) = y - r
  BY <1>1, <1>7, <1>8
<1>10. ~(q - x >= 1)
  <2>1. ASSUME q - x >= 1 PROVE FALSE
    <3>1. ByteBase * (q - x) >= ByteBase
      BY <1>1, <1>7, <2>1
    <3> QED BY <1>1, <1>7, <1>9, <3>1
  <2> QED BY <2>1
<1>11. ~(q - x <= -1)
  <2>1. ASSUME q - x <= -1 PROVE FALSE
    <3>1. ByteBase * (q - x) <= -ByteBase
      BY <1>1, <1>7, <2>1
    <3> QED BY <1>1, <1>7, <1>9, <3>1
  <2> QED BY <2>1
<1>12. q = x
  BY <1>1, <1>7, <1>10, <1>11
<1>13. r = y
  BY <1>1, <1>7, <1>8, <1>12
<1> QED BY <1>5, <1>12, <1>13 DEF q, r

LEMMA WordFacts ==
  ASSUME NEW o \in Orders, NEW pair \in Pair
  PROVE  Word(o, pair) \in Words /\ Store(o, Word(o, pair)) = pair
<1>1. pair[1] \in Byte /\ pair[2] \in Byte /\ pair = << pair[1], pair[2] >>
  BY DEF Pair
<1>2. CASE o = "big"
  BY <1>1, <1>2, Digits DEF Word, Store
<1>3. CASE o = "little"
  BY <1>1, <1>3, Digits DEF Word, Store
<1> QED BY <1>2, <1>3 DEF Orders

LEMMA StoreFacts ==
  ASSUME NEW o \in Orders, NEW w \in Words
  PROVE  Store(o, w) \in Pair /\ Word(o, Store(o, w)) = w
<1> DEFINE q == w \div ByteBase
           r == w % ByteBase
<1>1. ByteBase \in Nat /\ ByteBase > 1 /\ w \in Nat /\ w < ByteBase * ByteBase
  BY SumAssumption, WordCount DEF Words, W
<1>2. q \in Nat /\ r \in 0 .. ByteBase - 1 /\ w = ByteBase * q + r
  BY <1>1, DivMod
<1>3. q < ByteBase
  BY <1>1, QuotientBound
<1>4. q \in Byte /\ r \in Byte
  BY <1>1, <1>2, <1>3 DEF Byte
<1>5. Store(o, w) = IF o = "big" THEN << q, r >> ELSE << r, q >>
  BY DEF Store
<1> HIDE DEF q, r
<1>6. q * ByteBase + r = w
  BY <1>1, <1>2
<1> QED BY <1>4, <1>5, <1>6 DEF Word, Pair

\* Sequences of words one after the other.
LEMMA Joined ==
  ASSUME NEW a \in Seq(Nat), NEW b \in Seq(Nat)
  PROVE  /\ a \o b \in Seq(Nat) /\ Len(a \o b) = Len(a) + Len(b)
         /\ \A i \in 1 .. Len(a) : (a \o b)[i] = a[i]
         /\ \A i \in Len(a) + 1 .. Len(a) + Len(b) : (a \o b)[i] = b[i - Len(a)]
  OBVIOUS

\* What is summed.
Summed(o, src, dst, p) == PseudoHeader(o, src, dst, Len(p)) \o Contents(o, p)

\* The pairs of bytes that are summed as words, whatever the byte order.
ContentPair(p, k) ==
  IF k > Len(p) \div 2 THEN << p[Len(p)], 0 >>
  ELSE IF 2 * k - 1 = th_sum THEN << 0, 0 >> ELSE Pairs(p, 2 * k - 1)

HeaderPair(src, dst, len, i) ==
  IF i = 1 THEN src ELSE IF i = 2 THEN dst ELSE IF i = 3 THEN << 0, Protocol >>
  ELSE << len \div ByteBase, len % ByteBase >>

Count(p) == (Len(p) \div 2) + (Len(p) % 2)

Segment(p) == p \in Seq(Byte) /\ Len(p) \in HeaderLen .. W - 1

\* The length of a segment, halved.
LEMMA Halves ==
  ASSUME NEW n \in Nat
  PROVE  /\ n \div 2 \in Nat /\ n % 2 \in {0, 1} /\ n = 2 * (n \div 2) + (n % 2)
         /\ \A k \in 1 .. n \div 2 : 2 * k - 1 \in 1 .. n /\ 2 * k \in 1 .. n
<1>1. /\ n \div 2 \in Nat /\ n % 2 \in {0, 1} /\ n = 2 * (n \div 2) + (n % 2)
  OBVIOUS
<1> DEFINE h == n \div 2
           r == n % 2
<1>2. h \in Nat /\ r \in {0, 1} /\ n = 2 * h + r
  BY <1>1
<1> HIDE DEF h, r
<1>3. \A k \in 1 .. h : 2 * k - 1 \in 1 .. n /\ 2 * k \in 1 .. n
  BY <1>2
<1> QED BY <1>1, <1>3 DEF h

LEMMA ContentWords ==
  ASSUME NEW o \in Orders, NEW p, Segment(p)
  PROVE  /\ Contents(o, p) \in Seq(Nat) /\ Len(Contents(o, p)) = Count(p)
         /\ \A k \in 1 .. Count(p) : /\ ContentPair(p, k) \in Pair
                                     /\ Contents(o, p)[k] = Word(o, ContentPair(p, k))
<1> DEFINE n == Len(p)
           h == n \div 2
           r == n % 2
           F == [k \in 1 .. h |-> IF 2 * k - 1 = th_sum THEN 0
                                  ELSE Word(o, Pairs(p, 2 * k - 1))]
           O == IF r = 1 THEN OddByte(o, p) ELSE << >>
<1>1. n \in Nat /\ n > 0 /\ \A i \in 1 .. n : p[i] \in Byte
  BY DEF Segment, HeaderLen
<1>2. h \in Nat /\ r \in {0, 1} /\ \A k \in 1 .. h : 2 * k - 1 \in 1 .. n /\ 2 * k \in 1 .. n
  BY <1>1, Halves
<1>3. Contents(o, p) = F \o O /\ Count(p) = h + r
  BY DEF Contents, Count
<1>4. Word(o, << 0, 0 >>) = 0 /\ << 0, 0 >> \in Pair /\ 0 \in Byte
  BY SumAssumption DEF Word, Pair, Byte
<1>5. /\ \A k \in 1 .. h : ContentPair(p, k) =
           IF 2 * k - 1 = th_sum THEN << 0, 0 >> ELSE Pairs(p, 2 * k - 1)
      /\ \A k \in Nat : k > h => ContentPair(p, k) = << p[n], 0 >>
  BY <1>2 DEF ContentPair
<1> HIDE DEF h, r
<1>6. ASSUME NEW k \in 1 .. h
      PROVE  ContentPair(p, k) \in Pair /\ F[k] = Word(o, ContentPair(p, k))
  <2>1. CASE 2 * k - 1 = th_sum
    BY <1>4, <1>5, <2>1
  <2>2. CASE 2 * k - 1 # th_sum
    <3>1. (2 * k - 1) + 1 = 2 * k
      BY <1>2
    <3>2. p[2 * k - 1] \in Byte /\ p[2 * k] \in Byte
      BY <1>1, <1>2
    <3>3. Pairs(p, 2 * k - 1) \in Pair
      BY <3>1, <3>2 DEF Pairs, Pair
    <3> QED BY <1>5, <2>2, <3>3
  <2> QED BY <2>1, <2>2
<1>7. \A w \in Words : w \in Nat
  BY WordCount DEF Words
<1>8. F \in Seq(Nat) /\ Len(F) = h
  <2>1. \A k \in 1 .. h : F[k] \in Nat
    BY <1>6, <1>7, WordFacts
  <2>2. F = [k \in 1 .. h |-> F[k]]
    OBVIOUS
  <2> HIDE DEF F
  <2>3. F \in [1 .. h -> Nat]
    BY <2>1, <2>2
  <2> QED BY <1>2, <2>3
<1> HIDE DEF F
<1>9. << p[n], 0 >> \in Pair
  BY <1>1, <1>4 DEF Pair
<1>10. O \in Seq(Nat) /\ Len(O) = r /\ (r = 1 => O[1] = Word(o, << p[n], 0 >>))
  <2>1. CASE r = 0
    BY <2>1
  <2>2. CASE r = 1
    <3>1. O = << Word(o, << p[n], 0 >>) >>
      BY <2>2 DEF OddByte
    <3>2. Word(o, << p[n], 0 >>) \in Nat
      BY <1>7, <1>9, WordFacts
    <3> HIDE DEF O
    <3> QED BY <2>2, <3>1, <3>2
  <2> QED BY <1>2, <2>1, <2>2
<1> HIDE DEF O
<1>11. /\ F \o O \in Seq(Nat) /\ Len(F \o O) = h + r
       /\ \A k \in 1 .. h : (F \o O)[k] = F[k]
       /\ \A k \in h + 1 .. h + r : (F \o O)[k] = O[k - h]
  BY <1>8, <1>10, Joined
<1>12. ASSUME NEW k \in 1 .. h + r
       PROVE  ContentPair(p, k) \in Pair /\ (F \o O)[k] = Word(o, ContentPair(p, k))
  <2>1. CASE k \in 1 .. h
    BY <1>6, <1>11, <2>1
  <2>2. CASE k \notin 1 .. h
    <3>1. r = 1 /\ k = h + 1 /\ k \in Nat /\ k > h /\ k - h = 1
          /\ k \in h + 1 .. h + r
      BY <1>2, <2>2
    <3> QED BY <1>5, <1>9, <1>10, <1>11, <3>1
  <2> QED BY <2>1, <2>2
<1> QED BY <1>3, <1>11, <1>12

\* The words that are summed are those of pairs that do not depend on the byte
\* order, one of which is not 0, and their sum fits in 32 bits.
SummedPair(src, dst, p, i) ==
  IF i <= 4 THEN HeaderPair(src, dst, Len(p), i) ELSE ContentPair(p, i - 4)

LEMMA SummedWords ==
  ASSUME NEW o \in Orders, NEW src \in Pair, NEW dst \in Pair, NEW p, Segment(p),
         NEW u, u = Summed(o, src, dst, p)
  PROVE  /\ u \in Seq(Nat) /\ Len(u) = 4 + Count(p) /\ Len(u) < W
         /\ \A i \in 1 .. Len(u) : /\ SummedPair(src, dst, p, i) \in Pair
                                   /\ u[i] = Word(o, SummedPair(src, dst, p, i))
                                   /\ u[i] \in Words
<1> DEFINE H == PseudoHeader(o, src, dst, Len(p))
           C == Contents(o, p)
           n == Len(p)
<1>1. n \in Nat /\ n < W /\ n >= 10
  BY WordCount DEF Segment, HeaderLen
<1>2. ByteBase \in Nat /\ ByteBase > 1 /\ W = ByteBase * ByteBase /\ W \in Nat
  BY SumAssumption, WordCount DEF W
<1>3. << n \div ByteBase, n % ByteBase >> \in Pair
  <2>1. n \div ByteBase \in Nat /\ n % ByteBase \in 0 .. ByteBase - 1
    BY <1>1, <1>2, DivMod
  <2>2. n \div ByteBase < ByteBase
    BY <1>1, <1>2, QuotientBound
  <2> QED BY <1>2, <2>1, <2>2 DEF Pair, Byte
<1>4. << 0, Protocol >> \in Pair
  BY SumAssumption DEF Pair, Byte
<1>5. \A i \in 1 .. 4 : HeaderPair(src, dst, n, i) \in Pair
  BY <1>3, <1>4 DEF HeaderPair
<1>6. H = << Word(o, HeaderPair(src, dst, n, 1)), Word(o, HeaderPair(src, dst, n, 2)),
             Word(o, HeaderPair(src, dst, n, 3)), Word(o, HeaderPair(src, dst, n, 4)) >>
  BY DEF PseudoHeader, HeaderPair, htons
<1>7. \A i \in 1 .. 4 : Word(o, HeaderPair(src, dst, n, i)) \in Nat
  BY <1>5, WordFacts, WordCount DEF Words
<1>8. /\ H \in Seq(Nat) /\ Len(H) = 4
      /\ \A i \in 1 .. 4 : H[i] = Word(o, HeaderPair(src, dst, n, i))
  <2> DEFINE x(i) == Word(o, HeaderPair(src, dst, n, i))
  <2>1. H = << x(1), x(2), x(3), x(4) >> /\ \A i \in 1 .. 4 : x(i) \in Nat
    BY <1>6, <1>7
  <2> HIDE DEF x, H
  <2>2. H \in Seq(Nat) /\ Len(H) = 4 /\ \A i \in 1 .. 4 : H[i] = x(i)
    BY <2>1
  <2> QED BY <2>2 DEF x
<1>9. /\ C \in Seq(Nat) /\ Len(C) = Count(p)
      /\ \A k \in 1 .. Count(p) : /\ ContentPair(p, k) \in Pair
                                  /\ C[k] = Word(o, ContentPair(p, k))
  BY ContentWords
<1> DEFINE c == Count(p)
<1>10. c \in Nat /\ 4 + c < W
  <2>1. n \div 2 \in Nat /\ n % 2 \in {0, 1} /\ n = 2 * (n \div 2) + (n % 2)
    BY <1>1, Halves
  <2>2. c = (n \div 2) + (n % 2)
    BY DEF Count
  <2> DEFINE h == n \div 2
             r == n % 2
  <2>3. h \in Nat /\ r \in {0, 1} /\ n = 2 * h + r /\ c = h + r
    BY <2>1, <2>2
  <2> HIDE DEF h, r, c, n
  <2> QED BY <1>1, <1>2, <2>3
<1> HIDE DEF H, C, c
<1>11. u = H \o C
  BY DEF Summed, H, C
<1>12. /\ H \o C \in Seq(Nat) /\ Len(H \o C) = 4 + c
       /\ \A i \in 1 .. 4 : (H \o C)[i] = H[i]
       /\ \A i \in 4 + 1 .. 4 + c : (H \o C)[i] = C[i - 4]
  <2>1. Len(C) = c
    BY <1>9 DEF c
  <2>2. /\ H \o C \in Seq(Nat) /\ Len(H \o C) = Len(H) + Len(C)
        /\ \A i \in 1 .. Len(H) : (H \o C)[i] = H[i]
        /\ \A i \in Len(H) + 1 .. Len(H) + Len(C) : (H \o C)[i] = C[i - Len(H)]
    BY <1>8, <1>9, Joined
  <2>3. Len(H) = 4
    BY <1>8
  <2> QED BY <2>1, <2>2, <2>3
<1>13. ASSUME NEW i \in 1 .. 4 + c
       PROVE  /\ SummedPair(src, dst, p, i) \in Pair
              /\ (H \o C)[i] = Word(o, SummedPair(src, dst, p, i))
  <2>1. CASE i \in 1 .. 4
    <3>1. SummedPair(src, dst, p, i) = HeaderPair(src, dst, n, i)
      BY <2>1 DEF SummedPair
    <3> QED BY <1>5, <1>8, <1>12, <2>1, <3>1
  <2>2. CASE i \notin 1 .. 4
    <3>1. ~(i <= 4) /\ i \in 4 + 1 .. 4 + c /\ i - 4 \in 1 .. c
      BY <1>10, <2>2
    <3>2. SummedPair(src, dst, p, i) = ContentPair(p, i - 4)
      BY <3>1 DEF SummedPair
    <3> QED BY <1>9, <1>12, <3>1, <3>2 DEF c
  <2> QED BY <2>1, <2>2
<1>14. ASSUME NEW i \in 1 .. 4 + c
       PROVE  (H \o C)[i] \in Words
  BY <1>13, WordFacts
<1> QED BY <1>10, <1>11, <1>12, <1>13, <1>14 DEF c


\* A word in one byte order is congruent to ByteBase times it in the other.
LEMMA OrdersScale ==
  ASSUME NEW o \in Orders, NEW q \in Orders, o # q, NEW pair \in Pair
  PROVE  Congruent(ByteBase * Word(o, pair), Word(q, pair))
<1>1. pair[1] \in Nat /\ pair[2] \in Nat /\ ByteBase \in Nat
  BY SumAssumption DEF Pair, Byte
<1>2. CASE o = "big"
  <2>1. q = "little"
    BY <1>2 DEF Orders
  <2>2. ByteBase * Word("big", pair) = Word("little", pair) + pair[1] * (W - 1)
    BY ByteOrderScales
  <2>3. pair[1] \in Int
    BY <1>1
  <2> QED BY <1>2, <2>1, <2>2, <2>3 DEF Congruent
<1>3. CASE o = "little"
  <2>1. q = "big"
    BY <1>3 DEF Orders
  <2>2. \A x, y, z \in Nat : z * (y * z + x) = x * z + y + y * (z * z - 1)
    OBVIOUS
  <2>3. ByteBase * Word("little", pair) = Word("big", pair) + pair[2] * (W - 1)
    BY <1>1, <2>2 DEF Word, W
  <2>4. pair[2] \in Int
    BY <1>1
  <2> QED BY <1>3, <2>1, <2>3, <2>4 DEF Congruent
<1> QED BY <1>2, <1>3 DEF Orders

\* A pair that is all ones in one byte order is so in the other.
LEMMA AllOnes ==
  ASSUME NEW o \in Orders, NEW q \in Orders, NEW pair \in Pair
  PROVE  /\ Word(o, << ByteBase - 1, ByteBase - 1 >>) = W - 1
         /\ Word(o, pair) = W - 1 =>
              pair = << ByteBase - 1, ByteBase - 1 >> /\ Word(q, pair) = W - 1
         /\ Word(o, << 0, 0 >>) = 0 /\ (Word(o, pair) = 0 => pair = << 0, 0 >>)
<1> DEFINE ones == << ByteBase - 1, ByteBase - 1 >>
           zeros == << 0, 0 >>
<1>1. ByteBase \in Nat /\ ByteBase > 1
  BY SumAssumption
<1>2. ones \in Pair /\ zeros \in Pair
  BY <1>1 DEF Pair, Byte
<1>3. (ByteBase - 1) * ByteBase + (ByteBase - 1) = W - 1
  BY <1>1 DEF W
<1>4. \A r \in Orders : Word(r, ones) = W - 1 /\ Word(r, zeros) = 0
  BY <1>1, <1>3 DEF Word
<1> HIDE DEF ones, zeros
<1>5. ASSUME Word(o, pair) = W - 1 PROVE pair = ones
  BY <1>2, <1>4, <1>5, WordFacts
<1>6. ASSUME Word(o, pair) = 0 PROVE pair = zeros
  BY <1>2, <1>4, <1>6, WordFacts
<1> QED BY <1>4, <1>5, <1>6 DEF ones, zeros

\* The sum of a segment, in either byte order.
LEMMA SegmentSum ==
  ASSUME NEW o \in Orders, NEW src \in Pair, NEW dst \in Pair, NEW p, Segment(p),
         NEW t, t = Total(Summed(o, src, dst, p))
  PROVE  /\ t \in Nat /\ t < W * W /\ t # 0
         /\ Fold(t) \in 1 .. W - 1 /\ Congruent(t, Fold(t))
         /\ Checksum(o, src, dst, p) = (W - 1) - Fold(t)
         /\ Checksum(o, src, dst, p) \in Words /\ Checksum(o, src, dst, p) # W - 1
<1> DEFINE u == Summed(o, src, dst, p)
<1>1. /\ u \in Seq(Nat) /\ Len(u) = 4 + Count(p) /\ Len(u) < W
      /\ \A i \in 1 .. Len(u) : /\ SummedPair(src, dst, p, i) \in Pair
                                /\ u[i] = Word(o, SummedPair(src, dst, p, i))
                                /\ u[i] \in Words
  BY SummedWords
<1>2. W \in Nat /\ W > 3
  BY WordCount
<1>3. Checksum(o, src, dst, p) = Complement(Fold(t))
  BY DEF Checksum, Summed
<1> HIDE DEF u
<1>4. Total(u) \in Nat /\ Total(u) < W * W
  <2>1. Len(u) <= W
    BY <1>1, <1>2
  <2> QED BY <1>1, <2>1, TotalFits
<1>5. 3 \in 1 .. Len(u)
  <2>1. Len(p) \in Nat
    BY DEF Segment
  <2>2. Count(p) \in Nat
    <3>1. Len(p) \div 2 \in Nat /\ Len(p) % 2 \in {0, 1}
      BY <2>1, Halves
    <3> QED BY <3>1 DEF Count
  <2> QED BY <1>1, <2>2
<1>6. u[3] # 0 /\ u[3] \in Nat
  <2>1. SummedPair(src, dst, p, 3) = << 0, Protocol >>
    BY DEF SummedPair, HeaderPair
  <2>2. SummedPair(src, dst, p, 3) # << 0, 0 >>
    BY <2>1, SumAssumption
  <2>3. u[3] = Word(o, SummedPair(src, dst, p, 3)) /\ SummedPair(src, dst, p, 3) \in Pair
    BY <1>1, <1>5
  <2>4. u[3] # 0
    BY <2>2, <2>3, AllOnes
  <2> QED BY <1>1, <1>5, <2>4
<1>7. Total(u) # 0
  <2>1. PICK rest \in Nat : Total(u) = rest + u[3] /\ Total(u) = rest + u[3]
    BY <1>1, <1>5, SumsDiffer
  <2> QED BY <1>6, <2>1
<1>8. t = Total(u)
  BY DEF u
<1>9. /\ Fold(t) \in Words /\ (Fold(t) = 0 <=> t = 0)
      /\ \E c \in Nat : t = Fold(t) + c * (W - 1)
  BY <1>4, <1>8, FoldFacts
<1>10. Fold(t) \in 1 .. W - 1 /\ Congruent(t, Fold(t))
  <2>1. Congruent(t, Fold(t))
    BY <1>9 DEF Congruent
  <2> QED BY <1>2, <1>7, <1>8, <1>9, <2>1 DEF Words
<1> DEFINE F == Fold(t)
<1>11. Complement(F) = (W - 1) - F /\ F \in 1 .. W - 1
  BY <1>10 DEF Complement
<1> HIDE DEF F
<1>12. Complement(F) \in Words /\ Complement(F) # W - 1
  BY <1>2, <1>11 DEF Words
<1> QED BY <1>3, <1>4, <1>7, <1>8, <1>10, <1>11, <1>12 DEF F

\* The sums of the two byte orders.
LEMMA TotalsScale ==
  ASSUME NEW o \in Orders, NEW q \in Orders, o # q,
         NEW src \in Pair, NEW dst \in Pair, NEW p, Segment(p)
  PROVE  Congruent(ByteBase * Total(Summed(o, src, dst, p)),
                   Total(Summed(q, src, dst, p)))
<1> DEFINE u == Summed(o, src, dst, p)
           v == Summed(q, src, dst, p)
<1>1. /\ u \in Seq(Nat) /\ Len(u) = 4 + Count(p) /\ Len(u) < W
      /\ \A i \in 1 .. Len(u) : /\ SummedPair(src, dst, p, i) \in Pair
                                /\ u[i] = Word(o, SummedPair(src, dst, p, i))
                                /\ u[i] \in Words
  BY SummedWords
<1>2. /\ v \in Seq(Nat) /\ Len(v) = 4 + Count(p) /\ Len(v) < W
      /\ \A i \in 1 .. Len(v) : /\ SummedPair(src, dst, p, i) \in Pair
                                /\ v[i] = Word(q, SummedPair(src, dst, p, i))
                                /\ v[i] \in Words
  BY SummedWords
<1> HIDE DEF u, v
<1>3. Len(u) = Len(v)
  BY <1>1, <1>2
<1>4. ASSUME NEW i \in 1 .. Len(u) PROVE Congruent(ByteBase * u[i], v[i])
  BY <1>1, <1>2, <1>3, OrdersScale
<1>5. ByteBase \in Nat
  BY SumAssumption
<1>6. Congruent(ByteBase * Total(u), Total(v))
  BY <1>1, <1>2, <1>3, <1>4, <1>5, SumsScale
<1> QED BY <1>6 DEF u, v

\* A checksum stored by a host of one byte order is the checksum that a host of
\* the same or the other one computes and reads.
LEMMA ChecksumCarries ==
  ASSUME NEW o \in Orders, NEW q \in Orders,
         NEW src \in Pair, NEW dst \in Pair, NEW p, Segment(p)
  PROVE  Word(q, Store(o, Checksum(o, src, dst, p))) = Checksum(q, src, dst, p)
<1> DEFINE t == Total(Summed(o, src, dst, p))
           s == Total(Summed(q, src, dst, p))
           c == Checksum(o, src, dst, p)
           y == Checksum(q, src, dst, p)
           pr == Store(o, c)
           x == Word(q, pr)
           m == ByteBase
<1>1. /\ t \in Nat /\ Fold(t) \in 1 .. W - 1 /\ Congruent(t, Fold(t))
      /\ c = (W - 1) - Fold(t) /\ c \in Words /\ c # W - 1
  BY SegmentSum
<1>2. /\ s \in Nat /\ Fold(s) \in 1 .. W - 1 /\ Congruent(s, Fold(s))
      /\ y = (W - 1) - Fold(s) /\ y \in Words /\ y # W - 1
  BY SegmentSum
<1>3. o # q => Congruent(m * t, s)
  BY TotalsScale
<1> HIDE DEF t, s, c, y
<1>4. pr \in Pair /\ Word(o, pr) = c
  BY <1>1, StoreFacts
<1> HIDE DEF pr
<1>5. x \in Words
  BY <1>4, WordFacts
<1>6. CASE o = q
  <2>1. c = y
    BY <1>6 DEF c, y
  <2> QED BY <1>4, <1>6, <2>1 DEF pr, c, y
<1>7. CASE o # q
  <2>1. Congruent(m * c, x)
    BY <1>4, <1>7, OrdersScale
  <2>2. W \in Nat /\ W > 3 /\ m \in Nat
    BY WordCount, SumAssumption
  <2>3. /\ c \in Int /\ x \in Int /\ y \in Int /\ m \in Int /\ t \in Int /\ s \in Int
        /\ Fold(t) \in Int /\ Fold(s) \in Int /\ 0 \in Int
    BY <1>1, <1>2, <1>5, <2>2 DEF Words
  <2> HIDE DEF x, m
  <2>4. Congruent(c, 0 - Fold(t)) /\ Congruent(y, 0 - Fold(s))
    <3>1. c = (0 - Fold(t)) + 1 * (W - 1) /\ y = (0 - Fold(s)) + 1 * (W - 1)
      BY <1>1, <1>2, <2>2, <2>3
    <3> QED BY <3>1 DEF Congruent
  <2>5. Congruent(0 - t, 0 - Fold(t)) /\ Congruent(0 - s, 0 - Fold(s))
    BY <1>1, <1>2, <2>3, CongruentSame, CongruentSum
  <2>6. /\ 0 - t \in Int /\ 0 - s \in Int /\ 0 - Fold(t) \in Int
        /\ 0 - Fold(s) \in Int /\ m * c \in Int /\ m * t \in Int
        /\ m * (0 - t) \in Int /\ m * (0 - t) = 0 - m * t
    BY <2>3
  <2>7. Congruent(c, 0 - t)
    <3>1. Congruent(0 - Fold(t), 0 - t)
      BY <2>5, <2>6, CongruentBack
    <3> QED BY <2>3, <2>4, <2>6, <3>1, CongruentChain
  <2>8. Congruent(m * c, 0 - m * t)
    <3>1. Congruent(m * c, m * (0 - t))
      BY <2>3, <2>6, <2>7, CongruentProduct
    <3> QED BY <2>6, <3>1
  <2>9. Congruent(0 - m * t, 0 - s)
    BY <1>3, <1>7, <2>3, <2>6, CongruentSame, CongruentSum
  <2>10. Congruent(0 - s, y)
    <3>1. Congruent(0 - Fold(s), y)
      BY <2>3, <2>4, <2>6, CongruentBack
    <3> QED BY <2>3, <2>5, <2>6, <3>1, CongruentChain
  <2>11. Congruent(x, y)
    <3>1. 0 - m * t \in Int
      BY <2>6
    <3>2. Congruent(m * c, 0 - s)
      BY <2>6, <2>8, <2>9, <3>1, CongruentChain
    <3>3. Congruent(m * c, y)
      BY <2>3, <2>6, <2>10, <3>2, CongruentChain
    <3>4. Congruent(x, m * c)
      BY <2>1, <2>3, <2>6, CongruentBack
    <3> QED BY <2>3, <2>6, <3>3, <3>4, CongruentChain
  <2>12. PICK d \in Int : x - y = d * (W - 1)
    <3>1. PICK d \in Int : x = y + d * (W - 1)
      BY <2>11 DEF Congruent
    <3>2. d * (W - 1) \in Int
      BY <2>2
    <3>3. x - y = d * (W - 1)
      BY <2>3, <3>1, <3>2
    <3> QED BY <3>3
  <2>13. x = y \/ {x, y} = {0, W - 1}
    BY <1>2, <1>5, <2>12, CongruentWords, Zenon DEF x
  <2>14. x # W - 1
    BY <1>1, <1>4, AllOnes DEF x
  <2>15. x = y
    BY <1>2, <2>13, <2>14
  <2> QED BY <2>15 DEF x, pr, c, y
<1> QED BY <1>6, <1>7


----------------------------------------------------------------------------
(* Segments that differ in one word.                                       *)

\* Sequences with the same elements are the same.
LEMMA SameWords ==
  ASSUME NEW u \in Seq(Nat), NEW v \in Seq(Nat), Len(u) = Len(v),
         \A i \in 1 .. Len(u) : u[i] = v[i]
  PROVE  u = v
<1>1. u = [i \in 1 .. Len(u) |-> u[i]] /\ v = [i \in 1 .. Len(v) |-> v[i]]
  OBVIOUS
<1> QED BY <1>1

\* A field filled in.
LEMMA FillFacts ==
  ASSUME NEW p, Segment(p), NEW i \in 1 .. Len(p) - 1, NEW pair \in Pair,
         NEW q, q = Fill(p, i, pair)
  PROVE  /\ Segment(q) /\ Len(q) = Len(p)
         /\ q[i] = pair[1] /\ q[i + 1] = pair[2] /\ Pairs(q, i) = pair
         /\ \A j \in 1 .. Len(p) : j # i /\ j # i + 1 => q[j] = p[j]
<1> DEFINE n == Len(p)
<1>1. /\ n \in Nat /\ p \in [1 .. n -> Byte] /\ n \in HeaderLen .. W - 1
      /\ i \in 1 .. n - 1 /\ p \in Seq(Byte)
  BY DEF Segment
<1>2. pair[1] \in Byte /\ pair[2] \in Byte /\ pair = << pair[1], pair[2] >>
  BY DEF Pair
<1> DEFINE r == [p EXCEPT ![i] = pair[1]]
<1>3. q = [r EXCEPT ![i + 1] = pair[2]]
  BY DEF Fill
<1> HIDE DEF n
<1>4. i \in 1 .. n /\ i + 1 \in 1 .. n /\ i + 1 # i
  BY <1>1
<1>5. /\ r \in [1 .. n -> Byte] /\ r[i] = pair[1]
      /\ \A j \in 1 .. n : j # i => r[j] = p[j]
  BY <1>1, <1>2, <1>4
<1> HIDE DEF r
<1>6. /\ q \in [1 .. n -> Byte] /\ q[i + 1] = pair[2]
      /\ \A j \in 1 .. n : j # i + 1 => q[j] = r[j]
  BY <1>2, <1>3, <1>4, <1>5
<1>7. q \in Seq(Byte) /\ Len(q) = n
  BY <1>1, <1>6
<1>8. Segment(q)
  BY <1>1, <1>7 DEF Segment
<1>9. q[i] = pair[1] /\ \A j \in 1 .. n : j # i /\ j # i + 1 => q[j] = p[j]
  BY <1>4, <1>5, <1>6
<1>10. Pairs(q, i) = pair
  BY <1>2, <1>6, <1>9 DEF Pairs
<1> QED BY <1>6, <1>7, <1>8, <1>9, <1>10 DEF n

\* The bytes of two words are different ones.
LEMMA Apart ==
  ASSUME NEW j \in Nat, NEW k \in Nat, j # k
  PROVE  /\ 2 * j - 1 # 2 * k - 1 /\ 2 * j - 1 # (2 * k - 1) + 1
         /\ (2 * j - 1) + 1 # 2 * k - 1 /\ (2 * j - 1) + 1 # (2 * k - 1) + 1
  OBVIOUS

\* Two segments with the same pairs to sum have the same checksum.
LEMMA SameChecksum ==
  ASSUME NEW o \in Orders, NEW src \in Pair, NEW dst \in Pair,
         NEW p, Segment(p), NEW q, Segment(q), Len(p) = Len(q),
         \A k \in 1 .. Count(p) : ContentPair(p, k) = ContentPair(q, k)
  PROVE  Checksum(o, src, dst, p) = Checksum(o, src, dst, q)
<1>1. Count(p) = Count(q)
  BY DEF Count
<1>2. /\ Contents(o, p) \in Seq(Nat) /\ Len(Contents(o, p)) = Count(p)
      /\ \A k \in 1 .. Count(p) : /\ ContentPair(p, k) \in Pair
                                  /\ Contents(o, p)[k] = Word(o, ContentPair(p, k))
  BY ContentWords
<1>3. /\ Contents(o, q) \in Seq(Nat) /\ Len(Contents(o, q)) = Count(q)
      /\ \A k \in 1 .. Count(q) : /\ ContentPair(q, k) \in Pair
                                  /\ Contents(o, q)[k] = Word(o, ContentPair(q, k))
  BY ContentWords
<1>4. Contents(o, p) = Contents(o, q)
  BY <1>1, <1>2, <1>3, SameWords
<1> QED BY <1>4 DEF Checksum

\* th_sum is not summed.
LEMMA SumFieldFree ==
  ASSUME NEW o \in Orders, NEW src \in Pair, NEW dst \in Pair,
         NEW p, Segment(p), NEW pair \in Pair
  PROVE  Checksum(o, src, dst, Fill(p, th_sum, pair)) = Checksum(o, src, dst, p)
<1> DEFINE q == Fill(p, th_sum, pair)
<1>1. Len(p) \in Nat /\ Len(p) >= 10 /\ th_sum \in 1 .. Len(p) - 1
  BY WordCount DEF Segment, HeaderLen, th_sum
<1>2. /\ Segment(q) /\ Len(q) = Len(p)
      /\ \A j \in 1 .. Len(p) : j # th_sum /\ j # th_sum + 1 => q[j] = p[j]
  BY <1>1, FillFacts
<1> HIDE DEF q
<1>3. ASSUME NEW k \in 1 .. Count(p) PROVE ContentPair(p, k) = ContentPair(q, k)
  <2> DEFINE n == Len(p)
             h == n \div 2
             r == n % 2
  <2>1. /\ h \in Nat /\ r \in {0, 1} /\ n = 2 * h + r
        /\ \A j \in 1 .. h : 2 * j - 1 \in 1 .. n /\ 2 * j \in 1 .. n
    BY <1>1, Halves
  <2>2. Count(p) = h + r
    BY DEF Count
  <2>3. /\ ContentPair(p, k) = IF k > h THEN << p[n], 0 >>
             ELSE IF 2 * k - 1 = th_sum THEN << 0, 0 >> ELSE Pairs(p, 2 * k - 1)
        /\ ContentPair(q, k) = IF k > h THEN << q[n], 0 >>
             ELSE IF 2 * k - 1 = th_sum THEN << 0, 0 >> ELSE Pairs(q, 2 * k - 1)
    BY <1>2 DEF ContentPair
  <2>4. n \in Nat /\ n >= 10 /\ k \in Nat /\ k >= 1
    BY <1>1, <2>1, <2>2
  <2> HIDE DEF n, h, r
  <2>5. CASE k > h
    <3>1. n \in 1 .. n /\ n # th_sum /\ n # th_sum + 1
      BY <2>4 DEF th_sum
    <3> QED BY <1>2, <2>3, <2>5, <3>1 DEF n
  <2>6. CASE ~(k > h) /\ 2 * k - 1 # th_sum
    <3>1. k \in 1 .. h /\ (2 * k - 1) + 1 = 2 * k
      BY <2>1, <2>4, <2>6
    <3>2. 2 * k - 1 \in 1 .. n /\ 2 * k \in 1 .. n
      BY <2>1, <3>1
    <3>3. 2 * k - 1 # th_sum + 1 /\ 2 * k # th_sum /\ 2 * k # th_sum + 1
      BY <2>4, <2>6 DEF th_sum
    <3>4. q[2 * k - 1] = p[2 * k - 1] /\ q[2 * k] = p[2 * k]
      BY <1>2, <2>6, <3>2, <3>3 DEF n
    <3>5. Pairs(q, 2 * k - 1) = Pairs(p, 2 * k - 1)
      BY <3>1, <3>4 DEF Pairs
    <3> QED BY <2>3, <2>6, <3>5
  <2>7. CASE ~(k > h) /\ 2 * k - 1 = th_sum
    BY <2>3, <2>7
  <2> QED BY <2>5, <2>6, <2>7
<1>4. Checksum(o, src, dst, p) = Checksum(o, src, dst, q)
  BY <1>2, <1>3, SameChecksum
<1> QED BY <1>4 DEF q

\* A changed word changes the checksum, unless it went from all zeros to all
\* ones or back.
LEMMA WordChanged ==
  ASSUME NEW o \in Orders, NEW src \in Pair, NEW dst \in Pair,
         NEW p, Segment(p), NEW q, Segment(q), Len(p) = Len(q),
         NEW k \in 1 .. Count(p),
         \A i \in 1 .. Count(p) : i # k => ContentPair(p, i) = ContentPair(q, i),
         Checksum(o, src, dst, p) = Checksum(o, src, dst, q)
  PROVE  \/ ContentPair(p, k) = ContentPair(q, k)
         \/ {ContentPair(p, k), ContentPair(q, k)}
              = {<< 0, 0 >>, << ByteBase - 1, ByteBase - 1 >>}
<1> DEFINE u == Summed(o, src, dst, p)
           v == Summed(o, src, dst, q)
           c == Count(p)
<1>1. /\ u \in Seq(Nat) /\ Len(u) = 4 + Count(p) /\ Len(u) < W
      /\ \A i \in 1 .. Len(u) : /\ SummedPair(src, dst, p, i) \in Pair
                                /\ u[i] = Word(o, SummedPair(src, dst, p, i))
                                /\ u[i] \in Words
  BY SummedWords
<1>2. /\ v \in Seq(Nat) /\ Len(v) = 4 + Count(q) /\ Len(v) < W
      /\ \A i \in 1 .. Len(v) : /\ SummedPair(src, dst, q, i) \in Pair
                                /\ v[i] = Word(o, SummedPair(src, dst, q, i))
                                /\ v[i] \in Words
  BY SummedWords
<1>3. Count(q) = c
  BY DEF Count
<1>4. c \in Nat /\ k \in 1 .. c
  <2>1. Len(p) \in Nat
    BY DEF Segment
  <2>2. Len(p) \div 2 \in Nat /\ Len(p) % 2 \in {0, 1}
    BY <2>1, Halves
  <2> QED BY <2>2 DEF Count
<1> DEFINE t == Total(u)
           s == Total(v)
<1>5. /\ t \in Nat /\ t < W * W /\ t # 0
      /\ Fold(t) \in 1 .. W - 1 /\ Congruent(t, Fold(t))
      /\ Checksum(o, src, dst, p) = (W - 1) - Fold(t)
      /\ Checksum(o, src, dst, p) \in Words /\ Checksum(o, src, dst, p) # W - 1
  BY SegmentSum
<1>6. /\ s \in Nat /\ s < W * W /\ s # 0
      /\ Fold(s) \in 1 .. W - 1 /\ Congruent(s, Fold(s))
      /\ Checksum(o, src, dst, q) = (W - 1) - Fold(s)
      /\ Checksum(o, src, dst, q) \in Words /\ Checksum(o, src, dst, q) # W - 1
  BY SegmentSum
<1>7. Complement(Fold(t)) = Complement(Fold(s))
  <2>1. (W - 1) - Fold(t) = (W - 1) - Fold(s)
    BY <1>5, <1>6
  <2> HIDE DEF t, s
  <2> QED BY <2>1 DEF Complement
<1> HIDE DEF u, v, c
<1> DEFINE j == 4 + k
<1>8. j \in 1 .. Len(u) /\ Len(u) = Len(v) /\ j \in Nat /\ ~(j <= 4) /\ j - 4 = k
  BY <1>1, <1>2, <1>3, <1>4 DEF c
<1>9. SummedPair(src, dst, p, j) = ContentPair(p, k)
      /\ SummedPair(src, dst, q, j) = ContentPair(q, k)
  BY <1>8 DEF SummedPair
<1> HIDE DEF j
<1>10. ASSUME NEW i \in 1 .. Len(u), i # j PROVE u[i] = v[i]
  <2>1. SummedPair(src, dst, p, i) = SummedPair(src, dst, q, i)
    <3>1. CASE i <= 4
      BY <3>1 DEF SummedPair, HeaderPair
    <3>2. CASE ~(i <= 4)
      <4>1. i - 4 \in 1 .. c /\ i - 4 # k
        BY <1>1, <1>4, <1>8, <1>10, <3>2 DEF c, j
      <4> QED BY <3>2, <4>1 DEF SummedPair, c
    <3> QED BY <3>1, <3>2
  <2> QED BY <1>1, <1>2, <1>8, <2>1
<1>11. PICK rest \in Nat : t = rest + u[j] /\ s = rest + v[j]
  BY <1>1, <1>2, <1>8, <1>10, SumsDiffer
<1>12. u[j] = v[j] \/ {u[j], v[j]} = {0, W - 1}
  <2> DEFINE a == u[j]
             b == v[j]
  <2>1. a \in Words /\ b \in Words
    BY <1>1, <1>2, <1>8
  <2>2. t = rest + a /\ s = rest + b
    BY <1>11
  <2> HIDE DEF a, b, t, s
  <2>3. rest + a < W * W /\ rest + b < W * W
        /\ Complement(Fold(rest + a)) = Complement(Fold(rest + b))
    BY <1>5, <1>6, <1>7, <2>2
  <2>4. a = b \/ {a, b} = {0, W - 1}
    BY <2>1, <2>3, OneWordNoticed
  <2> QED BY <2>4 DEF a, b
<1> DEFINE x == ContentPair(p, k)
           y == ContentPair(q, k)
<1>13. /\ u[j] = Word(o, x) /\ v[j] = Word(o, y) /\ x \in Pair /\ y \in Pair
  BY <1>1, <1>2, <1>8, <1>9
<1> HIDE DEF x, y
<1>14. CASE u[j] = v[j]
  <2>1. x = y
    BY <1>13, <1>14, WordFacts
  <2> QED BY <2>1 DEF x, y
<1>15. CASE {u[j], v[j]} = {0, W - 1}
  <2>1. \/ u[j] = 0 /\ v[j] = W - 1
        \/ u[j] = W - 1 /\ v[j] = 0
    BY <1>15, WordCount
  <2>2. \/ x = << 0, 0 >> /\ y = << ByteBase - 1, ByteBase - 1 >>
        \/ x = << ByteBase - 1, ByteBase - 1 >> /\ y = << 0, 0 >>
    BY <1>13, <2>1, AllOnes
  <2>3. {x, y} = {<< 0, 0 >>, << ByteBase - 1, ByteBase - 1 >>}
    BY <2>2, Zenon
  <2> QED BY <2>3 DEF x, y
<1> QED BY <1>12, <1>14, <1>15


----------------------------------------------------------------------------
(* The invariant.                                                          *)

\* One word of the packet, or its last byte, may have changed on the way.
Damaged ==
  \/ packet = sent
  \/ \E k \in 1 .. Len(sent) \div 2, pair \in Pair :
       pair # Pairs(sent, 2 * k - 1) /\ packet = Fill(sent, 2 * k - 1, pair)
  \/ /\ Len(sent) % 2 = 1
     /\ \E b \in Byte \ {sent[Len(sent)]} :
          packet = [sent EXCEPT ![Len(sent)] = b]

\* What was sent is a segment with its checksum.
Sealed ==
  /\ Segment(sent)
  /\ Pairs(sent, th_sum) =
       Store(order["sender"], Checksum(order["sender"], local["sender"],
                                       peer_addr["sender"], sent))

IInv ==
  /\ order \in [Hosts -> Orders]
  /\ local \in [Hosts -> Addresses] /\ peer_addr \in [Hosts -> Addresses]
  /\ pc = "made" => Segment(packet)
  /\ pc # "made" => Sealed /\ Damaged
  /\ pc = "received" => VerifyChecksum("receiver", packet)
  /\ pc = "failed" => ~VerifyChecksum("receiver", packet)

LEMMA HostFacts ==
  ASSUME IInv, NEW h \in Hosts
  PROVE  order[h] \in Orders /\ local[h] \in Pair /\ peer_addr[h] \in Pair
  BY SegmentAssumption DEF IInv

\* Bytes after bytes.
LEMMA ByteSeq ==
  ASSUME NEW S, NEW m \in Nat, NEW f \in [1 .. m -> S]
  PROVE  f \in Seq(S) /\ Len(f) = m
  OBVIOUS

LEMMA ByteSeqs ==
  ASSUME NEW S, NEW a \in Seq(S), NEW b \in Seq(S)
  PROVE  a \o b \in Seq(S) /\ Len(a \o b) = Len(a) + Len(b)
  OBVIOUS

LEMMA InitStep == Init => IInv
<1> SUFFICES ASSUME Init PROVE IInv
  OBVIOUS
<1>1. PICK seq \in Seqs, unset \in {0, ByteBase - 1}, n \in 0 .. MaxPayload :
        \E payload \in [1 .. n -> Byte] :
          packet = Fill([i \in 1 .. HeaderLen |-> unset], th_seq, seq) \o payload
  BY DEF Init
<1>2. PICK payload \in [1 .. n -> Byte] :
        packet = Fill([i \in 1 .. HeaderLen |-> unset], th_seq, seq) \o payload
  BY <1>1
<1> DEFINE e == [i \in 1 .. HeaderLen |-> unset]
           a == Fill(e, th_seq, seq)
<1>3. /\ MaxPayload \in Nat /\ HeaderLen + MaxPayload < W /\ seq \in Pair
      /\ W \in Nat /\ unset \in Byte
  BY SumAssumption, SegmentAssumption, WordCount DEF Byte
<1>4. e \in [1 .. HeaderLen -> Byte] /\ HeaderLen = 10
  BY <1>3 DEF HeaderLen
<1>5. seq[1] \in Byte /\ seq[2] \in Byte
  BY <1>3 DEF Pair
<1> HIDE DEF e
<1>6. a \in [1 .. HeaderLen -> Byte]
  BY <1>4, <1>5 DEF Fill, th_seq
<1> HIDE DEF a
<1>7. a \in Seq(Byte) /\ Len(a) = HeaderLen /\ payload \in Seq(Byte) /\ Len(payload) = n
  <2>1. n \in Nat /\ HeaderLen \in Nat
    BY <1>3, <1>4
  <2>2. a \in Seq(Byte) /\ Len(a) = HeaderLen
    BY <1>6, <2>1, ByteSeq, Zenon
  <2>3. payload \in Seq(Byte) /\ Len(payload) = n
    BY <2>1, ByteSeq, Zenon
  <2> QED BY <2>2, <2>3
<1>8. packet = a \o payload
  BY <1>2 DEF a, e
<1>9. a \o payload \in Seq(Byte) /\ Len(a \o payload) = HeaderLen + n
  BY <1>7, ByteSeqs
<1>10. Segment(packet)
  BY <1>3, <1>8, <1>9 DEF Segment, HeaderLen
<1> QED BY <1>10 DEF Init, IInv

LEMMA SendStep == ASSUME IInv, Send PROVE IInv'
<1> DEFINE o == order["sender"]
           src == local["sender"]
           dst == peer_addr["sender"]
           p1 == Fill(packet, th_sport, Ports["sender"])
           p2 == Fill(p1, th_dport, Ports["receiver"])
           p3 == Fill(p2, th_sum, << 0, 0 >>)
           p4 == Fill(p3, th_urp, << 0, 0 >>)
           c == Checksum(o, src, dst, p4)
           p5 == Fill(p4, th_sum, Store(o, c))
<1>1. o \in Orders /\ src \in Pair /\ dst \in Pair
  BY HostFacts DEF Hosts
<1>2. packet' = p5
  BY DEF Send, SetChecksum, NetworkGetLocalAddr
<1>3. Ports["sender"] \in Pair /\ Ports["receiver"] \in Pair /\ << 0, 0 >> \in Pair
  BY SumAssumption, SegmentAssumption DEF Hosts, Pair, Byte
<1>4. \A p : Segment(p) =>
        /\ th_sport \in 1 .. Len(p) - 1 /\ th_dport \in 1 .. Len(p) - 1
        /\ th_sum \in 1 .. Len(p) - 1 /\ th_urp \in 1 .. Len(p) - 1
  BY WordCount DEF Segment, HeaderLen, th_sport, th_dport, th_sum, th_urp
<1>5. Segment(packet)
  BY DEF IInv, Send
<1> HIDE DEF o, src, dst
<1>6. Segment(p1)
  BY <1>3, <1>4, <1>5, FillFacts
<1> HIDE DEF p1
<1>7. Segment(p2)
  BY <1>3, <1>4, <1>6, FillFacts
<1> HIDE DEF p2
<1>8. Segment(p3)
  BY <1>3, <1>4, <1>7, FillFacts
<1> HIDE DEF p3
<1>9. Segment(p4)
  BY <1>3, <1>4, <1>8, FillFacts
<1> HIDE DEF p4
<1>10. c \in Words
  BY <1>1, <1>9, SegmentSum
<1>11. Store(o, c) \in Pair
  <2> HIDE DEF c
  <2> QED BY <1>1, <1>10, StoreFacts
<1>12. Checksum(o, src, dst, p5) = c
  BY <1>1, <1>9, <1>11, SumFieldFree
<1>13. Segment(p5) /\ Pairs(p5, th_sum) = Store(o, c)
  <2> HIDE DEF c
  <2>1. th_sum \in 1 .. Len(p4) - 1
    BY <1>4, <1>9
  <2> QED BY <1>9, <1>11, <2>1, FillFacts
<1> HIDE DEF c, p5
<1>14. UNCHANGED << order, local, peer_addr >> /\ sent' = packet' /\ pc' = "sent"
  BY DEF Send
<1>15. Sealed'
  BY <1>2, <1>12, <1>13, <1>14 DEF Sealed, o, src, dst
<1>16. Damaged'
  BY <1>14 DEF Damaged
<1> QED BY <1>14, <1>15, <1>16 DEF IInv

LEMMA Invariance == ASSUME IInv, [Next]_vars PROVE IInv'
<1>1. CASE Send
  BY <1>1, SendStep
<1>2. CASE Damage
  <2>1. /\ UNCHANGED << order, local, peer_addr, sent, pc >> /\ pc = "sent"
        /\ packet = sent
    BY <1>2 DEF Damage
  <2>2. Damaged'
    BY <1>2, <2>1 DEF Damage, Damaged
  <2>3. Sealed'
    BY <2>1 DEF IInv, Sealed
  <2> QED BY <2>1, <2>2, <2>3 DEF IInv
<1>3. CASE Recv
  <2>1. /\ UNCHANGED << order, local, peer_addr, packet, sent >> /\ pc = "sent"
        /\ pc' = IF VerifyChecksum("receiver", packet) THEN "received" ELSE "failed"
    BY <1>3 DEF Recv
  <2>2. Damaged' /\ Sealed'
    BY <2>1 DEF IInv, Sealed, Damaged
  <2>3. VerifyChecksum("receiver", packet)' <=> VerifyChecksum("receiver", packet)
    BY <2>1 DEF VerifyChecksum, NetworkGetLocalAddr
  <2> QED BY <2>1, <2>2, <2>3 DEF IInv
<1>4. CASE UNCHANGED vars
  <2>1. UNCHANGED << order, local, peer_addr, packet, sent, pc >>
    BY <1>4 DEF vars
  <2>2. /\ Damaged' <=> Damaged
        /\ Sealed' <=> Sealed
        /\ VerifyChecksum("receiver", packet)' <=> VerifyChecksum("receiver", packet)
    BY <2>1 DEF Damaged, Sealed, VerifyChecksum, NetworkGetLocalAddr
  <2> QED BY <2>1, <2>2 DEF IInv
<1> QED BY <1>1, <1>2, <1>3, <1>4 DEF Next

\* What the receiver checks.
LEMMA Verified ==
  ASSUME IInv, SingleHomed, NEW q, q = order["receiver"],
         NEW src, src = local["sender"], NEW dst, dst = peer_addr["sender"]
  PROVE  /\ q \in Orders /\ src \in Pair /\ dst \in Pair
         /\ VerifyChecksum("receiver", packet) <=>
              Checksum(q, src, dst, packet) = Word(q, Pairs(packet, th_sum))
         /\ pc # "made" => Word(q, Pairs(sent, th_sum)) = Checksum(q, src, dst, sent)
<1>1. Other("sender") = "receiver" /\ Other("receiver") = "sender"
  BY DEF Other, Hosts
<1>2. peer_addr["receiver"] = src /\ dst = local["receiver"]
  BY <1>1 DEF SingleHomed, Hosts
<1>3. /\ q \in Orders /\ src \in Pair /\ dst \in Pair
      /\ order["sender"] \in Orders
  BY HostFacts DEF Hosts
<1>4. VerifyChecksum("receiver", packet) <=>
        Checksum(q, src, dst, packet) = Word(q, Pairs(packet, th_sum))
  BY <1>2 DEF VerifyChecksum, NetworkGetLocalAddr
<1>5. ASSUME pc # "made"
      PROVE  Word(q, Pairs(sent, th_sum)) = Checksum(q, src, dst, sent)
  BY <1>3, <1>5, ChecksumCarries DEF IInv, Sealed
<1> QED BY <1>3, <1>4, <1>5

\* A word that was damaged is noticed, or it was SameSum.
LEMMA WordDamaged ==
  ASSUME NEW q \in Orders, NEW src \in Pair, NEW dst \in Pair, Segment(sent),
         NEW k \in 1 .. Len(sent) \div 2, NEW pair \in Pair,
         pair # Pairs(sent, 2 * k - 1), packet = Fill(sent, 2 * k - 1, pair),
         Checksum(q, src, dst, packet) = Word(q, Pairs(packet, th_sum)),
         Word(q, Pairs(sent, th_sum)) = Checksum(q, src, dst, sent)
  PROVE  SameSum
<1> DEFINE n == Len(sent)
           h == n \div 2
           r == n % 2
<1>1. n \in Nat /\ n >= 10 /\ \A i \in 1 .. n : sent[i] \in Byte
  BY WordCount DEF Segment, HeaderLen
<1>2. /\ h \in Nat /\ r \in {0, 1} /\ n = 2 * h + r
      /\ \A j \in 1 .. h : 2 * j - 1 \in 1 .. n /\ 2 * j \in 1 .. n
  BY <1>1, Halves
<1>3. k \in 1 .. h /\ Count(sent) = h + r
  BY DEF Count
<1> HIDE DEF n, h, r
<1>4. 2 * k - 1 \in 1 .. n - 1 /\ k \in Nat
  BY <1>1, <1>2, <1>3
<1>5. /\ Segment(packet) /\ Len(packet) = n /\ Pairs(packet, 2 * k - 1) = pair
      /\ \A j \in 1 .. n : j # 2 * k - 1 /\ j # (2 * k - 1) + 1 =>
           packet[j] = sent[j]
  BY <1>4, FillFacts DEF n
<1>6. CASE 2 * k - 1 = th_sum
  <2>1. Checksum(q, src, dst, packet) = Checksum(q, src, dst, sent)
    BY <1>6, SumFieldFree
  <2>2. Pairs(sent, th_sum) \in Pair
    <3>1. sent[th_sum] \in Byte /\ sent[th_sum + 1] \in Byte
      BY <1>1 DEF th_sum
    <3> QED BY <3>1 DEF Pairs, Pair
  <2>3. Word(q, pair) = Word(q, Pairs(sent, th_sum))
    BY <1>5, <1>6, <2>1
  <2>4. pair = Pairs(sent, th_sum)
    BY <2>2, <2>3, WordFacts
  <2> QED BY <1>6, <2>4
<1>7. CASE 2 * k - 1 # th_sum
  <2>1. Pairs(packet, th_sum) = Pairs(sent, th_sum)
    <3>1. /\ 7 \in 1 .. n /\ 8 \in 1 .. n /\ 7 # 2 * k - 1 /\ 8 # 2 * k - 1
          /\ 7 # (2 * k - 1) + 1 /\ 8 # (2 * k - 1) + 1
      BY <1>1, <1>4, <1>7 DEF th_sum
    <3>2. packet[7] = sent[7] /\ packet[8] = sent[8]
      BY <1>5, <3>1
    <3> QED BY <3>2 DEF Pairs, th_sum
  <2>2. Checksum(q, src, dst, sent) = Checksum(q, src, dst, packet)
    BY <2>1
  <2>3. ASSUME NEW i \in 1 .. Count(sent), i # k
        PROVE  ContentPair(sent, i) = ContentPair(packet, i)
    <3>1. /\ ContentPair(sent, i) = IF i > h THEN << sent[n], 0 >>
               ELSE IF 2 * i - 1 = th_sum THEN << 0, 0 >> ELSE Pairs(sent, 2 * i - 1)
          /\ ContentPair(packet, i) = IF i > h THEN << packet[n], 0 >>
               ELSE IF 2 * i - 1 = th_sum THEN << 0, 0 >> ELSE Pairs(packet, 2 * i - 1)
      BY <1>5 DEF ContentPair, n, h
    <3>2. i \in Nat /\ i >= 1 /\ i <= h + r
      BY <1>2, <1>3
    <3>3. CASE i > h
      <4>1. r = 1
        BY <1>2, <3>2, <3>3
      <4>2. n \in 1 .. n /\ n # 2 * k - 1 /\ n # (2 * k - 1) + 1
        BY <1>1, <1>2, <1>3, <4>1
      <4>3. packet[n] = sent[n]
        BY <1>5, <4>2
      <4> QED BY <3>1, <3>3, <4>3
    <3>4. CASE ~(i > h)
      <4>1. i \in 1 .. h /\ (2 * i - 1) + 1 = 2 * i
        BY <1>2, <3>2, <3>4
      <4>2. 2 * i - 1 \in 1 .. n /\ 2 * i \in 1 .. n
        BY <1>2, <4>1
      <4>3. /\ 2 * i - 1 # 2 * k - 1 /\ 2 * i - 1 # (2 * k - 1) + 1
            /\ (2 * i - 1) + 1 # 2 * k - 1 /\ (2 * i - 1) + 1 # (2 * k - 1) + 1
        BY <1>4, <2>3, <3>2, Apart
      <4>4. packet[2 * i - 1] = sent[2 * i - 1] /\ packet[2 * i] = sent[2 * i]
        BY <1>5, <4>1, <4>2, <4>3
      <4>5. Pairs(packet, 2 * i - 1) = Pairs(sent, 2 * i - 1)
        BY <4>1, <4>4 DEF Pairs
      <4> QED BY <3>1, <3>4, <4>5
    <3> QED BY <3>3, <3>4
  <2>4. k \in 1 .. Count(sent)
    BY <1>2, <1>3
  <2>5. \/ ContentPair(sent, k) = ContentPair(packet, k)
        \/ {ContentPair(sent, k), ContentPair(packet, k)}
             = {<< 0, 0 >>, << ByteBase - 1, ByteBase - 1 >>}
    <3>1. Len(sent) = Len(packet)
      BY <1>5 DEF n
    <3> QED BY <1>5, <2>2, <2>3, <2>4, <3>1, WordChanged
  <2>6. ~(k > h)
    BY <1>2, <1>3
  <2>7. /\ ContentPair(sent, k) = Pairs(sent, 2 * k - 1)
        /\ ContentPair(packet, k) = Pairs(packet, 2 * k - 1)
    BY <1>5, <1>7, <2>6 DEF ContentPair, n, h
  <2>8. {Pairs(packet, 2 * k - 1), Pairs(sent, 2 * k - 1)}
          = {<< 0, 0 >>, << ByteBase - 1, ByteBase - 1 >>}
    BY <1>5, <2>5, <2>7
  <2>9. k \in 1 .. Len(packet) \div 2
    BY <1>3, <1>5 DEF h
  <2> QED BY <1>7, <2>8, <2>9 DEF SameSum
<1> QED BY <1>6, <1>7

\* The packet with another last byte.
LastByte(p, b) == [p EXCEPT ![Len(p)] = b]

\* A damaged last byte is noticed.
LEMMA ByteDamaged ==
  ASSUME NEW q \in Orders, NEW src \in Pair, NEW dst \in Pair, Segment(sent),
         Len(sent) % 2 = 1, NEW b \in Byte, b # sent[Len(sent)],
         packet = LastByte(sent, b),
         Checksum(q, src, dst, packet) = Word(q, Pairs(packet, th_sum)),
         Word(q, Pairs(sent, th_sum)) = Checksum(q, src, dst, sent)
  PROVE  FALSE
<1> DEFINE n == Len(sent)
           h == n \div 2
<1>1. /\ n \in Nat /\ n >= 10 /\ sent \in [1 .. n -> Byte] /\ sent \in Seq(Byte)
      /\ n \in HeaderLen .. W - 1
  BY WordCount DEF Segment, HeaderLen
<1>2. /\ h \in Nat /\ n = 2 * h + 1
      /\ \A j \in 1 .. h : 2 * j - 1 \in 1 .. n /\ 2 * j \in 1 .. n
  BY <1>1, Halves
<1>3. Count(sent) = h + 1
  BY DEF Count
<1>4. packet = [sent EXCEPT ![n] = b] /\ b # sent[n]
  BY DEF LastByte
<1> HIDE DEF n, h
<1>5. n \in 1 .. n
  BY <1>1
<1>6. /\ packet \in [1 .. n -> Byte] /\ packet[n] = b
      /\ \A j \in 1 .. n : j # n => packet[j] = sent[j]
  BY <1>1, <1>4, <1>5
<1>7. packet \in Seq(Byte) /\ Len(packet) = n
  BY <1>1, <1>6
<1>8. Segment(packet)
  BY <1>1, <1>7 DEF Segment
<1>9. Pairs(packet, th_sum) = Pairs(sent, th_sum)
  <2>1. 7 \in 1 .. n /\ 8 \in 1 .. n /\ 7 # n /\ 8 # n
    BY <1>1
  <2>2. packet[7] = sent[7] /\ packet[8] = sent[8]
    BY <1>6, <2>1
  <2> QED BY <2>2 DEF Pairs, th_sum
<1>10. Checksum(q, src, dst, sent) = Checksum(q, src, dst, packet)
  BY <1>9
<1> DEFINE k == h + 1
<1>11. ASSUME NEW i \in 1 .. Count(sent), i # k
       PROVE  ContentPair(sent, i) = ContentPair(packet, i)
  <2>1. i \in 1 .. h /\ ~(i > h) /\ (2 * i - 1) + 1 = 2 * i
    BY <1>2, <1>3, <1>11
  <2>2. 2 * i - 1 \in 1 .. n /\ 2 * i \in 1 .. n /\ 2 * i - 1 # n /\ 2 * i # n
    BY <1>2, <2>1
  <2>3. packet[2 * i - 1] = sent[2 * i - 1] /\ packet[2 * i] = sent[2 * i]
    BY <1>6, <2>2
  <2>4. Pairs(packet, 2 * i - 1) = Pairs(sent, 2 * i - 1)
    BY <2>1, <2>3 DEF Pairs
  <2> QED BY <1>7, <2>1, <2>4 DEF ContentPair, n, h
<1>12. k \in 1 .. Count(sent) /\ k > h
  BY <1>2, <1>3
<1>13. ContentPair(sent, k) = << sent[n], 0 >> /\ ContentPair(packet, k) = << b, 0 >>
  BY <1>6, <1>7, <1>12 DEF ContentPair, n, h
<1> HIDE DEF k
<1>14. \/ ContentPair(sent, k) = ContentPair(packet, k)
       \/ {ContentPair(sent, k), ContentPair(packet, k)}
            = {<< 0, 0 >>, << ByteBase - 1, ByteBase - 1 >>}
  <2>1. Len(sent) = Len(packet)
    BY <1>7 DEF n
  <2>2. \A i \in 1 .. Count(sent) : i # k => ContentPair(sent, i) = ContentPair(packet, i)
    BY <1>11
  <2>3. k \in 1 .. Count(sent)
    BY <1>12
  <2> QED BY <1>8, <1>10, <2>1, <2>2, <2>3, WordChanged
<1>15. << sent[n], 0 >> # << b, 0 >>
  BY <1>4
<1>16. ByteBase - 1 # 0
  BY SumAssumption
<1>17. /\ << sent[n], 0 >> # << ByteBase - 1, ByteBase - 1 >>
       /\ << b, 0 >> # << ByteBase - 1, ByteBase - 1 >>
  BY <1>16
<1> QED BY <1>13, <1>14, <1>15, <1>17, Zenon

\* A segment of any length, from a host of either byte order to a host of either
\* byte order, passes the assertion of stcp_network_recv() if it arrives as it
\* was sent, and does not if one word or its last byte changed, unless SameSum
\* (_mysock_tcp_checksum(), _mysock_set_checksum(), _mysock_verify_checksum()).
THEOREM ChecksumCorrect == Spec => []ChecksumDecides
<1>1. Init => IInv
  BY InitStep
<1>2. IInv /\ [Next]_vars => IInv'
  BY Invariance
<1>3. IInv => ChecksumDecides
  <2> SUFFICES ASSUME IInv, SingleHomed
               PROVE  /\ pc = "failed" => packet # sent
                      /\ pc = "received" => packet = sent \/ SameSum
    BY DEF ChecksumDecides
  <2> DEFINE q == order["receiver"]
             src == local["sender"]
             dst == peer_addr["sender"]
  <2>1. /\ q \in Orders /\ src \in Pair /\ dst \in Pair
        /\ VerifyChecksum("receiver", packet) <=>
             Checksum(q, src, dst, packet) = Word(q, Pairs(packet, th_sum))
        /\ pc # "made" => Word(q, Pairs(sent, th_sum)) = Checksum(q, src, dst, sent)
    BY Verified
  <2> HIDE DEF q, src, dst
  <2>2. ASSUME pc = "failed" PROVE packet # sent
    <3>1. ~VerifyChecksum("receiver", packet)
      BY <2>2 DEF IInv
    <3> QED BY <2>1, <2>2, <3>1
  <2>3. ASSUME pc = "received", packet # sent PROVE SameSum
    <3>1. /\ Checksum(q, src, dst, packet) = Word(q, Pairs(packet, th_sum))
          /\ Word(q, Pairs(sent, th_sum)) = Checksum(q, src, dst, sent)
          /\ Segment(sent) /\ Damaged
      BY <2>1, <2>3 DEF IInv, Sealed
    <3>2. ASSUME NEW k \in 1 .. Len(sent) \div 2, NEW pair \in Pair,
                 pair # Pairs(sent, 2 * k - 1), packet = Fill(sent, 2 * k - 1, pair)
          PROVE  SameSum
      BY <2>1, <3>1, <3>2, WordDamaged
    <3>3. ASSUME Len(sent) % 2 = 1, NEW b \in Byte \ {sent[Len(sent)]},
                 packet = [sent EXCEPT ![Len(sent)] = b]
          PROVE  SameSum
      <4>1. b \in Byte /\ b # sent[Len(sent)]
        OBVIOUS
      <4> QED BY <2>1, <3>1, <3>3, <4>1, ByteDamaged DEF LastByte
    <3> QED BY <2>3, <3>1, <3>2, <3>3 DEF Damaged
  <2> QED BY <2>2, <2>3
<1> QED BY <1>1, <1>2, <1>3, PTL DEF Spec


\* A last word is added to the total.
LEMMA TotalOfOneMore ==
  ASSUME NEW u \in Seq(Nat), NEW c \in Nat, NEW v, v = Append(u, c)
  PROVE  v \in Seq(Nat) /\ Total(v) = Total(u) + c
<1> DEFINE N == Len(u)
<1>1. /\ v \in Seq(Nat) /\ N \in Nat /\ Len(v) = N + 1 /\ v[N + 1] = c
      /\ \A k \in 1 .. N : v[k] = u[k] /\ u[k] \in Nat
  OBVIOUS
<1>2. PICK f : Adds(f, u) /\ Total(u) = f[N]
  BY TotalAdds
<1>3. PICK g : Adds(g, v) /\ Total(v) = g[Len(v)]
  BY <1>1, TotalAdds
<1>4. /\ f \in [0 .. N -> Nat] /\ f[0] = 0
      /\ \A k \in 1 .. N : f[k] = f[k - 1] + u[k]
  BY <1>2 DEF Adds
<1>5. /\ g \in [0 .. N + 1 -> Nat] /\ g[0] = 0
      /\ \A k \in 1 .. N + 1 : g[k] = g[k - 1] + v[k]
  BY <1>1, <1>3 DEF Adds
<1> HIDE DEF N
<1> DEFINE S == {n \in 0 .. N : g[n] = f[n]}
<1>6. 0 \in S
  BY <1>1, <1>4, <1>5
<1>7. \A n \in 1 .. N : n - 1 \in S => n \in S
  <2> TAKE n \in 1 .. N
  <2> HAVE n - 1 \in S
  <2>1. n \in 1 .. N + 1 /\ g[n - 1] = f[n - 1]
    BY <1>1
  <2>2. g[n] = f[n]
    BY <1>1, <1>4, <1>5, <2>1
  <2> QED BY <1>1, <2>2
<1>8. N \in S
  <2> HIDE DEF S
  <2>1. \A n \in 0 .. N : n \in S
    BY <1>1, <1>6, <1>7, UpTo
  <2> QED BY <1>1, <2>1
<1>9. g[N + 1] = g[(N + 1) - 1] + v[N + 1]
  <2>1. N + 1 \in 1 .. N + 1
    BY <1>1
  <2> QED BY <1>5, <2>1
<1>10. (N + 1) - 1 = N
  BY <1>1
<1>11. Total(v) = g[N + 1] /\ Total(u) = f[N]
  BY <1>1, <1>2, <1>3 DEF N
<1> QED BY <1>1, <1>8, <1>9, <1>10, <1>11

\* Whatever was sent is a segment whose words and th_sum add up to all ones.
LEMMA SealedAllOnes ==
  ASSUME NEW o \in Orders, NEW src \in Pair, NEW dst \in Pair, NEW p, Segment(p),
         Word(o, Pairs(p, th_sum)) = Checksum(o, src, dst, p)
  PROVE  Sum1(Append(Summed(o, src, dst, p), Word(o, Pairs(p, th_sum)))) = W - 1
<1> DEFINE u == Summed(o, src, dst, p)
           t == Total(u)
           c == Checksum(o, src, dst, p)
           v == Append(u, c)
<1>1. /\ u \in Seq(Nat) /\ Len(u) = 4 + Count(p) /\ Len(u) < W
      /\ \A i \in 1 .. Len(u) : /\ SummedPair(src, dst, p, i) \in Pair
                                /\ u[i] = Word(o, SummedPair(src, dst, p, i))
                                /\ u[i] \in Words
  BY SummedWords
<1>2. /\ t \in Nat /\ t < W * W /\ t # 0
      /\ Fold(t) \in 1 .. W - 1 /\ Congruent(t, Fold(t))
      /\ c = (W - 1) - Fold(t)
      /\ c \in Words /\ c # W - 1
  BY SegmentSum
<1>3. W \in Nat /\ W > 3
  BY WordCount
<1> HIDE DEF u, c
<1>4. c \in Nat
  BY <1>2, <1>3 DEF Words
<1>5. v \in Seq(Nat) /\ Total(v) = t + c
  BY <1>1, <1>4, TotalOfOneMore
<1>6. Len(v) <= W /\ \A i \in 1 .. Len(v) : v[i] \in Words
  <2>1. /\ Len(v) = Len(u) + 1 /\ Len(u) \in Nat
        /\ \A i \in 1 .. Len(v) : v[i] = IF i <= Len(u) THEN u[i] ELSE c
    BY <1>1, <1>4
  <2> QED BY <1>1, <1>2, <1>3, <2>1
<1> HIDE DEF v, t
<1>7. Sum1(v) = Fold(t + c)
  BY <1>5, <1>6, Sum1Folds
<1>8. t + c < W * W
  BY <1>5, <1>6, TotalFits
<1>9. Fold(t + c) = Add1(Fold(t), c)
  BY <1>2, <1>8, FoldIsEndAroundCarry
<1>10. Add1(Fold(t), c) = W - 1
  <2> DEFINE f == Fold(t)
  <2>1. f \in Nat /\ f + c = W - 1
    BY <1>2, <1>3
  <2> HIDE DEF f
  <2>2. f + c < W
    BY <1>3, <2>1
  <2> QED BY <2>1, <2>2 DEF Add1, f
<1> QED BY <1>7, <1>9, <1>10 DEF v, u, c

\* In every packet that stcp_network_send() hands on, all words with th_sum add
\* up to all ones with end-around carry, which is the rule of RFC 1071 and not
\* the way _mysock_tcp_checksum() computes it: that adds in 32 bits and folds
\* twice at the end.
THEOREM AllOnesCorrect == Spec => []SumIsAllOnes
<1>1. Init => IInv
  BY InitStep
<1>2. IInv /\ [Next]_vars => IInv'
  BY Invariance
<1>3. IInv => SumIsAllOnes
  <2> SUFFICES ASSUME IInv, pc # "made"
               PROVE  SumIsAllOnes
    BY DEF SumIsAllOnes
  <2> DEFINE o == order["sender"]
             src == local["sender"]
             dst == peer_addr["sender"]
             c == Word(o, Pairs(sent, th_sum))
             words == PseudoHeader(o, src, dst, Len(sent)) \o Contents(o, sent)
                      \o << c >>
  <2>1. o \in Orders /\ src \in Pair /\ dst \in Pair
    BY HostFacts DEF Hosts
  <2>2. Segment(sent) /\ Pairs(sent, th_sum) = Store(o, Checksum(o, src, dst, sent))
    BY DEF IInv, Sealed
  <2>3. SUFFICES Sum1(words) = W - 1
    BY DEF SumIsAllOnes
  <2> HIDE DEF o, src, dst
  <2>4. Checksum(o, src, dst, sent) \in Words
    BY <2>1, <2>2, SegmentSum
  <2>5. c = Checksum(o, src, dst, sent)
    BY <2>1, <2>2, <2>4, StoreFacts
  <2>6. Summed(o, src, dst, sent) \in Seq(Nat)
    BY <2>1, <2>2, SummedWords
  <2>7. c \in Nat
    BY <2>4, <2>5, WordCount DEF Words
  <2> HIDE DEF c
  <2>8. words = Append(Summed(o, src, dst, sent), c)
    BY <2>6, <2>7 DEF Summed
  <2> HIDE DEF words
  <2> QED BY <2>1, <2>2, <2>5, <2>8, SealedAllOnes DEF c
<1> QED BY <1>1, <1>2, <1>3, PTL DEF Spec
============================================================================
