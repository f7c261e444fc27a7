------------------------- MODULE FileTransferProofs -------------------------
(***************************************************************************)
(* Proofs about the file transfer, for any number of clients, any names,   *)
(* files and buffers: first what the server makes of the requests on their *)
(* way to it, then what a client makes of the replies on their way back.   *)
(***************************************************************************)
EXTENDS FileTransfer, FiniteSetTheorems, WellFoundedInduction, TLAPS

----------------------------------------------------------------------------
(* The inductive invariant.                                                *)

\* A request as it is written.
LineOf(name) == name \o << CR, LF >>

\* The bytes s are the lines of the requests of A after the first t, and e says
\* where in s each of them ends.  If the connection was given up, s may stop
\* anywhere.
Laid(s, A, t, e, whole) ==
  /\ t \in 0 .. Len(A) /\ e \in [t .. Len(A) -> Nat] /\ e[t] = 0
  /\ \A m, n \in t .. Len(A) : m <= n => e[m] <= e[n]
  /\ \A n \in t + 1 .. Len(A) : e[n] = e[n - 1] + (Len(A[n]) + 2)
  /\ \A n \in t + 1 .. Len(A) : \A x \in 1 .. Len(A[n]) + 2 :
       e[n - 1] + x <= Len(s) => s[e[n - 1] + x] = LineOf(A[n])[x]
  /\ Len(s) <= e[Len(A)] /\ (whole => Len(s) = e[Len(A)])

Types ==
  /\ up \in [Clients -> Seq(Nat)] /\ asked \in [Clients -> Seq(Names)]
  /\ taken \in [Clients -> Nat] /\ cut \in [Clients -> BOOLEAN]
  /\ pending \in Seq(Clients)
  /\ s_pc # "accept" => client \in Clients

\* What is on its way from each client.
OnTheWay ==
  \A c \in Clients : \E e : Laid(up[c], asked[c], taken[c], e, ~cut[c])

IInv == Types /\ OnTheWay /\ HandledWasAsked

----------------------------------------------------------------------------
(* Lines.                                                                  *)

\* A search that finds something finds a first one.
LEMMA MinIs ==
  ASSUME NEW S, S \subseteq Nat, S # {}
  PROVE  Min(S) \in S /\ \A y \in S : Min(S) <= y
<1> DEFINE R == OpToRel(<, Nat)
<1>1. \E x \in S : \A y \in S : ~(<< y, x >> \in R)
  BY NatLessThanWellFounded, WFMin
<1>2. \A x, y \in Nat : << y, x >> \in R <=> y < x
  BY DEF OpToRel
<1> HIDE DEF R
<1>3. \E x \in S : \A y \in S : x =< y
  <2>1. PICK x \in S : \A y \in S : ~(<< y, x >> \in R)
    BY <1>1
  <2>2. \A y \in S : ~(y < x)
    BY <1>2, <2>1
  <2>3. \A y \in S : x =< y
    BY <2>2
  <2> QED BY <2>3
<1> QED BY <1>3 DEF Min

\* The line of a request has one line end, where it ends.
LEMMA LineFacts ==
  ASSUME NEW name \in Names
  PROVE  /\ name \in Seq(Nat) /\ Len(name) \in Nat
         /\ LineOf(name) \in Seq(Nat) /\ Len(LineOf(name)) = Len(name) + 2
         /\ \A x \in 1 .. Len(name) : LineOf(name)[x] = name[x]
         /\ LineOf(name)[Len(name) + 1] = CR
         /\ LineOf(name)[Len(name) + 2] = LF
         /\ \A x \in 1 .. Len(name) :
              ~(LineOf(name)[x] = CR /\ LineOf(name)[x + 1] = LF)
<1>1. /\ name \in Seq(Nat)
      /\ \A x \in 1 .. Len(name) - 1 : ~(name[x] = CR /\ name[x + 1] = LF)
  BY NamesAssumption DEF LineEnds
<1>2. << CR, LF >> \in Seq(Nat) /\ CR # LF
  BY DEF CR, LF
<1>3. /\ LineOf(name) \in Seq(Nat) /\ Len(LineOf(name)) = Len(name) + 2
      /\ \A x \in 1 .. Len(name) : LineOf(name)[x] = name[x]
      /\ LineOf(name)[Len(name) + 1] = CR
      /\ LineOf(name)[Len(name) + 2] = LF
  BY <1>1, <1>2 DEF LineOf
<1>4. ASSUME NEW x \in 1 .. Len(name)
      PROVE  ~(LineOf(name)[x] = CR /\ LineOf(name)[x + 1] = LF)
  <2>1. CASE x = Len(name)
    BY <1>2, <1>3, <2>1
  <2>2. CASE x \in 1 .. Len(name) - 1
    <3>1. x + 1 \in 1 .. Len(name)
      BY <1>1, <2>2
    <3> QED BY <1>1, <1>3, <2>2, <3>1
  <2> QED BY <1>1, <2>1, <2>2
<1> QED BY <1>1, <1>3, <1>4

\* Bytes that follow others.
LEMMA Joined ==
  ASSUME NEW a \in Seq(Nat), NEW b \in Seq(Nat)
  PROVE  /\ a \o b \in Seq(Nat) /\ Len(a \o b) = Len(a) + Len(b)
         /\ \A i \in 1 .. Len(a) : (a \o b)[i] = a[i]
         /\ \A x \in 1 .. Len(b) : (a \o b)[Len(a) + x] = b[x]
  OBVIOUS

\* At the start nothing was asked.
LEMMA LaidNone == \E e : Laid(<< >>, << >>, 0, e, TRUE)
<1> DEFINE e == [n \in 0 .. 0 |-> 0]
<1>1. /\ e \in [0 .. Len(<< >>) -> Nat] /\ e[0] = 0 /\ 0 .. 0 = {0} /\ 1 .. 0 = {}
      /\ Len(<< >>) = 0
  OBVIOUS
<1> HIDE DEF e
<1>2. Laid(<< >>, << >>, 0, e, TRUE)
  BY <1>1 DEF Laid
<1> QED BY <1>2

\* One more request, which does not arrive if the connection was given up.
LEMMA LaidMore ==
  ASSUME NEW s \in Seq(Nat), NEW A \in Seq(Names), NEW t, NEW e,
         NEW w \in BOOLEAN, Laid(s, A, t, e, w), NEW name \in Names,
         NEW s2, s2 = IF w THEN s \o LineOf(name) ELSE s
  PROVE  \E f : Laid(s2, Append(A, name), t, f, w)
<1> DEFINE N == Len(A)
           k == Len(name) + 2
           L == LineOf(name)
           B == Append(A, name)
           f == [n \in t .. N + 1 |-> IF n = N + 1 THEN e[N] + k ELSE e[n]]
<1>1. /\ N \in Nat /\ k \in Nat /\ Len(B) = N + 1 /\ B[N + 1] = name
      /\ \A n \in 1 .. N : B[n] = A[n] /\ A[n] \in Names
      /\ L \in Seq(Nat) /\ Len(L) = k /\ Len(s) \in Nat
  BY LineFacts
<1>2. /\ t \in 0 .. N /\ e \in [t .. N -> Nat] /\ e[t] = 0
      /\ \A m, n \in t .. N : m <= n => e[m] <= e[n]
      /\ \A n \in t + 1 .. N : e[n] = e[n - 1] + (Len(A[n]) + 2)
      /\ \A n \in t + 1 .. N : \A x \in 1 .. Len(A[n]) + 2 :
           e[n - 1] + x <= Len(s) => s[e[n - 1] + x] = LineOf(A[n])[x]
      /\ Len(s) <= e[N] /\ (w => Len(s) = e[N])
  BY DEF Laid
<1>3. ASSUME w
      PROVE  /\ Len(s2) = Len(s) + k
             /\ \A i \in 1 .. Len(s) : s2[i] = s[i]
             /\ \A x \in 1 .. k : s2[Len(s) + x] = L[x]
  <2>1. s2 = s \o L
    BY <1>3
  <2> HIDE DEF L, k
  <2>2. /\ Len(s \o L) = Len(s) + Len(L)
        /\ \A i \in 1 .. Len(s) : (s \o L)[i] = s[i]
        /\ \A x \in 1 .. Len(L) : (s \o L)[Len(s) + x] = L[x]
    BY <1>1, Joined
  <2> QED BY <1>1, <2>1, <2>2, Zenon
<1>13. ASSUME ~w PROVE s2 = s
  BY <1>13
<1> HIDE DEF N, k, L, B
<1>4. e[N] \in Nat
  BY <1>1, <1>2
<1>5. /\ f \in [t .. N + 1 -> Nat] /\ f[N + 1] = e[N] + k
      /\ \A n \in t .. N : f[n] = e[n]
  BY <1>1, <1>2, <1>4
<1> HIDE DEF f
<1>6. t \in t .. N /\ N \in t .. N /\ f[t] = 0
  BY <1>1, <1>2, <1>5
<1>7. ASSUME NEW m \in t .. N + 1, NEW n \in t .. N + 1, m <= n
      PROVE  f[m] <= f[n]
  <2>1. CASE n \in t .. N
    <3>1. m \in t .. N
      BY <1>1, <1>2, <1>7, <2>1
    <3> QED BY <1>2, <1>5, <1>7, <2>1, <3>1
  <2>2. CASE n = N + 1
    <3>1. CASE m = N + 1
      BY <1>1, <1>4, <1>5, <2>2, <3>1
    <3>2. CASE m \in t .. N
      <4>1. e[m] <= e[N] /\ e[m] \in Nat
        BY <1>1, <1>2, <1>6, <3>2
      <4> QED BY <1>1, <1>4, <1>5, <2>2, <3>2, <4>1
    <3> QED BY <1>1, <1>2, <3>1, <3>2
  <2> QED BY <1>1, <1>2, <2>1, <2>2
<1>8. ASSUME NEW n \in t + 1 .. N + 1
      PROVE  f[n] = f[n - 1] + (Len(B[n]) + 2)
  <2>1. CASE n \in t + 1 .. N
    <3>1. n \in t .. N /\ n - 1 \in t .. N /\ n \in 1 .. N
      BY <1>1, <1>2, <2>1
    <3> QED BY <1>1, <1>2, <1>5, <2>1, <3>1
  <2>2. CASE n = N + 1
    <3>1. n - 1 = N
      BY <1>1, <2>2
    <3> QED BY <1>1, <1>5, <1>6, <2>2, <3>1 DEF k
  <2> QED BY <1>1, <1>2, <2>1, <2>2
<1>9. ASSUME NEW n \in t + 1 .. N + 1, NEW x \in 1 .. Len(B[n]) + 2,
             f[n - 1] + x <= Len(s2)
      PROVE  s2[f[n - 1] + x] = LineOf(B[n])[x]
  <2>1. CASE n \in t + 1 .. N
    <3>1. n \in t .. N /\ n - 1 \in t .. N /\ n \in 1 .. N
      BY <1>1, <1>2, <2>1
    <3>2. f[n - 1] = e[n - 1] /\ B[n] = A[n] /\ x \in 1 .. Len(A[n]) + 2
      BY <1>1, <1>5, <1>9, <3>1
    <3>3. e[n - 1] \in Nat /\ e[n] <= e[N] /\ e[n] = e[n - 1] + (Len(A[n]) + 2)
      BY <1>1, <1>2, <1>6, <2>1, <3>1
    <3>4. Len(A[n]) \in Nat
      BY <1>1, <3>1, LineFacts
    <3>5. e[n - 1] + x <= e[N] /\ e[n - 1] + x >= 1 /\ e[n - 1] + x \in Nat
      BY <1>4, <3>2, <3>3, <3>4
    <3>6. e[n - 1] + x <= Len(s) /\ s2[e[n - 1] + x] = s[e[n - 1] + x]
      <4>1. CASE w
        <5>1. e[n - 1] + x <= Len(s)
          BY <1>2, <3>5, <4>1
        <5>2. e[n - 1] + x \in 1 .. Len(s)
          BY <1>1, <3>5, <5>1
        <5> QED BY <1>3, <4>1, <5>1, <5>2
      <4>2. CASE ~w
        BY <1>13, <1>9, <3>2, <4>2
      <4> QED BY <4>1, <4>2
    <3>7. s[e[n - 1] + x] = LineOf(A[n])[x]
      BY <1>2, <2>1, <3>2, <3>6
    <3>8. s2[f[n - 1] + x] = s[e[n - 1] + x] /\ LineOf(B[n])[x] = LineOf(A[n])[x]
      BY <3>2, <3>6, Zenon
    <3> QED BY <3>7, <3>8
  <2>2. CASE n = N + 1
    <3>1. n - 1 = N /\ B[n] = name /\ f[n - 1] = e[N] /\ x \in 1 .. k
      BY <1>1, <1>5, <1>6, <1>9, <2>2 DEF k
    <3>2. CASE w
      <4>1. s2[Len(s) + x] = L[x] /\ Len(s) = e[N]
        BY <1>2, <1>3, <3>1, <3>2
      <4> QED BY <3>1, <4>1 DEF L
    <3>3. CASE ~w
      <4>1. e[N] + x <= e[N] /\ x >= 1
        BY <1>1, <1>2, <1>13, <1>4, <1>9, <3>1, <3>3
      <4> QED BY <1>4, <3>1, <4>1
    <3> QED BY <3>2, <3>3
  <2>3. n \in t + 1 .. N \/ n = N + 1
    BY <1>1, <1>2
  <2> QED BY <2>1, <2>2, <2>3, Zenon
<1>10. Len(s2) <= f[N + 1] /\ (w => Len(s2) = f[N + 1])
  <2>1. CASE w
    BY <1>1, <1>2, <1>3, <1>4, <1>5, <2>1
  <2>2. CASE ~w
    BY <1>1, <1>2, <1>13, <1>4, <1>5, <2>2
  <2> QED BY <2>1, <2>2
<1>11. t \in 0 .. N + 1
  BY <1>1, <1>2
<1>12. Laid(s2, B, t, f, w)
  BY <1>1, <1>5, <1>6, <1>7, <1>8, <1>9, <1>10, <1>11 DEF Laid
<1> QED BY <1>12 DEF B

\* A connection that is given up keeps a beginning of what was on its way.
LEMMA LaidCut ==
  ASSUME NEW s \in Seq(Nat), NEW A \in Seq(Names), NEW t, NEW e,
         NEW w, Laid(s, A, t, e, w), NEW j \in 0 .. Len(s)
  PROVE  Laid(SubSeq(s, 1, j), A, t, e, FALSE)
<1> DEFINE u == SubSeq(s, 1, j)
           N == Len(A)
<1>1. /\ Len(u) = j /\ Len(s) \in Nat /\ \A i \in 1 .. j : u[i] = s[i]
      /\ N \in Nat /\ \A n \in 1 .. N : A[n] \in Names
  OBVIOUS
<1> HIDE DEF u
<1>2. /\ t \in 0 .. N /\ e \in [t .. N -> Nat] /\ e[t] = 0
      /\ \A m, n \in t .. N : m <= n => e[m] <= e[n]
      /\ \A n \in t + 1 .. N : e[n] = e[n - 1] + (Len(A[n]) + 2)
      /\ \A n \in t + 1 .. N : \A x \in 1 .. Len(A[n]) + 2 :
           e[n - 1] + x <= Len(s) => s[e[n - 1] + x] = LineOf(A[n])[x]
      /\ Len(s) <= e[N]
  BY DEF Laid
<1> HIDE DEF N
<1>3. e[N] \in Nat
  BY <1>1, <1>2
<1>4. Len(u) <= e[N]
  BY <1>1, <1>2, <1>3
<1>5. ASSUME NEW n \in t + 1 .. N, NEW x \in 1 .. Len(A[n]) + 2,
             e[n - 1] + x <= Len(u)
      PROVE  u[e[n - 1] + x] = LineOf(A[n])[x]
  <2>1. n - 1 \in t .. N /\ n \in 1 .. N
    BY <1>1, <1>2
  <2>2. e[n - 1] \in Nat /\ Len(A[n]) \in Nat
    BY <1>1, <1>2, <2>1, LineFacts
  <2>3. x \in Nat /\ x >= 1
    BY <2>2
  <2> DEFINE y == e[n - 1] + x
  <2>61. y <= j
    BY <1>1, <1>5, Zenon
  <2>6. y \in Nat /\ y >= 1
    BY <2>2, <2>3
  <2> HIDE DEF y
  <2>7. y \in 1 .. j /\ y <= Len(s)
    BY <1>1, <2>6, <2>61
  <2>4. e[n - 1] + x \in 1 .. j /\ e[n - 1] + x <= Len(s)
    BY <2>7 DEF y
  <2>5. s[e[n - 1] + x] = LineOf(A[n])[x]
    BY <1>2, <2>4
  <2> QED BY <1>1, <2>4, <2>5
<1> QED BY <1>2, <1>4, <1>5 DEF Laid, u, N


\* The first bytes on their way are the line of the next request.
LEMMA LaidFirst ==
  ASSUME NEW s \in Seq(Nat), NEW A \in Seq(Names), NEW t, NEW e,
         NEW w \in BOOLEAN, Laid(s, A, t, e, w), s # << >>,
         NEW N, N = Len(A), NEW m, m = Len(A[t + 1]) + 1
  PROVE  /\ t + 1 \in 1 .. N /\ t \in Nat /\ m \in Nat \ {0}
         /\ \A x \in 1 .. m + 1 : x <= Len(s) => s[x] = LineOf(A[t + 1])[x]
         /\ LineEnds(s) # {} => Min(LineEnds(s)) = m /\ m + 1 <= Len(s)
         /\ LineEnds(s) = {} => ~w /\ Len(s) < m + 1
<1> DEFINE name == A[t + 1]
           L == LineOf(name)
<1>1. /\ N \in Nat /\ \A n \in 1 .. N : A[n] \in Names
      /\ Len(s) \in Nat /\ Len(s) # 0
  OBVIOUS
<1>2. /\ t \in 0 .. N /\ e \in [t .. N -> Nat] /\ e[t] = 0
      /\ \A i, n \in t .. N : i <= n => e[i] <= e[n]
      /\ \A n \in t + 1 .. N : e[n] = e[n - 1] + (Len(A[n]) + 2)
      /\ \A n \in t + 1 .. N : \A x \in 1 .. Len(A[n]) + 2 :
           e[n - 1] + x <= Len(s) => s[e[n - 1] + x] = LineOf(A[n])[x]
      /\ Len(s) <= e[N] /\ (w => Len(s) = e[N])
  BY DEF Laid
<1>3. t # N
  <2>1. e[N] # 0
    <3>1. e[N] \in Nat
      BY <1>1, <1>2
    <3> QED BY <1>1, <1>2, <3>1
  <2> QED BY <1>2, <2>1
<1>4. /\ t + 1 \in 1 .. N /\ t \in Nat /\ (t + 1) - 1 = t
      /\ t + 1 \in t + 1 .. N /\ t + 1 \in t .. N /\ N \in t .. N
  BY <1>1, <1>2, <1>3
<1>5. name \in Names
  BY <1>1, <1>4
<1>6. /\ Len(name) \in Nat
      /\ \A x \in 1 .. Len(name) : ~(L[x] = CR /\ L[x + 1] = LF)
      /\ L[Len(name) + 1] = CR /\ L[Len(name) + 2] = LF
  BY <1>5, LineFacts
<1>7. /\ m \in Nat \ {0} /\ Len(name) + 2 = m + 1
      /\ L[m] = CR /\ L[m + 1] = LF
      /\ \A x \in 1 .. m - 1 : ~(L[x] = CR /\ L[x + 1] = LF)
  BY <1>6
<1>8. ASSUME NEW x \in 1 .. m + 1, x <= Len(s) PROVE s[x] = L[x]
  <2>1. x \in 1 .. Len(A[t + 1]) + 2 /\ x \in Nat
    BY <1>7, <1>8
  <2>2. e[t] + x <= Len(s)
    BY <1>2, <1>8, <2>1
  <2>5. e[(t + 1) - 1] + x <= Len(s) => s[e[(t + 1) - 1] + x] = LineOf(A[t + 1])[x]
    BY <1>2, <1>4, <2>1
  <2>3. s[e[t] + x] = L[x]
    BY <1>4, <2>2, <2>5
  <2>4. e[t] + x = x
    BY <1>2, <2>1
  <2> QED BY <2>3, <2>4
<1>9. e[t + 1] = m + 1 /\ e[t + 1] <= e[N] /\ e[N] \in Nat
  <2>1. e[t + 1] = e[t] + (Len(name) + 2) /\ e[t + 1] <= e[N] /\ e[N] \in Nat
    BY <1>2, <1>4
  <2> QED BY <1>2, <1>7, <2>1
<1> HIDE DEF name, L
<1>10. \A i \in LineEnds(s) : i \in Nat /\ i >= 1 /\ i + 1 <= Len(s)
                              /\ s[i] = CR /\ s[i + 1] = LF
  BY <1>1 DEF LineEnds
<1>11. ASSUME m + 1 <= Len(s) PROVE m \in LineEnds(s)
  <2>1. m \in 1 .. Len(s) - 1 /\ m \in 1 .. m + 1 /\ m + 1 \in 1 .. m + 1
        /\ m <= Len(s)
    BY <1>1, <1>7, <1>11
  <2>2. s[m] = CR /\ s[m + 1] = LF
    BY <1>7, <1>8, <1>11, <2>1
  <2> QED BY <2>1, <2>2 DEF LineEnds
<1>12. ASSUME NEW i \in LineEnds(s) PROVE m <= i
  <2>1. /\ i \in Nat /\ i >= 1 /\ i + 1 <= Len(s)
        /\ s[i] = CR /\ s[i + 1] = LF
    BY <1>10
  <2>2. SUFFICES ASSUME i < m PROVE FALSE
    BY <1>7, <2>1
  <2>3. /\ i \in 1 .. m - 1 /\ i \in 1 .. m + 1 /\ i + 1 \in 1 .. m + 1
        /\ i <= Len(s)
    BY <1>1, <1>7, <2>1, <2>2
  <2>4. s[i] = L[i] /\ s[i + 1] = L[i + 1]
    BY <1>8, <2>1, <2>3
  <2> QED BY <1>7, <2>1, <2>3, <2>4
<1>13. ASSUME LineEnds(s) # {}
       PROVE  Min(LineEnds(s)) = m /\ m + 1 <= Len(s)
  <2> DEFINE i == Min(LineEnds(s))
  <2>1. LineEnds(s) \subseteq Nat
    BY <1>10
  <2>2. i \in LineEnds(s) /\ \A y \in LineEnds(s) : i <= y
    BY <1>13, <2>1, MinIs
  <2> HIDE DEF i
  <2>3. i \in Nat /\ i + 1 <= Len(s) /\ m <= i
    BY <1>10, <1>12, <2>2
  <2>4. m + 1 <= Len(s)
    BY <1>1, <1>7, <2>3
  <2>5. i <= m
    BY <1>11, <2>2, <2>4
  <2> QED BY <1>7, <2>3, <2>4, <2>5 DEF i
<1>14. ASSUME LineEnds(s) = {} PROVE ~w /\ Len(s) < m + 1
  <2>1. Len(s) < m + 1
    BY <1>1, <1>7, <1>11, <1>14
  <2> QED BY <1>1, <1>2, <1>7, <1>9, <2>1
<1> QED BY <1>4, <1>7, <1>8, <1>13, <1>14 DEF L, name

\* Places after something was taken from the front.
LEMMA Shifted ==
  \A a, b, k, x \in Nat : x # 0 /\ b = a - k =>
    b + x \in Nat /\ a + x \in Nat /\ b + x # 0 /\ a + x = k + (b + x)
  OBVIOUS

\* After the next line the lines of the other requests follow, or nothing if
\* the connection was given up and the line not whole.
LEMMA LaidNext ==
  ASSUME NEW s \in Seq(Nat), NEW A \in Seq(Names), NEW t \in Nat,
         NEW e, NEW w \in BOOLEAN, Laid(s, A, t, e, w), NEW N, N = Len(A),
         t + 1 \in 1 .. N, NEW u, Len(u) \in Nat,
         \/ /\ Len(s) = Len(u) + (Len(A[t + 1]) + 2)
            /\ \A i \in 1 .. Len(u) : u[i] = s[(Len(A[t + 1]) + 2) + i]
         \/ Len(u) = 0 /\ ~w
  PROVE  \E f : Laid(u, A, t + 1, f, w)
<1> DEFINE k == Len(A[t + 1]) + 2
           f == [n \in t + 1 .. N |-> e[n] - k]
<1>1. N \in Nat /\ Len(s) \in Nat /\ \A n \in 1 .. N : A[n] \in Names
  OBVIOUS
<1>2. /\ t \in 0 .. N /\ e \in [t .. N -> Nat] /\ e[t] = 0
      /\ \A i, n \in t .. N : i <= n => e[i] <= e[n]
      /\ \A n \in t + 1 .. N : e[n] = e[n - 1] + (Len(A[n]) + 2)
      /\ \A n \in t + 1 .. N : \A x \in 1 .. Len(A[n]) + 2 :
           e[n - 1] + x <= Len(s) => s[e[n - 1] + x] = LineOf(A[n])[x]
      /\ Len(s) <= e[N] /\ (w => Len(s) = e[N])
  BY DEF Laid
<1>3. /\ t \in Nat /\ (t + 1) - 1 = t /\ t + 1 \in t + 1 .. N
      /\ t + 1 \in t .. N /\ N \in t .. N /\ N \in t + 1 .. N
      /\ t + 1 \in 0 .. N
  <2>1. t \in Nat /\ t + 1 <= N
    BY <1>1, <1>2
  <2> QED BY <1>1, <2>1
<1>4. k \in Nat
  BY <1>1, LineFacts
<1>15. \/ Len(s) = Len(u) + k /\ \A i \in 1 .. Len(u) : u[i] = s[k + i]
       \/ Len(u) = 0 /\ ~w
  OBVIOUS
<1>5. e[t + 1] = k
  <2>1. e[t + 1] = e[t] + (Len(A[t + 1]) + 2)
    BY <1>2, <1>3
  <2>2. e[t + 1] = e[t] + k
    BY <2>1
  <2> HIDE DEF k
  <2> QED BY <1>2, <1>4, <2>2
<1> HIDE DEF k
<1>6. ASSUME NEW n \in t + 1 .. N
      PROVE  n \in t .. N /\ e[n] \in Nat /\ k <= e[n] /\ e[n] - k \in Nat
  <2>1. n \in t .. N /\ t + 1 <= n
    BY <1>1, <1>3
  <2>2. e[n] \in Nat /\ e[t + 1] <= e[n]
    BY <1>2, <1>3, <2>1
  <2> QED BY <1>4, <1>5, <2>1, <2>2
<1>7. f \in [t + 1 .. N -> Nat] /\ \A n \in t + 1 .. N : f[n] = e[n] - k
  BY <1>6
<1> HIDE DEF f
<1>8. f[t + 1] = 0
  BY <1>3, <1>4, <1>5, <1>7
<1>9. ASSUME NEW i \in t + 1 .. N, NEW n \in t + 1 .. N, i <= n
      PROVE  f[i] <= f[n]
  <2>1. e[i] <= e[n]
    BY <1>2, <1>6, <1>9
  <2> QED BY <1>4, <1>6, <1>7, <2>1
<1>10. ASSUME NEW n \in (t + 1) + 1 .. N
       PROVE  /\ n \in t + 1 .. N /\ n - 1 \in t + 1 .. N
              /\ f[n] = f[n - 1] + (Len(A[n]) + 2)
              /\ Len(A[n]) \in Nat
  <2>1. n \in t + 1 .. N /\ n - 1 \in t + 1 .. N /\ n \in 1 .. N
    BY <1>1, <1>3
  <2>2. e[n] = e[n - 1] + (Len(A[n]) + 2) /\ e[n - 1] \in Nat
    BY <1>2, <1>6, <2>1
  <2>3. Len(A[n]) \in Nat
    BY <1>1, <2>1, LineFacts
  <2>4. f[n] = e[n] - k /\ f[n - 1] = e[n - 1] - k
    BY <1>7, <2>1
  <2> QED BY <1>4, <2>1, <2>2, <2>3, <2>4
<1>14. \A a, b, x \in Nat : x # 0 /\ b = a - k =>
         b + x \in Nat /\ a + x \in Nat /\ b + x # 0 /\ a + x = k + (b + x)
  BY <1>4, Shifted
<1>16. \A y \in Nat : y # 0 /\ y <= Len(u) => k + y <= Len(s) /\ u[y] = s[k + y]
  <2> SUFFICES ASSUME NEW y \in Nat, y # 0, y <= Len(u)
               PROVE  k + y <= Len(s) /\ u[y] = s[k + y]
    OBVIOUS
  <2>1. y \in 1 .. Len(u) /\ Len(u) # 0
    OBVIOUS
  <2>2. Len(s) = Len(u) + k /\ u[y] = s[k + y]
    BY <1>15, <2>1
  <2> QED BY <1>1, <1>4, <2>2
<1>11. ASSUME NEW n \in (t + 1) + 1 .. N, NEW x \in 1 .. Len(A[n]) + 2,
              f[n - 1] + x <= Len(u)
       PROVE  u[f[n - 1] + x] = LineOf(A[n])[x]
  <2>1. n \in t + 1 .. N /\ n - 1 \in t + 1 .. N /\ Len(A[n]) \in Nat
    BY <1>10
  <2>2. x \in Nat /\ x # 0
    BY <2>1
  <2>3. f[n - 1] = e[n - 1] - k /\ f[n - 1] \in Nat /\ e[n - 1] \in Nat
    BY <1>6, <1>7, <2>1
  <2> DEFINE a == e[n - 1]
             b == f[n - 1]
             y == b + x
             z == a + x
  <2>10. a \in Nat /\ b \in Nat /\ b = a - k
    BY <2>3, Zenon
  <2> HIDE DEF a, b
  <2>4. y \in Nat /\ z \in Nat /\ y # 0 /\ z = k + y
    BY <1>14, <2>2, <2>10, SMT
  <2>5. y <= Len(u)
    BY <1>11, Zenon DEF b
  <2>6. n \in t + 1 .. N /\ (z <= Len(s) => s[z] = LineOf(A[n])[x])
    BY <1>2, <2>1 DEF a
  <2> HIDE DEF y, z
  <2>7. z <= Len(s) /\ u[y] = s[z]
    BY <1>16, <2>4, <2>5, Zenon
  <2> QED BY <2>6, <2>7 DEF y, b
<1>12. Len(u) <= f[N] /\ (w => Len(u) = f[N])
  <2>1. f[N] = e[N] - k /\ e[N] \in Nat /\ f[N] \in Nat
    BY <1>3, <1>6, <1>7
  <2>2. CASE Len(s) = Len(u) + k
    BY <1>1, <1>2, <1>4, <2>1, <2>2
  <2>3. CASE Len(u) = 0 /\ ~w
    BY <2>1, <2>3
  <2> QED BY <1>15, <2>2, <2>3
<1>13. Laid(u, A, t + 1, f, w)
  BY <1>3, <1>7, <1>8, <1>9, <1>10, <1>11, <1>12 DEF Laid
<1> QED BY <1>13


LEMMA FrontOf ==
  ASSUME NEW s \in Seq(Nat), NEW b \in Seq(Nat), Len(b) <= Len(s),
         \A x \in 1 .. Len(b) : s[x] = b[x]
  PROVE  SubSeq(s, 1, Len(b)) = b
<1> DEFINE u == SubSeq(s, 1, Len(b))
<1>1. u \in Seq(Nat) /\ Len(u) = Len(b) /\ \A x \in 1 .. Len(b) : u[x] = s[x]
  OBVIOUS
<1> HIDE DEF u
<1>2. /\ u = [x \in 1 .. Len(u) |-> u[x]] /\ b = [x \in 1 .. Len(b) |-> b[x]]
  BY <1>1
<1>3. \A x \in 1 .. Len(b) : u[x] = b[x]
  BY <1>1
<1>4. u = b
  BY <1>1, <1>2, <1>3
<1> QED BY <1>4 DEF u

LEMMA RestOf ==
  ASSUME NEW s \in Seq(Nat), NEW k \in Nat, k <= Len(s)
  PROVE  /\ SubSeq(s, k + 1, Len(s)) \in Seq(Nat)
         /\ Len(SubSeq(s, k + 1, Len(s))) \in Nat
         /\ Len(s) = Len(SubSeq(s, k + 1, Len(s))) + k
         /\ \A i \in 1 .. Len(SubSeq(s, k + 1, Len(s))) :
              SubSeq(s, k + 1, Len(s))[i] = s[k + i]
<1> DEFINE u == SubSeq(s, k + 1, Len(s))
<1>1. u \in Seq(Nat) /\ Len(u) = Len(s) - k
  OBVIOUS
<1>2. \A i \in 1 .. Len(s) - k : u[i] = s[k + i]
  OBVIOUS
<1> HIDE DEF u
<1>3. Len(u) \in Nat /\ Len(s) = Len(u) + k /\ \A i \in 1 .. Len(u) : u[i] = s[k + i]
  BY <1>1, <1>2
<1> QED BY <1>1, <1>3 DEF u

\* What get_nvt_line() takes from the stream is the next request, or its
\* beginning if the connection was given up, and the others stay behind it.
LEMMA LineRead ==
  ASSUME NEW s \in Seq(Nat), NEW A \in Seq(Names), NEW t, NEW e,
         NEW w \in BOOLEAN, Laid(s, A, t, e, w), s # << >>
  PROVE  /\ t + 1 \in 1 .. Len(A) /\ AfterLine(s) \in Seq(Nat)
         /\ \/ NextLine(s) = A[t + 1]
            \/ ~w /\ IsStrictPrefix(NextLine(s), LineOf(A[t + 1]))
         /\ \E f : Laid(AfterLine(s), A, t + 1, f, w)
<1> DEFINE name == A[t + 1]
           L == LineOf(name)
           m == Len(name) + 1
           N == Len(A)
<1>1. /\ t + 1 \in 1 .. N /\ t \in Nat /\ m \in Nat \ {0}
      /\ \A x \in 1 .. m + 1 : x <= Len(s) => s[x] = L[x]
      /\ LineEnds(s) # {} => Min(LineEnds(s)) = m /\ m + 1 <= Len(s)
      /\ LineEnds(s) = {} => ~w /\ Len(s) < m + 1
  <2>1. N = Len(A) /\ m = Len(A[t + 1]) + 1
    OBVIOUS
  <2> HIDE DEF N, m
  <2> QED BY <2>1, LaidFirst, SMTT(30)
<1>2. name \in Names
  BY <1>1
<1>3. /\ name \in Seq(Nat) /\ Len(name) \in Nat
      /\ L \in Seq(Nat) /\ Len(L) = Len(name) + 2
      /\ \A x \in 1 .. Len(name) : L[x] = name[x]
  BY <1>2, LineFacts
<1>4. Len(s) \in Nat
  OBVIOUS
<1>5. CASE LineEnds(s) # {}
  <2>1. NextLine(s) = SubSeq(s, 1, m - 1) /\ AfterLine(s) = SubSeq(s, m + 2, Len(s))
    BY <1>1, <1>5 DEF NextLine, AfterLine, UpToLineEnd
  <2>2. m - 1 = Len(name) /\ m + 2 = (Len(name) + 2) + 1 /\ Len(name) + 2 <= Len(s)
    BY <1>1, <1>3, <1>4, <1>5
  <2> HIDE DEF L, N
  <2>3. ASSUME NEW x \in 1 .. Len(name) PROVE s[x] = name[x]
    <3> DEFINE l == Len(name)
    <3>2. x \in 1 .. l /\ l \in Nat /\ m = l + 1 /\ l + 2 <= Len(s)
      BY <1>3, <2>2
    <3> HIDE DEF l, m
    <3>1. x \in 1 .. m + 1 /\ x <= Len(s)
      BY <1>4, <3>2
    <3> QED BY <1>1, <1>3, <3>1
  <2>4. SubSeq(s, 1, Len(name)) = name
    <3>1. Len(name) <= Len(s)
      BY <1>3, <1>4, <2>2
    <3> HIDE DEF name
    <3> QED BY <1>3, <2>3, <3>1, FrontOf
  <2>5. NextLine(s) = name
    BY <2>1, <2>2, <2>4
  <2> DEFINE k == Len(name) + 2
             u == SubSeq(s, k + 1, Len(s))
  <2>6. k \in Nat /\ k <= Len(s) /\ AfterLine(s) = u
    BY <1>3, <2>1, <2>2
  <2> HIDE DEF k
  <2>7. /\ u \in Seq(Nat) /\ Len(u) \in Nat /\ Len(s) = Len(u) + k
        /\ \A i \in 1 .. Len(u) : u[i] = s[k + i]
    BY <2>6, RestOf
  <2> HIDE DEF u
  <2>8. \E f : Laid(u, A, t + 1, f, w)
    BY <1>1, <2>7, LaidNext DEF k, N
  <2> QED BY <1>1, <2>5, <2>6, <2>7, <2>8 DEF N
<1>6. CASE LineEnds(s) = {}
  <2>1. NextLine(s) = s /\ AfterLine(s) = << >> /\ ~w /\ Len(s) < m + 1
    BY <1>1, <1>6 DEF NextLine, AfterLine
  <2>2. Len(s) <= Len(L) /\ s # L
    BY <1>3, <1>4, <2>1
  <2>3. ASSUME NEW x \in 1 .. Len(s) PROVE L[x] = s[x]
    <3>1. x \in 1 .. m + 1 /\ x <= Len(s)
      BY <1>3, <1>4, <2>1
    <3> QED BY <1>1, <3>1
  <2>4. SubSeq(L, 1, Len(s)) = s /\ SubSeq(s, 1, Len(s)) = s
    <3> HIDE DEF L
    <3>1. SubSeq(L, 1, Len(s)) = s
      BY <1>3, <2>2, <2>3, FrontOf
    <3>2. Len(s) <= Len(s) /\ \A x \in 1 .. Len(s) : s[x] = s[x]
      BY <1>4
    <3>3. SubSeq(s, 1, Len(s)) = s
      BY <3>2, FrontOf
    <3> QED BY <3>1, <3>3
  <2>5. IsStrictPrefix(s, L)
    BY <2>2, <2>4 DEF IsStrictPrefix, IsPrefix
  <2>6. Len(<< >>) = 0 /\ << >> \in Seq(Nat)
    OBVIOUS
  <2>7. \E f : Laid(<< >>, A, t + 1, f, w)
    BY <1>1, <2>1, <2>6, LaidNext
  <2> QED BY <1>1, <2>1, <2>5, <2>6, <2>7
<1> QED BY <1>5, <1>6


----------------------------------------------------------------------------
(* The actions.                                                            *)

LEMMA InitStep == Init => IInv
<1> SUFFICES ASSUME Init PROVE IInv
  OBVIOUS
<1>1. Types
  BY DEF Init, Types
<1>2. OnTheWay
  <2> SUFFICES ASSUME NEW c \in Clients
               PROVE  \E e : Laid(up[c], asked[c], taken[c], e, ~cut[c])
    BY DEF OnTheWay
  <2>1. up[c] = << >> /\ asked[c] = << >> /\ taken[c] = 0 /\ cut[c] = FALSE
    BY DEF Init
  <2>2. (~cut[c]) = TRUE
    BY <2>1
  <2> QED BY <2>1, <2>2, LaidNone
<1>3. HandledWasAsked
  BY DEF Init, HandledWasAsked
<1> QED BY <1>1, <1>2, <1>3 DEF IInv

\* Steps that touch neither the requests on their way nor the one in hand.
LEMMA Elsewhere ==
  ASSUME IInv, UNCHANGED << up, asked, taken, cut >>, pending' \in Seq(Clients),
         s_pc' # "accept" => client' \in Clients,
         s_pc' \in {"process", "send"} =>
           s_pc \in {"process", "send"} /\ UNCHANGED << client, s_line >>
  PROVE  IInv'
<1>1. Types'
  BY DEF IInv, Types
<1>2. OnTheWay'
  BY DEF IInv, OnTheWay
<1>3. HandledWasAsked'
  BY DEF IInv, HandledWasAsked
<1> QED BY <1>1, <1>2, <1>3 DEF IInv

\* A request is written, and the one in hand stays where it is.
LEMMA SendRequestStep ==
  ASSUME IInv, NEW c \in Clients, NEW name \in Names,
         SendRequest(c, name),
         UNCHANGED << taken, cut, pending, s_pc, client, s_line >>
  PROVE  IInv'
<1> DEFINE s2 == IF ~cut[c] THEN up[c] \o LineOf(name) ELSE up[c]
<1>1. /\ up \in [Clients -> Seq(Nat)] /\ asked \in [Clients -> Seq(Names)]
      /\ cut \in [Clients -> BOOLEAN]
  BY DEF IInv, Types
<1>2. asked' = [asked EXCEPT ![c] = Append(asked[c], name)]
  BY DEF SendRequest
<1>3. up' = [up EXCEPT ![c] = s2]
  <2>1. CASE cut[c]
    BY <1>1, <2>1 DEF SendRequest, Put
  <2>2. CASE ~cut[c]
    BY <1>1, <2>2 DEF SendRequest, Put, LineOf
  <2> QED BY <2>1, <2>2
<1>4. s2 \in Seq(Nat)
  <2>1. up[c] \in Seq(Nat) /\ LineOf(name) \in Seq(Nat)
    BY <1>1, LineFacts
  <2> QED BY <2>1, Joined
<1> HIDE DEF s2
<1>5. Append(asked[c], name) \in Seq(Names)
  BY <1>1
<1>6. /\ up' \in [Clients -> Seq(Nat)] /\ asked' \in [Clients -> Seq(Names)]
      /\ up'[c] = s2 /\ asked'[c] = Append(asked[c], name)
      /\ \A d \in Clients \ {c} : up'[d] = up[d] /\ asked'[d] = asked[d]
  BY <1>1, <1>2, <1>3, <1>4, <1>5
<1>7. Types'
  BY <1>6 DEF IInv, Types
<1>8. OnTheWay'
  <2> SUFFICES ASSUME NEW d \in Clients
               PROVE  \E e : Laid(up'[d], asked'[d], taken[d], e, ~cut[d])
    BY DEF OnTheWay
  <2>1. PICK e : Laid(up[d], asked[d], taken[d], e, ~cut[d])
    BY DEF IInv, OnTheWay
  <2>2. CASE d # c
    BY <1>6, <2>1, <2>2
  <2>3. CASE d = c
    <3>1. up[c] \in Seq(Nat) /\ asked[c] \in Seq(Names) /\ (~cut[c]) \in BOOLEAN
      BY <1>1
    <3>2. \E f : Laid(s2, Append(asked[c], name), taken[c], f, ~cut[c])
      BY <2>1, <2>3, <3>1, LaidMore DEF s2
    <3> QED BY <1>6, <2>3, <3>2
  <2> QED BY <2>2, <2>3
<1>9. HandledWasAsked'
  <2> SUFFICES ASSUME s_pc \in {"process", "send"}, s_line # << >>
               PROVE  /\ taken[client] \in DOMAIN asked'[client]
                      /\ LET n == asked'[client][taken[client]] IN
                           \/ s_line = n
                           \/ cut[client] /\ IsStrictPrefix(s_line, n \o << CR, LF >>)
    BY DEF HandledWasAsked
  <2>1. client \in Clients
    BY DEF IInv, Types
  <2>2. /\ taken[client] \in DOMAIN asked[client]
        /\ LET n == asked[client][taken[client]] IN
             \/ s_line = n
             \/ cut[client] /\ IsStrictPrefix(s_line, n \o << CR, LF >>)
    BY DEF IInv, HandledWasAsked
  <2>3. /\ taken[client] \in DOMAIN asked'[client]
        /\ asked'[client][taken[client]] = asked[client][taken[client]]
    <3>1. CASE client # c
      BY <1>6, <2>1, <2>2, <3>1
    <3>2. CASE client = c
      <4>1. /\ DOMAIN asked[c] \subseteq DOMAIN Append(asked[c], name)
            /\ \A i \in DOMAIN asked[c] : Append(asked[c], name)[i] = asked[c][i]
        BY <1>1
      <4> QED BY <1>6, <2>2, <3>2, <4>1
    <3> QED BY <3>1, <3>2
  <2> QED BY <2>2, <2>3
<1> QED BY <1>7, <1>8, <1>9 DEF IInv

\* get_nvt_line() in the server.
LEMMA ReadRequestStep ==
  ASSUME IInv, ReadRequest
  PROVE  IInv'
<1> DEFINE s == up[client]
           A == asked[client]
           t == taken[client]
           w == ~cut[client]
<1>1. client \in Clients
  BY DEF IInv, Types, ReadRequest
<1>2. /\ up \in [Clients -> Seq(Nat)] /\ asked \in [Clients -> Seq(Names)]
      /\ cut \in [Clients -> BOOLEAN] /\ taken \in [Clients -> Nat]
      /\ pending \in Seq(Clients)
  BY DEF IInv, Types
<1>3. /\ s_line' = NextLine(s) /\ up' = [up EXCEPT ![client] = AfterLine(s)]
      /\ taken' = [taken EXCEPT ![client] = t + IF s = << >> THEN 0 ELSE 1]
      /\ UNCHANGED << asked, cut, pending, client >> /\ s_pc' = "process"
  BY DEF ReadRequest, cVars, ends
<1>4. s \in Seq(Nat) /\ A \in Seq(Names) /\ t \in Nat /\ w \in BOOLEAN
  BY <1>1, <1>2
<1>5. PICK e : Laid(s, A, t, e, w)
  BY <1>1 DEF IInv, OnTheWay
<1>6. CASE s = << >>
  <2>1. LineEnds(s) = {}
    BY <1>6 DEF LineEnds
  <2>2. NextLine(s) = << >> /\ AfterLine(s) = << >>
    BY <1>6, <2>1 DEF NextLine, AfterLine
  <2>3. up' = up /\ taken' = taken
    BY <1>2, <1>3, <1>4, <1>6, <2>2
  <2>4. Types'
    BY <1>1, <1>3, <2>3 DEF IInv, Types
  <2>5. OnTheWay'
    BY <1>3, <2>3 DEF IInv, OnTheWay
  <2>6. HandledWasAsked'
    BY <1>3, <2>2 DEF HandledWasAsked
  <2> QED BY <2>4, <2>5, <2>6 DEF IInv
<1>7. CASE s # << >>
  <2> HIDE DEF s, A, t, w
  <2>1. /\ t + 1 \in 1 .. Len(A) /\ AfterLine(s) \in Seq(Nat)
        /\ \/ NextLine(s) = A[t + 1]
           \/ ~w /\ IsStrictPrefix(NextLine(s), LineOf(A[t + 1]))
        /\ \E f : Laid(AfterLine(s), A, t + 1, f, w)
    BY <1>4, <1>5, <1>7, LineRead
  <2>2. /\ up' = [up EXCEPT ![client] = AfterLine(s)]
        /\ taken' = [taken EXCEPT ![client] = t + 1]
    BY <1>3, <1>7
  <2>3. /\ up' \in [Clients -> Seq(Nat)] /\ taken' \in [Clients -> Nat]
        /\ up'[client] = AfterLine(s) /\ taken'[client] = t + 1
        /\ \A d \in Clients \ {client} : up'[d] = up[d] /\ taken'[d] = taken[d]
    BY <1>1, <1>2, <1>4, <2>1, <2>2
  <2>4. Types'
    BY <1>1, <1>3, <2>3 DEF IInv, Types
  <2>5. OnTheWay'
    <3> SUFFICES ASSUME NEW d \in Clients
                 PROVE  \E f : Laid(up'[d], asked[d], taken'[d], f, ~cut[d])
      BY <1>3 DEF OnTheWay
    <3>1. CASE d # client
      BY <2>3, <3>1 DEF IInv, OnTheWay
    <3>2. CASE d = client
      BY <2>1, <2>3, <3>2 DEF A, w
    <3> QED BY <3>1, <3>2
  <2>6. HandledWasAsked'
    <3>1. taken'[client] \in DOMAIN asked[client]
      BY <1>4, <2>1, <2>3 DEF A
    <3>2. \/ s_line' = asked[client][taken'[client]]
          \/ /\ cut[client]
             /\ IsStrictPrefix(s_line', asked[client][taken'[client]] \o << CR, LF >>)
      BY <1>3, <2>1, <2>3 DEF A, w, LineOf
    <3> QED BY <1>3, <3>1, <3>2 DEF HandledWasAsked
  <2> QED BY <2>4, <2>5, <2>6 DEF IInv
<1> QED BY <1>6, <1>7

\* The connection is given up.
LEMMA GiveUpStep ==
  ASSUME IInv, NEW c \in Clients, GiveUp(c)
  PROVE  IInv'
<1>1. PICK i \in 0 .. Len(up[c]) : up' = [up EXCEPT ![c] = SubSeq(up[c], 1, i)]
  BY DEF GiveUp
<1>2. /\ cut' = [cut EXCEPT ![c] = TRUE]
      /\ UNCHANGED << asked, taken, pending, s_pc, client, s_line >>
  BY DEF GiveUp, cVars, sVars
<1>3. /\ up \in [Clients -> Seq(Nat)] /\ asked \in [Clients -> Seq(Names)]
      /\ cut \in [Clients -> BOOLEAN]
  BY DEF IInv, Types
<1> DEFINE u == SubSeq(up[c], 1, i)
<1>4. u \in Seq(Nat)
  BY <1>3
<1>5. /\ up' \in [Clients -> Seq(Nat)] /\ cut' \in [Clients -> BOOLEAN]
      /\ up'[c] = u /\ cut'[c] = TRUE
      /\ \A d \in Clients \ {c} : up'[d] = up[d] /\ cut'[d] = cut[d]
  <2> HIDE DEF u
  <2>1. up' = [up EXCEPT ![c] = u]
    BY <1>1 DEF u
  <2> QED BY <1>2, <1>3, <1>4, <2>1
<1>6. Types'
  BY <1>2, <1>5 DEF IInv, Types
<1>7. OnTheWay'
  <2> SUFFICES ASSUME NEW d \in Clients
               PROVE  \E f : Laid(up'[d], asked[d], taken[d], f, ~cut'[d])
    BY <1>2 DEF OnTheWay
  <2>1. PICK e : Laid(up[d], asked[d], taken[d], e, ~cut[d])
    BY DEF IInv, OnTheWay
  <2>2. CASE d # c
    BY <1>5, <2>1, <2>2
  <2>3. CASE d = c
    <3>1. up[c] \in Seq(Nat) /\ asked[c] \in Seq(Names)
      BY <1>3
    <3>2. Laid(u, asked[c], taken[c], e, FALSE)
      BY <2>1, <2>3, <3>1, LaidCut
    <3>3. (~cut'[c]) = FALSE
      BY <1>5
    <3> QED BY <1>5, <2>3, <3>2, <3>3
  <2> QED BY <2>2, <2>3
<1>8. HandledWasAsked'
  <2>1. s_pc \in {"process", "send"} => client \in Clients
    BY DEF IInv, Types
  <2>2. client \in Clients /\ cut[client] => cut'[client]
    BY <1>5
  <2> QED BY <1>2, <2>1, <2>2 DEF IInv, HandledWasAsked
<1> QED BY <1>6, <1>7, <1>8 DEF IInv

LEMMA Invariance == ASSUME IInv, [Next]_vars PROVE IInv'
<1>1. pending \in Seq(Clients) /\ (s_pc # "accept" => client \in Clients)
  BY DEF IInv, Types
<1>2. ASSUME NEW c \in Clients, Connect(c) PROVE IInv'
  <2>1. pending' \in Seq(Clients)
    BY <1>1, <1>2 DEF Connect
  <2>2. UNCHANGED << up, asked, taken, cut, s_pc, client, s_line >>
    BY <1>2 DEF Connect, ends, sVars
  <2> QED BY <1>1, <2>1, <2>2, Elsewhere
<1>3. ASSUME NEW c \in Clients, NEW name \in Names, Request(c, name) PROVE IInv'
  BY <1>3, SendRequestStep DEF Request, ends, sVars
<1>4. ASSUME NEW c \in Clients, NEW name \in Names, Type(c, name) PROVE IInv'
  <2>1. UNCHANGED << taken, cut, pending, s_pc, client, s_line >>
    BY <1>4 DEF Type, ends, sVars
  <2>2. CASE SendRequest(c, name)
    BY <2>1, <2>2, SendRequestStep
  <2>3. CASE UNCHANGED << up, asked >>
    BY <1>1, <2>1, <2>3, Elsewhere
  <2> QED BY <1>4, <2>2, <2>3 DEF Type
<1>5. ASSUME UNCHANGED << up, asked, taken, cut, pending, s_pc, client, s_line >>
      PROVE  IInv'
  BY <1>1, <1>5, Elsewhere
<1>6. ASSUME NEW c \in Clients,
             \/ ReadReply(c) \/ ParseReply(c) \/ ReadContent(c) \/ FinishFile(c)
             \/ FewerBytes(c) \/ EndInput(c)
      PROVE  IInv'
  BY <1>5, <1>6 DEF ReadReply, ParseReply, ReadContent, FinishFile, FewerBytes,
                    EndInput, ends, cVars, sVars
<1>7. ASSUME Accept PROVE IInv'
  <2>1. client' \in Clients /\ pending' \in Seq(Clients)
    BY <1>1, <1>7 DEF Accept
  <2>2. UNCHANGED << up, asked, taken, cut >> /\ s_pc' \in {"exit", "line"}
    BY <1>7 DEF Accept, ends, cVars
  <2> QED BY <2>1, <2>2, Elsewhere
<1>8. ASSUME ProcessLine PROVE IInv'
  <2>1. /\ UNCHANGED << up, asked, taken, cut, pending, client >>
        /\ s_pc = "process"
        /\ \/ s_pc' \in {"close", "line"}
           \/ s_pc' = "send" /\ s_line' = s_line
    BY <1>8 DEF ProcessLine, CloseConnection, cVars
  <2> QED BY <1>1, <2>1, Elsewhere
<1>9. ASSUME SendContent PROVE IInv'
  <2>1. /\ UNCHANGED << up, asked, taken, cut, pending, client >>
        /\ s_pc = "send"
        /\ \/ s_pc' \in {"close", "line"}
           \/ s_pc' = "send" /\ s_line' = s_line
    BY <1>9 DEF SendContent, CloseConnection, cVars
  <2> QED BY <1>1, <2>1, Elsewhere
<1>10. ASSUME ConnectionClosed PROVE IInv'
  <2>1. UNCHANGED << up, asked, taken, cut, pending, client >> /\ s_pc' = "accept"
    BY <1>10 DEF ConnectionClosed, ends, cVars
  <2> QED BY <1>1, <2>1, Elsewhere
<1>11. ASSUME NEW f \in DOMAIN Content, ChangeFile(f) PROVE IInv'
  BY <1>5, <1>11 DEF ChangeFile, ends, cVars, sVars
<1>12. CASE UNCHANGED vars
  BY <1>5, <1>12 DEF vars, ends, cVars, sVars
<1> QED BY <1>2, <1>3, <1>4, <1>6, <1>7, <1>8, <1>9, <1>10, <1>11, <1>12,
           ReadRequestStep, GiveUpStep DEF Next, ClientStep, ServerStep

\* Whatever the clients ask, however the bytes of their requests come and
\* wherever a connection breaks, the line that do_connection() processes is
\* the next request of the client it serves, or the beginning of that request
\* when the connection was given up (get_nvt_line() and process_line()).
THEOREM HandledCorrect ==
  Spec => []HandledWasAsked
<1>1. Init => IInv
  BY InitStep
<1>2. IInv /\ [Next]_vars => IInv'
  BY Invariance
<1>3. IInv => HandledWasAsked
  BY DEF IInv
<1> QED BY <1>1, <1>2, <1>3, PTL DEF Spec

----------------------------------------------------------------------------
(* Replies: what is on its way to a client.                                *)

Sending(c) == s_pc = "send" /\ client = c
Handling(c) == s_pc = "process" /\ client = c /\ s_line # << >>
Name(c) == Last(asked[c])

\* The server has read all that c asked, and answered it.
Settled(c) == taken[c] = Len(asked[c]) /\ ~Handling(c)

\* The server has answered all but the last request.
Turn(c) ==
  \/ taken[c] = Len(asked[c])
  \/ taken[c] + 1 = Len(asked[c]) /\ ~Handling(c)

\* What follows the first d bytes of s is a part of sp, the last one if whole.
Ends(s, d, sp, whole) ==
  \E k \in Int :
    /\ \A x \in d + 1 .. Len(s) : k + x \in 1 .. Len(sp) /\ s[x] = sp[k + x]
    /\ whole => Len(s) <= d \/ k + Len(s) = Len(sp)

\* Nothing but bytes past the announced size is on its way to c.
Overrun(c) ==
  /\ Ends(down[c], 0, spilled[c], ~cut[c])
  /\ Sending(c) /\ ~cut[c] => offset >= announced[c]

\* The bytes s are those of the file after the first got.
Body(c, s, got) ==
  /\ Name(c) \in DOMAIN Content
  /\ got + Len(s) <= Len(Content[Name(c)])
  /\ \A x \in 1 .. Len(s) : s[x] = Content[Name(c)][got + x]
  /\ Ends(s, announced[c] - got, spilled[c], ~cut[c])
  /\ Sending(c) /\ ~cut[c] => offset = got + Len(s)

\* The bytes s are what follows a reply with length n.
Announce(c, n, s) ==
  \/ n = -1 /\ s = << >> /\ ~Sending(c)
  \/ n = announced[c] /\ n \in 0 .. 9 /\ Body(c, s, 0)

Starts(s, t) == Len(s) < Len(t) /\ \A x \in 1 .. Len(s) : s[x] = t[x]

\* The surplus of earlier replies, the reply line and what follows it are on
\* their way, or the beginning of these.
Replied(c) ==
  /\ Settled(c) /\ Name(c) \in Names /\ Name(c) # << >>
  /\ \E s \in Seq(Nat), n \in -1 .. 9, b \in Seq(Nat) :
       /\ Ends(s, 0, spilled[c], FALSE) /\ Announce(c, n, b)
       /\ \/ down[c] = (s \o Reply(Name(c), n)) \o b
          \/ cut[c] /\ b = << >> /\ Starts(down[c], s \o Reply(Name(c), n))

\* A reply was cut within a name that has a comma.
Garbled(c) == cut[c] /\ down[c] = << >> /\ Commas(Name(c)) # {}

Field(n) == IF n = -1 THEN MinusOne ELSE << Digit(n) >>

Idle(c) ==
  c_pc[c] \in {"start", "prompt"} => Overrun(c) /\ (cut[c] \/ Settled(c))

Awaits(c) ==
  c_pc[c] = "line" => Replied(c) \/ (Overrun(c) /\ (cut[c] \/ Turn(c)))

Parses(c) ==
  c_pc[c] = "parse" =>
    \/ Malformed(c_line[c]) \/ Garbled(c)
    \/ /\ Settled(c) /\ ~Malformed(c_line[c])
       /\ \E n \in -1 .. 9 :
            LengthField(c_line[c]) = Field(n) /\ Announce(c, n, down[c])

Receives(c) ==
  c_pc[c] = "body" =>
    \/ Garbled(c)
    \/ /\ Settled(c) /\ length[c] \in 0 .. announced[c]
       /\ Body(c, down[c], announced[c] - length[c])
       /\ read[c] = SubSeq(Content[Name(c)], 1, announced[c] - length[c])

Ended(c) ==
  outcome[c] = "file" =>
    /\ c_pc[c] \in {"prompt", "done"}
    /\ \/ cut[c] /\ Commas(Name(c)) # {}
       \/ /\ Settled(c) /\ Name(c) \in DOMAIN Content
          /\ IsPrefix(read[c], Content[Name(c)]) /\ Len(read[c]) = announced[c]

\* The surplus bytes may be taken for a reply.
Exempt(c) ==
  \/ LineEnds(spilled[c]) # {}
  \/ down_end[c] /\ Commas(spilled[c]) # {}

Good(c) == Idle(c) /\ Awaits(c) /\ Parses(c) /\ Receives(c) /\ Ended(c)

ClientPcs == {"start", "prompt", "line", "parse", "body", "done", "failed"}
Outcomes == {"none", "file", "error", "malformed", "short"}

Sizes ==
  /\ size \in [DOMAIN Content -> Nat]
  /\ \A f \in DOMAIN Content : size[f] <= Len(Content[f])
  /\ down \in [Clients -> Seq(Nat)] /\ spilled \in [Clients -> Seq(Nat)]
  /\ announced \in [Clients -> 0 .. 9] /\ offset \in Nat
  /\ c_pc \in [Clients -> ClientPcs] /\ outcome \in [Clients -> Outcomes]
  /\ c_line \in [Clients -> Seq(Nat)] /\ read \in [Clients -> Seq(Nat)]
  /\ length \in [Clients -> Int]
  /\ down_end \in [Clients -> BOOLEAN]
  /\ \A c \in Clients : cut[c] => down_end[c]
  /\ s_pc = "send" => s_line \in DOMAIN Content

RInv == IInv /\ Sizes /\ \A c \in Clients : Exempt(c) \/ Good(c)

----------------------------------------------------------------------------
(* Surplus bytes.                                                          *)

LEMMA EndsNone ==
  ASSUME NEW d \in Nat, NEW sp \in Seq(Nat), NEW w
  PROVE  Ends(<< >>, d, sp, w)
<1>1. /\ 0 \in Int /\ Len(<< >>) = 0 /\ d + 1 .. Len(<< >>) = {}
      /\ Len(<< >>) <= d
  OBVIOUS
<1> QED BY <1>1 DEF Ends

\* There is no line end and no comma in a part if there is none in the whole.
LEMMA EndsClean ==
  ASSUME NEW s \in Seq(Nat), NEW sp \in Seq(Nat), NEW w, Ends(s, 0, sp, w)
  PROVE  /\ LineEnds(sp) = {} => LineEnds(s) = {}
         /\ Commas(sp) = {} => Commas(s) = {}
<1>1. PICK k \in Int : \A x \in 1 .. Len(s) : k + x \in 1 .. Len(sp) /\ s[x] = sp[k + x]
  <2>1. 0 + 1 = 1
    OBVIOUS
  <2> QED BY <2>1 DEF Ends
<1>2. Len(s) \in Nat /\ Len(sp) \in Nat
  OBVIOUS
<1>3. ASSUME NEW x \in LineEnds(s) PROVE LineEnds(sp) # {}
  <2>1. x \in 1 .. Len(s) - 1 /\ s[x] = CR /\ s[x + 1] = LF
    BY DEF LineEnds
  <2>2. x \in 1 .. Len(s) /\ x + 1 \in 1 .. Len(s) /\ k + (x + 1) = (k + x) + 1
    BY <1>2, <2>1
  <2>3. /\ sp[k + x] = CR /\ sp[(k + x) + 1] = LF
        /\ k + x \in 1 .. Len(sp) /\ (k + x) + 1 \in 1 .. Len(sp)
    <3>1. k + x \in 1 .. Len(sp) /\ s[x] = sp[k + x]
      BY <1>1, <2>2
    <3>2. k + (x + 1) \in 1 .. Len(sp) /\ s[x + 1] = sp[k + (x + 1)]
      BY <1>1, <2>2
    <3> HIDE <1>1
    <3> QED BY <2>1, <2>2, <3>1, <3>2
  <2>4. k + x \in 1 .. Len(sp) - 1
    BY <1>2, <2>3
  <2> QED BY <2>3, <2>4 DEF LineEnds
<1>4. ASSUME NEW x \in Commas(s) PROVE Commas(sp) # {}
  <2>1. x \in 1 .. Len(s) /\ s[x] = Comma
    BY DEF Commas
  <2>2. k + x \in 1 .. Len(sp) /\ sp[k + x] = Comma
    BY <1>1, <2>1
  <2>3. DOMAIN sp = 1 .. Len(sp)
    OBVIOUS
  <2> QED BY <2>2, <2>3 DEF Commas
<1> QED BY <1>3, <1>4

\* What is left when a stream is cut.
LEMMA EndsCut ==
  ASSUME NEW s \in Seq(Nat), NEW d \in Nat, NEW sp \in Seq(Nat), NEW w,
         Ends(s, d, sp, w), NEW u \in Seq(Nat), Len(u) <= Len(s),
         \A x \in 1 .. Len(u) : u[x] = s[x]
  PROVE  Ends(u, d, sp, FALSE)
<1>1. PICK k \in Int :
        \A x \in d + 1 .. Len(s) : k + x \in 1 .. Len(sp) /\ s[x] = sp[k + x]
  BY DEF Ends
<1>2. \A x \in d + 1 .. Len(u) : x \in d + 1 .. Len(s) /\ x \in 1 .. Len(u)
  OBVIOUS
<1> QED BY <1>1, <1>2 DEF Ends

\* More bytes are spilled, but do not arrive.
LEMMA EndsLonger ==
  ASSUME NEW s \in Seq(Nat), NEW d \in Nat, NEW sp \in Seq(Nat), NEW w,
         Ends(s, d, sp, w), NEW b \in Seq(Nat)
  PROVE  Ends(s, d, sp \o b, FALSE)
<1>1. PICK k \in Int :
        \A x \in d + 1 .. Len(s) : k + x \in 1 .. Len(sp) /\ s[x] = sp[k + x]
  BY DEF Ends
<1> DEFINE t == sp \o b
<1>2. Len(t) = Len(sp) + Len(b) /\ \A i \in 1 .. Len(sp) : t[i] = sp[i]
  BY Joined
<1>3. Len(sp) \in Nat /\ Len(b) \in Nat
  OBVIOUS
<1> HIDE DEF t
<1>4. \A i \in 1 .. Len(sp) : i \in 1 .. Len(t)
  BY <1>2, <1>3
<1>5. \A x \in d + 1 .. Len(s) : k + x \in 1 .. Len(t) /\ s[x] = t[k + x]
  BY <1>1, <1>2, <1>4
<1>6. Ends(s, d, t, FALSE)
  BY <1>5 DEF Ends
<1> QED BY <1>6 DEF t

\* The first bytes have been taken.
LEMMA EndsRest ==
  ASSUME NEW s \in Seq(Nat), NEW d \in Nat, NEW sp \in Seq(Nat), NEW w,
         Ends(s, d, sp, w), NEW g \in Nat, g <= d,
         NEW u \in Seq(Nat), Len(s) = Len(u) + g,
         \A x \in 1 .. Len(u) : u[x] = s[g + x]
  PROVE  Ends(u, d - g, sp, w)
<1>1. PICK k \in Int :
        /\ \A x \in d + 1 .. Len(s) : k + x \in 1 .. Len(sp) /\ s[x] = sp[k + x]
        /\ w => Len(s) <= d \/ k + Len(s) = Len(sp)
  BY DEF Ends
<1>2. Len(s) \in Nat /\ Len(u) \in Nat /\ Len(sp) \in Nat
  OBVIOUS
<1> DEFINE j == k + g
           e == d - g
           n == Len(s)
           m == Len(u)
<1>3. ASSUME NEW x \in e + 1 .. Len(u)
      PROVE  j + x \in 1 .. Len(sp) /\ u[x] = sp[j + x]
  <2>1. n \in Nat /\ m \in Nat /\ n = m + g /\ x \in e + 1 .. m
    BY <1>2
  <2> HIDE DEF n, m
  <2>2. x \in Int /\ x <= m /\ x >= (d - g) + 1
    BY <2>1
  <2>3. g + x \in d + 1 .. n
    BY <2>1, <2>2
  <2>4. x \in 1 .. m
    BY <2>1, <2>2
  <2>5. k + (g + x) = j + x
    BY <2>2
  <2> HIDE DEF j, e
  <2>6. k + (g + x) \in 1 .. Len(sp) /\ s[g + x] = sp[k + (g + x)]
    BY <1>1, <2>3 DEF n
  <2>7. u[x] = s[g + x]
    BY <2>4 DEF m
  <2> QED BY <2>5, <2>6, <2>7
<1>4. w => Len(u) <= e \/ j + Len(u) = Len(sp)
  BY <1>1, <1>2
<1>5. j \in Int
  OBVIOUS
<1> HIDE DEF j
<1> QED BY <1>3, <1>4, <1>5 DEF Ends

LEMMA Dropped ==
  ASSUME NEW a \in Seq(Nat), NEW r \in Nat, NEW b, b = SubSeq(a, r + 1, Len(a))
  PROVE  /\ b \in Seq(Nat) /\ Len(b) \in Nat
         /\ (r <= Len(a) => Len(a) = Len(b) + r) /\ (r > Len(a) => Len(b) = 0)
         /\ \A x \in 1 .. Len(b) : b[x] = a[r + x]
<1> DEFINE m == Len(a)
<1>1. m \in Nat
  OBVIOUS
<1>2. CASE r <= m
  <2>1. /\ b \in Seq(Nat) /\ Len(b) \in Nat /\ m = Len(b) + r
        /\ \A x \in 1 .. Len(b) : b[x] = a[r + x]
    BY <1>2, RestOf
  <2> QED BY <1>1, <1>2, <2>1
<1>3. CASE r > m
  <2>1. b = << >>
    BY <1>1, <1>3
  <2>2. << >> \in Seq(Nat) /\ Len(<< >>) = 0 /\ 1 .. 0 = {} /\ 0 \in Nat
    OBVIOUS
  <2>3. ~(r <= m)
    BY <1>1, <1>3
  <2>4. b \in Seq(Nat) /\ Len(b) = 0
    BY <2>1, <2>2
  <2>5. \A x \in 1 .. Len(b) : b[x] = a[r + x]
    BY <2>2, <2>4
  <2> QED BY <2>2, <2>3, <2>4, <2>5
<1> QED BY <1>1, <1>2, <1>3

\* A chunk of the file is sent, and what is too much of it is spilled.
LEMMA EndsMore ==
  ASSUME NEW s \in Seq(Nat), NEW d \in Nat, NEW sp \in Seq(Nat),
         Ends(s, d, sp, TRUE), NEW a \in Seq(Nat), NEW r \in Nat,
         d > Len(s) => r = d - Len(s), d <= Len(s) => r = 0
  PROVE  Ends(s \o a, d, sp \o SubSeq(a, r + 1, Len(a)), TRUE)
<1> DEFINE n == Len(s)
           m == Len(a)
           b == SubSeq(a, r + 1, m)
           u == s \o a
           t == sp \o b
           l == Len(sp)
<1>1. PICK k \in Int :
        /\ \A x \in d + 1 .. n : k + x \in 1 .. l /\ s[x] = sp[k + x]
        /\ n <= d \/ k + n = l
  BY DEF Ends
<1>2. n \in Nat /\ m \in Nat /\ l \in Nat
  OBVIOUS
<1>3. /\ u \in Seq(Nat) /\ Len(u) = n + m
      /\ \A i \in 1 .. n : u[i] = s[i]
      /\ \A x \in 1 .. m : u[n + x] = a[x]
  BY Joined
<1> DEFINE p == Len(b)
           q == Len(u)
           v == Len(t)
<1>4. /\ b \in Seq(Nat) /\ p \in Nat /\ (r <= m => m = p + r) /\ (r > m => p = 0)
      /\ \A x \in 1 .. p : b[x] = a[r + x]
  BY Dropped
<1> HIDE DEF b
<1>5. /\ v = l + p
      /\ \A i \in 1 .. l : t[i] = sp[i]
      /\ \A x \in 1 .. p : t[l + x] = b[x]
  BY <1>4, Joined
<1>8. r \in Nat /\ (d > n => r = d - n) /\ (d <= n => r = 0) /\ q = n + m
  BY <1>2, <1>3
<1> HIDE DEF n, m, l, u, t, p, q, v
<1>6. CASE n <= d
  <2> DEFINE j == l - d
  <2>1. j \in Int /\ r = d - n
    BY <1>2, <1>6, <1>8
  <2>2. ASSUME NEW x \in d + 1 .. q
        PROVE  j + x \in 1 .. v /\ u[x] = t[j + x]
    <3> DEFINE y == x - n
               z == x - d
    <3>1. x \in Int /\ x >= d + 1 /\ x <= n + m
      BY <1>2, <1>8
    <3>2. y \in 1 .. m /\ n + y = x /\ l + z = j + x /\ r + z = y
      BY <1>2, <1>6, <2>1, <3>1
    <3>3. z \in 1 .. p
      BY <1>2, <1>4, <1>6, <2>1, <3>1
    <3>4. l + z \in 1 .. v
      BY <1>2, <1>4, <1>5, <3>3
    <3> HIDE DEF y, z, j
    <3>5. u[x] = a[y] /\ b[z] = a[y] /\ t[l + z] = b[z]
      BY <1>3, <1>4, <1>5, <3>2, <3>3
    <3> QED BY <3>2, <3>4, <3>5
  <2>3. q <= d \/ j + q = v
    <3>1. CASE r <= m
      <4>1. m = p + (d - n)
        BY <1>4, <2>1, <3>1
      <4> QED BY <1>2, <1>4, <1>5, <1>8, <4>1
    <3>2. CASE r > m
      BY <1>2, <1>6, <1>8, <2>1, <3>2
    <3> QED BY <1>2, <1>8, <3>1, <3>2
  <2> HIDE DEF j
  <2> QED BY <2>1, <2>2, <2>3 DEF Ends, u, t, b, m, q, v
<1>7. CASE ~(n <= d)
  <2>1. r = 0 /\ k + n = l /\ p = m
    BY <1>1, <1>2, <1>4, <1>7, <1>8
  <2>2. ASSUME NEW x \in d + 1 .. q
        PROVE  k + x \in 1 .. v /\ u[x] = t[k + x]
    <3>1. CASE x <= n
      <4>1. x \in d + 1 .. n /\ x \in 1 .. n
        BY <1>2, <3>1
      <4>2. k + x \in 1 .. l /\ u[x] = sp[k + x]
        BY <1>1, <1>3, <4>1
      <4>3. k + x \in 1 .. v
        BY <1>2, <1>4, <1>5, <4>2
      <4>4. t[k + x] = sp[k + x]
        BY <1>5, <4>2
      <4> QED BY <4>2, <4>3, <4>4
    <3>2. CASE ~(x <= n)
      <4> DEFINE y == x - n
      <4>1. y \in 1 .. m /\ n + y = x /\ k + x = l + y /\ r + y = y
        BY <1>2, <1>8, <2>1, <3>2
      <4>3. l + y \in 1 .. v
        BY <1>2, <1>5, <2>1, <4>1
      <4> HIDE DEF y
      <4>2. u[x] = a[y] /\ t[l + y] = b[y] /\ b[y] = a[y]
        BY <1>3, <1>4, <1>5, <2>1, <4>1
      <4> QED BY <4>1, <4>2, <4>3
    <3> QED BY <3>1, <3>2
  <2>3. k + q = v
    BY <1>2, <1>5, <1>8, <2>1
  <2> QED BY <2>2, <2>3 DEF Ends, u, t, b, m, q, v
<1> QED BY <1>6, <1>7

----------------------------------------------------------------------------
(* Reply lines.                                                            *)

\* The bytes of a reply: the m of the name, a comma, the f of the length, a
\* comma, a letter and the line end.
Shape(L, name, F, m, f) ==
  /\ m \in Nat /\ f \in Nat /\ f > 0 /\ L \in Seq(Nat) /\ F \in Seq(Nat)
  /\ Len(L) = m + f + 5
  /\ \A x \in 1 .. m : L[x] = name[x]
  /\ L[m + 1] = Comma
  /\ \A x \in 1 .. f : L[m + 1 + x] = F[x] /\ F[x] \notin {Comma, CR}
  /\ L[m + f + 2] = Comma
  /\ L[m + f + 3] \notin {Comma, CR}
  /\ L[m + f + 4] = CR
  /\ L[m + f + 5] = LF

LEMMA ReplyShape ==
  ASSUME NEW name \in Seq(Nat), NEW n \in -1 .. 9
  PROVE  Shape(Reply(name, n), name, Field(n), Len(name), Len(Field(n)))
<1> DEFINE m == Len(name)
           f == Len(Field(n))
           F == Field(n)
           a == IF n = -1 THEN 70 ELSE 79
           T == << Comma, a, CR, LF >>
           u == name \o << Comma >>
           v == u \o F
           L == v \o T
<1>1. Reply(name, n) = L
  BY DEF Reply, Field
<1>2. /\ F \in Seq(Nat) /\ f \in {1, 2}
      /\ \A x \in 1 .. f : F[x] \in Nat /\ F[x] \notin {Comma, CR}
  <2>1. CASE n = -1
    <3>1. F = << 45, 49 >>
      BY <2>1 DEF Field, MinusOne, Digit
    <3> QED BY <3>1 DEF Comma, CR
  <2>2. CASE n # -1
    <3>1. F = << 48 + n >> /\ n \in 0 .. 9
      BY <2>2 DEF Field, Digit
    <3> QED BY <3>1 DEF Comma, CR
  <2> QED BY <2>1, <2>2
<1>3. /\ T \in Seq(Nat) /\ Len(T) = 4 /\ T[1] = Comma /\ T[2] \notin {Comma, CR}
      /\ T[3] = CR /\ T[4] = LF
  BY DEF Comma, CR, LF
<1> HIDE DEF F, T
<1>4. m \in Nat /\ f \in Nat /\ f > 0 /\ Len(F) = f
  <2>1. f \in Nat /\ f > 0
    <3> HIDE DEF f
    <3> QED BY <1>2
  <2> QED BY <2>1 DEF F
<1> HIDE DEF m, f
<1>5. /\ u \in Seq(Nat) /\ Len(u) = m + 1
      /\ \A x \in 1 .. m : u[x] = name[x]
      /\ u[m + 1] = Comma
  <2>1. << Comma >> \in Seq(Nat) /\ Len(<< Comma >>) = 1 /\ << Comma >>[1] = Comma
    BY DEF Comma
  <2>2. /\ u \in Seq(Nat) /\ Len(u) = Len(name) + Len(<< Comma >>)
        /\ \A x \in 1 .. Len(name) : u[x] = name[x]
        /\ \A x \in 1 .. Len(<< Comma >>) : u[Len(name) + x] = << Comma >>[x]
    BY <2>1, Joined
  <2>3. m = Len(name) /\ 1 \in 1 .. Len(<< Comma >>)
    BY <2>1 DEF m
  <2>4. u[Len(name) + 1] = Comma
    BY <2>1, <2>2, <2>3
  <2> HIDE DEF u
  <2> QED BY <1>4, <2>1, <2>2, <2>3, <2>4
<1> HIDE DEF u
<1>6. /\ v \in Seq(Nat) /\ Len(v) = m + 1 + f
      /\ \A x \in 1 .. m + 1 : v[x] = u[x]
      /\ \A x \in 1 .. f : v[m + 1 + x] = F[x]
  <2>1. /\ v \in Seq(Nat) /\ Len(v) = Len(u) + Len(F)
        /\ \A x \in 1 .. Len(u) : v[x] = u[x]
        /\ \A x \in 1 .. Len(F) : v[Len(u) + x] = F[x]
    BY <1>2, <1>5, Joined
  <2> HIDE DEF v
  <2>2. Len(v) = m + 1 + f
    BY <1>4, <1>5, <2>1
  <2>3. ASSUME NEW x \in 1 .. f PROVE v[m + 1 + x] = F[x]
    <3>1. Len(u) + x = m + 1 + x
      BY <1>4, <1>5
    <3> QED BY <1>4, <2>1, <3>1
  <2> QED BY <1>4, <1>5, <2>1, <2>2, <2>3
<1> HIDE DEF v
<1>7. /\ L \in Seq(Nat) /\ Len(L) = m + 1 + f + 4
      /\ \A x \in 1 .. m + 1 + f : L[x] = v[x]
      /\ \A x \in 1 .. 4 : L[m + 1 + f + x] = T[x]
  <2>1. /\ L \in Seq(Nat) /\ Len(L) = Len(v) + Len(T)
        /\ \A x \in 1 .. Len(v) : L[x] = v[x]
        /\ \A x \in 1 .. Len(T) : L[Len(v) + x] = T[x]
    BY <1>3, <1>6, Joined
  <2> HIDE DEF L
  <2>2. Len(L) = m + 1 + f + 4
    BY <1>3, <1>4, <1>6, <2>1
  <2>3. ASSUME NEW x \in 1 .. 4 PROVE L[m + 1 + f + x] = T[x]
    <3>1. Len(v) + x = m + 1 + f + x
      BY <1>4, <1>6
    <3> QED BY <1>3, <2>1, <3>1
  <2> QED BY <1>4, <1>6, <2>1, <2>2, <2>3
<1> HIDE DEF L
<1>8. /\ Len(L) = m + f + 5 /\ m + 1 + f + 1 = m + f + 2
      /\ m + 1 + f + 2 = m + f + 3 /\ m + 1 + f + 3 = m + f + 4
      /\ m + 1 + f + 4 = m + f + 5
  BY <1>4, <1>7
<1>9. \A x \in 1 .. m : x \in 1 .. m + 1 /\ x \in 1 .. m + 1 + f
  BY <1>4
<1>10. \A x \in 1 .. m : L[x] = name[x]
  BY <1>5, <1>6, <1>7, <1>9
<1>11. L[m + 1] = Comma
  <2>1. m + 1 \in 1 .. m + 1 /\ m + 1 \in 1 .. m + 1 + f
    BY <1>4
  <2> QED BY <1>5, <1>6, <1>7, <2>1
<1>12. \A x \in 1 .. f : L[m + 1 + x] = F[x]
  <2>1. \A x \in 1 .. f : m + 1 + x \in 1 .. m + 1 + f
    BY <1>4
  <2> QED BY <1>6, <1>7, <2>1
<1>13. /\ L[m + 1 + f + 1] = T[1] /\ L[m + 1 + f + 2] = T[2]
       /\ L[m + 1 + f + 3] = T[3] /\ L[m + 1 + f + 4] = T[4]
  BY <1>7
<1>14. /\ L[m + f + 2] = Comma /\ L[m + f + 3] \notin {Comma, CR}
       /\ L[m + f + 4] = CR /\ L[m + f + 5] = LF
  BY <1>3, <1>8, <1>13
<1>15. Shape(L, name, F, m, f)
  BY <1>2, <1>4, <1>7, <1>8, <1>10, <1>11, <1>12, <1>14 DEF Shape
<1> QED BY <1>1, <1>15 DEF F, m, f

\* The bytes z end in their only line end.
OneLine(z) ==
  /\ z \in Seq(Nat) /\ Len(z) > 2 /\ z[Len(z) - 1] = CR /\ z[Len(z)] = LF
  /\ \A x \in 1 .. Len(z) - 2 : ~(z[x] = CR /\ z[x + 1] = LF)

\* Surplus bytes without a line end before a reply line do not end it earlier.
LEMMA ReplyEnd ==
  ASSUME NEW s \in Seq(Nat), LineEnds(s) = {}, NEW name \in Names, name # << >>,
         NEW n \in -1 .. 9
  PROVE  OneLine(s \o Reply(name, n))
<1> DEFINE m == Len(name)
           f == Len(Field(n))
           F == Field(n)
           L == Reply(name, n)
           l == Len(s)
           z == s \o L
           N == Len(z)
<1>1. /\ name \in Seq(Nat) /\ name[1] # LF
      /\ \A x \in 1 .. m - 1 : ~(name[x] = CR /\ name[x + 1] = LF)
  BY NamesAssumption DEF LineEnds
<1>2. \A x \in 1 .. l - 1 : ~(s[x] = CR /\ s[x + 1] = LF)
  BY DEF LineEnds
<1>3. m >= 1 /\ l \in Nat
  BY <1>1
<1>12. Shape(L, name, F, m, f)
  BY <1>1, ReplyShape
<1> HIDE DEF L, m, f, F
<1>4. /\ L \in Seq(Nat)
      /\ \A x \in 1 .. m : L[x] = name[x]
      /\ L[m + 1] = Comma
      /\ \A x \in 1 .. f : L[m + 1 + x] = F[x] /\ F[x] \notin {Comma, CR}
      /\ L[m + f + 2] = Comma
      /\ L[m + f + 3] \notin {Comma, CR}
      /\ L[m + f + 4] = CR
      /\ L[m + f + 5] = LF
  BY <1>12 DEF Shape
<1> DEFINE k == Len(L)
<1>13. m \in Nat /\ m >= 1 /\ f \in Nat /\ f > 0 /\ k = m + f + 5 /\ l \in Nat
  BY <1>3, <1>12 DEF Shape
<1>5. /\ z \in Seq(Nat) /\ N = l + k
      /\ \A x \in 1 .. l : z[x] = s[x]
      /\ \A x \in 1 .. k : z[l + x] = L[x]
  BY <1>4, Joined
<1> HIDE DEF l, k, z, N
<1>6. N = l + (m + f + 5) /\ N \in Nat /\ N > 2
  BY <1>13, <1>5
<1>7. z[N - 1] = CR /\ z[N] = LF
  <2>1. /\ m + f + 4 \in 1 .. k /\ m + f + 5 \in 1 .. k
        /\ l + (m + f + 4) = N - 1 /\ l + (m + f + 5) = N
    BY <1>13, <1>6
  <2> QED BY <1>4, <1>5, <2>1
<1>8. CR # Comma /\ CR # LF /\ LF # Comma
  BY DEF CR, LF, Comma
<1>9. ASSUME NEW y \in 1 .. m + f + 3 PROVE ~(L[y] = CR /\ L[y + 1] = LF)
  <2>1. CASE y \in 1 .. m - 1
    <3>1. y \in 1 .. m /\ y + 1 \in 1 .. m
      BY <1>13, <2>1
    <3> QED BY <1>1, <1>4, <2>1, <3>1 DEF m
  <2>2. CASE y = m
    <3>1. L[y + 1] = Comma
      BY <1>4, <2>2
    <3> QED BY <1>8, <3>1
  <2>3. CASE y = m + 1 \/ y = m + f + 2 \/ y = m + f + 3
    BY <1>4, <1>8, <2>3
  <2>4. CASE y \in m + 2 .. m + f + 1
    <3> DEFINE x == y - (m + 1)
    <3>1. x \in 1 .. f /\ m + 1 + x = y
      BY <1>13, <2>4
    <3> HIDE DEF x
    <3> QED BY <1>4, <3>1
  <2>5. \/ y \in 1 .. m - 1 \/ y = m \/ y = m + 1 \/ y = m + f + 2 \/ y = m + f + 3
        \/ y \in m + 2 .. m + f + 1
    BY <1>13
  <2> QED BY <2>1, <2>2, <2>3, <2>4, <2>5
<1>10. ASSUME NEW x \in 1 .. N - 2 PROVE ~(z[x] = CR /\ z[x + 1] = LF)
  <2>1. x \in Int /\ 1 <= x /\ x <= l + (m + f + 3)
    BY <1>13, <1>6
  <2>2. CASE x < l
    <3>1. x \in 1 .. l - 1 /\ x \in 1 .. l /\ x + 1 \in 1 .. l
      BY <1>13, <2>1, <2>2
    <3> QED BY <1>2, <1>5, <3>1 DEF l
  <2>3. CASE x = l
    <3>1. 1 \in 1 .. k /\ 1 \in 1 .. m
      BY <1>13
    <3>2. z[x + 1] = name[1]
      BY <1>4, <1>5, <2>3, <3>1
    <3> QED BY <1>1, <3>2
  <2>4. CASE x > l
    <3> DEFINE y == x - l
    <3>1. /\ y \in 1 .. m + f + 3 /\ y \in 1 .. k /\ y + 1 \in 1 .. k
          /\ l + y = x /\ l + (y + 1) = x + 1
      BY <1>13, <2>1, <2>4
    <3> HIDE DEF y
    <3>2. z[x] = L[y] /\ z[x + 1] = L[y + 1]
      BY <1>5, <3>1
    <3> QED BY <1>9, <3>1, <3>2
  <2> QED BY <1>13, <2>1, <2>2, <2>3, <2>4
<1>14. OneLine(z)
  BY <1>5, <1>6, <1>7, <1>10 DEF OneLine, N
<1> QED BY <1>14 DEF z, L

\* get_nvt_line() takes what precedes the line end, and leaves what follows.
LEMMA ReplyTaken ==
  ASSUME NEW z, OneLine(z), NEW b \in Seq(Nat)
  PROVE  /\ AfterLine(z \o b) = b
         /\ NextLine(z \o b) \in Seq(Nat) /\ Len(NextLine(z \o b)) = Len(z) - 2
         /\ \A x \in 1 .. Len(z) - 2 : NextLine(z \o b)[x] = z[x]
<1> DEFINE t == z \o b
           line == NextLine(t)
           N == Len(z)
           T == Len(t)
           B == Len(b)
<1>9. /\ z \in Seq(Nat) /\ N \in Nat /\ N > 2 /\ z[N - 1] = CR /\ z[N] = LF
      /\ \A x \in 1 .. N - 2 : ~(z[x] = CR /\ z[x + 1] = LF)
  BY DEF OneLine
<1>1. /\ t \in Seq(Nat) /\ T = N + B /\ B \in Nat /\ T \in Nat
      /\ \A x \in 1 .. N : t[x] = z[x]
      /\ \A x \in 1 .. B : t[N + x] = b[x]
  <2>1. /\ t \in Seq(Nat) /\ T = N + B
        /\ \A x \in 1 .. N : t[x] = z[x]
        /\ \A x \in 1 .. B : t[N + x] = b[x]
    BY <1>9, Joined
  <2>2. B \in Nat
    OBVIOUS
  <2>3. N \in Nat
    BY <1>9
  <2> HIDE DEF t, N, T, B
  <2>4. T \in Nat
    BY <2>1, <2>2, <2>3
  <2> QED BY <2>1, <2>2, <2>4, Zenon
<1>10. T = Len(t)
  OBVIOUS
<1> HIDE DEF t, N, T, B, line
<1>2. N - 1 \in 1 .. N /\ N \in 1 .. N /\ (N - 1) + 1 = N
  BY <1>9
<1>3. N - 1 \in LineEnds(t)
  <2>1. N - 1 \in 1 .. T - 1
    BY <1>1, <1>9
  <2>2. t[N - 1] = CR /\ t[(N - 1) + 1] = LF
    BY <1>1, <1>2, <1>9
  <2> QED BY <2>1, <2>2 DEF LineEnds, T
<1>4. ASSUME NEW x \in LineEnds(t) PROVE N - 1 <= x
  <2>1. x \in 1 .. T - 1 /\ t[x] = CR /\ t[x + 1] = LF
    BY <1>4 DEF LineEnds, T
  <2>2. SUFFICES ASSUME x < N - 1 PROVE FALSE
    BY <1>1, <1>9, <2>1
  <2>3. x \in 1 .. N - 2 /\ x \in 1 .. N /\ x + 1 \in 1 .. N
    BY <1>1, <1>9, <2>1, <2>2
  <2> QED BY <1>1, <1>9, <2>1, <2>3
<1> DEFINE M == Min(LineEnds(t))
<1>5. M = N - 1
  <2>5. 1 .. T - 1 \subseteq Nat
    BY <1>1
  <2>1. LineEnds(t) \subseteq Nat /\ LineEnds(t) # {}
    BY <1>3, <2>5 DEF LineEnds, T
  <2>2. M \in LineEnds(t) /\ \A y \in LineEnds(t) : M <= y
    BY <2>1, MinIs
  <2>3. M \in Nat
    BY <2>1, <2>2
  <2>4. N - 1 <= M /\ M <= N - 1
    BY <1>3, <1>4, <2>2
  <2> HIDE DEF M
  <2> QED BY <1>9, <2>3, <2>4
<1>6. line = SubSeq(t, 1, N - 2) /\ AfterLine(t) = SubSeq(t, N + 1, Len(t))
  <2>1. LineEnds(t) # {} /\ M - 1 = N - 2 /\ M + 2 = N + 1
    <3>1. LineEnds(t) # {}
      BY <1>3
    <3> HIDE DEF M
    <3> QED BY <1>5, <1>9, <3>1
  <2>2. line = SubSeq(t, 1, M - 1) /\ AfterLine(t) = SubSeq(t, M + 2, Len(t))
    BY <2>1 DEF NextLine, AfterLine, UpToLineEnd, line
  <2> HIDE DEF M
  <2> QED BY <2>1, <2>2
<1>7. /\ line \in Seq(Nat) /\ Len(line) = N - 2
      /\ \A x \in 1 .. N - 2 : line[x] = z[x]
  <2> DEFINE r == N - 2
  <2>1. r \in 0 .. T /\ \A x \in 1 .. r : x \in 1 .. N
    BY <1>1, <1>9
  <2> HIDE DEF r
  <2>2. /\ SubSeq(t, 1, r) \in Seq(Nat) /\ Len(SubSeq(t, 1, r)) = r
        /\ \A x \in 1 .. r : SubSeq(t, 1, r)[x] = t[x]
    BY <1>1, <1>10, <2>1
  <2>3. line = SubSeq(t, 1, r)
    BY <1>6 DEF r
  <2>4. line \in Seq(Nat) /\ Len(line) = r /\ \A x \in 1 .. r : line[x] = z[x]
    BY <1>1, <2>1, <2>2, <2>3
  <2> QED BY <2>4 DEF r
<1>8. AfterLine(t) = b
  <2> DEFINE u == SubSeq(t, N + 1, Len(t))
  <2>6. N <= Len(t)
    BY <1>1, <1>9, <1>10
  <2>1. /\ u \in Seq(Nat) /\ Len(u) \in Nat /\ Len(t) = Len(u) + N
        /\ \A x \in 1 .. Len(u) : u[x] = t[N + x]
    BY <1>1, <1>9, <2>6, RestOf
  <2> HIDE DEF u
  <2>2. Len(u) = Len(b)
    BY <1>1, <1>9, <1>10, <2>1 DEF B
  <2>3. u = [x \in 1 .. Len(u) |-> u[x]] /\ b = [x \in 1 .. Len(b) |-> b[x]]
    BY <2>1
  <2>4. \A x \in 1 .. Len(b) : u[x] = b[x]
    BY <1>1, <2>1, <2>2 DEF B
  <2>5. u = b
    BY <2>2, <2>3, <2>4
  <2> QED BY <1>6, <2>5 DEF u
<1> QED BY <1>7, <1>8 DEF t, N, line

\* If the connection was given up before the line end, all is taken.
LEMMA TornTaken ==
  ASSUME NEW z, OneLine(z), NEW t \in Seq(Nat), Starts(t, z)
  PROVE  NextLine(t) = t /\ AfterLine(t) = << >>
<1> DEFINE N == Len(z)
           T == Len(t)
<1>1. /\ T \in Nat /\ N \in Nat /\ T < N /\ \A x \in 1 .. T : t[x] = z[x]
      /\ \A x \in 1 .. N - 2 : ~(z[x] = CR /\ z[x + 1] = LF)
  <2>1. z \in Seq(Nat) /\ \A x \in 1 .. N - 2 : ~(z[x] = CR /\ z[x + 1] = LF)
    BY DEF OneLine
  <2>2. N \in Nat /\ T \in Nat
    BY <2>1
  <2> QED BY <2>1, <2>2 DEF Starts
<1>2. ASSUME NEW x \in LineEnds(t) PROVE FALSE
  <2>1. x \in 1 .. T - 1 /\ t[x] = CR /\ t[x + 1] = LF
    BY DEF LineEnds
  <2> HIDE DEF N, T
  <2>2. x \in 1 .. N - 2 /\ x \in 1 .. T /\ x + 1 \in 1 .. T
    BY <1>1, <2>1
  <2> QED BY <1>1, <2>1, <2>2
<1> QED BY <1>2 DEF NextLine, AfterLine

\* The k bytes after the first i.
LEMMA Between ==
  ASSUME NEW s \in Seq(Nat), NEW i \in Nat, NEW k \in Nat, i + k <= Len(s)
  PROVE  /\ SubSeq(s, i + 1, i + k) \in Seq(Nat)
         /\ Len(SubSeq(s, i + 1, i + k)) = k
         /\ \A x \in 1 .. k : SubSeq(s, i + 1, i + k)[x] = s[i + x]
<1> DEFINE j == i + k
           u == SubSeq(s, i + 1, j)
<1>1. u \in Seq(Nat)
  OBVIOUS
<1>2. Len(u) = k
  OBVIOUS
<1>3. ASSUME NEW x \in 1 .. k PROVE u[x] = s[i + x]
  <2>1. j \in Nat /\ j <= Len(s) /\ x \in 1 .. j - i /\ (i + 1) + (x - 1) = i + x
    OBVIOUS
  <2> HIDE DEF j
  <2>2. u[x] = s[(i + 1) + (x - 1)]
    BY <2>1
  <2> QED BY <2>1, <2>2
<1> QED BY <1>1, <1>2, <1>3

\* The places of the last two commas decide what is scanned.
LEMMA FieldFound ==
  ASSUME NEW line \in Seq(Nat), NEW p \in Nat, NEW q \in Nat,
         0 < p, p < q, q <= Len(line), line[p] = Comma, line[q] = Comma,
         \A x \in p + 1 .. q - 1 : line[x] # Comma,
         \A x \in q + 1 .. Len(line) : line[x] # Comma
  PROVE  /\ ~Malformed(line)
         /\ LengthField(line) = SubSeq(line, p + 1, q - 1)
<1> DEFINE N == Len(line)
           C == Commas(line)
<1>1. /\ N \in Nat /\ q <= N /\ DOMAIN line = 1 .. N
      /\ \A x \in q + 1 .. N : line[x] # Comma
  OBVIOUS
<1>2. \A x : x \in C <=> x \in 1 .. N /\ line[x] = Comma
  BY <1>1 DEF Commas
<1> HIDE DEF N, C
<1>3. p \in C /\ q \in C
  BY <1>1, <1>2
<1>4. ~Malformed(line)
  <2>1. C \subseteq 1 .. N /\ IsFiniteSet(1 .. N)
    BY <1>1, <1>2, FS_Interval
  <2>2. IsFiniteSet(C) /\ Cardinality(C) \in Nat
    BY <2>1, FS_Subset, FS_CardinalityType
  <2>8. q \notin {p}
    OBVIOUS
  <2>3. IsFiniteSet({p}) /\ Cardinality({p}) = 1 /\ q \notin {p}
    BY <2>8, FS_Singleton
  <2> DEFINE D == {p} \cup {q}
  <2>4. IsFiniteSet(D) /\ Cardinality(D) = 1 + 1
    BY <2>3, FS_AddElement
  <2>5. D \in SUBSET C
    BY <1>3
  <2>6. Cardinality(D) <= Cardinality(C)
    BY <2>2, <2>5, FS_Subset
  <2> HIDE DEF D
  <2>7. ~(Cardinality(C) < 2)
    BY <2>2, <2>4, <2>6
  <2> QED BY <2>7 DEF Malformed, C
<1>5. LastComma(line) = q
  <2>1. \A j \in C : j <= q
    BY <1>1, <1>2
  <2>2. \A i \in C : (\A j \in C : j <= i) => i = q
    <3> TAKE i \in C
    <3> HAVE \A j \in C : j <= i
    <3>1. q <= i /\ i <= q /\ i \in Nat
      BY <1>1, <1>2, <1>3, <2>1
    <3> QED BY <3>1
  <2>3. LastComma(line) \in C /\ \A j \in C : j <= LastComma(line)
    BY <1>3, <2>1 DEF LastComma, C
  <2> QED BY <2>2, <2>3
<1> DEFINE rest == SubSeq(line, 1, q - 1)
           D == Commas(rest)
           r == q - 1
           k == r - p
<1>6. r \in Nat /\ r <= N /\ p <= r /\ k \in Nat /\ r = p + k
  BY <1>1
<1>7. rest \in Seq(Nat) /\ Len(rest) = r /\ \A x \in 1 .. r : rest[x] = line[x]
  <2>2. rest = SubSeq(line, 0 + 1, 0 + r)
    BY <1>1, <1>6
  <2> HIDE DEF r, rest
  <2>3. 0 + r <= Len(line) /\ \A x \in 1 .. r : 0 + x = x
    BY <1>6 DEF N
  <2>1. /\ SubSeq(line, 0 + 1, 0 + r) \in Seq(Nat)
        /\ Len(SubSeq(line, 0 + 1, 0 + r)) = r
        /\ \A x \in 1 .. r : SubSeq(line, 0 + 1, 0 + r)[x] = line[0 + x]
    BY <1>6, <2>3, Between
  <2> QED BY <2>1, <2>2, <2>3
<1> HIDE DEF rest, k
<1>8. \A x : x \in D <=> x \in 1 .. r /\ line[x] = Comma
  <2> HIDE DEF r
  <2>1. DOMAIN rest = 1 .. r
    BY <1>7
  <2> QED BY <1>7, <2>1 DEF Commas
<1> HIDE DEF D
<1>9. LastComma(rest) = p
  <2>1. ASSUME NEW j \in D PROVE j <= p
    <3>1. j \in 1 .. r /\ line[j] = Comma
      BY <1>8, <2>1
    <3>2. j \notin p + 1 .. q - 1
      BY <3>1
    <3> QED BY <3>1, <3>2
  <2>2. p \in D
    <3>1. p \in 1 .. r
      BY <1>6
    <3> QED BY <1>8, <3>1
  <2>3. \A i \in D : (\A j \in D : j <= i) => i = p
    <3> TAKE i \in D
    <3> HAVE \A j \in D : j <= i
    <3>1. p <= i /\ i <= p /\ i \in Nat
      BY <1>6, <1>8, <2>1, <2>2
    <3> QED BY <3>1
  <2>4. LastComma(rest) \in D /\ \A j \in D : j <= LastComma(rest)
    BY <2>1, <2>2 DEF LastComma, D
  <2> QED BY <2>3, <2>4
<1>10. LengthField(line) = SubSeq(rest, p + 1, r)
  BY <1>5, <1>7, <1>9 DEF LengthField, rest
<1>11. SubSeq(rest, p + 1, r) = SubSeq(line, p + 1, r)
  <2> HIDE DEF r
  <2> DEFINE a == SubSeq(rest, p + 1, r)
             b == SubSeq(line, p + 1, r)
  <2>1. p + k <= Len(rest) /\ p + k <= Len(line)
    BY <1>6, <1>7 DEF N
  <2>2. /\ a \in Seq(Nat) /\ Len(a) = k /\ \A x \in 1 .. k : a[x] = rest[p + x]
    BY <1>6, <1>7, <2>1, Between
  <2>8. /\ SubSeq(line, p + 1, p + k) \in Seq(Nat)
        /\ Len(SubSeq(line, p + 1, p + k)) = k
        /\ \A x \in 1 .. k : SubSeq(line, p + 1, p + k)[x] = line[p + x]
    BY <1>6, <2>1, Between
  <2>3. /\ b \in Seq(Nat) /\ Len(b) = k /\ \A x \in 1 .. k : b[x] = line[p + x]
    BY <1>6, <2>8
  <2> HIDE DEF a, b
  <2>4. \A x \in 1 .. k : p + x \in 1 .. r
    BY <1>6
  <2>5. \A x \in 1 .. k : a[x] = b[x]
    BY <1>7, <2>2, <2>3, <2>4
  <2>6. a = [x \in 1 .. Len(a) |-> a[x]] /\ b = [x \in 1 .. Len(b) |-> b[x]]
    BY <2>2, <2>3
  <2>7. a = b
    BY <2>2, <2>3, <2>5, <2>6
  <2> QED BY <2>7 DEF a, b
<1> QED BY <1>4, <1>10, <1>11

\* A line with at most one comma is malformed.
LEMMA OneComma ==
  ASSUME NEW line \in Seq(Nat), NEW p,
         \A x \in 1 .. Len(line) : line[x] = Comma => x = p
  PROVE  Malformed(line)
<1>1. Commas(line) \in SUBSET {p}
  BY DEF Commas
<1>2. IsFiniteSet({p}) /\ Cardinality({p}) = 1
  BY FS_Singleton
<1>3. IsFiniteSet(Commas(line)) /\ Cardinality(Commas(line)) <= 1
  BY <1>1, <1>2, FS_Subset
<1>4. Cardinality(Commas(line)) \in Nat
  BY <1>3, FS_CardinalityType
<1> QED BY <1>3, <1>4 DEF Malformed

\* Where the comma after the length is, behind surplus bytes s.
Second(s, name, n) == Len(s) + Len(name) + Len(Field(n)) + 2

\* A reply line that goes up to its second comma is parsed as it was meant,
\* whatever surplus bytes and commas in the name precede it.
LEMMA ReplyParsed ==
  ASSUME NEW s \in Seq(Nat), NEW name \in Seq(Nat), NEW n \in -1 .. 9,
         NEW line \in Seq(Nat), Starts(line, s \o Reply(name, n)),
         Second(s, name, n) <= Len(line)
  PROVE  ~Malformed(line) /\ LengthField(line) = Field(n)
<1> DEFINE m == Len(name)
           f == Len(Field(n))
           F == Field(n)
           L == Reply(name, n)
           l == Len(s)
           z == s \o L
           N == Len(line)
           p == l + m + 1
           q == l + m + f + 2
<1>1. Shape(L, name, F, m, f) /\ f = Len(F)
  BY ReplyShape
<1>14. l \in Nat /\ N \in Nat
  OBVIOUS
<1>2. l \in Nat /\ N \in Nat /\ q <= N /\ N < Len(z) /\ \A x \in 1 .. N : line[x] = z[x]
  BY <1>14 DEF Starts, Second
<1> HIDE DEF L, m, f, F
<1>3. /\ L \in Seq(Nat) /\ m \in Nat /\ f \in Nat /\ f > 0 /\ F \in Seq(Nat)
      /\ Len(L) = m + f + 5
      /\ L[m + 1] = Comma /\ L[m + f + 2] = Comma
      /\ \A x \in 1 .. f : L[m + 1 + x] = F[x] /\ F[x] \notin {Comma, CR}
      /\ L[m + f + 3] # Comma /\ L[m + f + 4] = CR
  BY <1>1 DEF Shape
<1> DEFINE k == Len(L)
<1>4. k = m + f + 5 /\ Len(z) = l + k /\ \A x \in 1 .. k : z[l + x] = L[x]
  BY <1>3, Joined
<1>12. CR # Comma
  BY DEF CR, Comma
<1> HIDE DEF l, k, z, N
<1>13. /\ l \in Nat /\ m \in Nat /\ f \in Nat /\ f > 0 /\ k \in Nat /\ N \in Nat
       /\ k = m + f + 5 /\ q <= N /\ N < l + k
  BY <1>2, <1>3, <1>4
<1>5. /\ p \in Nat /\ q \in Nat /\ 0 < p /\ p < q /\ q <= N /\ N < l + k
      /\ q - 1 = p + f
  BY <1>13
<1>6. line[p] = Comma /\ line[q] = Comma
  <2>1. /\ m + 1 \in 1 .. k /\ l + (m + 1) = p /\ p \in 1 .. N
        /\ m + f + 2 \in 1 .. k /\ l + (m + f + 2) = q /\ q \in 1 .. N
    BY <1>2, <1>3, <1>4, <1>5
  <2> HIDE DEF p, q
  <2> QED BY <1>2, <1>3, <1>4, <2>1
<1>7. ASSUME NEW x \in 1 .. f PROVE line[p + x] = F[x] /\ F[x] # Comma
  <2>1. m + 1 + x \in 1 .. k
    BY <1>13
  <2>2. l + (m + 1 + x) = p + x
    BY <1>13
  <2>3. p + x \in 1 .. N
    BY <1>13
  <2> HIDE DEF p, q
  <2>4. line[p + x] = z[l + (m + 1 + x)]
    BY <1>2, <2>2, <2>3
  <2>5. z[l + (m + 1 + x)] = L[m + 1 + x] /\ L[m + 1 + x] = F[x] /\ F[x] # Comma
    BY <1>3, <1>4, <2>1
  <2> QED BY <2>4, <2>5
<1>8. ASSUME NEW x \in p + 1 .. q - 1 PROVE line[x] # Comma
  <2> DEFINE y == x - p
  <2>1. y \in 1 .. f /\ p + y = x
    <3> HIDE DEF p, q
    <3> QED BY <1>5, <1>13
  <2> HIDE DEF p, q, y
  <2> QED BY <1>7, <2>1
<1>9. ASSUME NEW x \in q + 1 .. N PROVE line[x] # Comma
  <2> DEFINE y == x - l
  <2>1. /\ y = m + f + 3 \/ y = m + f + 4
        /\ l + y = x /\ y \in 1 .. k /\ x \in 1 .. N
    BY <1>13
  <2> HIDE DEF p, q, y
  <2>2. line[x] = L[y]
    BY <1>2, <1>4, <2>1
  <2> QED BY <1>3, <1>12, <2>1, <2>2
<1> HIDE DEF p, q
<1>10. ~Malformed(line) /\ LengthField(line) = SubSeq(line, p + 1, q - 1)
  BY <1>5, <1>6, <1>8, <1>9, FieldFound DEF N
<1>11. SubSeq(line, p + 1, q - 1) = F
  <2> DEFINE u == SubSeq(line, p + 1, p + f)
  <2>1. p + f <= Len(line)
    BY <1>2, <1>3, <1>5 DEF N
  <2>2. u \in Seq(Nat) /\ Len(u) = f /\ \A x \in 1 .. f : u[x] = line[p + x]
    BY <1>5, <1>13, <2>1, Between
  <2> HIDE DEF u
  <2>3. u = [x \in 1 .. Len(u) |-> u[x]] /\ F = [x \in 1 .. Len(F) |-> F[x]]
    BY <1>3, <2>2
  <2>4. Len(F) = f /\ \A x \in 1 .. f : u[x] = F[x]
    BY <1>1, <1>7, <2>2
  <2>5. u = F
    BY <2>2, <2>3, <2>4
  <2> QED BY <1>5, <2>5 DEF u
<1> QED BY <1>10, <1>11 DEF F

\* A reply that was cut before its second comma is malformed, unless surplus
\* bytes or name have commas.
LEMMA ReplyTorn ==
  ASSUME NEW s \in Seq(Nat), NEW name \in Seq(Nat), NEW n \in -1 .. 9,
         NEW line \in Seq(Nat), Starts(line, s \o Reply(name, n)),
         Len(line) < Second(s, name, n), Commas(s) = {}, Commas(name) = {}
  PROVE  Malformed(line)
<1> DEFINE m == Len(name)
           f == Len(Field(n))
           F == Field(n)
           L == Reply(name, n)
           l == Len(s)
           z == s \o L
           N == Len(line)
           p == l + m + 1
<1>1. Shape(L, name, F, m, f)
  BY ReplyShape
<1>2. /\ l \in Nat /\ N \in Nat /\ N < l + m + f + 2
      /\ \A x \in 1 .. N : line[x] = z[x]
  BY DEF Starts, Second
<1>5. \A x \in 1 .. l : s[x] # Comma
  BY DEF Commas
<1>6. \A x \in 1 .. m : name[x] # Comma
  BY DEF Commas
<1> HIDE DEF L, m, f, F
<1>3. /\ L \in Seq(Nat) /\ m \in Nat /\ f \in Nat /\ f > 0
      /\ Len(L) = m + f + 5
      /\ \A x \in 1 .. m : L[x] = name[x]
      /\ \A x \in 1 .. f : L[m + 1 + x] = F[x] /\ F[x] \notin {Comma, CR}
  BY <1>1 DEF Shape
<1> DEFINE k == Len(L)
<1>4. /\ k = m + f + 5 /\ \A x \in 1 .. l : z[x] = s[x]
      /\ \A x \in 1 .. k : z[l + x] = L[x]
  BY <1>3, Joined
<1> HIDE DEF l, k, z, N
<1>8. l \in Nat /\ m \in Nat /\ f \in Nat /\ N \in Nat /\ N < l + m + f + 2
  BY <1>2, <1>3
<1>7. ASSUME NEW x \in 1 .. N, line[x] = Comma PROVE x = p
  <2>1. z[x] = Comma /\ x \in Int /\ 1 <= x /\ x <= l + m + f + 1
    <3>1. z[x] = Comma
      BY <1>2, <1>7
    <3> QED BY <1>8, <3>1
  <2>2. CASE x <= l
    <3>1. x \in 1 .. l
      BY <1>2, <2>1, <2>2
    <3> QED BY <1>4, <1>5, <2>1, <3>1
  <2>3. CASE x > l /\ x <= l + m
    <3> DEFINE y == x - l
    <3>1. y \in 1 .. m /\ y \in 1 .. k /\ l + y = x
      BY <1>2, <1>3, <1>4, <2>1, <2>3
    <3> HIDE DEF y
    <3> QED BY <1>3, <1>4, <1>6, <2>1, <3>1
  <2>4. CASE x > l + m + 1
    <3> DEFINE y == x - (l + m + 1)
    <3>1. y \in 1 .. f /\ m + 1 + y \in 1 .. k /\ l + (m + 1 + y) = x
      BY <1>2, <1>3, <1>4, <2>1, <2>4
    <3> HIDE DEF y
    <3> QED BY <1>3, <1>4, <2>1, <3>1
  <2>5. x <= l \/ (x > l /\ x <= l + m) \/ x > l + m + 1 \/ x = l + m + 1
    BY <1>8, <2>1
  <2> QED BY <2>2, <2>3, <2>4, <2>5
<1> HIDE DEF p
<1> QED BY <1>7, OneComma DEF N

----------------------------------------------------------------------------
(* Steps that leave the reply to c alone; the server may stop sending it.  *)

Quiet(c) ==
  /\ spilled'[c] = spilled[c] /\ cut'[c] = cut[c] /\ announced'[c] = announced[c]
  /\ asked'[c] = asked[c] /\ taken'[c] = taken[c]
  /\ Sending(c)' => Sending(c) /\ offset' = offset
  /\ Handling(c)' => Handling(c)

LEMMA Kept ==
  ASSUME NEW c \in Clients, Quiet(c)
  PROVE  /\ Name(c)' = Name(c)
         /\ Settled(c) => Settled(c)'
         /\ Turn(c) => Turn(c)'
         /\ \A s, got : Body(c, s, got) => Body(c, s, got)'
         /\ \A n, s : Announce(c, n, s) => Announce(c, n, s)'
         /\ down'[c] = down[c] => /\ Overrun(c) => Overrun(c)'
                                  /\ Replied(c) => Replied(c)'
                                  /\ Garbled(c) => Garbled(c)'
<1>1. Name(c)' = Name(c)
  BY DEF Quiet, Name, Last
<1>2. Settled(c) => Settled(c)'
  BY DEF Quiet, Settled
<1>3. Turn(c) => Turn(c)'
  BY DEF Quiet, Turn
<1>4. \A s, got : Body(c, s, got) => Body(c, s, got)'
  BY <1>1 DEF Quiet, Body
<1>5. \A n, s : Announce(c, n, s) => Announce(c, n, s)'
  BY <1>4 DEF Quiet, Announce
<1>6. ASSUME down'[c] = down[c], Overrun(c) PROVE Overrun(c)'
  BY <1>6 DEF Quiet, Overrun
<1>7. ASSUME down'[c] = down[c], Replied(c) PROVE Replied(c)'
  <2>1. PICK s \in Seq(Nat), n \in -1 .. 9, b \in Seq(Nat) :
          /\ Ends(s, 0, spilled[c], FALSE) /\ Announce(c, n, b)
          /\ \/ down[c] = (s \o Reply(Name(c), n)) \o b
             \/ cut[c] /\ b = << >> /\ Starts(down[c], s \o Reply(Name(c), n))
    BY <1>7 DEF Replied
  <2>2. Announce(c, n, b)'
    BY <1>5, <2>1
  <2>3. /\ Ends(s, 0, spilled'[c], FALSE)
        /\ \/ down'[c] = (s \o Reply(Name(c)', n)) \o b
           \/ cut'[c] /\ b = << >> /\ Starts(down'[c], s \o Reply(Name(c)', n))
    BY <1>1, <1>7, <2>1 DEF Quiet
  <2>4. Settled(c)' /\ Name(c)' \in Names /\ Name(c)' # << >>
    BY <1>1, <1>2, <1>7 DEF Replied
  <2> QED BY <2>2, <2>3, <2>4 DEF Replied
<1>8. ASSUME down'[c] = down[c], Garbled(c) PROVE Garbled(c)'
  BY <1>1, <1>8 DEF Quiet, Garbled
<1> QED BY <1>1, <1>2, <1>3, <1>4, <1>5, <1>6, <1>7, <1>8

\* The client c does nothing.
Still(c) ==
  /\ c_pc'[c] = c_pc[c] /\ c_line'[c] = c_line[c] /\ length'[c] = length[c]
  /\ read'[c] = read[c] /\ outcome'[c] = outcome[c]

LEMMA ParsesKept ==
  ASSUME NEW c \in Clients, Quiet(c), Still(c), down'[c] = down[c], Parses(c)
  PROVE  Parses(c)'
<1>1. /\ Settled(c) => Settled(c)'
      /\ \A n, s : Announce(c, n, s) => Announce(c, n, s)'
      /\ Garbled(c) => Garbled(c)'
  BY Kept
<1>2. SUFFICES ASSUME c_pc[c] = "parse"
      PROVE  \/ Malformed(c_line[c]) \/ Garbled(c)'
             \/ /\ Settled(c)' /\ ~Malformed(c_line[c])
                /\ \E n \in -1 .. 9 : /\ LengthField(c_line[c]) = Field(n)
                                      /\ Announce(c, n, down[c])'
  BY DEF Parses, Still
<1>3. ASSUME NEW n, Announce(c, n, down[c]) PROVE Announce(c, n, down[c])'
  <2>1. PICK s : s = down[c]
    OBVIOUS
  <2>2. Announce(c, n, s)'
    BY <1>1, <1>3, <2>1
  <2>3. s = down'[c]
    BY <2>1
  <2> QED BY <2>2, <2>3
<1> QED BY <1>1, <1>2, <1>3 DEF Parses

LEMMA ReceivesKept ==
  ASSUME NEW c \in Clients, Quiet(c), Still(c), down'[c] = down[c], Receives(c)
  PROVE  Receives(c)'
<1>1. /\ (Settled(c) => Settled(c)') /\ Name(c)' = Name(c)
      /\ \A s, got : Body(c, s, got) => Body(c, s, got)'
      /\ Garbled(c) => Garbled(c)'
  BY Kept
<1>2. announced'[c] = announced[c]
  BY DEF Quiet
<1>3. SUFFICES ASSUME c_pc[c] = "body", ~Garbled(c) PROVE Receives(c)'
  BY <1>1 DEF Receives, Still
<1>4. /\ Settled(c) /\ length[c] \in 0 .. announced[c]
      /\ Body(c, down[c], announced[c] - length[c])
      /\ read[c] = SubSeq(Content[Name(c)], 1, announced[c] - length[c])
  BY <1>3 DEF Receives
<1>5. Body(c, down[c], announced[c] - length[c])'
  <2>1. PICK s, g : s = down[c] /\ g = announced[c] - length[c]
    OBVIOUS
  <2>2. Body(c, s, g)'
    BY <1>1, <1>4, <2>1
  <2>3. s = down'[c] /\ g = announced'[c] - length'[c]
    BY <1>2, <2>1 DEF Still
  <2> QED BY <2>2, <2>3
<1> QED BY <1>1, <1>2, <1>4, <1>5 DEF Receives, Still

LEMMA GoodKept ==
  ASSUME NEW c \in Clients, Quiet(c), Still(c), down'[c] = down[c], Good(c)
  PROVE  Good(c)'
<1>1. /\ (Settled(c) => Settled(c)') /\ (Turn(c) => Turn(c)')
      /\ Name(c)' = Name(c)
      /\ Overrun(c) => Overrun(c)'
      /\ Replied(c) => Replied(c)'
  BY Kept
<1>2. cut'[c] = cut[c] /\ announced'[c] = announced[c]
  BY DEF Quiet
<1>3. Idle(c)'
  BY <1>1, <1>2 DEF Good, Idle, Still
<1>4. Awaits(c)'
  BY <1>1, <1>2 DEF Good, Awaits, Still
<1>5. Parses(c)' /\ Receives(c)'
  BY ParsesKept, ReceivesKept DEF Good
<1>6. Ended(c)'
  BY <1>1, <1>2 DEF Good, Ended, Still
<1> QED BY <1>3, <1>4, <1>5, <1>6 DEF Good

\* A surplus that may be taken for a reply stays one.
LEMMA ExemptKept ==
  ASSUME NEW c \in Clients, Exempt(c), spilled[c] \in Seq(Nat),
         down_end[c] => down_end'[c],
         NEW b \in Seq(Nat), spilled'[c] = spilled[c] \o b
  PROVE  Exempt(c)'
<1> DEFINE s == spilled[c]
           t == s \o b
<1>1. /\ t \in Seq(Nat) /\ Len(t) = Len(s) + Len(b) /\ Len(s) \in Nat /\ Len(b) \in Nat
      /\ \A x \in 1 .. Len(s) : t[x] = s[x]
  BY Joined
<1> HIDE DEF t
<1>2. ASSUME NEW x \in LineEnds(s) PROVE x \in LineEnds(t)
  <2> HIDE DEF s
  <2>1. x \in 1 .. Len(s) - 1 /\ s[x] = CR /\ s[x + 1] = LF
    BY <1>2 DEF LineEnds
  <2>2. x \in 1 .. Len(t) - 1 /\ x \in 1 .. Len(s) /\ x + 1 \in 1 .. Len(s)
    BY <1>1, <2>1
  <2>3. t[x] = CR /\ t[x + 1] = LF
    BY <1>1, <2>1, <2>2
  <2> QED BY <2>2, <2>3 DEF LineEnds
<1>3. ASSUME NEW x \in Commas(s) PROVE x \in Commas(t)
  <2>1. x \in 1 .. Len(s) /\ s[x] = Comma
    BY <1>3 DEF Commas
  <2> HIDE DEF s
  <2>2. x \in 1 .. Len(t) /\ DOMAIN t = 1 .. Len(t)
    BY <1>1, <2>1
  <2>3. t[x] = Comma
    BY <1>1, <2>1
  <2> QED BY <2>2, <2>3 DEF Commas
<1>4. spilled'[c] = t
  BY DEF t
<1> QED BY <1>2, <1>3, <1>4 DEF Exempt

LEMMA ExemptStays ==
  ASSUME NEW c \in Clients, Exempt(c), spilled'[c] = spilled[c],
         down_end[c] => down_end'[c]
  PROVE  Exempt(c)'
  BY DEF Exempt

----------------------------------------------------------------------------
(* The actions, and the replies.                                           *)

LEMMA RepliesInit == Init => RInv
<1> SUFFICES ASSUME Init PROVE RInv
  OBVIOUS
<1>1. IInv
  BY InitStep
<1>2. Sizes
  <2>1. /\ size \in [DOMAIN Content -> Nat]
        /\ \A f \in DOMAIN Content : size[f] <= Len(Content[f])
    BY ContentAssumption DEF Init
  <2>2. << >> \in Seq(Nat) /\ 0 \in 0 .. 9 /\ -2 \in Int
    OBVIOUS
  <2>3. /\ down \in [Clients -> Seq(Nat)] /\ spilled \in [Clients -> Seq(Nat)]
        /\ announced \in [Clients -> 0 .. 9]
        /\ c_line \in [Clients -> Seq(Nat)] /\ read \in [Clients -> Seq(Nat)]
        /\ length \in [Clients -> Int]
    BY <2>2 DEF Init, Unset
  <2>4. /\ c_pc \in [Clients -> ClientPcs] /\ outcome \in [Clients -> Outcomes]
        /\ down_end \in [Clients -> BOOLEAN]
        /\ (\A c \in Clients : cut[c] => down_end[c]) /\ s_pc # "send" /\ offset = 0
    BY DEF Init, ClientPcs, Outcomes
  <2> QED BY <2>1, <2>3, <2>4 DEF Sizes
<1>3. ASSUME NEW c \in Clients PROVE Good(c)
  <2>1. /\ c_pc[c] = "start" /\ outcome[c] = "none" /\ down[c] = << >>
        /\ spilled[c] = << >> /\ s_pc = "accept" /\ taken[c] = 0
        /\ asked[c] = << >>
    BY DEF Init
  <2>2. Ends(<< >>, 0, << >>, ~cut[c])
    <3>1. 0 \in Nat /\ << >> \in Seq(Nat)
      OBVIOUS
    <3> QED BY <3>1, EndsNone
  <2>3. Overrun(c)
    BY <2>1, <2>2 DEF Overrun, Sending
  <2>4. Settled(c)
    BY <2>1 DEF Settled, Handling
  <2> QED BY <2>1, <2>3, <2>4 DEF Good, Idle, Awaits, Parses, Receives, Ended
<1> QED BY <1>1, <1>2, <1>3 DEF RInv

LEMMA Values ==
  ASSUME Sizes, NEW c \in Clients
  PROVE  /\ announced[c] \in 0 .. 9 /\ announced[c] \in Nat
         /\ spilled[c] \in Seq(Nat) /\ down[c] \in Seq(Nat)
         /\ Len(down[c]) \in Nat /\ Len(spilled[c]) \in Nat
         /\ c_line[c] \in Seq(Nat) /\ read[c] \in Seq(Nat) /\ length[c] \in Int
<1>1. /\ down \in [Clients -> Seq(Nat)] /\ spilled \in [Clients -> Seq(Nat)]
      /\ announced \in [Clients -> 0 .. 9] /\ c_line \in [Clients -> Seq(Nat)]
      /\ read \in [Clients -> Seq(Nat)] /\ length \in [Clients -> Int]
  BY DEF Sizes
<1>2. /\ announced[c] \in 0 .. 9 /\ c_line[c] \in Seq(Nat)
      /\ spilled[c] \in Seq(Nat) /\ down[c] \in Seq(Nat)
      /\ read[c] \in Seq(Nat) /\ length[c] \in Int
  BY <1>1
<1>3. announced[c] \in Nat
  BY <1>2
<1>4. Len(down[c]) \in Nat /\ Len(spilled[c]) \in Nat
  BY <1>2
<1> QED BY <1>2, <1>3, <1>4

\* A client that a step leaves alone.
LEMMA OtherKept ==
  ASSUME RInv, NEW d \in Clients, Quiet(d), Still(d), down'[d] = down[d],
         down_end[d] => down_end'[d]
  PROVE  Exempt(d)' \/ Good(d)'
<1>1. CASE Exempt(d)
  BY <1>1, ExemptStays DEF Quiet
<1>2. CASE Good(d)
  BY <1>2, GoodKept
<1> QED BY <1>1, <1>2 DEF RInv

\* The steps of clients leave the server alone.
LEMMA ClientQuiet ==
  ASSUME NEW d \in Clients, UNCHANGED sVars, cut' = cut, asked'[d] = asked[d]
  PROVE  Quiet(d)
  BY DEF sVars, Quiet, Sending, Handling

\* So a step of one client only concerns that client.
LEMMA ClientOnly ==
  ASSUME RInv, NEW c \in Clients, UNCHANGED << sVars, cut, down_end >>,
         \A d \in Clients \ {c} : asked'[d] = asked[d] /\ Still(d) /\ down'[d] = down[d],
         ~Exempt(c) => Good(c)'
  PROVE  \A d \in Clients : Exempt(d)' \/ Good(d)'
<1>1. ASSUME NEW d \in Clients \ {c} PROVE Exempt(d)' \/ Good(d)'
  BY <1>1, ClientQuiet, OtherKept
<1>2. ASSUME Exempt(c) PROVE Exempt(c)'
  BY <1>2, ExemptStays DEF sVars
<1> QED BY <1>1, <1>2

\* myconnect()
LEMMA ConnectReply ==
  ASSUME RInv, NEW c \in Clients, Connect(c)
  PROVE  Sizes' /\ \A d \in Clients : Exempt(d)' \/ Good(d)'
<1>1. /\ UNCHANGED << size, up, down, ends, c_line, length, read, asked, outcome,
                      sVars >>
      /\ c_pc[c] = "start" /\ c_pc \in [Clients -> ClientPcs]
      /\ \/ c_pc' = [c_pc EXCEPT ![c] = "prompt"]
         \/ c_pc' = [c_pc EXCEPT ![c] = "done"]
  BY DEF RInv, Sizes, Connect, received
<1>2. /\ c_pc' \in [Clients -> ClientPcs] /\ c_pc'[c] \in {"prompt", "done"}
      /\ \A d \in Clients \ {c} : c_pc'[d] = c_pc[d]
  BY <1>1 DEF ClientPcs
<1>3. Sizes'
  BY <1>1, <1>2 DEF RInv, Sizes, ends, sVars
<1>4. ASSUME ~Exempt(c) PROVE Good(c)'
  <2>1. Good(c)
    BY <1>4 DEF RInv
  <2>2. Quiet(c) /\ down' = down
    BY <1>1, ClientQuiet DEF ends
  <2>3. (Overrun(c) => Overrun(c)') /\ (Settled(c) => Settled(c)') /\ cut' = cut
    BY <1>1, <2>2, Kept DEF ends
  <2>4. Idle(c)'
    BY <1>1, <2>1, <2>3 DEF Good, Idle
  <2>5. outcome[c] # "file"
    BY <1>1, <2>1 DEF Good, Ended
  <2> QED BY <1>1, <1>2, <2>4, <2>5 DEF Good, Awaits, Parses, Receives, Ended
<1> QED BY <1>1, <1>2, <1>3, <1>4, ClientOnly DEF Still, ends

\* A request is written.
LEMMA SendRequestReply ==
  ASSUME RInv, NEW c \in Clients, NEW name \in Names, SendRequest(c, name),
         c_pc[c] = "prompt",
         UNCHANGED << size, down, ends, length, received, sVars >>
  PROVE  Sizes' /\ \A d \in Clients : Exempt(d)' \/ Good(d)'
<1>1. /\ c_pc \in [Clients -> ClientPcs] /\ c_line \in [Clients -> Seq(Nat)]
      /\ outcome \in [Clients -> Outcomes]
      /\ asked \in [Clients -> Seq(Names)] /\ taken \in [Clients -> Nat]
  BY DEF RInv, Sizes, IInv, Types
<1>2. /\ c_pc' = [c_pc EXCEPT ![c] = "line"]
      /\ c_line' = [c_line EXCEPT ![c] = << >>]
      /\ outcome' = [outcome EXCEPT ![c] = "none"]
      /\ asked' = [asked EXCEPT ![c] = Append(asked[c], name)]
  BY DEF SendRequest
<1>3. /\ c_pc' \in [Clients -> ClientPcs] /\ c_line' \in [Clients -> Seq(Nat)]
      /\ outcome' \in [Clients -> Outcomes]
      /\ c_pc'[c] = "line" /\ outcome'[c] = "none"
      /\ asked'[c] = Append(asked[c], name)
      /\ \A d \in Clients \ {c} :
           /\ c_pc'[d] = c_pc[d] /\ c_line'[d] = c_line[d]
           /\ outcome'[d] = outcome[d]
           /\ asked'[d] = asked[d]
  BY <1>1, <1>2 DEF ClientPcs, Outcomes
<1>4. Sizes'
  BY <1>3 DEF RInv, Sizes, ends, sVars, received
<1>5. ASSUME ~Exempt(c) PROVE Good(c)'
  <2>1. Overrun(c) /\ (cut[c] \/ Settled(c))
    BY <1>5 DEF RInv, Good, Idle
  <2>2. Overrun(c)'
    BY <2>1 DEF Overrun, Sending, ends, sVars
  <2>3. ASSUME Settled(c) PROVE Turn(c)'
    <3>1. Len(asked'[c]) = Len(asked[c]) + 1
      BY <1>1, <1>3
    <3> QED BY <2>3, <3>1 DEF Settled, Turn, Handling, sVars
  <2>4. Awaits(c)'
    BY <2>1, <2>2, <2>3 DEF Awaits, ends
  <2> QED BY <1>3, <2>4 DEF Good, Idle, Parses, Receives, Ended
<1> QED BY <1>3, <1>4, <1>5, ClientOnly DEF Still, ends, received

\* The client leaves loop_until_end(), or its request has ended without a file.
LEMMA EndInputReply ==
  ASSUME RInv, NEW c \in Clients, EndInput(c)
  PROVE  Sizes' /\ \A d \in Clients : Exempt(d)' \/ Good(d)'
<1>1. /\ UNCHANGED << size, down, down_end, cut, c_line, length, read, asked,
                      outcome, sVars >>
      /\ c_pc[c] = "prompt" /\ c_pc \in [Clients -> ClientPcs]
      /\ c_pc' = [c_pc EXCEPT ![c] = "done"]
  BY DEF RInv, Sizes, EndInput, Leave, received
<1>2. /\ c_pc' \in [Clients -> ClientPcs] /\ c_pc'[c] = "done"
      /\ \A d \in Clients \ {c} : c_pc'[d] = c_pc[d]
  BY <1>1 DEF ClientPcs
<1>3. Sizes'
  BY <1>1, <1>2 DEF RInv, Sizes, sVars
<1>4. ASSUME ~Exempt(c) PROVE Good(c)'
  <2>1. Ended(c)
    BY <1>4 DEF RInv, Good
  <2>2. (Settled(c) => Settled(c)') /\ Name(c)' = Name(c)
    BY <1>1, ClientQuiet, Kept
  <2>3. Ended(c)'
    BY <1>1, <1>2, <2>1, <2>2 DEF Ended, sVars
  <2> QED BY <1>2, <2>3 DEF Good, Idle, Awaits, Parses, Receives
<1> QED BY <1>1, <1>2, <1>3, <1>4, ClientOnly DEF Still

LEMMA TypeReply ==
  ASSUME RInv, NEW c \in Clients, NEW name \in Names, Type(c, name)
  PROVE  Sizes' /\ \A d \in Clients : Exempt(d)' \/ Good(d)'
<1>1. CASE SendRequest(c, name)
  BY <1>1, SendRequestReply DEF Type
<1>2. CASE UNCHANGED << up, asked, c_pc, c_line, errcnd, outcome >>
  <2>1. UNCHANGED << size, down, ends, length, read, sVars, asked, c_pc, c_line,
                     outcome >>
    BY <1>2 DEF Type, received
  <2>2. Sizes'
    BY <2>1 DEF RInv, Sizes, ends, sVars
  <2>3. ASSUME NEW d \in Clients PROVE Exempt(d)' \/ Good(d)'
    BY <2>1, ClientQuiet, OtherKept DEF Still, ends
  <2> QED BY <2>2, <2>3
<1> QED BY <1>1, <1>2 DEF Type

\* The end of a reply whose bytes have all come.
LEMMA FinishFileReply ==
  ASSUME RInv, NEW c \in Clients, FinishFile(c)
  PROVE  Sizes' /\ \A d \in Clients : Exempt(d)' \/ Good(d)'
<1>1. /\ UNCHANGED << size, down, down_end, cut, c_line, length, read, asked,
                      sVars >>
      /\ c_pc[c] = "body" /\ length[c] = 0
      /\ c_pc \in [Clients -> ClientPcs] /\ outcome \in [Clients -> Outcomes]
      /\ \/ c_pc' = [c_pc EXCEPT ![c] = "prompt"]
         \/ c_pc' = [c_pc EXCEPT ![c] = "done"]
      /\ outcome' = [outcome EXCEPT ![c] = "file"]
  BY DEF RInv, Sizes, FinishFile, CloseFile, Again, Leave
<1>2. /\ c_pc' \in [Clients -> ClientPcs] /\ c_pc'[c] \in {"prompt", "done"}
      /\ outcome' \in [Clients -> Outcomes] /\ outcome'[c] = "file"
      /\ \A d \in Clients \ {c} : c_pc'[d] = c_pc[d] /\ outcome'[d] = outcome[d]
  BY <1>1 DEF ClientPcs, Outcomes
<1>3. Sizes'
  BY <1>1, <1>2 DEF RInv, Sizes, sVars
<1>4. ASSUME ~Exempt(c) PROVE Good(c)'
  <2>1. Receives(c)
    BY <1>4 DEF RInv, Good
  <2>2. Quiet(c)
    BY <1>1, ClientQuiet
  <2>3. /\ (Overrun(c) => Overrun(c)') /\ (Settled(c) => Settled(c)')
        /\ Name(c)' = Name(c) /\ announced' = announced
    BY <1>1, <2>2, Kept DEF sVars
  <2>4. /\ announced[c] \in Nat /\ spilled[c] \in Seq(Nat)
        /\ down[c] \in Seq(Nat) /\ Len(down[c]) \in Nat
    BY Values DEF RInv
  <2>5. CASE Garbled(c)
    <3>1. Overrun(c)
      BY <2>4, <2>5, EndsNone DEF Garbled, Overrun
    <3>2. Idle(c)'
      BY <1>1, <2>3, <2>5, <3>1 DEF Idle, Garbled
    <3>3. Ended(c)'
      BY <1>1, <1>2, <2>3, <2>5 DEF Ended, Garbled
    <3> QED BY <1>2, <3>2, <3>3 DEF Good, Awaits, Parses, Receives
  <2>6. CASE ~Garbled(c)
    <3>1. announced[c] - length[c] = announced[c] /\ announced[c] - announced[c] = 0
      BY <1>1, <2>4
    <3>2. /\ Settled(c) /\ Body(c, down[c], announced[c])
          /\ read[c] = SubSeq(Content[Name(c)], 1, announced[c])
      BY <1>1, <2>1, <2>6, <3>1 DEF Receives
    <3>3. Overrun(c)
      BY <2>4, <3>1, <3>2 DEF Body, Overrun
    <3>4. Idle(c)'
      BY <2>3, <3>2, <3>3 DEF Idle
    <3>5. Name(c) \in DOMAIN Content /\ announced[c] <= Len(Content[Name(c)])
      BY <2>4, <3>2 DEF Body
    <3>6. /\ IsPrefix(read[c], Content[Name(c)])
          /\ Len(read[c]) = announced[c]
      <4> DEFINE F == Content[Name(c)]
                 g == announced[c]
                 u == SubSeq(F, 1, g)
      <4>1. F \in Seq(Nat) /\ g \in Nat /\ g <= Len(F)
        BY <2>4, <3>5, ContentAssumption
      <4> HIDE DEF F, g
      <4>2. Len(u) = g /\ u \in Seq(Nat)
        BY <4>1
      <4>3. SubSeq(u, 1, g) = u
        <5>1. Len(u) <= Len(u) /\ \A x \in 1 .. Len(u) : u[x] = u[x]
          BY <4>1, <4>2
        <5> HIDE DEF u
        <5> QED BY <4>2, <5>1, FrontOf
      <4>4. read[c] = u
        BY <3>2 DEF F, g
      <4>5. SubSeq(F, 1, g) = u
        OBVIOUS
      <4> HIDE DEF u
      <4>6. IsPrefix(u, F)
        BY <4>1, <4>2, <4>3, <4>5 DEF IsPrefix
      <4> QED BY <4>2, <4>4, <4>6 DEF F, g
    <3>7. Ended(c)'
      BY <1>1, <1>2, <2>3, <3>2, <3>5, <3>6 DEF Ended
    <3> QED BY <1>2, <3>4, <3>7 DEF Good, Awaits, Parses, Receives
  <2> QED BY <2>5, <2>6
<1> QED BY <1>1, <1>2, <1>3, <1>4, ClientOnly DEF Still

\* The end of a reply that is cut short.
LEMMA FewerBytesReply ==
  ASSUME RInv, NEW c \in Clients, FewerBytes(c)
  PROVE  Sizes' /\ \A d \in Clients : Exempt(d)' \/ Good(d)'
<1>1. /\ UNCHANGED << size, down, down_end, cut, c_line, length, read, asked,
                      sVars >>
      /\ c_pc \in [Clients -> ClientPcs] /\ outcome \in [Clients -> Outcomes]
      /\ c_pc' = [c_pc EXCEPT ![c] = "failed"]
      /\ outcome' = [outcome EXCEPT ![c] = "short"]
  BY DEF RInv, Sizes, FewerBytes, CloseFile, Leave
<1>2. /\ c_pc' \in [Clients -> ClientPcs] /\ c_pc'[c] = "failed"
      /\ outcome' \in [Clients -> Outcomes] /\ outcome'[c] = "short"
      /\ \A d \in Clients \ {c} : c_pc'[d] = c_pc[d] /\ outcome'[d] = outcome[d]
  BY <1>1 DEF ClientPcs, Outcomes
<1>3. Sizes'
  BY <1>1, <1>2 DEF RInv, Sizes, sVars
<1>4. Good(c)'
  BY <1>2 DEF Good, Idle, Awaits, Parses, Receives, Ended
<1> QED BY <1>1, <1>2, <1>3, <1>4, ClientOnly DEF Still

\* The bytes that a read() takes are the next ones of the file.
LEMMA Grown ==
  ASSUME NEW F \in Seq(Nat), NEW s \in Seq(Nat), NEW k \in Nat, NEW g \in Nat,
         g <= Len(s), k + Len(s) <= Len(F),
         \A x \in 1 .. Len(s) : s[x] = F[k + x]
  PROVE  SubSeq(F, 1, k) \o SubSeq(s, 1, g) = SubSeq(F, 1, k + g)
<1> DEFINE a == SubSeq(F, 1, k)
           b == SubSeq(s, 1, g)
           u == a \o b
           n == Len(s)
           m == Len(F)
<1>1. n \in Nat /\ m \in Nat /\ g <= n /\ k + n <= m
  OBVIOUS
<1>2. a \in Seq(Nat) /\ Len(a) = k /\ \A x \in 1 .. k : a[x] = F[x]
  BY <1>1
<1>3. b \in Seq(Nat) /\ Len(b) = g /\ \A x \in 1 .. g : b[x] = s[x]
  BY <1>1
<1> HIDE DEF a, b
<1>4. /\ u \in Seq(Nat) /\ Len(u) = k + g
      /\ \A x \in 1 .. k : u[x] = a[x]
      /\ \A x \in 1 .. g : u[k + x] = b[x]
  BY <1>2, <1>3, Joined
<1>5. ASSUME NEW x \in 1 .. Len(u) PROVE F[x] = u[x]
  <2>1. CASE x <= k
    <3>1. x \in 1 .. k
      BY <1>4, <2>1
    <3> QED BY <1>2, <1>4, <3>1
  <2>2. CASE x > k
    <3> DEFINE y == x - k
    <3>1. y \in 1 .. g /\ y \in 1 .. n /\ k + y = x
      <4> HIDE DEF n, u
      <4> QED BY <1>1, <1>4, <2>2
    <3> HIDE DEF y, u
    <3>2. u[k + y] = b[y] /\ b[y] = s[y] /\ s[y] = F[k + y]
      BY <1>3, <1>4, <3>1 DEF n
    <3> QED BY <3>1, <3>2
  <2> QED BY <1>4, <2>1, <2>2
<1> HIDE DEF u
<1>6. Len(u) <= Len(F)
  <2>1. Len(u) <= m
    <3> HIDE DEF m, n
    <3> QED BY <1>1, <1>4
  <2> QED BY <2>1
<1>7. SubSeq(F, 1, Len(u)) = u
  BY <1>4, <1>5, <1>6, FrontOf
<1> QED BY <1>4, <1>7 DEF u, a, b

\* Some bytes of the content come.
LEMMA ReadContentReply ==
  ASSUME RInv, NEW c \in Clients, ReadContent(c)
  PROVE  Sizes' /\ \A d \in Clients : Exempt(d)' \/ Good(d)'
<1>1. PICK got \in 1 .. ClientBuf :
        /\ got <= length[c] /\ got <= Len(down[c])
        /\ down' = [down EXCEPT ![c] = SubSeq(down[c], got + 1, Len(down[c]))]
        /\ length' = [length EXCEPT ![c] = length[c] - got]
        /\ read' = [read EXCEPT ![c] = read[c] \o SubSeq(down[c], 1, got)]
  BY DEF ReadContent, Remaining
<1> DEFINE u == SubSeq(down[c], got + 1, Len(down[c]))
           v == SubSeq(down[c], 1, got)
<1>2. /\ UNCHANGED << size, ends, c_pc, c_line, asked, outcome, sVars >>
      /\ c_pc[c] = "body"
  BY DEF ReadContent
<1>3. /\ down \in [Clients -> Seq(Nat)] /\ length \in [Clients -> Int]
      /\ read \in [Clients -> Seq(Nat)]
      /\ down[c] \in Seq(Nat) /\ length[c] \in Int /\ read[c] \in Seq(Nat)
      /\ Len(down[c]) \in Nat /\ announced[c] \in Nat /\ spilled[c] \in Seq(Nat)
  BY Values DEF RInv, Sizes
<1>4. got \in Nat /\ 0 < got /\ got <= Len(down[c])
  BY <1>1, BufAssumption
<1>5. /\ u \in Seq(Nat) /\ Len(u) \in Nat /\ Len(down[c]) = Len(u) + got
      /\ \A x \in 1 .. Len(u) : u[x] = down[c][got + x]
  BY <1>3, <1>4, RestOf
<1>6. v \in Seq(Nat)
  BY <1>3, <1>4
<1>7. read[c] \o v \in Seq(Nat)
  BY <1>3, <1>6, Joined
<1> HIDE DEF u, v
<1>8. /\ down' \in [Clients -> Seq(Nat)] /\ down'[c] = u
      /\ \A d \in Clients \ {c} : down'[d] = down[d]
  BY <1>1, <1>3, <1>5 DEF u
<1>9. /\ length' \in [Clients -> Int] /\ length'[c] = length[c] - got
      /\ \A d \in Clients \ {c} : length'[d] = length[d]
  BY <1>1, <1>3, <1>4
<1>10. /\ read' \in [Clients -> Seq(Nat)] /\ read'[c] = read[c] \o v
       /\ \A d \in Clients \ {c} : read'[d] = read[d]
  <2> DEFINE r == read[c] \o v
  <2>1. r \in Seq(Nat) /\ read' = [read EXCEPT ![c] = r]
    BY <1>1, <1>7 DEF v
  <2> HIDE DEF r
  <2>2. /\ read' \in [Clients -> Seq(Nat)] /\ read'[c] = r
        /\ \A d \in Clients \ {c} : read'[d] = read[d]
    BY <1>3, <2>1
  <2> QED BY <2>2 DEF r
<1>11. Sizes'
  BY <1>2, <1>8, <1>9, <1>10 DEF RInv, Sizes, ends, sVars
<1>12. ASSUME ~Exempt(c) PROVE Good(c)'
  <2>1. Receives(c) /\ Ended(c)
    BY <1>12 DEF RInv, Good
  <2>2. Quiet(c) /\ cut' = cut /\ announced' = announced /\ spilled' = spilled
    BY <1>2, ClientQuiet DEF ends, sVars
  <2>3. /\ (Settled(c) => Settled(c)') /\ Name(c)' = Name(c)
        /\ \A s, k : Body(c, s, k) => Body(c, s, k)'
    BY <2>2, Kept
  <2> DEFINE A == announced[c]
             l == length[c]
             k == A - l
             F == Content[Name(c)]
             s == down[c]
  <2>4. /\ Settled(c) /\ l \in 0 .. A /\ Body(c, s, k)
        /\ read[c] = SubSeq(F, 1, k)
    <3>1. ~Garbled(c)
      BY <1>3, <1>4 DEF Garbled
    <3> QED BY <1>2, <2>1, <3>1 DEF Receives
  <2>5. /\ k \in Nat /\ A - k = l /\ l \in Nat /\ got <= l /\ A \in Nat
        /\ l - got \in 0 .. A /\ A - (l - got) = k + got
        /\ A - (k + got) = l - got
    <3>1. l \in 0 .. A /\ A \in Nat /\ got <= l
      BY <1>1, <1>3, <2>4
    <3> HIDE DEF A, l
    <3> QED BY <1>4, <3>1
  <2>6. /\ Name(c) \in DOMAIN Content /\ k + Len(s) <= Len(F)
        /\ \A x \in 1 .. Len(s) : s[x] = F[k + x]
        /\ Ends(s, A - k, spilled[c], ~cut[c])
        /\ Sending(c) /\ ~cut[c] => offset = k + Len(s)
    BY <2>4 DEF Body
  <2>7. F \in Seq(Nat) /\ Len(F) \in Nat
    BY <2>6, ContentAssumption
  <2>8. s \in Seq(Nat) /\ Len(s) \in Nat /\ Len(s) = Len(u) + got /\ got <= Len(s)
    BY <1>3, <1>4, <1>5
  <2> HIDE DEF F, s, A, l, k
  <2>9. Ends(u, l - got, spilled[c], ~cut[c])
    <3>1. Ends(s, l, spilled[c], ~cut[c])
      BY <2>5, <2>6
    <3>2. \A x \in 1 .. Len(u) : u[x] = s[got + x]
      BY <1>5 DEF s
    <3> QED BY <1>3, <1>4, <1>5, <2>5, <2>8, <3>1, <3>2, EndsRest
  <2>10. (k + got) + Len(u) = k + Len(s)
    BY <1>4, <1>5, <2>5, <2>8
  <2>11. ASSUME NEW x \in 1 .. Len(u) PROVE u[x] = F[(k + got) + x]
    <3> DEFINE n == Len(s)
               m == Len(u)
    <3>3. n \in Nat /\ m \in Nat /\ n = m + got /\ k \in Nat /\ got \in Nat
      BY <1>4, <1>5, <2>5, <2>8
    <3>4. x \in 1 .. m
      OBVIOUS
    <3> HIDE DEF n, m
    <3>5. got + x \in 1 .. n /\ k + (got + x) = (k + got) + x
      BY <3>3, <3>4
    <3>1. got + x \in 1 .. Len(s) /\ k + (got + x) = (k + got) + x
      BY <3>5 DEF n
    <3>2. u[x] = s[got + x]
      BY <1>5 DEF s
    <3> QED BY <2>6, <3>1, <3>2
  <2>12. Body(c, u, k + got)
    <3>1. Ends(u, announced[c] - (k + got), spilled[c], ~cut[c])
      BY <2>5, <2>9 DEF A
    <3>2. /\ (k + got) + Len(u) <= Len(Content[Name(c)])
          /\ \A x \in 1 .. Len(u) : u[x] = Content[Name(c)][(k + got) + x]
      BY <2>6, <2>10, <2>11 DEF F
    <3>3. Sending(c) /\ ~cut[c] => offset = (k + got) + Len(u)
      BY <2>6, <2>10
    <3> QED BY <2>6, <3>1, <3>2, <3>3 DEF Body
  <2>13. announced'[c] - length'[c] = k + got
    BY <1>9, <2>2, <2>5 DEF A, l
  <2>14. read'[c] = SubSeq(F, 1, k + got)
    <3>1. SubSeq(F, 1, k) \o v = SubSeq(F, 1, k + got)
      <4>1. SubSeq(F, 1, k) \o SubSeq(s, 1, got) = SubSeq(F, 1, k + got)
        <5>1. /\ F \in Seq(Nat) /\ s \in Seq(Nat) /\ k \in Nat /\ got \in Nat
              /\ got <= Len(s) /\ k + Len(s) <= Len(F)
          BY <1>4, <2>5, <2>6, <2>7, <2>8
        <5>2. \A x \in 1 .. Len(s) : s[x] = F[k + x]
          BY <2>6
        <5> QED BY <5>1, <5>2, Grown
      <4> QED BY <4>1 DEF v, s
    <3> QED BY <1>10, <2>4, <3>1
  <2>15. Receives(c)'
    <3>1. PICK w, h : w = u /\ h = k + got
      OBVIOUS
    <3>2. Body(c, w, h)'
      BY <2>3, <2>12, <3>1
    <3>3. Body(c, down[c], announced[c] - length[c])'
      BY <1>8, <2>13, <3>1, <3>2
    <3>4. length'[c] \in 0 .. announced'[c]
      BY <1>9, <2>2, <2>5 DEF A, l
    <3>5. read'[c] = SubSeq(Content[Name(c)'], 1, announced'[c] - length'[c])
      BY <2>3, <2>13, <2>14 DEF F
    <3> QED BY <2>3, <2>4, <3>3, <3>4, <3>5 DEF Receives
  <2>16. outcome'[c] # "file" /\ c_pc'[c] = "body"
    BY <1>2, <2>1 DEF Ended
  <2> QED BY <2>15, <2>16 DEF Good, Idle, Awaits, Parses, Ended
<1> QED BY <1>2, <1>8, <1>9, <1>10, <1>11, <1>12, ClientOnly DEF Still, ends

LEMMA LineTypes ==
  ASSUME NEW s \in Seq(Nat)
  PROVE  NextLine(s) \in Seq(Nat) /\ AfterLine(s) \in Seq(Nat)
<1>1. CASE LineEnds(s) = {}
  BY <1>1 DEF NextLine, AfterLine
<1>2. CASE LineEnds(s) # {}
  <2> DEFINE i == Min(LineEnds(s))
  <2>1. LineEnds(s) \subseteq Nat
    BY DEF LineEnds
  <2>2. i \in LineEnds(s)
    BY <1>2, <2>1, MinIs
  <2> HIDE DEF i
  <2>3. i \in 1 .. Len(s) - 1
    BY <2>2 DEF LineEnds
  <2>4. SubSeq(s, 1, i - 1) \in Seq(Nat) /\ SubSeq(s, i + 2, Len(s)) \in Seq(Nat)
    BY <2>3
  <2> QED BY <1>2, <2>4 DEF NextLine, AfterLine, UpToLineEnd, i
<1> QED BY <1>1, <1>2

LEMMA ReplyLength ==
  ASSUME NEW s \in Seq(Nat), NEW name \in Seq(Nat), NEW n \in -1 .. 9
  PROVE  /\ s \o Reply(name, n) \in Seq(Nat)
         /\ Second(s, name, n) \in Nat
         /\ Len(s \o Reply(name, n)) = Second(s, name, n) + 3
<1> DEFINE m == Len(name)
           f == Len(Field(n))
           l == Len(s)
           L == Reply(name, n)
<1>1. Shape(L, name, Field(n), m, f)
  BY ReplyShape
<1>2. m \in Nat /\ f \in Nat /\ L \in Seq(Nat) /\ Len(L) = m + f + 5 /\ l \in Nat
  BY <1>1 DEF Shape
<1> HIDE DEF L
<1>3. s \o L \in Seq(Nat) /\ Len(s \o L) = Len(s) + Len(L)
  BY <1>2, Joined
<1>4. Len(s \o L) = l + (m + f + 5)
  BY <1>2, <1>3
<1>5. Second(s, name, n) = l + m + f + 2
  BY DEF Second
<1> HIDE DEF m, f, l
<1>6. l + (m + f + 5) = (l + m + f + 2) + 3 /\ l + m + f + 2 \in Nat
  BY <1>2
<1>7. Len(s \o L) = Second(s, name, n) + 3 /\ Second(s, name, n) \in Nat
  BY <1>4, <1>5, <1>6
<1> QED BY <1>3, <1>7 DEF L

\* What get_nvt_line() of the client takes of the reply, after surplus bytes
\* that are no reply themselves, and what that leaves.
LEMMA ReplyRead ==
  ASSUME RInv, NEW c \in Clients, ~Exempt(c), c_pc[c] = "line",
         LineReady(down[c], down_end[c])
  PROVE  \/ Malformed(NextLine(down[c]))
         \/ cut[c] /\ AfterLine(down[c]) = << >> /\ Commas(Name(c)) # {}
         \/ /\ Settled(c) /\ ~Malformed(NextLine(down[c]))
            /\ \E n \in -1 .. 9 : /\ LengthField(NextLine(down[c])) = Field(n)
                                  /\ Announce(c, n, AfterLine(down[c]))
<1> DEFINE line == NextLine(down[c])
<1>1. Awaits(c)
  BY DEF RInv, Good
<1>2. /\ LineEnds(spilled[c]) = {} /\ (down_end[c] => Commas(spilled[c]) = {})
      /\ down[c] \in Seq(Nat) /\ spilled[c] \in Seq(Nat)
      /\ (cut[c] => down_end[c])
  BY Values DEF RInv, Exempt, Sizes
<1>3. CASE Overrun(c)
  <2>1. LineEnds(down[c]) = {} /\ (Commas(spilled[c]) = {} => Commas(down[c]) = {})
    BY <1>2, <1>3, EndsClean DEF Overrun
  <2>2. line = down[c] /\ Commas(down[c]) = {}
    BY <1>2, <2>1 DEF LineReady, NextLine
  <2>3. \A x \in 1 .. Len(down[c]) : down[c][x] # Comma
    BY <1>2, <2>2 DEF Commas
  <2>4. Malformed(down[c])
    BY <1>2, <2>3, OneComma
  <2> QED BY <2>2, <2>4
<1>4. CASE Replied(c)
  <2>1. PICK s \in Seq(Nat), n \in -1 .. 9, b \in Seq(Nat) :
          /\ Ends(s, 0, spilled[c], FALSE) /\ Announce(c, n, b)
          /\ \/ down[c] = (s \o Reply(Name(c), n)) \o b
             \/ cut[c] /\ b = << >> /\ Starts(down[c], s \o Reply(Name(c), n))
    BY <1>4 DEF Replied
  <2>2. Settled(c) /\ Name(c) \in Names /\ Name(c) # << >> /\ Name(c) \in Seq(Nat)
    BY <1>4, NamesAssumption DEF Replied
  <2>3. LineEnds(s) = {} /\ (Commas(spilled[c]) = {} => Commas(s) = {})
    BY <1>2, <2>1, EndsClean
  <2> DEFINE z == s \o Reply(Name(c), n)
  <2>4. OneLine(z)
    BY <2>2, <2>3, ReplyEnd
  <2>5. /\ z \in Seq(Nat) /\ Second(s, Name(c), n) \in Nat
        /\ Len(z) = Second(s, Name(c), n) + 3
    BY <2>2, ReplyLength
  <2>6. ASSUME Starts(line, z), line \in Seq(Nat), Second(s, Name(c), n) <= Len(line),
               AfterLine(down[c]) = b
        PROVE  /\ ~Malformed(line) /\ LengthField(line) = Field(n)
               /\ Announce(c, n, AfterLine(down[c]))
    BY <2>1, <2>2, <2>6, ReplyParsed
  <2>7. CASE down[c] = z \o b
    <3> HIDE DEF z
    <3>1. /\ AfterLine(z \o b) = b /\ NextLine(z \o b) \in Seq(Nat)
          /\ Len(NextLine(z \o b)) = Len(z) - 2
          /\ \A x \in 1 .. Len(z) - 2 : NextLine(z \o b)[x] = z[x]
      BY <2>4, ReplyTaken
    <3>2. /\ AfterLine(down[c]) = b /\ line \in Seq(Nat) /\ Len(line) = Len(z) - 2
          /\ \A x \in 1 .. Len(z) - 2 : line[x] = z[x]
      BY <2>7, <3>1
    <3> HIDE DEF line
    <3>3. Len(line) < Len(z) /\ Second(s, Name(c), n) <= Len(line)
      BY <2>5, <3>2
    <3>4. Starts(line, z)
      BY <3>2, <3>3 DEF Starts
    <3>5. /\ ~Malformed(line) /\ LengthField(line) = Field(n)
          /\ Announce(c, n, AfterLine(down[c]))
      BY <2>6, <3>2, <3>3, <3>4
    <3> QED BY <2>2, <3>5 DEF line
  <2>8. CASE cut[c] /\ b = << >> /\ Starts(down[c], z)
    <3> HIDE DEF z
    <3>1. line = down[c] /\ AfterLine(down[c]) = << >>
      BY <1>2, <2>4, <2>8, TornTaken
    <3>2. CASE Second(s, Name(c), n) <= Len(line)
      <4>1. /\ ~Malformed(line) /\ LengthField(line) = Field(n)
            /\ Announce(c, n, AfterLine(down[c]))
        BY <1>2, <2>6, <2>8, <3>1, <3>2
      <4> QED BY <2>2, <4>1
    <3>3. CASE Commas(Name(c)) # {}
      BY <2>8, <3>1, <3>3
    <3>4. CASE Commas(Name(c)) = {} /\ ~(Second(s, Name(c), n) <= Len(line))
      <4>1. Len(down[c]) < Second(s, Name(c), n)
        BY <1>2, <2>5, <3>1, <3>4
      <4>2. Commas(s) = {}
        BY <1>2, <2>3, <2>8
      <4>3. Malformed(down[c])
        BY <1>2, <2>2, <2>8, <3>4, <4>1, <4>2, ReplyTorn DEF z
      <4> QED BY <3>1, <4>3
    <3> QED BY <3>2, <3>3, <3>4
  <2> QED BY <2>1, <2>7, <2>8
<1> QED BY <1>1, <1>3, <1>4 DEF Awaits

LEMMA ReadReplyReply ==
  ASSUME RInv, NEW c \in Clients, ReadReply(c)
  PROVE  Sizes' /\ \A d \in Clients : Exempt(d)' \/ Good(d)'
<1> DEFINE line == NextLine(down[c])
           rest == AfterLine(down[c])
<1>1. /\ UNCHANGED << size, ends, length, read, asked, outcome, sVars >>
      /\ c_pc[c] = "line" /\ LineReady(down[c], down_end[c])
      /\ c_line' = [c_line EXCEPT ![c] = line] /\ down' = [down EXCEPT ![c] = rest]
      /\ c_pc' = [c_pc EXCEPT ![c] = "parse"]
      /\ c_pc \in [Clients -> ClientPcs] /\ c_line \in [Clients -> Seq(Nat)]
      /\ down \in [Clients -> Seq(Nat)]
  BY DEF RInv, Sizes, ReadReply, received
<1>2. line \in Seq(Nat) /\ rest \in Seq(Nat)
  BY Values, LineTypes DEF RInv
<1> HIDE DEF line, rest
<1>3. /\ c_pc' \in [Clients -> ClientPcs] /\ c_pc'[c] = "parse"
      /\ c_line' \in [Clients -> Seq(Nat)] /\ c_line'[c] = line
      /\ down' \in [Clients -> Seq(Nat)] /\ down'[c] = rest
      /\ \A d \in Clients \ {c} :
           c_pc'[d] = c_pc[d] /\ c_line'[d] = c_line[d] /\ down'[d] = down[d]
  BY <1>1, <1>2 DEF ClientPcs
<1>4. Sizes'
  BY <1>1, <1>3 DEF RInv, Sizes, ends, sVars
<1>5. ASSUME ~Exempt(c) PROVE Good(c)'
  <2>1. \/ Malformed(line)
        \/ cut[c] /\ rest = << >> /\ Commas(Name(c)) # {}
        \/ /\ Settled(c) /\ ~Malformed(line)
           /\ \E n \in -1 .. 9 : LengthField(line) = Field(n) /\ Announce(c, n, rest)
    BY <1>1, <1>5, ReplyRead DEF line, rest
  <2>2. Quiet(c) /\ cut' = cut
    BY <1>1, ClientQuiet DEF ends
  <2>3. /\ (Settled(c) => Settled(c)') /\ Name(c)' = Name(c)
        /\ \A n, s : Announce(c, n, s) => Announce(c, n, s)'
    BY <2>2, Kept
  <2>4. ASSUME NEW n, Announce(c, n, rest) PROVE Announce(c, n, down[c])'
    <3>1. PICK s : s = rest
      OBVIOUS
    <3>2. Announce(c, n, s)' /\ s = down'[c]
      BY <1>3, <2>3, <2>4, <3>1
    <3> QED BY <3>2
  <2>5. Parses(c)'
    BY <1>3, <2>1, <2>2, <2>3, <2>4 DEF Parses, Garbled
  <2>6. outcome'[c] # "file"
    BY <1>1, <1>5 DEF RInv, Good, Ended
  <2> QED BY <1>3, <2>5, <2>6 DEF Good, Idle, Awaits, Receives, Ended
<1> QED BY <1>1, <1>3, <1>4, <1>5, ClientOnly DEF Still, ends

\* sscanf() finds the length that the server put into the reply.
LEMMA ScannedField ==
  ASSUME NEW k \in -1 .. 9, NEW old
  PROVE  Scanned(old, Field(k)) = {k}
<1>1. CASE k = -1
  BY <1>1 DEF Scanned, Field
<1>2. CASE k # -1
  <2>1. k \in 0 .. 9
    BY <1>2
  <2> DEFINE f == << Digit(k) >>
  <2>2. f # MinusOne /\ f # << >> /\ f[1] = Digit(k)
    BY DEF MinusOne
  <2>3. Digit(k) \in Digit(0) .. Digit(9) /\ Digit(k) - Digit(0) = k
    BY <2>1 DEF Digit
  <2>4. Field(k) = f
    BY <1>2 DEF Field
  <2> HIDE DEF f
  <2> QED BY <2>2, <2>3, <2>4 DEF Scanned
<1> QED BY <1>1, <1>2

LEMMA ScannedType ==
  ASSUME NEW old \in Int, NEW field
  PROVE  Scanned(old, field) \subseteq Int
<1>1. ASSUME field[1] \in Digit(0) .. Digit(9) PROVE field[1] - Digit(0) \in Int
  BY <1>1 DEF Digit
<1>2. {-1} \subseteq Int /\ {-1, 0, 1} \subseteq Int
  OBVIOUS
<1> QED BY <1>1, <1>2 DEF Scanned

\* The reply is parsed.
LEMMA ParseReplyReply ==
  ASSUME RInv, NEW c \in Clients, ParseReply(c)
  PROVE  Sizes' /\ \A d \in Clients : Exempt(d)' \/ Good(d)'
<1>1. /\ UNCHANGED << size, down, down_end, cut, asked, sVars >>
      /\ c_pc[c] = "parse" /\ c_line' = [c_line EXCEPT ![c] = << >>]
      /\ c_pc \in [Clients -> ClientPcs] /\ c_line \in [Clients -> Seq(Nat)]
      /\ length \in [Clients -> Int] /\ read \in [Clients -> Seq(Nat)]
      /\ outcome \in [Clients -> Outcomes]
  BY DEF RInv, Sizes, ParseReply
<1>2. /\ c_line' \in [Clients -> Seq(Nat)]
      /\ \A d \in Clients \ {c} : c_line'[d] = c_line[d]
  <2>1. << >> \in Seq(Nat)
    OBVIOUS
  <2> QED BY <1>1, <2>1
<1>3. Quiet(c) /\ cut' = cut /\ announced' = announced /\ down' = down
  BY <1>1, ClientQuiet DEF sVars
<1>4. /\ (Settled(c) => Settled(c)') /\ Name(c)' = Name(c)
      /\ (Overrun(c) => Overrun(c)') /\ (Garbled(c) => Garbled(c)')
      /\ \A s, k : Body(c, s, k) => Body(c, s, k)'
  BY <1>3, Kept
<1>5. /\ spilled[c] \in Seq(Nat) /\ announced[c] \in Nat /\ length[c] \in Int
      /\ down[c] \in Seq(Nat)
  BY Values DEF RInv
<1>6. \E n \in Int :
        /\ \/ length' = length
           \/ length' = [length EXCEPT ![c] = n]
        /\ \/ read' = read
           \/ read' = [read EXCEPT ![c] = << >>]
        /\ \E pc \in ClientPcs : c_pc' = [c_pc EXCEPT ![c] = pc]
        /\ \E o \in Outcomes : outcome' = outcome \/ outcome' = [outcome EXCEPT ![c] = o]
  <2>0. 0 \in Int /\ {"prompt", "body", "done"} \subseteq ClientPcs
        /\ {"malformed", "error"} \subseteq Outcomes
    BY DEF ClientPcs, Outcomes
  <2>1. CASE /\ Leave(c, "done") /\ outcome' = [outcome EXCEPT ![c] = "malformed"]
             /\ UNCHANGED << length, read >>
    BY <2>0, <2>1 DEF Leave
  <2>2. ASSUME NEW n \in Scanned(length[c], LengthField(c_line[c])),
               length' = [length EXCEPT ![c] = n],
               \/ /\ Again(c) /\ outcome' = [outcome EXCEPT ![c] = "error"]
                  /\ UNCHANGED read
               \/ /\ c_pc' = [c_pc EXCEPT ![c] = "body"]
                  /\ read' = [read EXCEPT ![c] = << >>] /\ UNCHANGED outcome
               \/ /\ Leave(c, "done") /\ outcome' = [outcome EXCEPT ![c] = "error"]
                  /\ UNCHANGED read
        PROVE  /\ n \in Int /\ length' = [length EXCEPT ![c] = n]
               /\ \/ read' = read
                  \/ read' = [read EXCEPT ![c] = << >>]
               /\ \E pc \in ClientPcs : c_pc' = [c_pc EXCEPT ![c] = pc]
               /\ \E o \in Outcomes : outcome' = outcome \/ outcome' = [outcome EXCEPT ![c] = o]
    <3>1. n \in Int
      BY <1>5, ScannedType
    <3> QED BY <2>0, <2>2, <3>1 DEF Leave, Again
  <2> QED BY <2>1, <2>2 DEF ParseReply, received
<1>7. /\ length' \in [Clients -> Int] /\ read' \in [Clients -> Seq(Nat)]
      /\ c_pc' \in [Clients -> ClientPcs] /\ outcome' \in [Clients -> Outcomes]
      /\ \A d \in Clients \ {c} : /\ length'[d] = length[d] /\ read'[d] = read[d]
                                  /\ c_pc'[d] = c_pc[d] /\ outcome'[d] = outcome[d]
  <2>1. << >> \in Seq(Nat)
    OBVIOUS
  <2> QED BY <1>1, <1>6, <2>1
<1>8. Sizes'
  BY <1>1, <1>2, <1>7 DEF RInv, Sizes, sVars
<1>9. ASSUME ~Exempt(c) PROVE Good(c)'
  <2>1. Parses(c) /\ Ended(c)
    BY <1>9 DEF RInv, Good
  <2>2. ASSUME c_pc'[c] = "done", outcome'[c] # "file" PROVE Good(c)'
    BY <2>2 DEF Good, Idle, Awaits, Parses, Receives, Ended
  <2>3. CASE /\ Leave(c, "done") /\ outcome' = [outcome EXCEPT ![c] = "malformed"]
    BY <1>1, <2>2, <2>3 DEF Leave
  <2>4. ASSUME ~Malformed(c_line[c]),
               NEW n \in Scanned(length[c], LengthField(c_line[c])),
               length' = [length EXCEPT ![c] = n],
               \/ /\ n = -1 /\ Again(c) /\ outcome' = [outcome EXCEPT ![c] = "error"]
               \/ /\ n # -1 /\ c_pc' = [c_pc EXCEPT ![c] = "body"]
                  /\ read' = [read EXCEPT ![c] = << >>] /\ UNCHANGED outcome
               \/ Leave(c, "done") /\ outcome' = [outcome EXCEPT ![c] = "error"]
        PROVE  Good(c)'
    <3>1. \/ Garbled(c)
          \/ Settled(c) /\ n \in -1 .. 9 /\ Announce(c, n, down[c])
      <4>1. CASE Garbled(c)
        BY <4>1
      <4>2. CASE ~Garbled(c)
        <5>1. Settled(c) /\ \E k \in -1 .. 9 : /\ LengthField(c_line[c]) = Field(k)
                                               /\ Announce(c, k, down[c])
          BY <1>1, <2>1, <2>4, <4>2 DEF Parses
        <5>2. PICK k \in -1 .. 9 : /\ LengthField(c_line[c]) = Field(k)
                                   /\ Announce(c, k, down[c])
          BY <5>1
        <5>3. n \in Scanned(length[c], Field(k))
          BY <2>4, <5>2
        <5>4. n \in {k}
          BY <5>3, ScannedField
        <5> QED BY <5>1, <5>2, <5>4
      <4> QED BY <4>1, <4>2
    <3>2. CASE n = -1 /\ Again(c) /\ outcome' = [outcome EXCEPT ![c] = "error"]
      <4>1. c_pc'[c] \in {"prompt", "done"} /\ outcome'[c] = "error"
        BY <1>1, <3>2 DEF Again, Leave
      <4>2. Overrun(c) /\ (cut[c] \/ Settled(c))
        <5>1. CASE Garbled(c)
          BY <1>5, <5>1, EndsNone DEF Garbled, Overrun
        <5>2. CASE Settled(c) /\ Announce(c, n, down[c])
          <6>1. ~(-1 \in 0 .. 9)
            OBVIOUS
          <6>2. down[c] = << >> /\ ~Sending(c)
            BY <3>2, <5>2, <6>1 DEF Announce
          <6>3. Ends(<< >>, 0, spilled[c], ~cut[c])
            <7>1. 0 \in Nat
              OBVIOUS
            <7> QED BY <1>5, <7>1, EndsNone
          <6> QED BY <5>2, <6>2, <6>3 DEF Overrun
        <5> QED BY <3>1, <5>1, <5>2
      <4>3. Idle(c)'
        BY <1>3, <1>4, <4>2 DEF Idle
      <4> QED BY <4>1, <4>3 DEF Good, Awaits, Parses, Receives, Ended
    <3>3. CASE /\ n # -1 /\ c_pc' = [c_pc EXCEPT ![c] = "body"]
               /\ read' = [read EXCEPT ![c] = << >>] /\ UNCHANGED outcome
      <4>1. /\ c_pc'[c] = "body" /\ outcome'[c] # "file" /\ read'[c] = << >>
            /\ length'[c] = n
        BY <1>1, <2>1, <2>4, <3>3 DEF Ended
      <4>2. CASE Garbled(c)
        BY <1>4, <4>1, <4>2 DEF Good, Idle, Awaits, Parses, Receives, Ended
      <4>3. CASE Settled(c) /\ Announce(c, n, down[c])
        <5>1. n = announced[c] /\ Body(c, down[c], 0)
          BY <3>3, <4>3 DEF Announce
        <5>2. n \in 0 .. announced[c] /\ announced[c] - n = 0
          BY <1>5, <5>1
        <5>3. Body(c, down[c], 0)'
          <6>1. PICK s : s = down[c]
            OBVIOUS
          <6>2. Body(c, s, 0)' /\ s = down'[c]
            BY <1>3, <1>4, <5>1, <6>1
          <6> QED BY <6>2
        <5>4. SubSeq(Content[Name(c)], 1, 0) = << >>
          <6>1. Content[Name(c)] \in Seq(Nat)
            BY <5>1, ContentAssumption DEF Body
          <6> QED BY <6>1
        <5>5. announced'[c] - length'[c] = 0
          BY <1>3, <4>1, <5>2
        <5>6. Receives(c)'
          BY <1>3, <1>4, <4>1, <4>3, <5>2, <5>3, <5>4, <5>5 DEF Receives
        <5> QED BY <4>1, <5>6 DEF Good, Idle, Awaits, Parses, Ended
      <4> QED BY <3>1, <4>2, <4>3
    <3>4. CASE Leave(c, "done") /\ outcome' = [outcome EXCEPT ![c] = "error"]
      BY <1>1, <2>2, <3>4 DEF Leave
    <3> QED BY <2>4, <3>2, <3>3, <3>4
  <2> QED BY <2>3, <2>4 DEF ParseReply
<1> QED BY <1>1, <1>2, <1>7, <1>8, <1>9, ClientOnly DEF Still

\* Steps of the server that send nothing.
LEMMA ServerQuiet ==
  ASSUME RInv, UNCHANGED << cVars, down, spilled, cut, announced, taken >>,
         s_pc' \notin {"process", "send"},
         \A d \in Clients : down_end[d] => down_end'[d]
  PROVE  \A d \in Clients : Exempt(d)' \/ Good(d)'
<1> SUFFICES ASSUME NEW d \in Clients PROVE Exempt(d)' \/ Good(d)'
  OBVIOUS
<1>1. Quiet(d)
  BY DEF Quiet, Sending, Handling, cVars
<1>2. Still(d)
  BY DEF Still, cVars, received
<1> QED BY <1>1, <1>2, OtherKept

LEMMA AcceptReply ==
  ASSUME RInv, Accept
  PROVE  Sizes' /\ \A d \in Clients : Exempt(d)' \/ Good(d)'
<1>1. /\ UNCHANGED << size, down, ends, cVars, offset, taken, announced, spilled >>
      /\ s_pc' \in {"exit", "line"}
  BY DEF Accept
<1>2. Sizes'
  BY <1>1 DEF RInv, Sizes, ends, cVars, received
<1> QED BY <1>1, <1>2, ServerQuiet DEF ends

LEMMA ConnectionClosedReply ==
  ASSUME RInv, ConnectionClosed
  PROVE  Sizes' /\ \A d \in Clients : Exempt(d)' \/ Good(d)'
<1>1. /\ UNCHANGED << size, down, ends, cVars, offset, taken, announced, spilled >>
      /\ s_pc' = "accept"
  BY DEF ConnectionClosed
<1>2. Sizes'
  BY <1>1 DEF RInv, Sizes, ends, cVars, received
<1> QED BY <1>1, <1>2, ServerQuiet DEF ends

LEMMA ChangeFileReply ==
  ASSUME RInv, NEW f \in DOMAIN Content, ChangeFile(f)
  PROVE  Sizes' /\ \A d \in Clients : Exempt(d)' \/ Good(d)'
<1>1. UNCHANGED << down, ends, cVars, sVars >>
  BY DEF ChangeFile
<1>2. PICK n \in 0 .. Len(Content[f]) : size' = [size EXCEPT ![f] = n]
  BY DEF ChangeFile
<1>3. size \in [DOMAIN Content -> Nat] /\ Len(Content[f]) \in Nat
  BY ContentAssumption DEF RInv, Sizes
<1>4. n \in Nat /\ n <= Len(Content[f])
  BY <1>3
<1>5. /\ size' \in [DOMAIN Content -> Nat]
      /\ \A g \in DOMAIN Content : size'[g] <= Len(Content[g])
  BY <1>2, <1>3, <1>4 DEF RInv, Sizes
<1>6. Sizes'
  BY <1>1, <1>5 DEF RInv, Sizes, ends, cVars, received, sVars
<1>7. ASSUME NEW d \in Clients PROVE Exempt(d)' \/ Good(d)'
  <2>1. Quiet(d) /\ Still(d)
    BY <1>1, ClientQuiet DEF Still, cVars, received, ends
  <2> QED BY <1>1, <2>1, OtherKept DEF ends
<1> QED BY <1>6, <1>7

\* get_nvt_line() of a request, which the server has then not yet answered.
LEMMA ReadRequestReply ==
  ASSUME RInv, ReadRequest
  PROVE  Sizes' /\ \A d \in Clients : Exempt(d)' \/ Good(d)'
<1>0. PICK c \in Clients : c = client
  BY DEF RInv, IInv, Types, ReadRequest
<1>1. /\ UNCHANGED << size, down, ends, cVars, client, offset, announced, spilled >>
      /\ client = c
      /\ s_pc = "line" /\ s_pc' = "process" /\ s_line' = NextLine(up[c])
      /\ taken' = [taken EXCEPT ![c] = taken[c] + IF up[c] = << >> THEN 0 ELSE 1]
  BY <1>0 DEF ReadRequest
<1>2. Sizes'
  BY <1>1 DEF RInv, Sizes, ends, cVars, received
<1>3. /\ taken \in [Clients -> Nat] /\ up \in [Clients -> Seq(Nat)]
      /\ asked \in [Clients -> Seq(Names)] /\ cut \in [Clients -> BOOLEAN]
  BY <1>1 DEF RInv, IInv, Types
<1>4. \A d \in Clients : Still(d) /\ down'[d] = down[d] /\ down_end'[d] = down_end[d]
  BY <1>1 DEF Still, cVars, received, ends
<1>5. ASSUME NEW d \in Clients, d # c PROVE Exempt(d)' \/ Good(d)'
  <2>1. taken'[d] = taken[d]
    BY <1>1, <1>3, <1>5
  <2>2. Quiet(d)
    BY <1>1, <1>5, <2>1 DEF Quiet, Sending, Handling, ends, cVars
  <2> QED BY <1>4, <2>2, OtherKept
<1>6. CASE up[c] = << >>
  <2>1. taken'[c] = taken[c] /\ s_line' = << >>
    <3>1. LineEnds(<< >>) = {}
      BY DEF LineEnds
    <3> QED BY <1>1, <1>3, <1>6, <3>1 DEF NextLine
  <2>2. Quiet(c)
    BY <1>1, <2>1 DEF Quiet, Sending, Handling, ends, cVars
  <2>3. Exempt(c)' \/ Good(c)'
    BY <1>3, <1>4, <2>2, OtherKept
  <2> QED BY <1>2, <1>5, <2>3
<1>7. CASE up[c] # << >>
  <2>1. taken[c] # Len(asked[c]) /\ taken'[c] = taken[c] + 1 /\ taken[c] \in Nat
    <3>1. PICK e : Laid(up[c], asked[c], taken[c], e, ~cut[c])
      BY <1>3 DEF RInv, IInv, OnTheWay
    <3>2. up[c] \in Seq(Nat) /\ asked[c] \in Seq(Names) /\ (~cut[c]) \in BOOLEAN
      BY <1>3
    <3>3. taken[c] + 1 \in 1 .. Len(asked[c])
      BY <1>7, <3>1, <3>2, LineRead
    <3>4. taken[c] \in Nat /\ Len(asked[c]) \in Nat
      BY <1>3
    <3>5. taken'[c] = taken[c] + 1
      BY <1>1, <1>3, <1>7
    <3> QED BY <3>3, <3>4, <3>5
  <2>2. /\ ~Settled(c) /\ ~Replied(c) /\ asked' = asked /\ cut' = cut
        /\ announced' = announced /\ spilled' = spilled /\ Name(c)' = Name(c)
    BY <1>1, <2>1 DEF Settled, Replied, cVars, ends, Name, Last
  <2>3. Overrun(c) => Overrun(c)'
    BY <1>1, <2>2 DEF Overrun, Sending
  <2>4. Turn(c) => Turn(c)'
    BY <2>1, <2>2 DEF Turn
  <2>5. Garbled(c) => Garbled(c)'
    BY <1>1, <2>2 DEF Garbled
  <2>6. ASSUME Good(c) PROVE Good(c)'
    <3>1. Still(c)
      BY <1>3, <1>4
    <3>2. Idle(c)' /\ Awaits(c)'
      BY <2>2, <2>3, <2>4, <2>6, <3>1 DEF Good, Idle, Awaits, Still
    <3>3. Parses(c)' /\ Receives(c)'
      BY <2>2, <2>5, <2>6, <3>1 DEF Good, Parses, Receives, Still
    <3>4. Ended(c)'
      BY <2>2, <2>6, <3>1 DEF Good, Ended, Still
    <3> QED BY <3>2, <3>3, <3>4 DEF Good
  <2>7. ASSUME Exempt(c) PROVE Exempt(c)'
    BY <1>3, <1>4, <2>2, <2>7, ExemptStays
  <2>8. Exempt(c)' \/ Good(c)'
    BY <1>3, <2>6, <2>7 DEF RInv
  <2> QED BY <1>2, <1>5, <2>8
<1> QED BY <1>6, <1>7

\* The reply line is written, and the content is to follow it.
LEMMA ReplySent ==
  ASSUME RInv, NEW c \in Clients, client = c, s_pc = "process", s_line # << >>,
         NEW n \in -1 .. 9, UNCHANGED << cVars, client, taken, spilled, cut, down_end >>,
         down' = Put(down, c, Reply(s_line, n)),
         \/ n = -1 /\ s_pc' = "line" /\ announced' = announced
         \/ /\ n # -1 /\ s_line \in DOMAIN Content /\ s_pc' = "send" /\ offset' = 0
            /\ announced' = [announced EXCEPT ![c] = n]
  PROVE  down' \in [Clients -> Seq(Nat)] /\ \A d \in Clients : Exempt(d)' \/ Good(d)'
<1>1. /\ down \in [Clients -> Seq(Nat)] /\ announced \in [Clients -> 0 .. 9]
      /\ asked \in [Clients -> Seq(Names)] /\ taken \in [Clients -> Nat]
      /\ cut \in [Clients -> BOOLEAN]
  BY DEF RInv, Sizes, IInv, Types
<1>2. down[c] \in Seq(Nat) /\ spilled[c] \in Seq(Nat) /\ asked[c] \in Seq(Names)
  BY <1>1, Values DEF RInv
<1>3. ASSUME ~cut[c]
      PROVE  /\ taken[c] \in DOMAIN asked[c] /\ s_line = asked[c][taken[c]]
             /\ s_line \in Names /\ s_line \in Seq(Nat)
             /\ Reply(s_line, n) \in Seq(Nat)
  <2>1. taken[c] \in DOMAIN asked[c] /\ s_line = asked[c][taken[c]]
    BY <1>3 DEF RInv, IInv, HandledWasAsked
  <2>2. s_line \in Names
    BY <1>2, <2>1
  <2>3. s_line \in Seq(Nat)
    BY <2>2, NamesAssumption
  <2>4. Reply(s_line, n) \in Seq(Nat)
    BY <2>3, ReplyShape DEF Shape
  <2> QED BY <2>1, <2>2, <2>3, <2>4
<1>4. /\ down' \in [Clients -> Seq(Nat)]
      /\ \A d \in Clients \ {c} : down'[d] = down[d]
      /\ cut[c] => down' = down
      /\ ~cut[c] => down'[c] = down[c] \o Reply(s_line, n)
  <2>1. CASE cut[c]
    BY <1>1, <2>1 DEF Put
  <2>2. CASE ~cut[c]
    <3> DEFINE t == down[c] \o Reply(s_line, n)
    <3>1. down' = [down EXCEPT ![c] = t]
      BY <2>2 DEF Put
    <3>2. t \in Seq(Nat)
      BY <1>2, <1>3, <2>2, Joined
    <3> HIDE DEF t
    <3>3. /\ down' \in [Clients -> Seq(Nat)] /\ down'[c] = t
          /\ \A d \in Clients \ {c} : down'[d] = down[d]
      BY <1>1, <3>1, <3>2
    <3> QED BY <2>2, <3>3 DEF t
  <2> QED BY <2>1, <2>2
<1>5. \A d \in Clients : Still(d)
  BY DEF Still, cVars, received
<1>6. ASSUME NEW d \in Clients, d # c PROVE Exempt(d)' \/ Good(d)'
  <2>1. announced'[d] = announced[d]
    BY <1>1, <1>6
  <2>2. Quiet(d)
    BY <1>6, <2>1 DEF Quiet, Sending, Handling, cVars
  <2> QED BY <1>4, <1>5, <1>6, <2>2, OtherKept
<1>7. Handling(c) /\ ~Settled(c) /\ ~Handling(c)'
  BY DEF Settled, Handling
<1>8. ASSUME Good(c) PROVE Good(c)'
  <2>1. ~Replied(c) /\ Name(c)' = Name(c)
    BY <1>7 DEF Replied, Name, Last, cVars
  <2>2. cut[c] /\ Overrun(c) => Overrun(c)'
    BY <1>4 DEF Overrun
  <2>3. Garbled(c) => Garbled(c)'
    BY <1>4, <2>1 DEF Garbled
  <2>4. ASSUME Overrun(c), Turn(c), ~cut[c] PROVE Replied(c)'
    <3>1. taken[c] = Len(asked[c])
      BY <1>7, <2>4 DEF Turn
    <3>2. s_line = Name(c) /\ Name(c) \in Names /\ Name(c) # << >>
      BY <1>3, <2>4, <3>1 DEF Name, Last
    <3>3. Settled(c)'
      BY <1>7, <3>1 DEF Settled, cVars
    <3>4. Ends(down[c], 0, spilled[c], FALSE)
      BY <2>4 DEF Overrun, Ends
    <3>5. Announce(c, n, << >>)'
      <4>1. CASE n = -1 /\ s_pc' = "line"
        BY <4>1 DEF Announce, Sending
      <4>2. CASE /\ n # -1 /\ s_line \in DOMAIN Content /\ s_pc' = "send" /\ offset' = 0
                 /\ announced' = [announced EXCEPT ![c] = n]
        <5>1. announced'[c] = n /\ n \in 0 .. 9 /\ n - 0 = n /\ n \in Nat
          BY <1>1, <4>2
        <5>2. Ends(<< >>, n, spilled[c], ~cut[c])
          BY <1>2, <5>1, EndsNone
        <5>3. Content[Name(c)] \in Seq(Nat) /\ Name(c) \in DOMAIN Content
          BY <3>2, <4>2, ContentAssumption
        <5>4. 0 + Len(<< >>) = 0 /\ 1 .. Len(<< >>) = {} /\ 0 <= Len(Content[Name(c)])
          BY <5>3
        <5>5. Ends(<< >>, announced'[c] - 0, spilled'[c], ~cut'[c])
          BY <5>1, <5>2
        <5>6. Body(c, << >>, 0)'
          BY <2>1, <4>2, <5>3, <5>4, <5>5 DEF Body
        <5> QED BY <5>1, <5>6 DEF Announce
      <4> QED BY <4>1, <4>2
    <3>6. down'[c] = (down[c] \o Reply(Name(c), n)) \o << >>
      <4> DEFINE t == down[c] \o Reply(s_line, n)
      <4>1. t \in Seq(Nat) /\ down'[c] = t
        BY <1>2, <1>3, <1>4, <2>4, Joined
      <4> HIDE DEF t
      <4>2. t \o << >> = t
        BY <4>1
      <4> QED BY <3>2, <4>1, <4>2 DEF t
    <3>7. << >> \in Seq(Nat)
      OBVIOUS
    <3>8. PICK s \in Seq(Nat), b \in Seq(Nat) : s = down[c] /\ b = << >>
      BY <1>2, <3>7
    <3>9. /\ Ends(s, 0, spilled'[c], FALSE) /\ Announce(c, n, b)'
          /\ down'[c] = (s \o Reply(Name(c)', n)) \o b
      BY <2>1, <3>4, <3>5, <3>6, <3>8
    <3> QED BY <2>1, <3>2, <3>3, <3>9 DEF Replied
  <2>5. Idle(c)'
    BY <1>5, <1>7, <1>8, <2>2 DEF Good, Idle, Still
  <2>6. Awaits(c)'
    BY <1>5, <1>8, <2>1, <2>2, <2>4 DEF Good, Awaits, Still
  <2>7. Parses(c)' /\ Receives(c)'
    BY <1>5, <1>7, <1>8, <2>3 DEF Good, Parses, Receives, Still
  <2>8. Ended(c)'
    BY <1>5, <1>7, <1>8, <2>1 DEF Good, Ended, Still
  <2> QED BY <2>5, <2>6, <2>7, <2>8 DEF Good
<1>9. Exempt(c)' \/ Good(c)'
  BY <1>8, ExemptStays DEF RInv
<1> QED BY <1>4, <1>6, <1>9

LEMMA ProcessLineReply ==
  ASSUME RInv, ProcessLine
  PROVE  Sizes' /\ \A d \in Clients : Exempt(d)' \/ Good(d)'
<1>0. PICK c \in Clients : c = client
  BY DEF RInv, IInv, Types, ProcessLine
<1>1. /\ UNCHANGED << size, cut, cVars, client, taken, spilled >>
      /\ s_pc = "process" /\ client = c
  BY <1>0 DEF ProcessLine
<1>2. CASE s_line = << >> /\ CloseConnection /\ UNCHANGED << down, offset, announced >>
  <2>1. /\ down_end' \in [Clients -> BOOLEAN] /\ s_pc' = "close"
        /\ \A d \in Clients : down_end[d] => down_end'[d]
    BY <1>1, <1>2 DEF RInv, Sizes, CloseConnection
  <2>2. Sizes'
    BY <1>1, <1>2, <2>1 DEF RInv, Sizes, cVars, received
  <2> QED BY <1>1, <1>2, <2>1, <2>2, ServerQuiet
<1>3. CASE /\ s_line \in DOMAIN Content
           /\ down' = Put(down, client, Reply(s_line, size[s_line]))
           /\ announced' = [announced EXCEPT ![client] = size[s_line]]
           /\ offset' = 0 /\ s_pc' = "send" /\ UNCHANGED << down_end, s_line >>
  <2> DEFINE n == size[s_line]
  <2>1. n \in 0 .. 9
    <3>1. /\ n \in Nat /\ n <= Len(Content[s_line]) /\ Len(Content[s_line]) < 10
          /\ Len(Content[s_line]) \in Nat
      BY <1>3, ContentAssumption DEF RInv, Sizes
    <3> HIDE DEF n
    <3> QED BY <3>1
  <2>2. /\ down' = Put(down, c, Reply(s_line, n))
        /\ announced' = [announced EXCEPT ![c] = n] /\ s_line # << >>
    BY <1>1, <1>3, ContentAssumption
  <2> HIDE DEF n
  <2>3. n \in -1 .. 9 /\ n # -1
    BY <2>1
  <2>4. /\ down' \in [Clients -> Seq(Nat)]
        /\ \A d \in Clients : Exempt(d)' \/ Good(d)'
    BY <1>1, <1>3, <2>2, <2>3, ReplySent
  <2>5. announced' \in [Clients -> 0 .. 9] /\ offset' \in Nat
    <3>1. announced \in [Clients -> 0 .. 9] /\ 0 \in Nat
      BY DEF RInv, Sizes
    <3> QED BY <1>3, <2>1, <2>2, <3>1
  <2>6. Sizes'
    BY <1>1, <1>3, <2>4, <2>5 DEF RInv, Sizes, cVars, received
  <2> QED BY <2>4, <2>6
<1>4. CASE /\ s_line # << >> /\ down' = Put(down, client, Reply(s_line, -1))
           /\ s_pc' = "line" /\ UNCHANGED << down_end, offset, announced >>
  <2>1. -1 \in -1 .. 9 /\ down' = Put(down, c, Reply(s_line, -1))
    BY <1>1, <1>4
  <2>2. /\ down' \in [Clients -> Seq(Nat)]
        /\ \A d \in Clients : Exempt(d)' \/ Good(d)'
    BY <1>1, <1>4, <2>1, ReplySent
  <2>3. Sizes'
    BY <1>1, <1>4, <2>2 DEF RInv, Sizes, cVars, received
  <2> QED BY <2>2, <2>3
<1> QED BY <1>2, <1>3, <1>4 DEF ProcessLine

\* What a read() of the server returns are the next bytes of the file.
LEMMA ChunkIs ==
  ASSUME RInv, s_pc = "send"
  PROVE  /\ s_line \in DOMAIN Content /\ Content[s_line] \in Seq(Nat)
         /\ Chunk \in Seq(Nat) /\ Len(Chunk) \in Nat
         /\ Chunk # << >> => /\ offset + Len(Chunk) <= Len(Content[s_line])
                             /\ \A x \in 1 .. Len(Chunk) :
                                  Chunk[x] = Content[s_line][offset + x]
<1> DEFINE F == Content[s_line]
           n == size[s_line]
           last == IF offset + ServerBuf < n THEN offset + ServerBuf ELSE n
           k == last - offset
<1>1. /\ s_line \in DOMAIN Content /\ F \in Seq(Nat) /\ n \in Nat /\ n <= Len(F)
      /\ offset \in Nat /\ ServerBuf \in Nat /\ Len(F) \in Nat
  BY ContentAssumption, BufAssumption DEF RInv, Sizes
<1>2. Chunk = SubSeq(F, offset + 1, last)
  BY DEF Chunk
<1> HIDE DEF F, n
<1>3. last \in Nat /\ last <= n
  BY <1>1
<1> HIDE DEF last
<1>4. CASE last <= offset
  <2>1. SubSeq(F, offset + 1, last) = << >>
    BY <1>1, <1>3, <1>4
  <2>2. << >> \in Seq(Nat) /\ Len(<< >>) \in Nat
    OBVIOUS
  <2>3. Chunk = << >>
    BY <1>2, <2>1
  <2> QED BY <1>1, <2>2, <2>3 DEF F
<1>5. CASE last > offset
  <2>1. k \in Nat /\ offset + k = last
    BY <1>1, <1>3, <1>5
  <2> HIDE DEF k
  <2>2. offset + k <= Len(F)
    BY <1>1, <1>3, <2>1
  <2>3. /\ SubSeq(F, offset + 1, offset + k) \in Seq(Nat)
        /\ Len(SubSeq(F, offset + 1, offset + k)) = k
        /\ \A x \in 1 .. k : SubSeq(F, offset + 1, offset + k)[x] = F[offset + x]
    BY <1>1, <2>1, <2>2, Between
  <2>4. /\ Chunk \in Seq(Nat) /\ Len(Chunk) = k
        /\ \A x \in 1 .. k : Chunk[x] = F[offset + x]
    BY <1>2, <2>1, <2>3
  <2>5. offset + Len(Chunk) <= Len(F)
    BY <2>2, <2>4
  <2> QED BY <1>1, <2>1, <2>4, <2>5 DEF F
<1>6. last <= offset \/ last > offset
  BY <1>1, <1>3
<1> QED BY <1>4, <1>5, <1>6

\* The bytes that become part of the surplus.
Room(c) == IF announced[c] - offset > 0 THEN announced[c] - offset ELSE 0
Surplus(c, a) == SubSeq(a, Room(c) + 1, Len(a))

\* A chunk a is read and written.
Sent(c, a) ==
  /\ client = c /\ s_pc = "send" /\ a = Chunk /\ a # << >>
  /\ down' = Put(down, c, a) /\ offset' = offset + Len(a)
  /\ spilled' = [spilled EXCEPT ![c] = spilled[c] \o Surplus(c, a)]
  /\ UNCHANGED << size, cVars, s_pc, s_line, client, cut, down_end, taken, announced >>

LEMMA SentFacts ==
  ASSUME RInv, NEW c \in Clients, NEW a, Sent(c, a)
  PROVE  /\ a \in Seq(Nat) /\ Len(a) \in Nat /\ Surplus(c, a) \in Seq(Nat)
         /\ Room(c) \in Nat
         /\ down' \in [Clients -> Seq(Nat)] /\ spilled' \in [Clients -> Seq(Nat)]
         /\ offset' \in Nat
         /\ \A d \in Clients \ {c} : down'[d] = down[d] /\ spilled'[d] = spilled[d]
         /\ spilled'[c] = spilled[c] \o Surplus(c, a)
         /\ cut[c] => down' = down
         /\ ~cut[c] => down'[c] = down[c] \o a
<1>1. a \in Seq(Nat) /\ Len(a) \in Nat
  BY ChunkIs DEF Sent
<1>2. /\ down \in [Clients -> Seq(Nat)] /\ spilled \in [Clients -> Seq(Nat)]
      /\ announced[c] \in Nat /\ offset \in Nat
      /\ down[c] \in Seq(Nat) /\ spilled[c] \in Seq(Nat)
  BY Values DEF RInv, Sizes
<1>3. Room(c) \in Nat
  BY <1>2 DEF Room
<1>4. Surplus(c, a) \in Seq(Nat)
  BY <1>1, <1>3, Dropped DEF Surplus
<1>5. spilled[c] \o Surplus(c, a) \in Seq(Nat)
  BY <1>2, <1>4, Joined
<1>6. /\ spilled' \in [Clients -> Seq(Nat)]
      /\ spilled'[c] = spilled[c] \o Surplus(c, a)
      /\ \A d \in Clients \ {c} : spilled'[d] = spilled[d]
  <2> DEFINE t == spilled[c] \o Surplus(c, a)
  <2>1. spilled' = [spilled EXCEPT ![c] = t] /\ t \in Seq(Nat)
    BY <1>5 DEF Sent
  <2> HIDE DEF t
  <2>2. /\ spilled' \in [Clients -> Seq(Nat)] /\ spilled'[c] = t
        /\ \A d \in Clients \ {c} : spilled'[d] = spilled[d]
    BY <1>2, <2>1
  <2> QED BY <2>2 DEF t
<1>7. /\ down' \in [Clients -> Seq(Nat)]
      /\ \A d \in Clients \ {c} : down'[d] = down[d]
      /\ cut[c] => down' = down
      /\ ~cut[c] => down'[c] = down[c] \o a
  <2>1. CASE cut[c]
    BY <1>2, <2>1 DEF Put, Sent
  <2>2. CASE ~cut[c]
    <3> DEFINE t == down[c] \o a
    <3>1. down' = [down EXCEPT ![c] = t]
      BY <2>2 DEF Put, Sent
    <3>2. t \in Seq(Nat)
      BY <1>1, <1>2, Joined
    <3> HIDE DEF t
    <3>3. /\ down' \in [Clients -> Seq(Nat)] /\ down'[c] = t
          /\ \A d \in Clients \ {c} : down'[d] = down[d]
      BY <1>2, <3>1, <3>2
    <3> QED BY <2>2, <3>3 DEF t
  <2> QED BY <2>1, <2>2
<1>8. offset' \in Nat
  BY <1>1, <1>2 DEF Sent
<1> QED BY <1>1, <1>3, <1>4, <1>6, <1>7, <1>8

\* The surplus on its way grows by the surplus of the chunk.
LEMMA OverrunSent ==
  ASSUME RInv, NEW c \in Clients, NEW a, Sent(c, a), Overrun(c)
  PROVE  Overrun(c)'
<1>1. /\ a \in Seq(Nat) /\ Len(a) \in Nat /\ Surplus(c, a) \in Seq(Nat)
      /\ spilled'[c] = spilled[c] \o Surplus(c, a)
      /\ cut[c] => down' = down
      /\ ~cut[c] => down'[c] = down[c] \o a
  BY SentFacts
<1>2. /\ announced[c] \in Nat /\ offset \in Nat
      /\ down[c] \in Seq(Nat) /\ spilled[c] \in Seq(Nat)
  BY Values DEF RInv, Sizes
<1>3. /\ offset' = offset + Len(a) /\ cut' = cut /\ announced' = announced
      /\ Sending(c)
  BY DEF Sent, Sending
<1>4. Ends(down[c], 0, spilled[c], ~cut[c])
  BY DEF Overrun
<1>5. CASE cut[c]
  <2>1. 0 \in Nat
    OBVIOUS
  <2>2. Ends(down[c], 0, spilled[c] \o Surplus(c, a), FALSE)
    BY <1>1, <1>2, <1>4, <2>1, EndsLonger
  <2>3. (~cut[c]) = FALSE
    BY <1>5
  <2> QED BY <1>1, <1>3, <1>5, <2>2, <2>3 DEF Overrun
<1>6. CASE ~cut[c]
  <2>1. offset >= announced[c]
    BY <1>3, <1>6 DEF Overrun
  <2>2. Room(c) = 0
    BY <1>2, <2>1 DEF Room
  <2>3. Surplus(c, a) = SubSeq(a, 0 + 1, Len(a))
    BY <2>2 DEF Surplus
  <2>4. Ends(down[c], 0, spilled[c], TRUE)
    <3>1. (~cut[c]) = TRUE
      BY <1>6
    <3> QED BY <1>4, <3>1
  <2>5. Ends(down[c] \o a, 0, spilled[c] \o SubSeq(a, 0 + 1, Len(a)), TRUE)
    <3>1. 0 \in Nat /\ (0 > Len(down[c]) => 0 = 0 - Len(down[c]))
          /\ (0 <= Len(down[c]) => 0 = 0)
      BY <1>2
    <3> QED BY <1>1, <1>2, <2>4, <3>1, EndsMore
  <2>6. Ends(down'[c], 0, spilled'[c], ~cut'[c])
    <3>1. (~cut'[c]) = TRUE
      BY <1>3, <1>6
    <3> QED BY <1>1, <1>6, <2>3, <2>5, <3>1
  <2>7. offset' >= announced'[c]
    BY <1>1, <1>2, <1>3, <2>1
  <2> QED BY <2>6, <2>7 DEF Overrun
<1> QED BY <1>5, <1>6

\* The content on its way grows by the chunk.
LEMMA BodySent ==
  ASSUME RInv, NEW c \in Clients, NEW a, Sent(c, a), Settled(c),
         NEW s \in Seq(Nat), NEW got \in 0 .. announced[c], Body(c, s, got),
         NEW t, cut[c] => t = s, ~cut[c] => t = s \o a
  PROVE  Body(c, t, got)'
<1>1. /\ a \in Seq(Nat) /\ Len(a) \in Nat /\ Surplus(c, a) \in Seq(Nat)
      /\ Room(c) \in Nat
      /\ spilled'[c] = spilled[c] \o Surplus(c, a)
  BY SentFacts
<1>2. /\ announced[c] \in Nat /\ offset \in Nat /\ spilled[c] \in Seq(Nat)
  BY Values DEF RInv, Sizes
<1>3. /\ offset' = offset + Len(a) /\ cut' = cut /\ announced' = announced
      /\ Sending(c) /\ asked' = asked /\ Name(c)' = Name(c) /\ s_pc = "send"
      /\ client = c
  BY DEF Sent, Sending, cVars, Name, Last
<1> DEFINE d == announced[c] - got
           F == Content[Name(c)]
           n == Len(s)
           m == Len(a)
<1>4. d \in Nat /\ got \in Nat /\ n \in Nat /\ m \in Nat
  BY <1>1, <1>2
<1>5. /\ Name(c) \in DOMAIN Content /\ got + n <= Len(F)
      /\ \A x \in 1 .. n : s[x] = F[got + x]
      /\ Ends(s, d, spilled[c], ~cut[c])
      /\ ~cut[c] => offset = got + n
  BY <1>3 DEF Body
<1>6. F \in Seq(Nat) /\ Len(F) \in Nat
  BY <1>5, ContentAssumption
<1>7. CASE cut[c]
  <2>1. Ends(s, d, spilled[c] \o Surplus(c, a), FALSE)
    BY <1>1, <1>2, <1>4, <1>5, EndsLonger
  <2>2. Ends(s, announced'[c] - got, spilled'[c], ~cut'[c])
    <3>1. (~cut'[c]) = FALSE
      BY <1>3, <1>7
    <3> QED BY <1>1, <1>3, <2>1, <3>1
  <2> QED BY <1>3, <1>5, <1>7, <2>2 DEF Body
<1>8. CASE ~cut[c]
  <2>1. s_line = Name(c) /\ s_line \in DOMAIN Content
    <3>1. s_line \in DOMAIN Content /\ s_line # << >>
      BY <1>3, ContentAssumption DEF RInv, Sizes
    <3>2. s_line = asked[c][taken[c]]
      BY <1>3, <1>8, <3>1 DEF RInv, IInv, HandledWasAsked
    <3> QED BY <3>1, <3>2 DEF Settled, Name, Last
  <2>2. /\ offset + m <= Len(F) /\ \A x \in 1 .. m : a[x] = F[offset + x]
    BY <1>3, <2>1, ChunkIs DEF Sent
  <2>3. (d > n => Room(c) = d - n) /\ (d <= n => Room(c) = 0)
    <3> DEFINE A == announced[c]
               o == offset
    <3>1. /\ A \in Nat /\ o \in Nat /\ d = A - got /\ o = got + n
          /\ Room(c) = IF A - o > 0 THEN A - o ELSE 0
      BY <1>2, <1>5, <1>8 DEF Room
    <3> HIDE DEF A, o, d, n
    <3> QED BY <1>4, <3>1
  <2>4. Ends(s \o a, d, spilled[c] \o SubSeq(a, Room(c) + 1, Len(a)), TRUE)
    <3>1. Ends(s, d, spilled[c], TRUE)
      <4>1. (~cut[c]) = TRUE
        BY <1>8
      <4> QED BY <1>5, <4>1
    <3> HIDE DEF d
    <3> QED BY <1>1, <1>2, <1>4, <2>3, <3>1, EndsMore
  <2>5. Ends(t, announced'[c] - got, spilled'[c], ~cut'[c])
    <3>1. (~cut'[c]) = TRUE
      BY <1>3, <1>8
    <3>2. t = s \o a
      BY <1>8
    <3> QED BY <1>1, <1>3, <2>4, <3>1, <3>2 DEF Surplus
  <2> DEFINE u == s \o a
  <2>6. /\ u \in Seq(Nat) /\ Len(u) = n + m
        /\ \A i \in 1 .. n : u[i] = s[i]
        /\ \A x \in 1 .. m : u[n + x] = a[x]
    BY <1>1, Joined
  <2>7. t = u
    BY <1>8
  <2> HIDE DEF u, n, m, F, d
  <2>8. offset = got + n /\ offset \in Nat
    BY <1>2, <1>5, <1>8
  <2>9. got + Len(u) = offset + m
    BY <1>4, <2>6, <2>8
  <2>10. ASSUME NEW x \in 1 .. Len(u) PROVE u[x] = F[got + x]
    <3>1. CASE x <= n
      <4>1. x \in 1 .. n
        BY <1>4, <2>6, <3>1
      <4> QED BY <1>5, <2>6, <4>1
    <3>2. CASE x > n
      <4> DEFINE y == x - n
      <4>1. y \in 1 .. m /\ n + y = x /\ offset + y = got + x
        BY <1>4, <2>6, <2>8, <3>2
      <4> HIDE DEF y
      <4>2. u[n + y] = a[y] /\ a[y] = F[offset + y]
        BY <2>2, <2>6, <4>1
      <4> QED BY <4>1, <4>2
    <3> QED BY <1>4, <2>6, <3>1, <3>2
  <2>11. /\ got + Len(u) <= Len(Content[Name(c)])
         /\ \A x \in 1 .. Len(u) : u[x] = Content[Name(c)][got + x]
    BY <2>2, <2>9, <2>10 DEF F
  <2>12. offset' = got + Len(u)
    BY <1>3, <2>9 DEF m
  <2>13. /\ Name(c)' \in DOMAIN Content /\ got + Len(t) <= Len(Content[Name(c)'])
         /\ \A x \in 1 .. Len(t) : t[x] = Content[Name(c)'][got + x]
         /\ offset' = got + Len(t)
    BY <1>3, <1>5, <2>7, <2>11, <2>12
  <2> QED BY <2>5, <2>13 DEF Body
<1> QED BY <1>7, <1>8

LEMMA AnnounceSent ==
  ASSUME RInv, NEW c \in Clients, NEW a, Sent(c, a), Settled(c),
         NEW s \in Seq(Nat), NEW n, Announce(c, n, s),
         NEW t, cut[c] => t = s, ~cut[c] => t = s \o a
  PROVE  Announce(c, n, t)'
<1>1. Sending(c) /\ announced' = announced
  BY DEF Sent, Sending
<1>2. n = announced[c] /\ n \in 0 .. 9 /\ Body(c, s, 0)
  BY <1>1 DEF Announce
<1>3. 0 \in 0 .. announced[c]
  BY <1>2
<1>4. Body(c, t, 0)'
  BY <1>2, <1>3, BodySent
<1> QED BY <1>1, <1>2, <1>4 DEF Announce

LEMMA Associative ==
  ASSUME NEW z \in Seq(Nat), NEW b \in Seq(Nat), NEW a \in Seq(Nat)
  PROVE  (z \o b) \o a = z \o (b \o a)
<1> DEFINE p == z \o b
           q == b \o a
           u == p \o a
           v == z \o q
           l == Len(z)
           m == Len(b)
           k == Len(a)
<1>1. /\ p \in Seq(Nat) /\ Len(p) = l + m
      /\ \A x \in 1 .. l : p[x] = z[x]
      /\ \A x \in 1 .. m : p[l + x] = b[x]
  BY Joined
<1>2. /\ q \in Seq(Nat) /\ Len(q) = m + k
      /\ \A x \in 1 .. m : q[x] = b[x]
      /\ \A x \in 1 .. k : q[m + x] = a[x]
  BY Joined
<1> HIDE DEF p, q
<1>3. /\ u \in Seq(Nat) /\ Len(u) = Len(p) + k
      /\ \A x \in 1 .. Len(p) : u[x] = p[x]
      /\ \A x \in 1 .. k : u[Len(p) + x] = a[x]
  BY <1>1, Joined
<1>4. /\ v \in Seq(Nat) /\ Len(v) = l + Len(q)
      /\ \A x \in 1 .. l : v[x] = z[x]
      /\ \A x \in 1 .. Len(q) : v[l + x] = q[x]
  BY <1>2, Joined
<1>5. l \in Nat /\ m \in Nat /\ k \in Nat
  OBVIOUS
<1> HIDE DEF u, v, l, m, k
<1>6. Len(u) = l + m + k /\ Len(v) = l + m + k
  BY <1>1, <1>2, <1>3, <1>4, <1>5
<1>7. ASSUME NEW x \in 1 .. l + m + k PROVE u[x] = v[x]
  <2>1. CASE x \in 1 .. l
    <3>1. x \in 1 .. Len(p)
      BY <1>1, <1>5, <2>1
    <3> QED BY <1>1, <1>3, <1>4, <2>1, <3>1
  <2>2. CASE x \in l + 1 .. l + m
    <3> DEFINE y == x - l
    <3>1. y \in 1 .. m /\ l + y = x
      BY <1>5, <2>2
    <3> HIDE DEF y
    <3>2. l + y \in 1 .. Len(p) /\ y \in 1 .. Len(q)
      BY <1>1, <1>2, <1>5, <3>1
    <3>3. u[l + y] = p[l + y] /\ p[l + y] = b[y] /\ v[l + y] = q[y] /\ q[y] = b[y]
      BY <1>1, <1>2, <1>3, <1>4, <3>1, <3>2
    <3> QED BY <3>1, <3>3
  <2>3. CASE x \in (l + m) + 1 .. l + m + k
    <3> DEFINE y == x - (l + m)
    <3>1. /\ y \in 1 .. k /\ (l + m) + y = x /\ l + (m + y) = x
          /\ m + y \in 1 .. m + k
      BY <1>5, <2>3
    <3> HIDE DEF y
    <3>2. u[Len(p) + y] = a[y] /\ v[l + (m + y)] = q[m + y] /\ q[m + y] = a[y]
      BY <1>2, <1>3, <1>4, <3>1
    <3> QED BY <1>1, <3>1, <3>2
  <2> QED BY <1>5, <2>1, <2>2, <2>3
<1>8. /\ u = [x \in 1 .. Len(u) |-> u[x]] /\ v = [x \in 1 .. Len(v) |-> v[x]]
  BY <1>3, <1>4
<1>9. u = v
  BY <1>6, <1>7, <1>8
<1> QED BY <1>9 DEF u, v, p, q

LEMMA RepliedSent ==
  ASSUME RInv, NEW c \in Clients, NEW a, Sent(c, a), Replied(c)
  PROVE  Replied(c)'
<1>1. PICK s \in Seq(Nat), n \in -1 .. 9, b \in Seq(Nat) :
        /\ Ends(s, 0, spilled[c], FALSE) /\ Announce(c, n, b)
        /\ \/ down[c] = (s \o Reply(Name(c), n)) \o b
           \/ cut[c] /\ b = << >> /\ Starts(down[c], s \o Reply(Name(c), n))
  BY DEF Replied
<1>2. /\ a \in Seq(Nat) /\ Surplus(c, a) \in Seq(Nat)
      /\ spilled'[c] = spilled[c] \o Surplus(c, a)
      /\ cut[c] => down' = down
      /\ ~cut[c] => down'[c] = down[c] \o a
  BY SentFacts
<1>3. Settled(c) /\ Name(c) \in Names /\ Name(c) # << >> /\ Name(c) \in Seq(Nat)
  BY NamesAssumption DEF Replied
<1>4. /\ cut' = cut /\ Name(c)' = Name(c) /\ Settled(c)'
  BY <1>3 DEF Sent, cVars, Name, Last, Settled, Handling
<1>5. Ends(s, 0, spilled'[c], FALSE)
  <2>1. 0 \in Nat /\ spilled[c] \in Seq(Nat)
    BY Values DEF RInv
  <2> QED BY <1>1, <1>2, <2>1, EndsLonger
<1>6. PICK t \in Seq(Nat) : (cut[c] => t = b) /\ (~cut[c] => t = b \o a)
  <2>1. b \o a \in Seq(Nat)
    BY <1>2, Joined
  <2> QED BY <2>1
<1>7. Announce(c, n, t)'
  BY <1>1, <1>3, <1>6, AnnounceSent
<1> DEFINE z == s \o Reply(Name(c), n)
<1>8. z \in Seq(Nat)
  BY <1>3, ReplyLength
<1>9. \/ down'[c] = z \o t
      \/ cut'[c] /\ t = << >> /\ Starts(down'[c], z)
  <2> HIDE DEF z
  <2>1. CASE cut[c]
    BY <1>1, <1>2, <1>4, <1>6, <2>1 DEF z
  <2>2. CASE ~cut[c]
    <3>1. down[c] = z \o b
      BY <1>1, <2>2 DEF z
    <3>2. (z \o b) \o a = z \o (b \o a)
      BY <1>2, <1>8, Associative
    <3> QED BY <1>2, <1>6, <2>2, <3>1, <3>2
  <2> QED BY <2>1, <2>2
<1> QED BY <1>3, <1>4, <1>5, <1>7, <1>9 DEF Replied

\* One read() of the file and mywrite().
LEMMA SentReply ==
  ASSUME RInv, NEW c \in Clients, NEW a, Sent(c, a)
  PROVE  Sizes' /\ \A d \in Clients : Exempt(d)' \/ Good(d)'
<1>1. /\ a \in Seq(Nat) /\ Surplus(c, a) \in Seq(Nat)
      /\ down' \in [Clients -> Seq(Nat)] /\ spilled' \in [Clients -> Seq(Nat)]
      /\ offset' \in Nat
      /\ \A d \in Clients \ {c} : down'[d] = down[d] /\ spilled'[d] = spilled[d]
      /\ spilled'[c] = spilled[c] \o Surplus(c, a)
      /\ cut[c] => down' = down
      /\ ~cut[c] => down'[c] = down[c] \o a
  BY SentFacts
<1>2. /\ UNCHANGED << size, cVars, s_pc, s_line, client, cut, down_end, taken,
                      announced >>
      /\ client = c /\ s_pc = "send"
  BY DEF Sent
<1>3. Sizes'
  BY <1>1, <1>2 DEF RInv, Sizes, cVars, received
<1>4. \A d \in Clients : Still(d)
  BY <1>2 DEF Still, cVars, received
<1>5. ASSUME NEW d \in Clients, d # c PROVE Exempt(d)' \/ Good(d)'
  <2>1. Quiet(d)
    BY <1>1, <1>2, <1>5 DEF Quiet, Sending, Handling, cVars
  <2> QED BY <1>1, <1>2, <1>4, <1>5, <2>1, OtherKept
<1>6. ASSUME Exempt(c) PROVE Exempt(c)'
  <2>1. spilled[c] \in Seq(Nat)
    BY Values DEF RInv
  <2> QED BY <1>1, <1>2, <1>6, <2>1, ExemptKept
<1>7. ASSUME Good(c) PROVE Good(c)'
  <2>1. /\ (Settled(c) => Settled(c)') /\ (Turn(c) => Turn(c)')
        /\ Name(c)' = Name(c) /\ cut' = cut /\ announced' = announced
    BY <1>2 DEF Settled, Turn, Handling, Name, Last, cVars
  <2>2. (Overrun(c) => Overrun(c)') /\ (Replied(c) => Replied(c)')
    BY OverrunSent, RepliedSent
  <2>3. Garbled(c) => Garbled(c)'
    BY <1>1, <2>1 DEF Garbled
  <2>4. down[c] \in Seq(Nat) /\ announced[c] \in Nat
    BY Values DEF RInv
  <2>5. Still(c)
    BY <1>4
  <2>6. PICK t : t = down'[c]
    OBVIOUS
  <2>7. (cut[c] => t = down[c]) /\ (~cut[c] => t = down[c] \o a)
    BY <1>1, <2>6
  <2>8. Idle(c)' /\ Awaits(c)'
    BY <1>7, <2>1, <2>2, <2>5 DEF Good, Idle, Awaits, Still
  <2>9. ASSUME NEW n, Settled(c), Announce(c, n, down[c])
        PROVE  Announce(c, n, down[c])'
    <3>1. Announce(c, n, t)'
      BY <2>4, <2>7, <2>9, AnnounceSent
    <3> QED BY <2>6, <3>1
  <2>10. Parses(c)'
    BY <1>7, <2>1, <2>3, <2>5, <2>9 DEF Good, Parses, Still
  <2>11. Receives(c)'
    <3>1. SUFFICES ASSUME c_pc[c] = "body", ~Garbled(c) PROVE Receives(c)'
      BY <1>7, <2>3, <2>5 DEF Good, Receives, Still
    <3>2. /\ Settled(c) /\ length[c] \in 0 .. announced[c]
          /\ Body(c, down[c], announced[c] - length[c])
          /\ read[c] = SubSeq(Content[Name(c)], 1, announced[c] - length[c])
      BY <1>7, <3>1 DEF Good, Receives
    <3>3. PICK k \in 0 .. announced[c] : k = announced[c] - length[c]
      BY <2>4, <3>2
    <3>4. Body(c, t, k)'
      BY <2>4, <2>7, <3>2, <3>3, BodySent
    <3>5. t = down'[c] /\ k = announced'[c] - length'[c]
      BY <2>1, <2>5, <2>6, <3>3 DEF Still
    <3>6. Body(c, down[c], announced[c] - length[c])'
      BY <3>4, <3>5
    <3> QED BY <2>1, <2>5, <3>2, <3>6 DEF Receives, Still
  <2>12. Ended(c)'
    BY <1>7, <2>1, <2>5 DEF Good, Ended, Still
  <2> QED BY <2>8, <2>10, <2>11, <2>12 DEF Good
<1>8. Exempt(c)' \/ Good(c)'
  BY <1>6, <1>7 DEF RInv
<1> QED BY <1>3, <1>5, <1>8

LEMMA SendContentReply ==
  ASSUME RInv, SendContent
  PROVE  Sizes' /\ \A d \in Clients : Exempt(d)' \/ Good(d)'
<1>0. PICK c \in Clients : c = client
  BY DEF RInv, IInv, Types, SendContent
<1>1. /\ UNCHANGED << size, cut, cVars, client, taken, announced >>
      /\ s_pc = "send" /\ client = c
  BY <1>0 DEF SendContent
<1>2. CASE /\ Chunk # << >> /\ down' = Put(down, client, Chunk)
           /\ offset' = offset + Len(Chunk)
           /\ spilled' = [spilled EXCEPT ![client] = @ \o Beyond(Chunk)]
           /\ UNCHANGED << s_pc, s_line, down_end >>
  <2>1. PICK a : a = Chunk
    OBVIOUS
  <2>2. Beyond(Chunk) = Surplus(c, a)
    BY <1>1, <2>1 DEF Beyond, Surplus, Room
  <2>3. Sent(c, a)
    BY <1>1, <1>2, <2>1, <2>2 DEF Sent
  <2> QED BY <2>3, SentReply
<1>3. CASE UNCHANGED << down, offset, down_end, spilled >> /\ s_pc' = "line"
  <2>1. Sizes'
    BY <1>1, <1>3 DEF RInv, Sizes, cVars, received
  <2> QED BY <1>1, <1>3, <2>1, ServerQuiet
<1>4. CASE CloseConnection /\ UNCHANGED << down, offset, spilled >>
  <2>1. /\ down_end' \in [Clients -> BOOLEAN] /\ s_pc' = "close"
        /\ \A d \in Clients : down_end[d] => down_end'[d]
    BY <1>1, <1>4 DEF RInv, Sizes, CloseConnection
  <2>2. Sizes'
    BY <1>1, <1>4, <2>1 DEF RInv, Sizes, cVars, received
  <2> QED BY <1>1, <1>4, <2>1, <2>2, ServerQuiet
<1> QED BY <1>2, <1>3, <1>4 DEF SendContent

\* What is left of s when the connection is given up.
Begins(u, s) == Len(u) <= Len(s) /\ \A x \in 1 .. Len(u) : u[x] = s[x]

LEMMA BodyCut ==
  ASSUME RInv, NEW c \in Clients, UNCHANGED << cVars, sVars >>, cut'[c],
         NEW s \in Seq(Nat), NEW got \in 0 .. announced[c], Body(c, s, got),
         NEW u \in Seq(Nat), Begins(u, s)
  PROVE  Body(c, u, got)'
<1>1. announced[c] \in Nat /\ spilled[c] \in Seq(Nat)
  BY Values DEF RInv
<1>2. /\ announced' = announced /\ spilled' = spilled /\ Name(c)' = Name(c)
  BY DEF sVars, cVars, Name, Last
<1> DEFINE d == announced[c] - got
           F == Content[Name(c)]
<1>3. /\ Name(c) \in DOMAIN Content /\ got + Len(s) <= Len(F)
      /\ \A x \in 1 .. Len(s) : s[x] = F[got + x]
      /\ Ends(s, d, spilled[c], ~cut[c])
  BY DEF Body
<1>4. F \in Seq(Nat)
  BY <1>3, ContentAssumption
<1>5. d \in Nat /\ got \in Nat
  BY <1>1
<1>6. Len(F) \in Nat /\ Len(s) \in Nat /\ Len(u) \in Nat
  BY <1>4
<1> HIDE DEF d, F
<1>7. Ends(u, d, spilled[c], FALSE)
  BY <1>1, <1>3, <1>5, EndsCut DEF Begins
<1>8. got + Len(u) <= Len(F) /\ \A x \in 1 .. Len(u) : u[x] = F[got + x]
  <2>1. Len(u) <= Len(s) /\ \A x \in 1 .. Len(u) : x \in 1 .. Len(s) /\ u[x] = s[x]
    BY <1>6 DEF Begins
  <2>2. got + Len(u) <= Len(F)
    BY <1>3, <1>5, <1>6, <2>1
  <2> QED BY <1>3, <2>1, <2>2
<1>9. Ends(u, announced'[c] - got, spilled'[c], ~cut'[c])
  <2>1. (~cut'[c]) = FALSE
    OBVIOUS
  <2> QED BY <1>2, <1>7, <2>1 DEF d
<1> QED BY <1>2, <1>3, <1>8, <1>9 DEF Body, F

LEMMA AnnounceCut ==
  ASSUME RInv, NEW c \in Clients, UNCHANGED << cVars, sVars >>, cut'[c],
         NEW s \in Seq(Nat), NEW n, Announce(c, n, s),
         NEW u \in Seq(Nat), Begins(u, s)
  PROVE  Announce(c, n, u)'
<1>1. announced' = announced /\ (Sending(c)' <=> Sending(c))
  BY DEF sVars, Sending
<1>2. CASE n = -1 /\ s = << >> /\ ~Sending(c)
  <2>1. Len(u) = 0
    BY <1>2 DEF Begins
  <2>2. u = << >>
    BY <2>1
  <2> QED BY <1>1, <1>2, <2>2 DEF Announce
<1>3. CASE n = announced[c] /\ n \in 0 .. 9 /\ Body(c, s, 0)
  <2>1. 0 \in 0 .. announced[c]
    BY <1>3
  <2>2. Body(c, u, 0)'
    BY <1>3, <2>1, BodyCut
  <2> QED BY <1>1, <1>3, <2>2 DEF Announce
<1> QED BY <1>2, <1>3 DEF Announce

\* A reply that is cut: within the content, or before.
LEMMA RepliedCut ==
  ASSUME RInv, NEW c \in Clients, UNCHANGED << cVars, sVars >>, cut'[c], ~cut[c],
         Replied(c), down'[c] \in Seq(Nat), Begins(down'[c], down[c])
  PROVE  Replied(c)'
<1>1. PICK s \in Seq(Nat), n \in -1 .. 9, b \in Seq(Nat) :
        /\ Ends(s, 0, spilled[c], FALSE) /\ Announce(c, n, b)
        /\ down[c] = (s \o Reply(Name(c), n)) \o b
  BY DEF Replied
<1>2. Settled(c) /\ Name(c) \in Names /\ Name(c) # << >> /\ Name(c) \in Seq(Nat)
  BY NamesAssumption DEF Replied
<1>3. Name(c)' = Name(c) /\ Settled(c)' /\ spilled' = spilled
  BY <1>2 DEF sVars, cVars, Name, Last, Settled, Handling
<1> DEFINE z == s \o Reply(Name(c), n)
           l == Len(z)
           m == Len(b)
<1>4. z \in Seq(Nat)
  BY <1>2, ReplyLength
<1> HIDE DEF z
<1>5. PICK v \in Seq(Nat) : v = down'[c]
  OBVIOUS
<1>6. l \in Nat /\ m \in Nat /\ Len(v) \in Nat
  BY <1>4
<1>7. /\ z \o b \in Seq(Nat) /\ Len(z \o b) = l + m
      /\ \A x \in 1 .. l : (z \o b)[x] = z[x]
      /\ \A x \in 1 .. m : (z \o b)[l + x] = b[x]
  BY <1>4, Joined
<1>8. Begins(v, z \o b)
  BY <1>1, <1>5 DEF z
<1>9. Len(v) <= l + m /\ \A x \in 1 .. Len(v) : v[x] = (z \o b)[x]
  BY <1>7, <1>8 DEF Begins
<1> DEFINE w == z \o b
<1>10. /\ \A x \in 1 .. l : w[x] = z[x]
       /\ \A x \in 1 .. m : w[l + x] = b[x]
       /\ \A x \in 1 .. Len(v) : v[x] = w[x]
  BY <1>7, <1>9
<1> HIDE DEF w
<1>11. CASE Len(v) < l
  <2> HIDE DEF l
  <2>1. \A x \in 1 .. Len(v) : v[x] = z[x]
    <3>1. \A x \in 1 .. Len(v) : x \in 1 .. l
      BY <1>6, <1>11
    <3> QED BY <1>10, <3>1
  <2>2. Starts(v, z)
    BY <1>11, <2>1 DEF Starts, l
  <2>3. << >> \in Seq(Nat) /\ Begins(<< >>, b)
    BY DEF Begins
  <2>4. Announce(c, n, << >>)'
    BY <1>1, <2>3, AnnounceCut
  <2>5. PICK e \in Seq(Nat) : e = << >>
    BY <2>3
  <2>6. /\ Ends(s, 0, spilled'[c], FALSE) /\ Announce(c, n, e)'
        /\ cut'[c] /\ e = << >> /\ Starts(down'[c], s \o Reply(Name(c)', n))
    BY <1>1, <1>3, <1>5, <2>2, <2>4, <2>5 DEF z
  <2> QED BY <1>2, <1>3, <2>6 DEF Replied
<1>12. CASE l <= Len(v)
  <2> DEFINE e == SubSeq(v, l + 1, Len(v))
             k == Len(e)
  <2>1. /\ e \in Seq(Nat) /\ k \in Nat /\ Len(v) = k + l
        /\ \A i \in 1 .. k : e[i] = v[l + i]
    BY <1>6, <1>12, RestOf
  <2> HIDE DEF e, l, m
  <2>2. k <= m
    BY <1>6, <1>9, <2>1
  <2>3. \A x \in 1 .. k : e[x] = b[x]
    <3>1. \A i, j, p \in Nat :
            i <= p => \A x \in 1 .. i : x \in 1 .. p /\ j + x \in 1 .. i + j
      OBVIOUS
    <3>2. k \in Nat /\ l \in Nat /\ m \in Nat
      BY <1>6, <2>1
    <3>3. \A x \in 1 .. k : x \in 1 .. m /\ l + x \in 1 .. k + l
      BY <2>2, <3>1, <3>2
    <3>4. 1 .. Len(v) = 1 .. k + l
      BY <2>1
    <3> QED BY <1>10, <2>1, <3>3, <3>4
  <2>4. Begins(e, b)
    BY <2>2, <2>3 DEF Begins, m
  <2>5. PICK h \in Seq(Nat) : h = e
    BY <2>1
  <2>6. Announce(c, n, h)'
    BY <1>1, <2>4, <2>5, AnnounceCut
  <2>7. v = z \o e
    <3> DEFINE t == z \o e
    <3>1. /\ t \in Seq(Nat) /\ Len(t) = l + k
          /\ \A x \in 1 .. l : t[x] = z[x]
          /\ \A x \in 1 .. k : t[l + x] = e[x]
      BY <1>4, <2>1, Joined DEF l
    <3> HIDE DEF t, k
    <3>2. ASSUME NEW x \in 1 .. l + k PROVE v[x] = t[x]
      <4>1. CASE x \in 1 .. l
        <5>1. x \in 1 .. Len(v)
          BY <1>6, <2>1, <4>1
        <5> QED BY <1>10, <3>1, <4>1, <5>1
      <4>2. CASE x \in l + 1 .. l + k
        <5> DEFINE y == x - l
        <5>1. y \in 1 .. k /\ l + y = x
          BY <1>6, <2>1, <4>2
        <5> HIDE DEF y
        <5>2. e[y] = v[l + y] /\ t[l + y] = e[y]
          BY <2>1, <3>1, <5>1 DEF k
        <5> QED BY <5>1, <5>2
      <4> QED BY <1>6, <2>1, <4>1, <4>2
    <3>3. /\ v = [x \in 1 .. Len(v) |-> v[x]] /\ t = [x \in 1 .. Len(t) |-> t[x]]
      BY <3>1
    <3>4. Len(v) = l + k
      BY <1>6, <2>1 DEF k
    <3>5. v = t
      BY <3>1, <3>2, <3>3, <3>4
    <3> QED BY <3>5 DEF t
  <2>8. /\ Ends(s, 0, spilled'[c], FALSE) /\ Announce(c, n, h)'
        /\ down'[c] = (s \o Reply(Name(c)', n)) \o h
    BY <1>1, <1>3, <1>5, <2>6, <2>7, <2>5 DEF z
  <2> QED BY <1>2, <1>3, <2>8 DEF Replied
<1> QED BY <1>6, <1>11, <1>12

\* The connection is given up.
LEMMA GiveUpReply ==
  ASSUME RInv, NEW c \in Clients, GiveUp(c)
  PROVE  Sizes' /\ \A d \in Clients : Exempt(d)' \/ Good(d)'
<1>1. PICK j \in 0 .. Len(down[c]) : down' = [down EXCEPT ![c] = SubSeq(down[c], 1, j)]
  BY DEF GiveUp
<1>2. /\ UNCHANGED << size, cVars, sVars >> /\ ~cut[c]
      /\ cut' = [cut EXCEPT ![c] = TRUE] /\ down_end' = [down_end EXCEPT ![c] = TRUE]
  BY DEF GiveUp
<1>3. /\ down \in [Clients -> Seq(Nat)] /\ cut \in [Clients -> BOOLEAN]
      /\ down_end \in [Clients -> BOOLEAN] /\ down[c] \in Seq(Nat)
      /\ Len(down[c]) \in Nat /\ announced[c] \in Nat /\ spilled[c] \in Seq(Nat)
  BY Values DEF RInv, Sizes, IInv, Types
<1> DEFINE u == SubSeq(down[c], 1, j)
<1>4. u \in Seq(Nat) /\ Begins(u, down[c])
  <2>1. u \in Seq(Nat) /\ Len(u) = j
    BY <1>3
  <2>2. \A x \in 1 .. j : u[x] = down[c][x]
    BY <1>3
  <2> HIDE DEF u
  <2> QED BY <1>3, <2>1, <2>2 DEF Begins
<1> HIDE DEF u
<1>5. /\ down' \in [Clients -> Seq(Nat)] /\ down_end' \in [Clients -> BOOLEAN]
      /\ down'[c] = u /\ cut'[c] /\ down_end'[c]
      /\ \A d \in Clients \ {c} : /\ down'[d] = down[d] /\ cut'[d] = cut[d]
                                  /\ down_end'[d] = down_end[d]
  <2>1. down' = [down EXCEPT ![c] = u]
    BY <1>1 DEF u
  <2> QED BY <1>2, <1>3, <1>4, <2>1
<1>6. Sizes'
  <2>1. \A d \in Clients : cut'[d] => down_end'[d]
    BY <1>5 DEF RInv, Sizes
  <2> QED BY <1>2, <1>5, <2>1 DEF RInv, Sizes, cVars, received, sVars
<1>7. \A d \in Clients : Still(d)
  BY <1>2 DEF Still, cVars, received
<1>8. ASSUME NEW d \in Clients, d # c PROVE Exempt(d)' \/ Good(d)'
  <2>1. Quiet(d)
    BY <1>2, <1>5, <1>8 DEF Quiet, Sending, Handling, cVars, sVars
  <2> QED BY <1>5, <1>7, <1>8, <2>1, OtherKept
<1>9. ASSUME Exempt(c) PROVE Exempt(c)'
  BY <1>2, <1>5, <1>9, ExemptStays DEF sVars
<1>10. ASSUME Good(c) PROVE Good(c)'
  <2>1. /\ (Settled(c) => Settled(c)') /\ Name(c)' = Name(c)
        /\ announced' = announced /\ spilled' = spilled
    BY <1>2 DEF Settled, Handling, Name, Last, cVars, sVars
  <2>2. Overrun(c) => Overrun(c)'
    <3> SUFFICES ASSUME Overrun(c) PROVE Overrun(c)'
      OBVIOUS
    <3>1. Ends(u, 0, spilled[c], FALSE)
      <4>1. 0 \in Nat
        OBVIOUS
      <4>2. Len(u) <= Len(down[c]) /\ \A x \in 1 .. Len(u) : u[x] = down[c][x]
        BY <1>4 DEF Begins
      <4>3. Ends(down[c], 0, spilled[c], ~cut[c])
        BY DEF Overrun
      <4> QED BY <1>3, <1>4, <4>1, <4>2, <4>3, EndsCut
    <3>2. (~cut'[c]) = FALSE
      BY <1>5
    <3> QED BY <1>5, <2>1, <3>1, <3>2 DEF Overrun
  <2>3. Replied(c) => Replied(c)'
    BY <1>2, <1>4, <1>5, RepliedCut
  <2>4. Still(c)
    BY <1>7
  <2>5. Idle(c)' /\ Awaits(c)'
    BY <1>5, <1>10, <2>2, <2>3, <2>4 DEF Good, Idle, Awaits, Still
  <2>6. ~Garbled(c)
    BY <1>2 DEF Garbled
  <2>7. PICK t \in Seq(Nat) : t = down'[c]
    BY <1>4, <1>5
  <2>8. Begins(t, down[c])
    BY <1>4, <1>5, <2>7
  <2>9. ASSUME NEW n, Announce(c, n, down[c]) PROVE Announce(c, n, down[c])'
    <3>1. Announce(c, n, t)'
      BY <1>2, <1>3, <1>5, <2>8, <2>9, AnnounceCut
    <3> QED BY <2>7, <3>1
  <2>10. Parses(c)'
    BY <1>10, <2>1, <2>4, <2>6, <2>9 DEF Good, Parses, Still
  <2>11. Receives(c)'
    <3>1. SUFFICES ASSUME c_pc[c] = "body" PROVE Receives(c)'
      BY <2>4 DEF Receives, Still
    <3>2. /\ Settled(c) /\ length[c] \in 0 .. announced[c]
          /\ Body(c, down[c], announced[c] - length[c])
          /\ read[c] = SubSeq(Content[Name(c)], 1, announced[c] - length[c])
      BY <1>10, <2>6, <3>1 DEF Good, Receives
    <3>3. PICK k \in 0 .. announced[c] : k = announced[c] - length[c]
      BY <1>3, <3>2
    <3>4. Body(c, t, k)'
      BY <1>2, <1>3, <1>5, <2>8, <3>2, <3>3, BodyCut
    <3>5. t = down'[c] /\ k = announced'[c] - length'[c]
      BY <2>1, <2>4, <2>7, <3>3 DEF Still
    <3>6. Body(c, down[c], announced[c] - length[c])'
      BY <3>4, <3>5
    <3> QED BY <2>1, <2>4, <3>2, <3>6 DEF Receives, Still
  <2>12. Ended(c)'
    BY <1>2, <1>5, <1>10, <2>1, <2>4 DEF Good, Ended, Still
  <2> QED BY <2>5, <2>10, <2>11, <2>12 DEF Good
<1>11. Exempt(c)' \/ Good(c)'
  BY <1>9, <1>10 DEF RInv
<1> QED BY <1>6, <1>8, <1>11

LEMMA RepliesStep == ASSUME RInv, [Next]_vars PROVE RInv'
<1> DEFINE G == Sizes' /\ \A d \in Clients : Exempt(d)' \/ Good(d)'
<1>1. IInv'
  BY Invariance DEF RInv
<1>2. ASSUME NEW c \in Clients, NEW name \in Names, Request(c, name) PROVE G
  BY <1>2, SendRequestReply DEF Request
<1>3. CASE UNCHANGED vars
  <2>1. UNCHANGED << size, down, ends, cVars, sVars >>
    BY <1>3 DEF vars
  <2>2. Sizes'
    BY <2>1 DEF RInv, Sizes, ends, cVars, received, sVars
  <2>3. ASSUME NEW d \in Clients PROVE Exempt(d)' \/ Good(d)'
    <3>1. Quiet(d) /\ Still(d)
      BY <2>1, ClientQuiet DEF Still, cVars, received, ends
    <3> QED BY <2>1, <3>1, OtherKept DEF ends
  <2> QED BY <1>1, <2>2, <2>3 DEF RInv
<1>4. ASSUME NEW c \in Clients,
             Connect(c) \/ ClientStep(c) \/ EndInput(c) \/ GiveUp(c)
      PROVE  G
  BY <1>2, <1>4, ConnectReply, ReadReplyReply, ParseReplyReply, ReadContentReply,
     FinishFileReply, FewerBytesReply, EndInputReply, GiveUpReply DEF ClientStep
<1>5. ASSUME ServerStep PROVE G
  BY <1>5, AcceptReply, ReadRequestReply, ProcessLineReply, SendContentReply,
     ConnectionClosedReply DEF ServerStep
<1>6. ASSUME Next PROVE G
  BY <1>4, <1>5, <1>6, TypeReply, ChangeFileReply DEF Next
<1>7. G => RInv'
  BY <1>1 DEF RInv
<1> QED BY <1>3, <1>6, <1>7

----------------------------------------------------------------------------
(* The file "rcvd".                                                        *)

\* While a file is received, and once it was, "rcvd" holds what was read unless
\* the disc failed.
Filed(c) ==
  c_pc[c] = "body" \/ outcome[c] = "file" =>
    rcvd[c] = read[c] \/ errcnd[c] \/ lost[c]

Disc ==
  /\ rcvd \in [Clients -> Seq(Nat)]
  /\ errcnd \in [Clients -> BOOLEAN] /\ lost \in [Clients -> BOOLEAN]
  /\ \A c \in Clients : Filed(c)

LEMMA DiscInit == Init => Disc
<1>1. << >> \in Seq(Nat)
  OBVIOUS
<1> QED BY <1>1 DEF Init, Disc, Filed

\* Steps that leave the file alone.
LEMMA DiscSame ==
  ASSUME Disc, UNCHANGED << received, errcnd >>,
         \A c \in Clients : \/ c_pc'[c] = c_pc[c] /\ outcome'[c] = outcome[c]
                            \/ c_pc'[c] # "body" /\ outcome'[c] = outcome[c]
                            \/ c_pc'[c] # "body" /\ outcome'[c] # "file"
  PROVE  Disc'
  BY DEF Disc, Filed, received

\* Steps of one client that do not.
LEMMA DiscOne ==
  ASSUME RInv, Disc, NEW c \in Clients, NEW pc, NEW o, NEW u, NEW e \in BOOLEAN,
         NEW f \in BOOLEAN, NEW s \in Seq(Nat),
         c_pc' = [c_pc EXCEPT ![c] = pc], outcome' = [outcome EXCEPT ![c] = o],
         rcvd' = [rcvd EXCEPT ![c] = s], read' = [read EXCEPT ![c] = u],
         errcnd' = [errcnd EXCEPT ![c] = e], lost' = [lost EXCEPT ![c] = f],
         (pc = "body" \/ o = "file") => (s = u \/ e \/ f)
  PROVE  Disc'
<1>1. /\ c_pc \in [Clients -> ClientPcs] /\ outcome \in [Clients -> Outcomes]
      /\ read \in [Clients -> Seq(Nat)] /\ rcvd \in [Clients -> Seq(Nat)]
      /\ errcnd \in [Clients -> BOOLEAN] /\ lost \in [Clients -> BOOLEAN]
  BY DEF RInv, Sizes, Disc
<1>2. /\ rcvd' \in [Clients -> Seq(Nat)]
      /\ errcnd' \in [Clients -> BOOLEAN] /\ lost' \in [Clients -> BOOLEAN]
  BY <1>1
<1>3. /\ c_pc'[c] = pc /\ outcome'[c] = o /\ rcvd'[c] = s /\ read'[c] = u
      /\ errcnd'[c] = e /\ lost'[c] = f
  BY <1>1
<1>4. ASSUME NEW d \in Clients, d # c
      PROVE  /\ c_pc'[d] = c_pc[d] /\ outcome'[d] = outcome[d]
             /\ rcvd'[d] = rcvd[d] /\ read'[d] = read[d]
             /\ errcnd'[d] = errcnd[d] /\ lost'[d] = lost[d]
  BY <1>1, <1>4
<1>5. ASSUME NEW d \in Clients PROVE Filed(d)'
  <2>1. CASE d = c
    BY <1>3, <2>1 DEF Filed
  <2>2. CASE d # c
    BY <1>4, <2>2 DEF Filed, Disc
  <2> QED BY <2>1, <2>2
<1> QED BY <1>2, <1>5 DEF Disc

LEMMA Beginning ==
  ASSUME NEW s \in Seq(Nat), NEW k \in 0 .. Len(s)
  PROVE  SubSeq(s, 1, k) \in Seq(Nat)
  OBVIOUS

\* fclose(), after which the client is not in the loop that reads.
LEMMA CloseDisc ==
  ASSUME RInv, Disc, NEW c \in Clients, c_pc[c] = "body", CloseFile(c),
         NEW pc, pc # "body", c_pc' = [c_pc EXCEPT ![c] = pc],
         NEW o, outcome' = [outcome EXCEPT ![c] = o]
  PROVE  Disc'
<1>1. /\ rcvd[c] \in Seq(Nat) /\ errcnd[c] \in BOOLEAN /\ lost[c] \in BOOLEAN
      /\ rcvd[c] = read[c] \/ errcnd[c] \/ lost[c]
  BY DEF Disc, Filed
<1>2. /\ rcvd \in [Clients -> Seq(Nat)] /\ read \in [Clients -> Seq(Nat)]
      /\ errcnd \in [Clients -> BOOLEAN] /\ lost \in [Clients -> BOOLEAN]
  BY DEF RInv, Sizes, Disc
<1>3. CASE UNCHANGED << rcvd, read, lost, errcnd >>
  <2>1. /\ rcvd' = [rcvd EXCEPT ![c] = rcvd[c]] /\ read' = [read EXCEPT ![c] = read[c]]
        /\ errcnd' = [errcnd EXCEPT ![c] = errcnd[c]]
        /\ lost' = [lost EXCEPT ![c] = lost[c]]
    BY <1>2, <1>3
  <2> QED BY <1>1, <2>1, DiscOne
<1>4. CASE Lose(c, rcvd[c]) /\ UNCHANGED << read, errcnd >>
  <2>1. PICK k \in 0 .. Len(rcvd[c]) - 1 :
          rcvd' = [rcvd EXCEPT ![c] = SubSeq(rcvd[c], 1, k)]
    BY <1>4 DEF Lose
  <2>1a. SubSeq(rcvd[c], 1, k) \in Seq(Nat)
    BY <1>1, Beginning
  <2>2. PICK s \in Seq(Nat) : s = SubSeq(rcvd[c], 1, k)
    BY <2>1a, Zenon
  <2>3. /\ rcvd' = [rcvd EXCEPT ![c] = s] /\ read' = [read EXCEPT ![c] = read[c]]
        /\ errcnd' = [errcnd EXCEPT ![c] = errcnd[c]]
        /\ lost' = [lost EXCEPT ![c] = TRUE]
    BY <1>2, <1>4, <2>1, <2>2 DEF Lose
  <2> QED BY <1>1, <2>3, DiscOne
<1> QED BY <1>3, <1>4 DEF CloseFile

\* fwrite() of what was read.
LEMMA ReadContentDisc ==
  ASSUME RInv, Disc, NEW c \in Clients, ReadContent(c)
  PROVE  Disc'
<1>1. PICK got \in 1 .. ClientBuf :
        /\ got <= Len(down[c])
        /\ read' = [read EXCEPT ![c] = read[c] \o SubSeq(down[c], 1, got)]
        /\ WriteFile(c, SubSeq(down[c], 1, got))
  BY DEF ReadContent
<1>2. /\ c_pc[c] = "body" /\ UNCHANGED << c_pc, outcome >>
  BY DEF ReadContent
<1>3. /\ rcvd \in [Clients -> Seq(Nat)] /\ read \in [Clients -> Seq(Nat)]
      /\ errcnd \in [Clients -> BOOLEAN] /\ lost \in [Clients -> BOOLEAN]
      /\ c_pc \in [Clients -> ClientPcs] /\ outcome \in [Clients -> Outcomes]
      /\ down[c] \in Seq(Nat)
  BY Values DEF RInv, Sizes, Disc
<1>4. /\ rcvd[c] \in Seq(Nat) /\ read[c] \in Seq(Nat)
      /\ errcnd[c] \in BOOLEAN /\ lost[c] \in BOOLEAN
      /\ rcvd[c] = read[c] \/ errcnd[c] \/ lost[c]
  BY <1>2, <1>3 DEF Disc, Filed
<1>4a. got \in 0 .. Len(down[c])
  BY <1>1, BufAssumption
<1>4b. SubSeq(down[c], 1, got) \in Seq(Nat)
  BY <1>3, <1>4a, Beginning
<1>5. PICK b \in Seq(Nat) : b = SubSeq(down[c], 1, got)
  BY <1>4b, Zenon
<1>6. rcvd[c] \o b \in Seq(Nat)
  BY <1>4, <1>5, Joined
<1>7. /\ c_pc' = [c_pc EXCEPT ![c] = "body"]
      /\ outcome' = [outcome EXCEPT ![c] = outcome[c]]
      /\ read' = [read EXCEPT ![c] = read[c] \o b] /\ WriteFile(c, b)
  BY <1>1, <1>2, <1>3, <1>5
<1>8. CASE /\ rcvd' = [rcvd EXCEPT ![c] = rcvd[c] \o b] /\ UNCHANGED << lost, errcnd >>
  <2>1. /\ errcnd' = [errcnd EXCEPT ![c] = errcnd[c]]
        /\ lost' = [lost EXCEPT ![c] = lost[c]]
    BY <1>3, <1>8
  <2>2. rcvd[c] \o b = read[c] \o b \/ errcnd[c] \/ lost[c]
    BY <1>4
  <2> QED BY <1>4, <1>6, <1>7, <1>8, <2>1, <2>2, DiscOne
<1>9. CASE /\ errcnd' = [errcnd EXCEPT ![c] = TRUE] /\ UNCHANGED lost
           /\ \E k \in 0 .. Len(rcvd[c]) :
                rcvd' = [rcvd EXCEPT ![c] = SubSeq(rcvd[c], 1, k)]
  <2>1. PICK k \in 0 .. Len(rcvd[c]) :
          rcvd' = [rcvd EXCEPT ![c] = SubSeq(rcvd[c], 1, k)]
    BY <1>9
  <2>1a. SubSeq(rcvd[c], 1, k) \in Seq(Nat)
    BY <1>4, Beginning
  <2>2. PICK s \in Seq(Nat) : s = SubSeq(rcvd[c], 1, k)
    BY <2>1a, Zenon
  <2>3. rcvd' = [rcvd EXCEPT ![c] = s] /\ lost' = [lost EXCEPT ![c] = lost[c]]
    BY <1>3, <1>9, <2>1, <2>2
  <2> QED BY <1>4, <1>7, <1>9, <2>3, DiscOne
<1>10. CASE Lose(c, rcvd[c] \o b) /\ UNCHANGED errcnd
  <2> DEFINE all == rcvd[c] \o b
  <2> HIDE DEF all
  <2>1. PICK k \in 0 .. Len(all) - 1 : rcvd' = [rcvd EXCEPT ![c] = SubSeq(all, 1, k)]
    BY <1>10 DEF Lose, all
  <2>2. all \in Seq(Nat)
    BY <1>6 DEF all
  <2>2a. k \in 0 .. Len(all)
    BY <2>2
  <2>2b. SubSeq(all, 1, k) \in Seq(Nat)
    BY <2>2, <2>2a, Beginning
  <2>3. PICK s \in Seq(Nat) : s = SubSeq(all, 1, k)
    BY <2>2b, Zenon
  <2>4. /\ rcvd' = [rcvd EXCEPT ![c] = s] /\ lost' = [lost EXCEPT ![c] = TRUE]
        /\ errcnd' = [errcnd EXCEPT ![c] = errcnd[c]]
    BY <1>3, <1>10, <2>1, <2>3 DEF Lose
  <2> QED BY <1>4, <1>7, <2>4, DiscOne
<1> QED BY <1>7, <1>8, <1>9, <1>10 DEF WriteFile

\* fopen(), or a reply without a file.
LEMMA ParseReplyDisc ==
  ASSUME RInv, Disc, NEW c \in Clients, ParseReply(c)
  PROVE  Disc'
<1>1. /\ c_pc[c] = "parse" /\ UNCHANGED errcnd
      /\ c_pc \in [Clients -> ClientPcs] /\ outcome \in [Clients -> Outcomes]
      /\ rcvd \in [Clients -> Seq(Nat)] /\ read \in [Clients -> Seq(Nat)]
      /\ errcnd \in [Clients -> BOOLEAN] /\ lost \in [Clients -> BOOLEAN]
  BY DEF RInv, Sizes, Disc, ParseReply
<1>2. CASE /\ \E pc \in {"prompt", "done"} : c_pc' = [c_pc EXCEPT ![c] = pc]
           /\ \E o \in {"malformed", "error"} : outcome' = [outcome EXCEPT ![c] = o]
           /\ UNCHANGED received
  BY <1>1, <1>2, DiscSame
<1>3. CASE /\ c_pc' = [c_pc EXCEPT ![c] = "body"] /\ UNCHANGED outcome
           /\ rcvd' = [rcvd EXCEPT ![c] = << >>] /\ read' = [read EXCEPT ![c] = << >>]
           /\ lost' = [lost EXCEPT ![c] = FALSE]
  <2>1. << >> \in Seq(Nat) /\ errcnd[c] \in BOOLEAN
    BY <1>1
  <2>2. /\ outcome' = [outcome EXCEPT ![c] = outcome[c]]
        /\ errcnd' = [errcnd EXCEPT ![c] = errcnd[c]]
    BY <1>1, <1>3
  <2> QED BY <1>3, <2>1, <2>2, DiscOne
<1> QED BY <1>1, <1>2, <1>3 DEF ParseReply, Leave, Again

LEMMA SendRequestDisc ==
  ASSUME RInv, Disc, NEW c \in Clients, NEW name, SendRequest(c, name),
         UNCHANGED received
  PROVE  Disc'
<1>1. /\ rcvd \in [Clients -> Seq(Nat)] /\ read \in [Clients -> Seq(Nat)]
      /\ lost \in [Clients -> BOOLEAN] /\ rcvd[c] \in Seq(Nat) /\ lost[c] \in BOOLEAN
  BY DEF RInv, Sizes, Disc
<1>2. /\ rcvd' = [rcvd EXCEPT ![c] = rcvd[c]] /\ read' = [read EXCEPT ![c] = read[c]]
      /\ lost' = [lost EXCEPT ![c] = lost[c]]
  BY <1>1 DEF received
<1>3. /\ c_pc' = [c_pc EXCEPT ![c] = "line"] /\ outcome' = [outcome EXCEPT ![c] = "none"]
      /\ errcnd' = [errcnd EXCEPT ![c] = FALSE]
  BY DEF SendRequest
<1> QED BY <1>1, <1>2, <1>3, DiscOne

LEMMA DiscStep == ASSUME RInv, Disc, [Next]_vars PROVE Disc'
<1>1. /\ c_pc \in [Clients -> ClientPcs] /\ outcome \in [Clients -> Outcomes]
  BY DEF RInv, Sizes
<1>2. ASSUME UNCHANGED << c_pc, outcome, received, errcnd >> PROVE Disc'
  BY <1>2, DiscSame
<1>3. ASSUME NEW c \in Clients, Connect(c) \/ EndInput(c) PROVE Disc'
  <2>1. /\ UNCHANGED << outcome, received, errcnd >>
        /\ \E pc \in {"prompt", "done"} : c_pc' = [c_pc EXCEPT ![c] = pc]
    BY <1>3 DEF Connect, EndInput, Leave
  <2> QED BY <1>1, <2>1, DiscSame
<1>4. ASSUME NEW c \in Clients, NEW name \in Names, Request(c, name) \/ Type(c, name)
      PROVE  Disc'
  BY <1>2, <1>4, SendRequestDisc DEF Request, Type
<1>5. ASSUME NEW c \in Clients, ReadReply(c) PROVE Disc'
  <2>1. /\ UNCHANGED << outcome, received, errcnd >>
        /\ c_pc' = [c_pc EXCEPT ![c] = "parse"]
    BY <1>5 DEF ReadReply
  <2> QED BY <1>1, <2>1, DiscSame
<1>6. ASSUME NEW c \in Clients, FinishFile(c) \/ FewerBytes(c) PROVE Disc'
  <2>1. /\ c_pc[c] = "body" /\ CloseFile(c)
        /\ \E pc \in {"prompt", "done", "failed"} : c_pc' = [c_pc EXCEPT ![c] = pc]
        /\ \E o \in {"file", "short"} : outcome' = [outcome EXCEPT ![c] = o]
    BY <1>6 DEF FinishFile, FewerBytes, Again, Leave
  <2> QED BY <2>1, CloseDisc
<1>7. ASSUME NEW c \in Clients, GiveUp(c) PROVE Disc'
  BY <1>2, <1>7 DEF GiveUp, cVars
<1>8. ASSUME ServerStep PROVE Disc'
  BY <1>2, <1>8 DEF ServerStep, Accept, ReadRequest, ProcessLine, SendContent,
     ConnectionClosed, cVars
<1>9. ASSUME NEW f \in DOMAIN Content, ChangeFile(f) PROVE Disc'
  BY <1>2, <1>9 DEF ChangeFile, cVars
<1>10. CASE UNCHANGED vars
  BY <1>2, <1>10 DEF vars, cVars
<1>11. ASSUME NEW c \in Clients, ClientStep(c) PROVE Disc'
  BY <1>4, <1>5, <1>6, <1>11, ReadContentDisc, ParseReplyDisc DEF ClientStep
<1> QED BY <1>3, <1>4, <1>7, <1>8, <1>9, <1>10, <1>11 DEF Next

\* A client that takes a request for served has read exactly the bytes of the
\* file it asked for, as many as process_line() announced, for all names, buffer
\* sizes and files whose size has one digit, and whatever the sizes of files do
\* meanwhile: loop_until_end() finds the length in the reply behind any surplus
\* of earlier replies.  What it has read is what "rcvd" holds, unless the disc
\* failed, noticed by the client or not.  The exceptions are those of
\* ReceivedFile.
THEOREM ReceivedCorrect ==
  Spec => []ReceivedFile
<1>1. Init => RInv /\ Disc
  BY RepliesInit, DiscInit
<1>2. RInv /\ Disc /\ [Next]_vars => (RInv /\ Disc)'
  BY RepliesStep, DiscStep
<1>3. RInv /\ Disc => ReceivedFile
  <2> SUFFICES ASSUME RInv, Disc, NEW c \in Clients, outcome[c] = "file"
               PROVE  /\ \/ /\ Name(c) \in DOMAIN Content
                            /\ IsPrefix(read[c], Content[Name(c)])
                            /\ Len(read[c]) = announced[c]
                         \/ LineEnds(spilled[c]) # {}
                         \/ cut[c] /\ Commas(Name(c)) # {}
                         \/ down_end[c] /\ Commas(spilled[c]) # {}
                      /\ rcvd[c] = read[c] \/ errcnd[c] \/ lost[c]
    BY DEF ReceivedFile, Name
  <2>1. rcvd[c] = read[c] \/ errcnd[c] \/ lost[c]
    BY DEF Disc, Filed
  <2> QED BY <2>1 DEF RInv, Good, Ended, Exempt
<1> QED BY <1>1, <1>2, <1>3, PTL DEF Spec
============================================================================
