----------------------------- MODULE DataProofs -----------------------------
(***************************************************************************)
(* Lemmas about numbers, recursive functions and sequences on which the    *)
(* proofs about the components rest.  Induction is over a set of numbers   *)
(* instead of a predicate, and a recursive definition is a function of the *)
(* place and the value before it, so that each lemma is first-order.       *)
(***************************************************************************)
EXTENDS Integers, Sequences, SequencesExt, FiniteSets,
        SequenceTheorems, WellFoundedInduction, TLAPS

-----------------------------------------------------------------------------
(* Numbers.                                                                *)

LEMMA NatInduct ==
  ASSUME NEW S, 0 \in S, \A n \in Nat : n \in S => n + 1 \in S
  PROVE  \A n \in Nat : n \in S
<1> SUFFICES ASSUME NEW n \in Nat, n \notin S PROVE FALSE
  OBVIOUS
<1> DEFINE T == Nat \ S
<1>1. \E x \in T : \A y \in T : ~(<<y, x>> \in OpToRel(<, Nat))
  <2>1. T \subseteq Nat /\ T # {}
    OBVIOUS
  <2> QED BY <2>1, NatLessThanWellFounded, WFMin
<1>2. PICK x \in T : \A y \in T : ~(y < x)
  BY <1>1 DEF OpToRel
<1>3. x \in Nat /\ x # 0 /\ x - 1 \in Nat /\ x - 1 < x
  BY <1>2
<1>4. x - 1 \in S
  BY <1>2, <1>3
<1>5. (x - 1) + 1 \in S
  BY <1>3, <1>4
<1> QED BY <1>2, <1>3, <1>5

\* The same up to a bound.
LEMMA UpTo ==
  ASSUME NEW N \in Nat, NEW S, 0 \in S, \A n \in 1..N : n - 1 \in S => n \in S
  PROVE  \A n \in 0..N : n \in S
<1> DEFINE T == {n \in Nat : n <= N => n \in S}
<1>1. 0 \in T
  OBVIOUS
<1>2. ASSUME NEW n \in Nat, n \in T PROVE n + 1 \in T
  <2>1. SUFFICES ASSUME n + 1 <= N PROVE n + 1 \in S
    OBVIOUS
  <2>2. n \in S /\ n + 1 \in 1..N /\ (n + 1) - 1 = n
    BY <1>2, <2>1
  <2> QED BY <2>2
<1> HIDE DEF T
<1>3. \A n \in Nat : n \in T
  BY <1>1, <1>2, NatInduct
<1> QED BY <1>3 DEF T

\* A set of numbers has a least element.
LEMMA LeastExists ==
  ASSUME NEW S \in SUBSET Nat, S # {}
  PROVE  \E m \in S : \A k \in S : m <= k
<1>1. \E x \in S : \A y \in S : ~(<<y, x>> \in OpToRel(<, Nat))
  BY NatLessThanWellFounded, WFMin
<1>2. PICK x \in S : \A y \in S : ~(y < x)
  BY <1>1 DEF OpToRel
<1> QED BY <1>2

\* A set of numbers with a bound has a largest element.
LEMMA LargestExists ==
  ASSUME NEW N \in Nat, NEW S \in SUBSET (0..N), S # {}
  PROVE  \E m \in S : \A k \in S : k <= m
<1> DEFINE T == {N - k : k \in S}
<1>1. T \subseteq Nat /\ T # {}
  <2>1. \A k \in S : N - k \in Nat
    OBVIOUS
  <2> QED BY <2>1
<1>2. \E x \in T : \A y \in T : ~(<<y, x>> \in OpToRel(<, Nat))
  BY <1>1, NatLessThanWellFounded, WFMin
<1>3. PICK x \in T : \A y \in T : ~(y < x)
  BY <1>1, <1>2 DEF OpToRel
<1>4. PICK m \in S : x = N - m
  BY <1>3
<1>5. \A k \in S : N - k \in T
  OBVIOUS
<1> HIDE DEF T
<1>6. \A k \in S : k <= m
  <2> TAKE k \in S
  <2>1. ~(N - k < N - m)
    BY <1>3, <1>4, <1>5
  <2>2. k \in Int /\ m \in Int
    OBVIOUS
  <2> QED BY <2>1, <2>2
<1> QED BY <1>6

\* From above: what holds behind a place holds at it.
LEMMA DownTo ==
  ASSUME NEW N \in Nat, NEW S,
         \A i \in 1..N : (\A j \in (i + 1)..N : j \in S) => i \in S
  PROVE  \A i \in 1..N : i \in S
<1> DEFINE T == {n \in 0..N : \A j \in (N - n + 1)..N : j \in S}
<1>1. 0 \in T
  OBVIOUS
<1>2. ASSUME NEW n \in 1..N, n - 1 \in T PROVE n \in T
  <2>1. \A j \in ((N - n + 1) + 1)..N : j \in S
    BY <1>2
  <2>2. N - n + 1 \in 1..N
    OBVIOUS
  <2>3. N - n + 1 \in S
    BY <2>1, <2>2
  <2>4. \A j \in (N - n + 1)..N : j = N - n + 1 \/ j \in ((N - n + 1) + 1)..N
    OBVIOUS
  <2> QED BY <2>1, <2>3, <2>4
<1> HIDE DEF T
<1>3. \A n \in 0..N : n \in T
  BY <1>1, <1>2, UpTo
<1>4. N \in T
  BY <1>3
<1> QED BY <1>4 DEF T

-----------------------------------------------------------------------------
(* Functions defined by recursion.                                         *)

\* G[<<i, v>>] is the value at i when v is the value before it.
StaysIn(G, N, V) == \A i \in 1..N : \A v \in V : G[<<i, v>>] \in V

Recurs(f, N, V, base, G) ==
    f \in [0..N -> V] /\ f[0] = base /\ \A i \in 1..N : f[i] = G[<<i, f[i - 1]>>]

LEMMA Recursion ==
  ASSUME NEW N \in Nat, NEW V, NEW base \in V, NEW G, StaysIn(G, N, V)
  PROVE  \E f : Recurs(f, N, V, base, G)
<1> USE DEF StaysIn, Recurs
<1> DEFINE Upto(n, f) == f[0] = base /\ \A i \in 1..n : f[i] = G[<<i, f[i - 1]>>]
           S == {n \in 0..N : \E f \in [0..n -> V] : Upto(n, f)}
<1>1. 0 \in S
  <2> DEFINE f == [i \in 0..0 |-> base]
  <2>1. f \in [0..0 -> V] /\ f[0] = base
    OBVIOUS
  <2>2. Upto(0, f)
    BY <2>1
  <2> HIDE DEF f, Upto
  <2> QED BY <2>1, <2>2
<1>2. ASSUME NEW n \in 1..N, n - 1 \in S PROVE n \in S
  <2>1. PICK f \in [0..(n - 1) -> V] : Upto(n - 1, f)
    BY <1>2
  <2> DEFINE g == [i \in 0..n |-> IF i = n THEN G[<<n, f[n - 1]>>] ELSE f[i]]
  <2>2. g \in [0..n -> V]
    <3>1. n - 1 \in 0..(n - 1) /\ f[n - 1] \in V
      OBVIOUS
    <3>2. \A i \in 0..n : i = n \/ i \in 0..(n - 1)
      OBVIOUS
    <3> QED BY <3>1, <3>2
  <2>3. g[0] = base /\ \A i \in 0..(n - 1) : g[i] = f[i]
    BY <2>1
  <2>4. \A i \in 1..n : g[i] = G[<<i, g[i - 1]>>]
    <3> TAKE i \in 1..n
    <3>1. i - 1 \in 0..(n - 1) /\ g[i - 1] = f[i - 1]
      BY <2>3
    <3>2. CASE i = n
      <4>1. g[n] = G[<<n, f[n - 1]>>]
        OBVIOUS
      <4> QED BY <3>1, <3>2, <4>1
    <3>3. CASE i # n
      <4>1. i \in 1..(n - 1) /\ i \in 0..(n - 1)
        BY <3>3
      <4> QED BY <2>1, <2>3, <3>1, <4>1
    <3> QED BY <3>2, <3>3
  <2> HIDE DEF g
  <2>5. n \in 0..N
    OBVIOUS
  <2> QED BY <2>2, <2>3, <2>4, <2>5
<1> HIDE DEF S
<1>3. \A n \in 0..N : n \in S
  BY <1>1, <1>2, UpTo
<1>4. N \in S
  BY <1>3
<1> QED BY <1>4 DEF S

\* G[<<i, h>>] is the value at i when h has the values behind i.
FillsDown(G, M, V) ==
    /\ \A i \in 1..M : \A h \in [1..M -> V] : G[<<i, h>>] \in V
    /\ \A i \in 1..M : \A h, k \in [1..M -> V] :
          (\A j \in (i + 1)..M : h[j] = k[j]) => G[<<i, h>>] = G[<<i, k>>]

IsFilled(f, G, M, V) == f \in [1..M -> V] /\ \A i \in 1..M : f[i] = G[<<i, f>>]

LEMMA Downward ==
  ASSUME NEW M \in Nat, NEW V, NEW default \in V, NEW G, FillsDown(G, M, V)
  PROVE  \E f : IsFilled(f, G, M, V)
<1> DEFINE F == [1..M -> V]
           H == [p \in (1..M) \X F |->
                   [p[2] EXCEPT ![M + 1 - p[1]] = G[<<M + 1 - p[1], p[2]>>]]]
           start == [i \in 1..M |-> default]
<1>1. \A n \in 1..M : M + 1 - n \in 1..M
  OBVIOUS
<1>2. \A n \in 1..M : \A h \in F :
         H[<<n, h>>] = [h EXCEPT ![M + 1 - n] = G[<<M + 1 - n, h>>]]
  OBVIOUS
<1>3. StaysIn(H, M, F)
  <2> SUFFICES ASSUME NEW n \in 1..M, NEW h \in F PROVE H[<<n, h>>] \in F
    BY DEF StaysIn
  <2>1. G[<<M + 1 - n, h>>] \in V
    BY <1>1 DEF FillsDown
  <2> HIDE DEF H
  <2> QED BY <1>2, <2>1, ZenonT(40)
<1>4. start \in F
  OBVIOUS
<1> HIDE DEF H, start, F
<1>5. PICK s : Recurs(s, M, F, start, H)
  BY <1>3, <1>4, Recursion
<1>6. /\ \A n \in 0..M : s[n] \in [1..M -> V]
      /\ \A n \in 1..M : s[n] = [s[n - 1] EXCEPT ![M + 1 - n] = G[<<M + 1 - n, s[n - 1]>>]]
  <2>1. s \in [0..M -> F] /\ \A n \in 1..M : s[n] = H[<<n, s[n - 1]>>]
    BY <1>5 DEF Recurs
  <2>2. \A n \in 1..M : n - 1 \in 0..M
    OBVIOUS
  <2> QED BY <1>2, <2>1, <2>2 DEF F
<1> DEFINE f == s[M]
<1>7. ASSUME NEW i \in 1..M
      PROVE  \A n \in 0..M : M + 1 - i <= n => s[n][i] = s[M + 1 - i][i]
  <2> DEFINE T == {n \in 0..M : M + 1 - i <= n => s[n][i] = s[M + 1 - i][i]}
  <2>1. 0 \in T
    OBVIOUS
  <2>2. ASSUME NEW n \in 1..M, n - 1 \in T PROVE n \in T
    <3>1. CASE n <= M + 1 - i
      BY <3>1
    <3>2. CASE M + 1 - i < n
      <4>1. s[n - 1][i] = s[M + 1 - i][i]
        BY <2>2, <3>2
      <4>2. s[n][i] = s[n - 1][i]
        <5>1. M + 1 - n # i /\ n - 1 \in 0..M
          BY <3>2
        <5>2. s[n - 1] \in [1..M -> V]
          BY <1>6, <5>1
        <5> QED BY <1>6, <5>1, <5>2
      <4> QED BY <4>1, <4>2
    <3> QED BY <3>1, <3>2
  <2> HIDE DEF T
  <2>3. \A n \in 0..M : n \in T
    BY <2>1, <2>2, UpTo
  <2> QED BY <2>3 DEF T
<1>8. ASSUME NEW i \in 1..M PROVE f[i] = G[<<i, f>>]
  <2> DEFINE n == M + 1 - i
  <2>1. n \in 1..M /\ n - 1 \in 0..M /\ M + 1 - n = i /\ M \in 0..M /\ n <= M
    OBVIOUS
  <2>2. s[n] = [s[n - 1] EXCEPT ![i] = G[<<i, s[n - 1]>>]] /\ s[n - 1] \in [1..M -> V]
    BY <1>6, <2>1
  <2>3. s[n][i] = G[<<i, s[n - 1]>>]
    BY <2>2
  <2>4. f[i] = s[n][i]
    BY <1>7, <2>1
  <2>5. \A j \in (i + 1)..M : f[j] = s[n - 1][j]
    <3> TAKE j \in (i + 1)..M
    <3>1. j \in 1..M /\ M + 1 - j <= M /\ M + 1 - j <= n - 1
      OBVIOUS
    <3>2. s[M][j] = s[M + 1 - j][j]
      BY <1>7, <2>1, <3>1
    <3>3. s[n - 1][j] = s[M + 1 - j][j]
      BY <1>7, <2>1, <3>1
    <3> QED BY <3>2, <3>3
  <2>6. f \in [1..M -> V]
    BY <1>6, <2>1
  <2> HIDE DEF f, n
  <2>7. G[<<i, f>>] = G[<<i, s[n - 1]>>]
    BY <2>2, <2>5, <2>6 DEF FillsDown
  <2> QED BY <2>3, <2>4, <2>7
<1>9. f \in [1..M -> V]
  BY <1>6
<1> HIDE DEF f
<1> QED BY <1>8, <1>9 DEF IsFilled

\* Two functions that start and go on alike are the same.
SameSteps(f, g, N) == f[0] = g[0] /\ \A i \in 1..N : f[i - 1] = g[i - 1] => f[i] = g[i]

SameUpTo(f, g, N) == \A i \in 0..N : f[i] = g[i]

LEMMA SameRecursion ==
  ASSUME NEW N \in Nat, NEW f, NEW g, SameSteps(f, g, N)
  PROVE  SameUpTo(f, g, N)
<1> DEFINE S == {i \in 0..N : f[i] = g[i]}
<1>1. 0 \in S /\ \A n \in 1..N : n - 1 \in S => n \in S
  BY DEF SameSteps
<1> HIDE DEF S
<1>2. \A i \in 0..N : i \in S
  BY <1>1, UpTo
<1> QED BY <1>2 DEF S, SameUpTo

\* The value at n from the value at n \div 10, as for the digits of a number.
RecursByTens(f, N, V, base, G) ==
    f \in [0..N -> V] /\ f[0] = base /\ \A n \in 1..N : f[n] = G[<<n, f[n \div 10]>>]

LEMMA ByTens ==
  ASSUME NEW N \in Nat, NEW V, NEW base \in V, NEW G, StaysIn(G, N, V)
  PROVE  \E f : RecursByTens(f, N, V, base, G)
<1> DEFINE M == N + 1
           Cut(i) == M - (M - i) \div 10
           H == [p \in (1..M) \X [1..M -> V] |->
                   IF p[1] = M THEN base ELSE G[<<M - p[1], p[2][Cut(p[1])]>>]]
<1>1. M \in Nat
  OBVIOUS
<1>2. \A i \in 1..M : i # M => Cut(i) \in (i + 1)..M /\ Cut(i) \in 1..M /\ M - i \in 1..N
  OBVIOUS
<1> HIDE DEF Cut
<1>3. \A i \in 1..M : \A h \in [1..M -> V] :
        H[<<i, h>>] = IF i = M THEN base ELSE G[<<M - i, h[Cut(i)]>>]
  OBVIOUS
<1> HIDE DEF H
<1>4. FillsDown(H, M, V)
  <2>1. ASSUME NEW i \in 1..M, NEW h \in [1..M -> V] PROVE H[<<i, h>>] \in V
    <3>1. CASE i = M
      BY <1>3, <3>1
    <3>2. CASE i # M
      <4>1. Cut(i) \in 1..M /\ M - i \in 1..N
        BY <1>2, <3>2
      <4>2. h[Cut(i)] \in V
        BY <4>1
      <4>3. G[<<M - i, h[Cut(i)]>>] \in V
        BY <4>1, <4>2 DEF StaysIn
      <4> QED BY <1>3, <3>2, <4>3
    <3> QED BY <3>1, <3>2
  <2>2. ASSUME NEW i \in 1..M, NEW h \in [1..M -> V], NEW k \in [1..M -> V],
               \A j \in (i + 1)..M : h[j] = k[j]
        PROVE  H[<<i, h>>] = H[<<i, k>>]
    <3>1. CASE i = M
      BY <1>3, <3>1
    <3>2. CASE i # M
      <4>1. h[Cut(i)] = k[Cut(i)]
        BY <1>2, <2>2, <3>2
      <4>2. /\ H[<<i, h>>] = G[<<M - i, h[Cut(i)]>>]
            /\ H[<<i, k>>] = G[<<M - i, k[Cut(i)]>>]
        BY <1>3, <3>2
      <4> QED BY <4>1, <4>2
    <3> QED BY <3>1, <3>2
  <2> QED BY <2>1, <2>2 DEF FillsDown
<1>5. PICK g : IsFilled(g, H, M, V)
  <2> HIDE DEF M
  <2> QED BY <1>1, <1>4, Downward
<1>6. \A i \in 1..M : g[i] \in V /\ g[i] = IF i = M THEN base ELSE G[<<M - i, g[Cut(i)]>>]
  BY <1>3, <1>5 DEF IsFilled
<1> DEFINE f == [n \in 0..N |-> g[M - n]]
<1>7. f \in [0..N -> V]
  <2>1. \A n \in 0..N : M - n \in 1..M
    OBVIOUS
  <2> HIDE DEF M
  <2> QED BY <1>6, <2>1
<1>8. f[0] = base
  <2>1. 0 \in 0..N /\ M - 0 = M /\ M \in 1..M
    OBVIOUS
  <2> HIDE DEF M
  <2> QED BY <1>6, <2>1
<1>9. ASSUME NEW n \in 1..N PROVE f[n] = G[<<n, f[n \div 10]>>]
  <2>1. M - n \in 1..M /\ M - n # M /\ M - (M - n) = n /\ n \in 0..N
    OBVIOUS
  <2>2. n \div 10 \in 0..N /\ Cut(M - n) = M - (n \div 10)
    BY <2>1 DEF Cut
  <2>3. f[n] = g[M - n] /\ f[n \div 10] = g[M - (n \div 10)]
    BY <2>1, <2>2
  <2> HIDE DEF f, M
  <2> QED BY <1>6, <2>1, <2>2, <2>3
<1> HIDE DEF f
<1> QED BY <1>7, <1>8, <1>9 DEF RecursByTens

SameByTens(f, g, N) ==
    f[0] = g[0] /\ \A n \in 1..N : f[n \div 10] = g[n \div 10] => f[n] = g[n]

LEMMA SameRecursionByTens ==
  ASSUME NEW N \in Nat, NEW f, NEW g, SameByTens(f, g, N)
  PROVE  SameUpTo(f, g, N)
<1> DEFINE T == {n \in Nat : \A m \in 0..N : m < n => f[m] = g[m]}
<1>1. 0 \in T
  OBVIOUS
<1>2. ASSUME NEW n \in Nat, n \in T PROVE n + 1 \in T
  <2> SUFFICES ASSUME NEW m \in 0..N, m < n + 1 PROVE f[m] = g[m]
    OBVIOUS
  <2>1. CASE m = 0
    BY <2>1 DEF SameByTens
  <2>2. CASE m # 0
    <3>1. m \div 10 \in 0..N /\ m \div 10 < n /\ m \in 1..N
      BY <2>2
    <3>2. f[m \div 10] = g[m \div 10]
      BY <1>2, <3>1
    <3> QED BY <3>1, <3>2 DEF SameByTens
  <2> QED BY <2>1, <2>2
<1> HIDE DEF T
<1>3. N + 1 \in T
  BY <1>1, <1>2, NatInduct
<1> QED BY <1>3 DEF T, SameUpTo

-----------------------------------------------------------------------------
(* Sequences.                                                              *)

LEMMA FunctionIsSeq ==
  ASSUME NEW S, NEW n \in Nat, NEW f \in [1..n -> S]
  PROVE  f \in Seq(S) /\ Len(f) = n
<1>1. f \in Seq(S)
  BY SeqDef
<1> QED BY <1>1, LenProperties

LEMMA PairIsConcat ==
  ASSUME NEW a, NEW b
  PROVE  <<a>> \o <<b>> = <<a, b>>
<1> DEFINE x == <<a>>
           y == <<b>>
           U == {a, b}
<1>1. x \in Seq(U) /\ y \in Seq(U) /\ Len(x) = 1 /\ Len(y) = 1 /\ x[1] = a /\ y[1] = b
  OBVIOUS
<1> HIDE DEF x, y, U
<1>2. x \o y \in Seq(U) /\ Len(x \o y) = 2 /\ (x \o y)[1] = a /\ (x \o y)[2] = b
  BY <1>1, ConcatProperties
<1> DEFINE z == x \o y
<1> HIDE DEF z
<1>3. z \in Seq(U) /\ Len(z) = 2 => z = <<z[1], z[2]>>
  OBVIOUS
<1> QED BY <1>2, <1>3 DEF x, y, z

\* ConcatAssociative for terms the provers would otherwise regroup for ever.
Regroups(a, b, c) == (a \o b) \o c = a \o (b \o c)

LEMMA Regroup ==
  ASSUME NEW S, NEW a \in Seq(S), NEW b \in Seq(S), NEW c \in Seq(S)
  PROVE  Regroups(a, b, c)
BY ConcatAssociative DEF Regroups

\* Append adds one element.
LEMMA AppendAt ==
  ASSUME NEW S, NEW s \in Seq(S), NEW e
  PROVE  /\ Append(s, e) \in Seq(S \cup {e})
         /\ Len(Append(s, e)) = Len(s) + 1 /\ Len(s) \in Nat
         /\ \A i \in 1..Len(s) : Append(s, e)[i] = s[i]
         /\ Append(s, e)[Len(s) + 1] = e
         /\ DOMAIN s = 1..Len(s) /\ DOMAIN Append(s, e) = 1..(Len(s) + 1)
<1>1. s \in Seq(S \cup {e}) /\ Len(s) \in Nat
  BY SeqMonotonic, LenProperties
<1>2. Append(s, e) \in Seq(S \cup {e})
  BY <1>1
<1> QED BY <1>1, <1>2

\* InsertAt makes room at position i (the shifting loops of the inserts and splits).
LEMMA InsertAtProperties ==
  ASSUME NEW S, NEW s \in Seq(S), NEW i \in 1..(Len(s) + 1), NEW e \in S
  PROVE  /\ InsertAt(s, i, e) \in Seq(S)
         /\ Len(InsertAt(s, i, e)) = Len(s) + 1
         /\ \A j \in 1..(Len(s) + 1) :
               InsertAt(s, i, e)[j] = IF j < i THEN s[j]
                                      ELSE IF j = i THEN e ELSE s[j - 1]
<1> DEFINE a == SubSeq(s, 1, i - 1)
           c == SubSeq(s, i, Len(s))
<1>0. Len(s) \in Nat /\ \A j \in 1..Len(s) : s[j] \in S
  BY LenProperties, ElementOfSeq
<1>1. a \in Seq(S) /\ Len(a) = i - 1 /\ \A j \in 1..(i - 1) : a[j] = s[j]
  BY <1>0, SubSeqProperties
<1>2. c \in Seq(S) /\ Len(c) = Len(s) - i + 1
      /\ \A j \in 1..(Len(s) - i + 1) : c[j] = s[i + j - 1]
  BY <1>0, SubSeqProperties
<1>3. <<e>> \in Seq(S) /\ Len(<<e>>) = 1 /\ <<e>>[1] = e
  OBVIOUS
<1> HIDE DEF a, c
<1> DEFINE b == a \o <<e>>
<1>4. b \in Seq(S) /\ Len(b) = i /\ \A j \in 1..i : b[j] = IF j < i THEN s[j] ELSE e
  BY <1>0, <1>1, <1>3, ConcatProperties
<1> HIDE DEF b
<1>5. /\ b \o c \in Seq(S)
      /\ Len(b \o c) = Len(s) + 1
      /\ \A j \in 1..(Len(s) + 1) : (b \o c)[j] = IF j <= i THEN b[j] ELSE c[j - i]
  <2>1. Len(b) + Len(c) = Len(s) + 1
    BY <1>0, <1>2, <1>4
  <2>2. /\ b \o c \in Seq(S)
        /\ Len(b \o c) = Len(b) + Len(c)
        /\ \A j \in 1..(Len(b) + Len(c)) :
              (b \o c)[j] = IF j <= Len(b) THEN b[j] ELSE c[j - Len(b)]
    BY <1>2, <1>4, ConcatProperties
  <2> QED BY <1>4, <2>1, <2>2
<1>6. \A j \in 1..(Len(s) + 1) :
         (b \o c)[j] = IF j < i THEN s[j] ELSE IF j = i THEN e ELSE s[j - 1]
  BY <1>0, <1>2, <1>4, <1>5
<1>7. InsertAt(s, i, e) = b \o c
  BY DEF InsertAt, a, b, c
<1> QED BY <1>5, <1>6, <1>7

\* t is s with e at place i.
InsertsAt(t, s, i, e) ==
    /\ Len(t) = Len(s) + 1
    /\ \A j \in 1..(Len(s) + 1) : t[j] = IF j < i THEN s[j] ELSE IF j = i THEN e ELSE s[j - 1]

LEMMA InsertAtInserts ==
  ASSUME NEW S, NEW s \in Seq(S), NEW i \in 1..(Len(s) + 1), NEW e \in S
  PROVE  InsertAt(s, i, e) \in Seq(S) /\ InsertsAt(InsertAt(s, i, e), s, i, e)
<1> DEFINE t == InsertAt(s, i, e)
<1>1. t \in Seq(S) /\ Len(t) = Len(s) + 1
  BY InsertAtProperties
<1>2. \A j \in 1..(Len(s) + 1) : t[j] = IF j < i THEN s[j] ELSE IF j = i THEN e ELSE s[j - 1]
  BY InsertAtProperties
<1> HIDE DEF t
<1>3. InsertsAt(t, s, i, e)
  BY <1>1, <1>2 DEF InsertsAt
<1> QED BY <1>1, <1>3 DEF t

\* RemoveAt closes the gap at position i.
LEMMA RemoveAtProperties ==
  ASSUME NEW S, NEW s \in Seq(S), NEW i \in 1..Len(s)
  PROVE  /\ RemoveAt(s, i) \in Seq(S)
         /\ Len(RemoveAt(s, i)) = Len(s) - 1
         /\ \A j \in 1..(Len(s) - 1) :
               RemoveAt(s, i)[j] = IF j < i THEN s[j] ELSE s[j + 1]
<1> DEFINE a == SubSeq(s, 1, i - 1)
           c == SubSeq(s, i + 1, Len(s))
<1>0. Len(s) \in Nat /\ \A j \in 1..Len(s) : s[j] \in S
  BY LenProperties, ElementOfSeq
<1>1. a \in Seq(S) /\ Len(a) = i - 1 /\ \A j \in 1..(i - 1) : a[j] = s[j]
  BY <1>0, SubSeqProperties
<1>2. c \in Seq(S) /\ Len(c) = Len(s) - i /\ \A j \in 1..(Len(s) - i) : c[j] = s[i + j]
  BY <1>0, SubSeqProperties
<1> HIDE DEF a, c
<1>3. /\ a \o c \in Seq(S) /\ Len(a \o c) = Len(s) - 1
      /\ \A j \in 1..(Len(s) - 1) : (a \o c)[j] = IF j <= i - 1 THEN a[j] ELSE c[j - (i - 1)]
  <2>1. Len(a) + Len(c) = Len(s) - 1
    BY <1>0, <1>1, <1>2
  <2>2. /\ a \o c \in Seq(S) /\ Len(a \o c) = Len(a) + Len(c)
        /\ \A j \in 1..(Len(a) + Len(c)) : (a \o c)[j] = IF j <= Len(a) THEN a[j] ELSE c[j - Len(a)]
    BY <1>1, <1>2, ConcatProperties
  <2> QED BY <1>1, <2>1, <2>2
<1>4. \A j \in 1..(Len(s) - 1) : (a \o c)[j] = IF j < i THEN s[j] ELSE s[j + 1]
  <2> TAKE j \in 1..(Len(s) - 1)
  <2>1. CASE j < i
    <3>1. j \in 1..(i - 1) /\ j <= i - 1
      BY <1>0, <2>1
    <3> QED BY <1>1, <1>3, <2>1, <3>1
  <2>2. CASE ~(j < i)
    <3>1. ~(j <= i - 1) /\ j - (i - 1) \in 1..(Len(s) - i) /\ i + (j - (i - 1)) = j + 1
      BY <1>0, <2>2
    <3> QED BY <1>2, <1>3, <2>2, <3>1
  <2> QED BY <2>1, <2>2
<1>5. RemoveAt(s, i) = a \o c
  BY DEF RemoveAt, a, c
<1> QED BY <1>3, <1>4, <1>5

\* A part of a sequence (the memcpy-like loops of the splits).
LEMMA SubSeqTyped ==
  ASSUME NEW S, NEW s \in Seq(S), NEW a \in Nat, NEW b \in Nat, 1 <= a, b <= Len(s)
  PROVE  /\ SubSeq(s, a, b) \in Seq(S)
         /\ Len(SubSeq(s, a, b)) = IF a <= b THEN b - a + 1 ELSE 0
         /\ \A j \in 1..(b - a + 1) : SubSeq(s, a, b)[j] = s[a + j - 1]
<1>1. Len(s) \in Nat /\ \A j \in 1..Len(s) : s[j] \in S
  BY LenProperties, ElementOfSeq
<1>2. \A j \in a..b : s[j] \in S
  BY <1>1
<1> QED BY <1>2, SubSeqProperties

-----------------------------------------------------------------------------
(* Induction over sequences.                                               *)

LEMMA SeqInduct ==
  ASSUME NEW A, NEW P, <<>> \in P,
         \A s \in Seq(A) : \A c \in A : s \in P => Append(s, c) \in P
  PROVE  \A s \in Seq(A) : s \in P
<1> DEFINE T == {n \in Nat : \A s \in Seq(A) : Len(s) = n => s \in P}
<1>1. 0 \in T
  <2>1. \A s \in Seq(A) : Len(s) = 0 => s = <<>>
    BY EmptySeq
  <2> QED BY <2>1
<1>2. ASSUME NEW n \in Nat, n \in T PROVE n + 1 \in T
  <2> SUFFICES ASSUME NEW s \in Seq(A), Len(s) = n + 1 PROVE s \in P
    OBVIOUS
  <2>1. s # <<>>
    BY EmptySeq
  <2>2. PICK t \in Seq(A), c \in A : s = Append(t, c)
    BY <2>1, SequenceEmptyOrAppend
  <2>3. Len(t) = n
    BY <2>2, AppendProperties, LenProperties
  <2> QED BY <1>2, <2>2, <2>3
<1> HIDE DEF T
<1>3. \A n \in Nat : n \in T
  BY <1>1, <1>2, NatInduct
<1> QED BY <1>3, LenProperties DEF T

\* What holds of all shorter sequences holds of a sequence.
LEMMA ShorterInduct ==
  ASSUME NEW A, NEW P,
         \A s \in Seq(A) : (\A t \in Seq(A) : Len(t) < Len(s) => t \in P) => s \in P
  PROVE  \A s \in Seq(A) : s \in P
<1> DEFINE T == {n \in Nat : \A s \in Seq(A) : Len(s) < n => s \in P}
<1>1. 0 \in T
  BY LenProperties
<1>2. ASSUME NEW n \in Nat, n \in T PROVE n + 1 \in T
  <2> SUFFICES ASSUME NEW s \in Seq(A), Len(s) < n + 1 PROVE s \in P
    OBVIOUS
  <2>1. \A t \in Seq(A) : Len(t) < Len(s) => t \in P
    <3> TAKE t \in Seq(A)
    <3> HAVE Len(t) < Len(s)
    <3>1. Len(t) \in Nat /\ Len(s) \in Nat
      BY LenProperties
    <3>2. Len(t) < n
      BY <3>1
    <3> QED BY <1>2, <3>2
  <2> QED BY <2>1
<1> HIDE DEF T
<1>3. \A n \in Nat : n \in T
  BY <1>1, <1>2, NatInduct
<1> SUFFICES ASSUME NEW s \in Seq(A) PROVE s \in P
  OBVIOUS
<1>4. Len(s) \in Nat /\ Len(s) + 1 \in Nat /\ Len(s) < Len(s) + 1
  BY LenProperties
<1>5. Len(s) + 1 \in T
  BY <1>3, <1>4
<1> QED BY <1>4, <1>5 DEF T

LEMMA AppendConcat ==
  ASSUME NEW A, NEW s \in Seq(A), NEW t \in Seq(A), NEW c \in A
  PROVE  s \o Append(t, c) = Append(s \o t, c)
<1>1. Append(t, c) = t \o <<c>> /\ <<c>> \in Seq(A) /\ s \o t \in Seq(A)
  BY AppendIsConcat, ConcatProperties
<1>2. Append(s \o t, c) = (s \o t) \o <<c>>
  BY <1>1, AppendIsConcat
<1>3. (s \o t) \o <<c>> = s \o (t \o <<c>>)
  BY <1>1, ConcatAssociative
<1> QED BY <1>1, <1>2, <1>3

\* The parts of a sequence have its elements.
LEMMA ConcatParts ==
  ASSUME NEW A, NEW B, NEW s \in Seq(A), NEW t \in Seq(A), s \o t \in Seq(B)
  PROVE  s \in Seq(B) /\ t \in Seq(B)
<1> DEFINE u == s \o t
<1>1. /\ Len(s) \in Nat /\ Len(t) \in Nat /\ Len(u) = Len(s) + Len(t)
      /\ \A i \in 1..(Len(s) + Len(t)) : u[i] = IF i <= Len(s) THEN s[i] ELSE t[i - Len(s)]
  BY ConcatProperties, LenProperties
<1>2. s = [i \in 1..Len(s) |-> s[i]] /\ t = [i \in 1..Len(t) |-> t[i]]
  BY LenProperties
<1> HIDE DEF u
<1>3. \A i \in 1..Len(u) : u[i] \in B
  BY ElementOfSeq DEF u
<1>4. \A i \in 1..Len(s) : s[i] \in B
  <2> TAKE i \in 1..Len(s)
  <2>1. i \in 1..Len(u) /\ u[i] = s[i]
    BY <1>1
  <2> QED BY <1>3, <2>1
<1>5. \A i \in 1..Len(t) : t[i] \in B
  <2> TAKE i \in 1..Len(t)
  <2>1. Len(s) + i \in 1..Len(u) /\ ~(Len(s) + i <= Len(s)) /\ (Len(s) + i) - Len(s) = i
    BY <1>1
  <2>2. u[Len(s) + i] = t[i]
    BY <1>1, <2>1
  <2> QED BY <1>3, <2>1, <2>2
<1>6. s \in [1..Len(s) -> B]
  BY <1>2, <1>4
<1>7. t \in [1..Len(t) -> B]
  BY <1>2, <1>5
<1>8. s \in Seq(B)
  BY <1>1, <1>6, FunctionIsSeq
<1>9. t \in Seq(B)
  BY <1>1, <1>7, FunctionIsSeq
<1> QED BY <1>8, <1>9

\* Two divisions of one sequence: the longer first part has the shorter one in it.
Splits(A, a, b, c, d) == \E m \in Seq(A) : c = a \o m /\ b = m \o d /\ Len(c) = Len(a) + Len(m)

LEMMA ConcatSplits ==
  ASSUME NEW A, NEW a, NEW b, NEW c, NEW d,
         a \in Seq(A) /\ b \in Seq(A) /\ c \in Seq(A) /\ d \in Seq(A),
         a \o b = c \o d, Len(a) <= Len(c)
  PROVE  Splits(A, a, b, c, d)
<1> DEFINE m == SubSeq(c, Len(a) + 1, Len(c))
           u == a \o b
           v == a \o m
           w == m \o d
<1>1. Len(a) \in Nat /\ Len(b) \in Nat /\ Len(c) \in Nat /\ Len(d) \in Nat
  BY LenProperties
<1>2. /\ Len(u) = Len(a) + Len(b)
      /\ \A i \in 1..(Len(a) + Len(b)) : u[i] = IF i <= Len(a) THEN a[i] ELSE b[i - Len(a)]
  BY ConcatProperties
<1>3. /\ Len(u) = Len(c) + Len(d)
      /\ \A i \in 1..(Len(c) + Len(d)) : u[i] = IF i <= Len(c) THEN c[i] ELSE d[i - Len(c)]
  BY ConcatProperties
<1>4. m \in Seq(A) /\ Len(m) = Len(c) - Len(a) /\ \A i \in 1..(Len(c) - Len(a)) : m[i] = c[Len(a) + i]
  <2>1. \A i \in (Len(a) + 1)..Len(c) : c[i] \in A
    BY <1>1, ElementOfSeq
  <2>2. /\ m \in Seq(A)
        /\ Len(m) = IF Len(a) + 1 <= Len(c) THEN Len(c) - (Len(a) + 1) + 1 ELSE 0
        /\ \A i \in 1..(Len(c) - (Len(a) + 1) + 1) : m[i] = c[Len(a) + 1 + i - 1]
    BY <1>1, <2>1, SubSeqProperties
  <2> HIDE DEF m
  <2>3. Len(m) = Len(c) - Len(a) /\ Len(c) - (Len(a) + 1) + 1 = Len(c) - Len(a)
    BY <1>1, <2>2
  <2>4. ASSUME NEW i \in 1..(Len(c) - Len(a)) PROVE m[i] = c[Len(a) + i]
    <3>1. m[i] = c[Len(a) + 1 + i - 1] /\ Len(a) + 1 + i - 1 = Len(a) + i
      BY <1>1, <2>2, <2>3
    <3> QED BY <3>1
  <2> QED BY <2>2, <2>3, <2>4
<1> HIDE DEF m, u
<1>5. /\ v \in Seq(A) /\ Len(v) = Len(a) + Len(m)
      /\ \A i \in 1..(Len(a) + Len(m)) : v[i] = IF i <= Len(a) THEN a[i] ELSE m[i - Len(a)]
  BY <1>4, ConcatProperties
<1>6. /\ w \in Seq(A) /\ Len(w) = Len(m) + Len(d)
      /\ \A i \in 1..(Len(m) + Len(d)) : w[i] = IF i <= Len(m) THEN m[i] ELSE d[i - Len(m)]
  BY <1>4, ConcatProperties
<1> HIDE DEF v, w
<1>7. c = v
  <2>1. Len(c) = Len(v)
    BY <1>1, <1>4, <1>5
  <2>2. ASSUME NEW i \in 1..Len(c) PROVE c[i] = v[i]
    <3>1. i \in 1..(Len(a) + Len(m))
      BY <1>5, <2>1
    <3>2. CASE i <= Len(a)
      <4>1. i \in 1..(Len(a) + Len(b)) /\ i \in 1..(Len(c) + Len(d))
        BY <1>1, <3>2
      <4>2. u[i] = a[i] /\ u[i] = c[i]
        BY <1>1, <1>2, <1>3, <3>2, <4>1
      <4> QED BY <1>5, <3>1, <3>2, <4>2
    <3>3. CASE ~(i <= Len(a))
      <4>1. i - Len(a) \in 1..(Len(c) - Len(a)) /\ Len(a) + (i - Len(a)) = i
        BY <1>1, <3>3
      <4>2. m[i - Len(a)] = c[i]
        BY <1>4, <4>1
      <4> QED BY <1>5, <3>1, <3>3, <4>2
    <3> QED BY <3>2, <3>3
  <2> QED BY <1>5, <2>1, <2>2, SeqEqual
<1>8. b = w
  <2>1. Len(b) = Len(w)
    BY <1>1, <1>2, <1>3, <1>4, <1>6
  <2>2. ASSUME NEW i \in 1..Len(b) PROVE b[i] = w[i]
    <3> DEFINE j == Len(a) + i
    <3>1. /\ j \in 1..(Len(a) + Len(b)) /\ j \in 1..(Len(c) + Len(d)) /\ i \in 1..(Len(m) + Len(d))
          /\ ~(j <= Len(a)) /\ j - Len(a) = i
      BY <1>1, <1>2, <1>3, <1>6, <2>1
    <3>2. u[j] = b[i]
      BY <1>2, <3>1
    <3>3. CASE i <= Len(m)
      <4>1. j <= Len(c) /\ i \in 1..(Len(c) - Len(a))
        BY <1>1, <1>4, <3>3
      <4>2. u[j] = c[j] /\ m[i] = c[j]
        BY <1>3, <1>4, <3>1, <4>1
      <4> QED BY <1>6, <3>1, <3>2, <3>3, <4>2
    <3>4. CASE ~(i <= Len(m))
      <4>1. ~(j <= Len(c)) /\ j - Len(c) = i - Len(m)
        BY <1>1, <1>4, <3>4
      <4>2. u[j] = d[j - Len(c)]
        BY <1>3, <3>1, <4>1
      <4> QED BY <1>6, <3>1, <3>2, <3>4, <4>1, <4>2
    <3> QED BY <3>3, <3>4
  <2> QED BY <1>6, <2>1, <2>2, SeqEqual
<1>9. Len(c) = Len(a) + Len(m)
  BY <1>1, <1>4
<1> QED BY <1>4, <1>7, <1>8, <1>9 DEF v, w, Splits

LEMMA SuffixOfConcat ==
  ASSUME NEW A, NEW s \in Seq(A), NEW t \in Seq(A)
  PROVE  SubSeq(s \o t, Len(s) + 1, Len(s \o t)) = t
<1> DEFINE u == s \o t
           r == SubSeq(u, Len(s) + 1, Len(u))
<1>1. /\ u \in Seq(A) /\ Len(u) = Len(s) + Len(t) /\ Len(s) \in Nat /\ Len(t) \in Nat
      /\ \A i \in 1..(Len(s) + Len(t)) : u[i] = IF i <= Len(s) THEN s[i] ELSE t[i - Len(s)]
  BY ConcatProperties, LenProperties
<1> HIDE DEF u
<1>2. r \in Seq(A) /\ Len(r) = Len(t) /\ \A i \in 1..Len(t) : r[i] = u[Len(s) + i]
  <2>1. \A i \in (Len(s) + 1)..Len(u) : u[i] \in A
    BY <1>1, ElementOfSeq
  <2>2. /\ r \in Seq(A)
        /\ Len(r) = IF Len(s) + 1 <= Len(u) THEN Len(u) - (Len(s) + 1) + 1 ELSE 0
        /\ \A i \in 1..(Len(u) - (Len(s) + 1) + 1) : r[i] = u[Len(s) + 1 + i - 1]
    BY <1>1, <2>1, SubSeqProperties
  <2>3. Len(u) - (Len(s) + 1) + 1 = Len(t)
    BY <1>1
  <2>4. Len(r) = Len(t)
    BY <1>1, <2>2
  <2>5. \A i \in 1..Len(t) : r[i] = u[Len(s) + i]
    <3> TAKE i \in 1..Len(t)
    <3>1. r[i] = u[Len(s) + 1 + i - 1] /\ Len(s) + 1 + i - 1 = Len(s) + i
      BY <1>1, <2>2, <2>3
    <3> QED BY <3>1
  <2> QED BY <2>2, <2>4, <2>5
<1> HIDE DEF r
<1>3. \A i \in 1..Len(t) : r[i] = t[i]
  <2> TAKE i \in 1..Len(t)
  <2>1. Len(s) + i \in 1..(Len(s) + Len(t)) /\ ~(Len(s) + i <= Len(s)) /\ (Len(s) + i) - Len(s) = i
    BY <1>1
  <2>2. u[Len(s) + i] = t[i]
    BY <1>1, <2>1
  <2> QED BY <1>2, <2>2
<1>4. r = t
  BY <1>2, <1>3, SeqEqual
<1> QED BY <1>4 DEF r, u

-----------------------------------------------------------------------------
(* FlattenSeq.                                                             *)

Flattens(f, s, A) ==
    /\ f \in [0..Len(s) -> Seq(A)] /\ f[0] = <<>>
    /\ \A i \in 1..Len(s) : f[i] = f[i - 1] \o s[i]
    /\ FlattenSeq(s) = f[Len(s)]

LEMMA FlattenSteps ==
  ASSUME NEW A, NEW s \in Seq(Seq(A))
  PROVE  \E f : Flattens(f, s, A)
<1> DEFINE N == Len(s)
           V == Seq(A)
           G == [p \in (1..N) \X V |-> p[2] \o s[p[1]]]
           nothing == <<>>
<1>1. N \in Nat /\ \A i \in 1..N : s[i] \in Seq(A)
  BY LenProperties, ElementOfSeq
<1>2. \A i \in 1..N : \A v \in V : G[<<i, v>>] = v \o s[i]
  OBVIOUS
<1>3. StaysIn(G, N, V)
  <2> SUFFICES ASSUME NEW i \in 1..N, NEW v \in V PROVE G[<<i, v>>] \in V
    BY DEF StaysIn
  <2>1. v \o s[i] \in V
    BY <1>1, ConcatProperties
  <2> QED BY <1>2, <2>1
<1>4. nothing \in V
  OBVIOUS
<1> HIDE DEF G, V, nothing
<1>5. PICK f : Recurs(f, N, V, nothing, G)
  BY <1>1, <1>3, <1>4, Recursion
<1>6. f \in [0..N -> V] /\ f[0] = nothing /\ \A i \in 1..N : f[i] = f[i - 1] \o s[i]
  <2>1. f \in [0..N -> V] /\ f[0] = nothing /\ \A i \in 1..N : f[i] = G[<<i, f[i - 1]>>]
    BY <1>5 DEF Recurs
  <2>2. \A i \in 1..N : i - 1 \in 0..N
    BY <1>1
  <2> QED BY <1>2, <2>1, <2>2
<1>7. FlattenSeq(s) = f[N]
  <2>1. CASE N = 0
    <3>1. s = <<>>
      BY <2>1, EmptySeq
    <3> QED BY <1>6, <2>1, <3>1 DEF FlattenSeq, nothing
  <2>2. CASE N # 0
    <3> DEFINE Is(g) == g = [i \in 1..N |-> IF i = 1 THEN s[i] ELSE g[i - 1] \o s[i]]
               g0 == [i \in 1..N |-> f[i]]
               g1 == CHOOSE g : Is(g)
    <3>1. \A i \in 1..N : g0[i] = IF i = 1 THEN s[i] ELSE g0[i - 1] \o s[i]
      <4> TAKE i \in 1..N
      <4>1. CASE i = 1
        <5>0. i - 1 = 0
          BY <4>1
        <5>1. f[i] = nothing \o s[i] /\ s[i] \in Seq(A)
          <6>1. f[i] = f[i - 1] \o s[i] /\ f[0] = nothing
            BY <1>6
          <6> QED BY <1>1, <5>0, <6>1
        <5>2. f[i] = s[i]
          BY <5>1, ConcatEmptySeq DEF nothing
        <5> QED BY <4>1, <5>2
      <4>2. CASE i # 1
        <5>1. i - 1 \in 1..N
          BY <1>1, <4>2
        <5>2. f[i] = f[i - 1] \o s[i]
          BY <1>6
        <5> QED BY <4>2, <5>1, <5>2
      <4> QED BY <4>1, <4>2
    <3>2. Is(g0)
      BY <3>1
    <3>3. Is(g1)
      <4> HIDE DEF Is, g0
      <4> QED BY <3>2
    <3>4. FlattenSeq(s) = g1[N]
      BY <2>2 DEF FlattenSeq
    <3> HIDE DEF g1, g0
    <3>5. \A i \in 1..N : g1[i] = IF i = 1 THEN s[i] ELSE g1[i - 1] \o s[i]
      BY <3>3
    <3>6. \A i \in 1..N : g1[i] = f[i]
      <4> DEFINE T == {i \in 0..N : i # 0 => g1[i] = f[i]}
      <4>1. 0 \in T
        BY <1>1
      <4>2. ASSUME NEW i \in 1..N, i - 1 \in T PROVE i \in T
        <5>1. f[i] = f[i - 1] \o s[i] /\ s[i] \in Seq(A)
          BY <1>1, <1>6
        <5>2. CASE i = 1
          <6>0. i - 1 = 0 /\ f[0] = nothing
            BY <1>6, <5>2
          <6>1. f[i] = nothing \o s[i]
            BY <5>1, <6>0
          <6>2. f[i] = s[i]
            BY <5>1, <6>1, ConcatEmptySeq DEF nothing
          <6>3. g1[i] = s[i]
            BY <3>5, <5>2
          <6> QED BY <6>2, <6>3
        <5>3. CASE i # 1
          <6>1. g1[i - 1] = f[i - 1]
            BY <4>2, <5>3
          <6>2. g1[i] = g1[i - 1] \o s[i]
            BY <3>5, <5>3
          <6>3. g1[i] = f[i]
            BY <5>1, <6>1, <6>2
          <6> QED BY <1>1, <6>3
        <5> QED BY <5>2, <5>3
      <4> HIDE DEF T
      <4>3. \A i \in 0..N : i \in T
        BY <1>1, <4>1, <4>2, UpTo
      <4> QED BY <4>3, SMTT(30) DEF T
    <3>7. N \in 1..N
      BY <1>1, <2>2
    <3> QED BY <3>4, <3>6, <3>7
  <2> QED BY <2>1, <2>2
<1> QED BY <1>6, <1>7 DEF Flattens, V, nothing

LEMMA FlattenAppend ==
  ASSUME NEW A
  PROVE  /\ FlattenSeq(<<>>) = <<>>
         /\ \A s \in Seq(Seq(A)) : FlattenSeq(s) \in Seq(A)
         /\ \A s \in Seq(Seq(A)) : \A x \in Seq(A) : FlattenSeq(Append(s, x)) = FlattenSeq(s) \o x
<1>1. FlattenSeq(<<>>) = <<>>
  BY DEF FlattenSeq
<1>2. \A s \in Seq(Seq(A)) : FlattenSeq(s) \in Seq(A)
  <2> TAKE s \in Seq(Seq(A))
  <2>1. PICK f : Flattens(f, s, A)
    BY FlattenSteps
  <2>2. Len(s) \in 0..Len(s)
    BY LenProperties
  <2> QED BY <2>1, <2>2 DEF Flattens
<1>3. ASSUME NEW s \in Seq(Seq(A)), NEW x \in Seq(A)
      PROVE  FlattenSeq(Append(s, x)) = FlattenSeq(s) \o x
  <2> DEFINE t == Append(s, x)
             N == Len(s)
  <2>1. /\ t \in Seq(Seq(A)) /\ Len(t) = N + 1 /\ N \in Nat
        /\ \A i \in 1..N : t[i] = s[i]
        /\ t[N + 1] = x
    BY AppendProperties, LenProperties
  <2> HIDE DEF t, N
  <2>2. PICK f : Flattens(f, s, A)
    BY FlattenSteps
  <2>3. PICK g : Flattens(g, t, A)
    BY <2>1, FlattenSteps
  <2>4. /\ f[0] = <<>> /\ g[0] = <<>>
        /\ \A i \in 1..N : f[i] = f[i - 1] \o s[i]
        /\ \A i \in 1..(N + 1) : g[i] = g[i - 1] \o t[i]
        /\ FlattenSeq(s) = f[N] /\ FlattenSeq(t) = g[N + 1]
    BY <2>1, <2>2, <2>3 DEF Flattens, N
  <2>5. \A i \in 1..N : f[i - 1] = g[i - 1] => f[i] = g[i]
    <3> TAKE i \in 1..N
    <3>1. i \in 1..(N + 1)
      BY <2>1
    <3> QED BY <2>1, <2>4, <3>1
  <2>6. \A i \in 0..N : f[i] = g[i]
    <3>1. f[0] = g[0]
      BY <2>4
    <3>2. N \in Nat
      BY <2>1
    <3>3. SameSteps(f, g, N)
      BY <2>5, <3>1 DEF SameSteps
    <3>4. SameUpTo(f, g, N)
      BY <3>2, <3>3, SameRecursion
    <3> QED BY <3>4 DEF SameUpTo
  <2>7. g[N + 1] = g[N] \o x
    <3>1. N + 1 \in 1..(N + 1) /\ (N + 1) - 1 = N
      BY <2>1
    <3> QED BY <2>1, <2>4, <3>1
  <2>8. f[N] = g[N]
    BY <2>1, <2>6
  <2> QED BY <2>4, <2>7, <2>8 DEF t
<1> QED BY <1>1, <1>2, <1>3

-----------------------------------------------------------------------------
(* Recursion and induction along a rank that falls.                        *)

\* Induction and recursion along a rank: what holds of n if it holds of all that rank below n.
LEMMA RankInduct ==
  ASSUME NEW S, NEW rank \in [S -> Nat], NEW T,
         \A n \in S : (\A m \in S : rank[m] < rank[n] => m \in T) => n \in T
  PROVE  S \subseteq T
<1> DEFINE H == {h \in Nat : \A n \in S : rank[n] < h => n \in T}
<1>1. 0 \in H
  OBVIOUS
<1>2. ASSUME NEW h \in Nat, h \in H PROVE h + 1 \in H
  <2>1. ASSUME NEW n \in S, rank[n] < h + 1 PROVE n \in T
    <3> DEFINE r(m) == rank[m]
    <3>1. \A m \in S : r(m) \in Nat
      OBVIOUS
    <3>2. ASSUME NEW m \in S, r(m) < r(n) PROVE m \in T
      <4>1. r(n) \in Nat /\ r(m) \in Nat /\ r(n) < h + 1
        BY <2>1, <3>1
      <4> HIDE DEF r
      <4>2. r(m) < h
        BY <3>2, <4>1
      <4> QED BY <1>2, <4>2 DEF r
    <3> QED BY <3>2
  <2> QED BY <2>1
<1> HIDE DEF H
<1>3. \A h \in Nat : h \in H
  BY <1>1, <1>2, NatInduct
<1>4. ASSUME NEW n \in S PROVE n \in T
  <2> DEFINE r == rank[n]
  <2>1. r \in Nat
    OBVIOUS
  <2> HIDE DEF r
  <2>2. r + 1 \in H /\ r < r + 1
    BY <1>3, <2>1
  <2> QED BY <2>2 DEF H, r
<1> QED BY <1>4

FallsBy(G, S, V, rank) ==
    /\ \A n \in S : \A h \in [S -> V] : G[<<n, h>>] \in V
    /\ \A n \in S : \A h, k \in [S -> V] :
          (\A m \in S : rank[m] < rank[n] => h[m] = k[m]) => G[<<n, h>>] = G[<<n, k>>]

Solves(f, G, S, V) == f \in [S -> V] /\ \A n \in S : f[n] = G[<<n, f>>]

\* f solves it for what ranks below h.
SolvesBelow(f, G, S, V, rank, h) ==
    f \in [S -> V] /\ \A n \in S : rank[n] < h => f[n] = G[<<n, f>>]

LEMMA RankRecursion ==
  ASSUME NEW S, NEW V, NEW default \in V, NEW B \in Nat, NEW rank \in [S -> 0..B], NEW G,
         FallsBy(G, S, V, rank)
  PROVE  \E f : Solves(f, G, S, V)
<1> DEFINE Upto(f, h) == SolvesBelow(f, G, S, V, rank, h)
           H == {h \in Nat : \E f : Upto(f, h)}
<1>1. 0 \in H
  <2>1. Upto([n \in S |-> default], 0)
    BY DEF SolvesBelow
  <2> HIDE DEF Upto
  <2> QED BY <2>1
<1>2. ASSUME NEW h \in Nat, h \in H PROVE h + 1 \in H
  <2>1. PICK f : Upto(f, h)
    BY <1>2
  <2> DEFINE g == [n \in S |-> G[<<n, f>>]]
  <2>2. g \in [S -> V]
    BY <2>1 DEF FallsBy, SolvesBelow
  <2>3. ASSUME NEW n \in S, rank[n] < h + 1 PROVE G[<<n, g>>] = G[<<n, f>>]
    <3>1. ASSUME NEW m \in S, rank[m] < rank[n] PROVE g[m] = f[m]
      <4> DEFINE a == rank[m]
                 b == rank[n]
      <4>1. a \in Nat /\ b \in Nat /\ a < b /\ b < h + 1
        BY <2>3, <3>1
      <4> HIDE DEF a, b
      <4>2. a < h
        BY <4>1
      <4> QED BY <2>1, <4>2 DEF a, SolvesBelow
    <3> HIDE DEF g
    <3> QED BY <2>1, <2>2, <3>1 DEF FallsBy, SolvesBelow
  <2>4. Upto(g, h + 1)
    BY <2>2, <2>3 DEF SolvesBelow
  <2> HIDE DEF Upto
  <2>5. (h + 1 \in Nat) /\ (\E x : Upto(x, h + 1))
    BY <2>4
  <2> QED BY <2>5
<1>3. B + 1 \in H
  <2> HIDE DEF H
  <2> QED BY <1>1, <1>2, NatInduct
<1>4. PICK f : Upto(f, B + 1)
  BY <1>3
<1>5. \A n \in S : rank[n] < B + 1
  OBVIOUS
<1> QED BY <1>4, <1>5 DEF Solves, SolvesBelow

\* An element put in front.
LEMMA ConsAt ==
  ASSUME NEW S, NEW e \in S, NEW s \in Seq(S)
  PROVE  /\ <<e>> \o s \in Seq(S) /\ Len(<<e>> \o s) = Len(s) + 1 /\ Len(s) \in Nat
         /\ (<<e>> \o s)[1] = e
         /\ \A j \in 1..Len(s) : (<<e>> \o s)[j + 1] = s[j]
<1> DEFINE a == <<e>>
<1>1. a \in Seq(S) /\ Len(a) = 1 /\ a[1] = e
  OBVIOUS
<1> HIDE DEF a
<1>0. Len(s) \in Nat
  OBVIOUS
<1>2. /\ a \o s \in Seq(S) /\ Len(a \o s) = Len(a) + Len(s)
      /\ \A j \in 1..(Len(a) + Len(s)) :
            (a \o s)[j] = IF j <= Len(a) THEN a[j] ELSE s[j - Len(a)]
  BY <1>1, ConcatProperties
<1> DEFINE m == Len(s)
           t == a \o s
<1>3. /\ t \in Seq(S) /\ Len(t) = 1 + m /\ m \in Nat
      /\ \A j \in 1..(1 + m) : t[j] = IF j <= 1 THEN a[j] ELSE s[j - 1]
  BY <1>0, <1>1, <1>2
<1> HIDE DEF m, t
<1>4. t[1] = e
  BY <1>1, <1>3
<1>5. \A j \in 1..m : t[j + 1] = s[j]
  <2>1. ASSUME NEW j \in 1..m PROVE t[j + 1] = s[j]
    <3>1. (j + 1 \in 1..(1 + m)) /\ ~(j + 1 <= 1) /\ (j + 1) - 1 = j
      BY <1>3
    <3> DEFINE x == j + 1
    <3>2. t[x] = s[x - 1]
      <4> HIDE DEF x
      <4> QED BY <1>3, <3>1 DEF x
    <3> QED BY <3>1, <3>2
  <2> QED BY <2>1
<1>6. 1 + m = m + 1
  BY <1>3
<1> QED BY <1>3, <1>4, <1>5, <1>6 DEF t, a, m

-----------------------------------------------------------------------------
(* How long sequences are when put end to end.                             *)

\* How long the parts of s are, put end to end.
Measures(l, s) ==
    /\ l \in [0..Len(s) -> Nat] /\ l[0] = 0
    /\ \A i \in 1..Len(s) : l[i] = l[i - 1] + Len(s[i])
    /\ Len(FlattenSeq(s)) = l[Len(s)]

LEMMA FlattenLength ==
  ASSUME NEW A, NEW s \in Seq(Seq(A))
  PROVE  \E l : Measures(l, s)
<1>1. PICK f : Flattens(f, s, A)
  BY FlattenSteps
<1> DEFINE n == Len(s)
           l == [i \in 0..n |-> Len(f[i])]
<1>2. f \in [0..n -> Seq(A)] /\ n \in Nat /\ \A i \in 1..n : s[i] \in Seq(A)
  BY <1>1, LenProperties, ElementOfSeq DEF Flattens
<1>3. l \in [0..n -> Nat]
  BY <1>2, LenProperties
<1>4. l[0] = 0
  BY <1>1, <1>2 DEF Flattens
<1>5. ASSUME NEW i \in 1..n PROVE l[i] = l[i - 1] + Len(s[i])
  <2>1. i - 1 \in 0..n /\ i \in 0..n
    BY <1>2
  <2>2. f[i] = f[i - 1] \o s[i] /\ f[i - 1] \in Seq(A) /\ s[i] \in Seq(A)
    BY <1>1, <1>2, <2>1 DEF Flattens
  <2>3. Len(f[i]) = Len(f[i - 1]) + Len(s[i])
    BY <2>2, ConcatProperties
  <2> QED BY <2>1, <2>3
<1>6. Len(FlattenSeq(s)) = l[n]
  BY <1>1, <1>2 DEF Flattens
<1> HIDE DEF l
<1> QED BY <1>3, <1>4, <1>5, <1>6 DEF Measures

\* One part longer by one.
LEMMA OnePartGrows ==
  ASSUME NEW A, NEW s \in Seq(Seq(A)), NEW t \in Seq(Seq(A)), NEW i \in 1..Len(s),
         Len(t) = Len(s), Len(t[i]) = Len(s[i]) + 1, \A j \in 1..Len(s) : j # i => t[j] = s[j]
  PROVE  Len(FlattenSeq(t)) = Len(FlattenSeq(s)) + 1
<1>1. PICK l : Measures(l, s)
  BY FlattenLength
<1>2. PICK m : Measures(m, t)
  BY FlattenLength
<1> DEFINE n == Len(s)
           S == {j \in 0..n : m[j] = l[j] + IF j < i THEN 0 ELSE 1}
<1>3. n \in Nat /\ i \in 1..n
  OBVIOUS
<1>4. /\ l \in [0..n -> Nat] /\ m \in [0..n -> Nat] /\ l[0] = 0 /\ m[0] = 0
      /\ Len(FlattenSeq(s)) = l[n] /\ Len(FlattenSeq(t)) = m[n]
  BY <1>1, <1>2 DEF Measures
<1>5. 0 \in S
  BY <1>3, <1>4
<1>6. ASSUME NEW j \in 1..n, j - 1 \in S PROVE j \in S
  <2> DEFINE a == l[j - 1]
             b == m[j - 1]
             x == Len(s[j])
             y == Len(t[j])
  <2>1. l[j] = a + x /\ m[j] = b + y
    BY <1>1, <1>2 DEF Measures
  <2>2. a \in Nat /\ b \in Nat /\ b = a + (IF j - 1 < i THEN 0 ELSE 1)
    BY <1>3, <1>4, <1>6
  <2>3. x \in Nat /\ y = x + (IF j = i THEN 1 ELSE 0)
    <3>1. s[j] \in Seq(A)
      BY <1>6, ElementOfSeq
    <3>2. x \in Nat
      BY <3>1, LenProperties
    <3>3. CASE j = i
      BY <3>2, <3>3
    <3>4. CASE j # i
      BY <3>2, <3>4
    <3> QED BY <3>3, <3>4, <3>2
  <2> HIDE DEF a, b, x, y
  <2>4. j \in 0..n /\ b + y = (a + x) + (IF j < i THEN 0 ELSE 1)
    <3>1. CASE j < i
      BY <1>3, <2>2, <2>3, <3>1
    <3>2. CASE j = i
      BY <1>3, <2>2, <2>3, <3>2
    <3>3. CASE j > i
      BY <1>3, <2>2, <2>3, <3>3
    <3> QED BY <1>3, <3>1, <3>2, <3>3
  <2> QED BY <2>1, <2>4
<1>7. n \in S
  <2> HIDE DEF S, n
  <2>1. \A j \in 0..n : j \in S
    BY <1>3, <1>5, <1>6, UpTo
  <2> QED BY <1>3, <2>1
<1>8. ~(n < i)
  BY <1>3
<1> QED BY <1>4, <1>7, <1>8

\* One part in the place of two, together longer by one.
Parted(t, s, i) ==
    /\ Len(t) = Len(s) + 1 /\ Len(t[i]) + Len(t[i + 1]) = Len(s[i]) + 1
    /\ \A j \in 1..Len(s) : j < i => t[j] = s[j]
    /\ \A j \in 1..Len(s) : j > i => t[j + 1] = s[j]

LEMMA OnePartSplits ==
  ASSUME NEW A, NEW s \in Seq(Seq(A)), NEW t \in Seq(Seq(A)), NEW i \in 1..Len(s), Parted(t, s, i)
  PROVE  Len(FlattenSeq(t)) = Len(FlattenSeq(s)) + 1
<1>1. PICK l : Measures(l, s)
  BY FlattenLength
<1>2. PICK m : Measures(m, t)
  BY FlattenLength
<1> DEFINE n == Len(s)
           S == {j \in 0..n : IF j < i THEN m[j] = l[j] ELSE m[j + 1] = l[j] + 1}
<1>3. n \in Nat /\ i \in 1..n /\ Len(t) = n + 1
  BY DEF Parted
<1>4. /\ l \in [0..n -> Nat] /\ l[0] = 0 /\ Len(FlattenSeq(s)) = l[n]
      /\ \A j \in 1..n : l[j] = l[j - 1] + Len(s[j])
  BY <1>1 DEF Measures
<1>5. /\ m \in [0..(n + 1) -> Nat] /\ m[0] = 0 /\ Len(FlattenSeq(t)) = m[n + 1]
      /\ \A j \in 1..(n + 1) : m[j] = m[j - 1] + Len(t[j])
  BY <1>2, <1>3 DEF Measures
<1>6. 0 \in S
  BY <1>3, <1>4, <1>5
<1>7. ASSUME NEW j \in 1..n, j - 1 \in S PROVE j \in S
  <2> DEFINE a == l[j - 1]
             b == m[j - 1]
             c == m[j]
             d == m[j + 1]
             x == Len(s[j])
             y == Len(t[j])
             z == Len(t[j + 1])
  <2>1. j - 1 \in 0..n /\ j - 1 \in 0..(n + 1) /\ j \in 0..(n + 1) /\ j + 1 \in 1..(n + 1) /\ j \in 0..n
        /\ j + 1 \in 0..(n + 1) /\ j \in 1..(n + 1) /\ (j + 1) - 1 = j /\ (j - 1) + 1 = j
    BY <1>3
  <2>2. l[j] = a + x /\ c = b + y
    BY <1>4, <1>5, <2>1
  <2>3. d = c + z
    <3> DEFINE k == j + 1
    <3>1. k \in 1..(n + 1) /\ k - 1 = j
      BY <2>1
    <3>2. m[k] = m[k - 1] + Len(t[k])
      <4> HIDE DEF k
      <4> QED BY <1>5, <3>1
    <3> QED BY <3>1, <3>2
  <2>4. a \in Nat /\ b \in Nat /\ c \in Nat /\ d \in Nat
    BY <1>4, <1>5, <2>1
  <2>5. IF j - 1 < i THEN b = a ELSE c = a + 1
    BY <1>7, <2>1
  <2>6. x \in Nat /\ y \in Nat /\ z \in Nat
    <3>1. s[j] \in Seq(A) /\ t[j] \in Seq(A) /\ t[j + 1] \in Seq(A)
      BY <1>3, <2>1, ElementOfSeq
    <3> QED BY <3>1, LenProperties
  <2>7. (j < i => y = x) /\ (j = i => y + z = x + 1) /\ (j > i => z = x)
    BY DEF Parted
  <2> HIDE DEF a, b, c, d, x, y, z
  <2>8. IF j < i THEN c = a + x ELSE d = (a + x) + 1
    <3>1. CASE j < i
      BY <1>3, <2>2, <2>4, <2>5, <2>6, <2>7, <3>1
    <3>2. CASE j = i
      BY <1>3, <2>2, <2>3, <2>4, <2>5, <2>6, <2>7, <3>2
    <3>3. CASE j > i
      BY <1>3, <2>2, <2>3, <2>4, <2>5, <2>6, <2>7, <3>3
    <3> QED BY <1>3, <3>1, <3>2, <3>3
  <2> QED BY <2>1, <2>2, <2>8 DEF c, d
<1>8. n \in S
  <2> HIDE DEF S, n
  <2>1. \A j \in 0..n : j \in S
    BY <1>3, <1>6, <1>7, UpTo
  <2> QED BY <1>3, <2>1
<1>9. ~(n < i)
  BY <1>3
<1> QED BY <1>4, <1>5, <1>8, <1>9
=============================================================================
