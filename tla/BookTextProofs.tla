--------------------------- MODULE BookTextProofs ---------------------------
(***************************************************************************)
(* What the splitter of load_to_pg.py computes for every text.  Its loops  *)
(* are recursive functions; that they are total, and what they return,     *)
(* follows by induction on a position.                                     *)
(***************************************************************************)
EXTENDS BookInvariants, Induction

-----------------------------------------------------------------------------
(***************************************************************************)
(* Splitting a text.                                                       *)
(***************************************************************************)
\* str.strip takes a part of its text that is no longer than the text.
LEMMA TrimType ==
  ASSUME NEW S, NEW s \in Seq(S)
  PROVE  Trim(s) \in Seq(S) /\ Len(Trim(s)) <= Len(s)
<1> DEFINE words == {i \in DOMAIN s : IsWordChar(s[i])}
<1>1. Len(s) \in Nat /\ DOMAIN s = 1 .. Len(s) /\ \A i \in 1 .. Len(s) : s[i] \in S
  BY LenProperties, ElementOfSeq
<1>2. CASE words = {}
  <2>1. Trim(s) = <<>>
    BY <1>2 DEF Trim
  <2> QED BY <1>1, <2>1
<1>3. CASE words # {}
  <2>1. words \in SUBSET Nat /\ \A m \in words : m <= Len(s)
    BY <1>1
  <2>2. Min(words) \in words /\ Max(words) \in words
    BY <1>1, <1>3, <2>1, MinMaxDef
  <2>3. Min(words) \in 1 .. Len(s) /\ Max(words) \in 1 .. Len(s)
    BY <1>1, <2>2
  <2>4. Trim(s) = SubSeq(s, Min(words), Max(words))
    BY <1>3 DEF Trim
  <2> HIDE DEF words
  <2>5. PICK m, n \in 1 .. Len(s) : Trim(s) = SubSeq(s, m, n)
    BY <2>3, <2>4
  <2>6. m \in Int /\ n \in Int /\ \A i \in m .. n : s[i] \in S
    BY <1>1
  <2>7. /\ SubSeq(s, m, n) \in Seq(S)
        /\ Len(SubSeq(s, m, n)) = IF m <= n THEN n - m + 1 ELSE 0
    BY <2>6, SubSeqProperties
  <2> QED BY <1>1, <2>5, <2>7
<1> QED BY <1>2, <1>3

\* The blanks that are kept, one by one.
DenseStep(P, s) ==
  [z \in Seq(P) \X (1 .. Len(s)) |->
     IF z[2] = 1 \/ s[z[2]] # s[z[2] - 1] \/ IsWordChar(s[z[2]]) THEN Append(z[1], s[z[2]]) ELSE z[1]]

Squeezes(f, P, s) == IsRecursion(f, Seq(P), <<>>, Len(s), DenseStep(P, s))

LEMMA DenseStepType ==
  ASSUME NEW P, NEW s \in Seq(P)
  PROVE  DenseStep(P, s) \in [Seq(P) \X (1 .. Len(s)) -> Seq(P)]
<1>1. \A n \in 1 .. Len(s) : s[n] \in P
  BY ElementOfSeq
<1>2. ASSUME NEW z \in Seq(P) \X (1 .. Len(s))
      PROVE  (IF z[2] = 1 \/ s[z[2]] # s[z[2] - 1] \/ IsWordChar(s[z[2]])
              THEN Append(z[1], s[z[2]]) ELSE z[1]) \in Seq(P)
  <2>1. z[1] \in Seq(P) /\ s[z[2]] \in P
    BY <1>1
  <2> QED BY <2>1, AppendProperties
<1> QED BY <1>2 DEF DenseStep

LEMMA DenseStepAt ==
  ASSUME NEW P, NEW s, NEW x \in Seq(P), NEW n \in 1 .. Len(s)
  PROVE  DenseStep(P, s)[<<x, n>>] =
           IF n = 1 \/ s[n] # s[n - 1] \/ IsWordChar(s[n]) THEN Append(x, s[n]) ELSE x
BY DEF DenseStep

LEMMA DenseIs ==
  ASSUME NEW P, NEW s \in Seq(P)
  PROVE  \E f : Squeezes(f, P, s) /\ Dense(s) = f[Len(s)]
<1> DEFINE N == Len(s)
           G == DenseStep(P, s)
           E(f, n) == IF n = 0 THEN <<>>
                      ELSE IF n = 1 \/ s[n] # s[n - 1] \/ IsWordChar(s[n])
                           THEN Append(f[n - 1], s[n]) ELSE f[n - 1]
           F == CHOOSE f : f = [n \in 0 .. N |-> E(f, n)]
<1>1. N \in Nat /\ <<>> \in Seq(P)
  BY LenProperties, EmptySeq
<1>2. Dense(s) = F[N]
  BY DEF Dense
<1>3. /\ G \in [Seq(P) \X (1 .. N) -> Seq(P)]
      /\ \A x \in Seq(P), n \in 1 .. N : G[<<x, n>>] =
           IF n = 1 \/ s[n] # s[n - 1] \/ IsWordChar(s[n]) THEN Append(x, s[n]) ELSE x
  <2>1. G \in [Seq(P) \X (1 .. N) -> Seq(P)]
    BY DenseStepType
  <2> HIDE DEF G
  <2>2. ASSUME NEW x \in Seq(P), NEW n \in 1 .. N
        PROVE  G[<<x, n>>] =
                 IF n = 1 \/ s[n] # s[n - 1] \/ IsWordChar(s[n]) THEN Append(x, s[n]) ELSE x
    BY DenseStepAt DEF G
  <2> QED BY <2>1, <2>2
<1> HIDE DEF G, N
<1>4. PICK g : IsRecursion(g, Seq(P), <<>>, N, G)
  BY ONLY <1>1, <1>3, Recursion
<1>5. ASSUME NEW n \in 0 .. N PROVE g[n] = E(g, n)
  <2>1. CASE n = 0
    BY <1>4, <2>1 DEF IsRecursion
  <2>2. CASE n # 0
    <3>1. n \in 1 .. N /\ n - 1 \in 0 .. N
      BY <1>1, <2>2
    <3>2. g[n] = G[<<g[n - 1], n>>] /\ g[n - 1] \in Seq(P)
      BY <1>4, <3>1 DEF IsRecursion
    <3> QED BY <1>3, <2>2, <3>1, <3>2
  <2> QED BY <2>1, <2>2
<1>6. g = [n \in 0 .. N |-> E(g, n)]
  <2>1. g = [n \in 0 .. N |-> g[n]]
    BY <1>4 DEF IsRecursion
  <2> HIDE DEF E
  <2> QED BY <1>5, <2>1
<1>7. F = [n \in 0 .. N |-> E(F, n)]
  <2> HIDE DEF E
  <2> QED BY <1>6
<1> HIDE DEF F
<1>8. F = [n \in 0 .. N |-> F[n]]
  <2> HIDE DEF E
  <2>1. \A n \in 0 .. N : F[n] = E(F, n)
    BY <1>7
  <2> QED BY <1>7, <2>1
<1>9. \A n \in 0 .. N : F[n] = E(F, n)
  <2> HIDE DEF E
  <2> QED BY <1>7
<1>10. F[0] = <<>>
  BY <1>1, <1>9
<1>11. ASSUME NEW n \in 1 .. N, F[n - 1] \in Seq(P) PROVE F[n] = G[<<F[n - 1], n>>]
  <2>1. n \in 0 .. N /\ n # 0
    BY <1>1
  <2> QED BY <1>3, <1>9, <1>11, <2>1
<1>12. IsRecursion(F, Seq(P), <<>>, N, G)
  <2> DEFINE b == <<>>
             Q == Seq(P)
  <2> HIDE DEF E, b, Q
  <2>1. b \in Q /\ N \in Nat /\ G \in [Q \X (1 .. N) -> Q] /\ F[0] = b
    BY <1>1, <1>3, <1>10 DEF b, Q
  <2>2. \A n \in 1 .. N : F[n - 1] \in Q => F[n] = G[<<F[n - 1], n>>]
    BY <1>11 DEF Q
  <2>3. IsRecursion(F, Q, b, N, G)
    BY ONLY <1>8, <2>1, <2>2, GoesOn
  <2> QED BY <2>3 DEF b, Q
<1> QED BY <1>2, <1>12 DEF Squeezes, G, N

\* Squeezing blanks leaves a text, whatever the text was.
LEMMA DenseType ==
  ASSUME NEW P, NEW s \in Seq(P)
  PROVE  Dense(s) \in Seq(P) /\ Dense(<<>>) = <<>>
<1>1. ASSUME NEW t \in Seq(P)
      PROVE  Dense(t) \in Seq(P) /\ (Len(t) = 0 => Dense(t) = <<>>)
  <2>1. PICK f : Squeezes(f, P, t) /\ Dense(t) = f[Len(t)]
    BY DenseIs
  <2>2. Len(t) \in 0 .. Len(t)
    BY LenProperties
  <2> QED BY <2>1, <2>2 DEF Squeezes, IsRecursion
<1>2. <<>> \in Seq(P) /\ Len(<<>>) = 0
  BY EmptySeq
<1> QED BY <1>1, <1>2

LEMMA SqueezeType ==
  ASSUME NEW S, NEW s \in Seq(S)
  PROVE  Squeeze(s) \in Seq(S)
BY DenseType, TrimType DEF Squeeze

\* A character is dropped only if it repeats the blank before it.
LEMMA DenseMore ==
  ASSUME NEW P, NEW s \in Seq(P), NEW x \in P
  PROVE  Dense(Append(s, x)) =
           IF s = <<>> \/ x # s[Len(s)] \/ IsWordChar(x) THEN Append(Dense(s), x) ELSE Dense(s)
<1> DEFINE t == Append(s, x)
           N == Len(s)
<1>1. /\ t \in Seq(P) /\ Len(t) = N + 1 /\ N \in Nat
      /\ (\A i \in 1 .. N : t[i] = s[i]) /\ t[N + 1] = x
  BY AppendOf
<1> HIDE DEF t
<1>2. PICK f : Squeezes(f, P, s) /\ Dense(s) = f[N]
  BY DenseIs
<1>3. PICK g : Squeezes(g, P, t) /\ Dense(t) = g[N + 1]
  BY <1>1, DenseIs
<1>4. s = <<>> <=> N = 0
  BY EmptySeq
<1> HIDE DEF N
<1>5. IsRecursion(f, Seq(P), <<>>, N, DenseStep(P, s)) /\ N = Len(s)
  BY <1>2 DEF Squeezes, N
<1>6. IsRecursion(g, Seq(P), <<>>, N + 1, DenseStep(P, t))
  BY <1>1, <1>3 DEF Squeezes
<1>7. ASSUME NEW u \in Seq(P), NEW n \in 1 .. N
      PROVE  DenseStep(P, s)[<<u, n>>] = DenseStep(P, t)[<<u, n>>]
  <2>1. n \in 1 .. Len(s) /\ n \in 1 .. Len(t) /\ t[n] = s[n]
    BY <1>1, <1>5
  <2>2. n # 1 => t[n - 1] = s[n - 1]
    <3>1. n # 1 => n - 1 \in 1 .. N
      BY <1>1
    <3> QED BY <1>1, <3>1
  <2>3. DenseStep(P, s)[<<u, n>>] =
          IF n = 1 \/ s[n] # s[n - 1] \/ IsWordChar(s[n]) THEN Append(u, s[n]) ELSE u
    BY ONLY <2>1, u \in Seq(P), DenseStepAt
  <2>4. DenseStep(P, t)[<<u, n>>] =
          IF n = 1 \/ t[n] # t[n - 1] \/ IsWordChar(t[n]) THEN Append(u, t[n]) ELSE u
    BY ONLY <2>1, u \in Seq(P), DenseStepAt
  <2> QED BY <2>1, <2>2, <2>3, <2>4
<1>8. f[N] \in Seq(P) /\ g[N + 1] = DenseStep(P, t)[<<f[N], N + 1>>]
  <2> DEFINE b == <<>>
             Q == Seq(P)
             G == DenseStep(P, s)
             H == DenseStep(P, t)
             M == N + 1
  <2>1. /\ IsRecursion(f, Q, b, N, G) /\ IsRecursion(g, Q, b, M, H) /\ N \in Nat
        /\ M \in Nat /\ N < M /\ M <= N + 1
        /\ \A u \in Q, n \in 1 .. N : G[<<u, n>>] = H[<<u, n>>]
    BY <1>1, <1>5, <1>6, <1>7
  <2> HIDE DEF b, Q, G, H, M
  <2>2. f[N] \in Q /\ g[M] = H[<<f[N], M>>]
    BY ONLY <2>1, OneStepMore
  <2> QED BY <2>2 DEF Q, H, M
<1>9. DenseStep(P, t)[<<f[N], N + 1>>] =
        IF N + 1 = 1 \/ t[N + 1] # t[(N + 1) - 1] \/ IsWordChar(t[N + 1])
        THEN Append(f[N], t[N + 1]) ELSE f[N]
  <2>1. N + 1 \in 1 .. Len(t)
    BY <1>1
  <2> QED BY ONLY <1>8, <2>1, DenseStepAt
<1>10. (N + 1 = 1 <=> N = 0) /\ (N # 0 => t[(N + 1) - 1] = s[N])
  <2>1. N # 0 => N \in 1 .. N
    BY <1>1
  <2>2. (N + 1) - 1 = N /\ (N + 1 = 1 <=> N = 0)
    BY <1>1
  <2> QED BY <1>1, <2>1, <2>2
<1> QED BY <1>1, <1>2, <1>3, <1>4, <1>8, <1>9, <1>10 DEF t, N

\* A recursive function on places: an element for each place, and the next place.
ChainOf(f, n, e, next) ==
  [p \in 0 .. n |-> IF p = n THEN <<>> ELSE <<e[p]>> \o f[next[p]]]

\* The next place is a later one.
Onward(n, P, e, next) ==
  \A p \in 0 .. n - 1 : e[p] \in P /\ next[p] \in p + 1 .. n

\* A chain of places from p to n, with an element of q at each but the last.
Along(c, q, p, n, e, next) ==
  /\ Len(c) = Len(q) + 1 /\ c[1] = p /\ c[Len(c)] = n
  /\ \A i \in 1 .. Len(q) : c[i] < n /\ q[i] = e[c[i]] /\ c[i + 1] = next[c[i]]

\* A recursive function that always goes on to a later place is total.
LEMMA ChainTotal ==
  ASSUME NEW n \in Nat, NEW P, NEW e, NEW next, Onward(n, P, e, next)
  PROVE  \E f : f = ChainOf(f, n, e, next)
<1> DEFINE E(f, p) == IF p = n THEN <<>> ELSE <<e[p]>> \o f[next[p]]
<1> DEFINE T == {k \in Nat : \E f \in [0 .. n -> Seq(P)] :
                               \A p \in 0 .. n : p + k >= n => f[p] = E(f, p)}
<1>0. \A p \in 0 .. n - 1 : e[p] \in P /\ next[p] \in p + 1 .. n
  BY DEF Onward
<1>1. 0 \in T
  <2> DEFINE f == [p \in 0 .. n |-> <<>>]
  <2>1. f \in [0 .. n -> Seq(P)]
    OBVIOUS
  <2>2. ASSUME NEW p \in 0 .. n, p + 0 >= n PROVE f[p] = E(f, p)
    <3>1. p = n
      BY <2>2
    <3> QED BY <3>1
  <2> HIDE DEF f, E
  <2> QED BY <2>1, <2>2
<1>2. ASSUME NEW k \in Nat, k \in T PROVE k + 1 \in T
  <2>1. PICK f \in [0 .. n -> Seq(P)] : \A p \in 0 .. n : p + k >= n => f[p] = E(f, p)
    BY <1>2
  <2>2. CASE k >= n
    <3>1. ASSUME NEW p \in 0 .. n PROVE f[p] = E(f, p)
      <4>1. p + k >= n
        BY <2>2
      <4> QED BY <2>1, <4>1
    <3> HIDE DEF E
    <3> QED BY <3>1
  <2>3. CASE k < n
    <3>1. PICK r \in 0 .. n - 1 : r + k + 1 = n
      <4>1. n - (k + 1) \in 0 .. n - 1 /\ (n - (k + 1)) + k + 1 = n
        BY <2>3
      <4> QED BY <4>1
    <3> DEFINE g == [f EXCEPT ![r] = E(f, r)]
    <3>2. r \in 0 .. n /\ r # n /\ next[r] \in 0 .. n /\ next[r] # r /\ e[r] \in P
      <4>1. next[r] \in r + 1 .. n /\ e[r] \in P
        BY <1>0, <3>1
      <4> QED BY <3>1, <4>1
    <3>3. E(f, r) \in Seq(P)
      <4>1. f[next[r]] \in Seq(P) /\ <<e[r]>> \in Seq(P)
        BY <3>2
      <4> QED BY <3>2, <4>1
    <3>4. g \in [0 .. n -> Seq(P)]
      BY <3>2, <3>3
    <3>5. ASSUME NEW p \in 0 .. n, p + (k + 1) >= n PROVE g[p] = E(g, p)
      <4>1. CASE p = r
        <5>1. g[p] = E(f, r) /\ g[next[r]] = f[next[r]]
          BY <3>2, <4>1
        <5> HIDE DEF g
        <5> QED BY <4>1, <5>1
      <4>2. CASE p # r
        <5>1. p + k >= n
          BY <3>1, <3>5, <4>2
        <5>2. g[p] = f[p] /\ f[p] = E(f, p)
          BY <2>1, <3>2, <4>2, <5>1
        <5>3. CASE p = n
          BY <5>2, <5>3
        <5>4. CASE p # n
          <6>1. p \in 0 .. n - 1 /\ next[p] \in p + 1 .. n
            BY <1>0, <5>4
          <6>2. next[p] \in 0 .. n /\ next[p] # r
            BY <3>1, <5>1, <6>1
          <6>3. g[next[p]] = f[next[p]]
            BY <6>2
          <6> HIDE DEF g
          <6> QED BY <5>2, <5>4, <6>3
        <5> HIDE DEF g, E
        <5> QED BY <5>3, <5>4
      <4> HIDE DEF g, E
      <4> QED BY <4>1, <4>2
    <3> HIDE DEF g, E
    <3>6. \A p \in 0 .. n : p + (k + 1) >= n => g[p] = E(g, p)
      BY <3>5
    <3>7. \E h \in [0 .. n -> Seq(P)] : \A p \in 0 .. n : p + (k + 1) >= n => h[p] = E(h, p)
      BY <3>4, <3>6
    <3>8. k + 1 \in Nat
      OBVIOUS
    <3> QED BY <3>7, <3>8
  <2> HIDE DEF T
  <2> QED BY <2>2, <2>3
<1>3. n \in T
  <2> HIDE DEF T
  <2> QED BY <1>1, <1>2, NatInd
<1>4. PICK f \in [0 .. n -> Seq(P)] : \A p \in 0 .. n : p + n >= n => f[p] = E(f, p)
  BY <1>3
<1>5. ASSUME NEW p \in 0 .. n PROVE f[p] = E(f, p)
  <2>1. p + n >= n
    OBVIOUS
  <2> QED BY <1>4, <2>1
<1>6. f = [p \in 0 .. n |-> f[p]]
  OBVIOUS
<1>7. f = [p \in 0 .. n |-> E(f, p)]
  <2> HIDE DEF E
  <2> QED BY <1>5, <1>6
<1> QED BY <1>7 DEF ChainOf

\* An element in front of a sequence.
LEMMA PutFirst ==
  ASSUME NEW S, NEW x \in S, NEW s \in Seq(S)
  PROVE  /\ Len(<<x>> \o s) = 1 + Len(s) /\ (<<x>> \o s)[1] = x
         /\ \A i \in 2 .. Len(s) + 1 : (<<x>> \o s)[i] = s[i - 1]
<1>1. <<x>> \in Seq(S) /\ Len(<<x>>) = 1 /\ <<x>>[1] = x /\ Len(s) \in Nat
  BY LenProperties
<1>2. /\ Len(<<x>> \o s) = Len(<<x>>) + Len(s)
      /\ \A i \in 1 .. Len(<<x>>) + Len(s) : (<<x>> \o s)[i] =
           IF i <= Len(<<x>>) THEN <<x>>[i] ELSE s[i - Len(<<x>>)]
  BY <1>1, ConcatProperties
<1> DEFINE t == <<x>> \o s
<1> HIDE DEF t
<1>3. /\ Len(t) = 1 + Len(s)
      /\ \A i \in 1 .. 1 + Len(s) : t[i] = IF i <= 1 THEN x ELSE s[i - 1]
  BY <1>1, <1>2 DEF t
<1>4. ASSUME NEW i \in 2 .. Len(s) + 1 PROVE t[i] = s[i - 1]
  <2>1. i \in 1 .. 1 + Len(s) /\ ~(i <= 1)
    BY <1>1
  <2> QED BY <1>3, <2>1
<1>5. t[1] = x
  BY <1>1, <1>3
<1> QED BY <1>3, <1>4, <1>5 DEF t

\* What it returns is a sequence along a chain of places.
LEMMA ChainIs ==
  ASSUME NEW n \in Nat, NEW P, NEW e, NEW next, Onward(n, P, e, next),
         NEW f, f = ChainOf(f, n, e, next)
  PROVE  \A p \in 0 .. n :
           f[p] \in Seq(P) /\ \E c \in Seq(0 .. n) : Along(c, f[p], p, n, e, next)
<1> DEFINE Good(p) == f[p] \in Seq(P) /\ \E c \in Seq(0 .. n) : Along(c, f[p], p, n, e, next)
<1> DEFINE T == {k \in Nat : \A p \in 0 .. n : p + k >= n => Good(p)}
<1>0. \A p \in 0 .. n : f[p] = IF p = n THEN <<>> ELSE <<e[p]>> \o f[next[p]]
  BY DEF ChainOf
<1>1. Good(n)
  <2>0. n \in 0 .. n
    OBVIOUS
  <2>1. f[n] = <<>>
    BY <1>0, <2>0
  <2>2. <<n>> \in Seq(0 .. n)
    OBVIOUS
  <2>3. Along(<<n>>, <<>>, n, n, e, next)
    <3>1. Len(<<n>>) = 1 /\ Len(<<>>) = 0 /\ <<n>>[1] = n
      OBVIOUS
    <3> QED BY <3>1 DEF Along
  <2>4. <<>> \in Seq(P)
    OBVIOUS
  <2> QED BY <2>1, <2>2, <2>3, <2>4
<1>2. ASSUME NEW p \in 0 .. n - 1, Good(next[p]) PROVE Good(p)
  <2>1. p \in 0 .. n /\ p # n /\ p < n /\ next[p] \in 0 .. n /\ e[p] \in P
    <3>1. next[p] \in p + 1 .. n /\ e[p] \in P
      BY DEF Onward
    <3> QED BY <3>1
  <2>2. f[p] = <<e[p]>> \o f[next[p]]
    BY <1>0, <2>1
  <2>3. PICK c \in Seq(0 .. n) : Along(c, f[next[p]], next[p], n, e, next)
    BY <1>2
  <2> DEFINE q == f[next[p]]
  <2> DEFINE d == <<p>> \o c
  <2>4. q \in Seq(P) /\ <<e[p]>> \in Seq(P) /\ <<p>> \in Seq(0 .. n)
    BY <1>2, <2>1
  <2>5. f[p] \in Seq(P) /\ d \in Seq(0 .. n)
    BY <2>2, <2>4, ConcatProperties
  <2>6. /\ Len(f[p]) = 1 + Len(q) /\ f[p][1] = e[p]
        /\ \A i \in 2 .. Len(q) + 1 : f[p][i] = q[i - 1]
    <3> DEFINE t == <<e[p]>> \o q
    <3>1. f[p] = t
      BY <2>2
    <3> HIDE DEF q
    <3>2. Len(t) = 1 + Len(q) /\ t[1] = e[p] /\ \A i \in 2 .. Len(q) + 1 : t[i] = q[i - 1]
      BY <2>1, <2>4, PutFirst
    <3> HIDE DEF t
    <3> QED BY <3>1, <3>2
  <2>7. /\ Len(d) = 1 + Len(c) /\ d[1] = p
        /\ \A i \in 2 .. Len(c) + 1 : d[i] = c[i - 1]
    BY <2>1, PutFirst
  <2>8. /\ Len(c) = Len(q) + 1 /\ c[1] = next[p] /\ c[Len(c)] = n
        /\ \A i \in 1 .. Len(q) : c[i] < n /\ q[i] = e[c[i]] /\ c[i + 1] = next[c[i]]
    BY <2>3 DEF Along
  <2>9. Len(q) \in Nat /\ Len(c) \in Nat
    BY <2>4, LenProperties
  <2> HIDE DEF q, d
  <2>10. Len(d) = Len(f[p]) + 1 /\ d[Len(d)] = n
    <3>1. Len(c) + 1 \in 2 .. Len(c) + 1 /\ (Len(c) + 1) - 1 = Len(c)
      BY <2>8, <2>9
    <3>2. d[Len(c) + 1] = c[Len(c)]
      BY <2>7, <3>1
    <3> QED BY <2>6, <2>7, <2>8, <2>9, <3>2
  <2>11. ASSUME NEW i \in 1 .. Len(f[p])
         PROVE  d[i] < n /\ f[p][i] = e[d[i]] /\ d[i + 1] = next[d[i]]
    <3>1. CASE i = 1
      <4>1. 2 \in 2 .. Len(c) + 1 /\ d[2] = c[1]
        BY <2>7, <2>8, <2>9
      <4> QED BY <2>1, <2>6, <2>7, <2>8, <3>1, <4>1
    <3>2. CASE i # 1
      <4>1. i \in 2 .. Len(q) + 1 /\ i - 1 \in 1 .. Len(q)
        BY <2>6, <2>9, <3>2
      <4>2. i \in 2 .. Len(c) + 1 /\ i + 1 \in 2 .. Len(c) + 1 /\ (i + 1) - 1 = i /\ (i - 1) + 1 = i
        BY <2>8, <2>9, <4>1
      <4>3. f[p][i] = q[i - 1] /\ d[i] = c[i - 1] /\ d[i + 1] = c[i]
        BY <2>6, <2>7, <4>1, <4>2
      <4>4. c[i - 1] < n /\ q[i - 1] = e[c[i - 1]] /\ c[(i - 1) + 1] = next[c[i - 1]]
        BY <2>8, <4>1
      <4> QED BY <4>2, <4>3, <4>4
    <3> QED BY <3>1, <3>2
  <2>12. Along(d, f[p], p, n, e, next)
    BY <2>7, <2>10, <2>11 DEF Along
  <2> QED BY <2>5, <2>12
<1> HIDE DEF Good
<1>3. 0 \in T
  <2>1. ASSUME NEW p \in 0 .. n, p + 0 >= n PROVE Good(p)
    <3>1. p = n
      BY <2>1
    <3> QED BY <1>1, <3>1
  <2> QED BY <2>1
<1>4. ASSUME NEW k \in Nat, k \in T PROVE k + 1 \in T
  <2>1. ASSUME NEW p \in 0 .. n, p + (k + 1) >= n PROVE Good(p)
    <3>1. CASE p = n
      BY <1>1, <3>1
    <3>2. CASE p # n
      <4>1. p \in 0 .. n - 1 /\ next[p] \in p + 1 .. n
        BY <3>2 DEF Onward
      <4>2. next[p] \in 0 .. n /\ next[p] + k >= n
        BY <2>1, <4>1
      <4>3. Good(next[p])
        BY <1>4, <4>2
      <4> QED BY <1>2, <4>1, <4>3
    <3> QED BY <3>1, <3>2
  <2> QED BY <2>1
<1>5. n \in T
  <2> HIDE DEF T
  <2> QED BY <1>3, <1>4, NatInd
<1>6. ASSUME NEW p \in 0 .. n PROVE Good(p)
  <2>1. p + n >= n
    OBVIOUS
  <2> QED BY <1>5, <2>1
<1> QED BY <1>6 DEF Good

\* A chunk ends behind its beginning and is no longer than the chunk size; it
\* ends at a space, or has no space in its second half, or is the last one.
LEMMA ChunkEndIs ==
  ASSUME NEW S, NEW s \in Seq(S), NEW p \in 0 .. Len(s) - 1, NEW size \in Nat \ {0}
  PROVE  LET end == ChunkEnd(s, p, size)
         IN /\ end \in p + 1 .. Len(s) /\ end <= p + size
            /\ \/ end = Len(s) \/ s[end + 1] = "s"
               \/ /\ end = p + size
                  /\ \A b \in p + size \div 2 + 1 .. p + size - 1 : s[b + 1] # "s"
<1> DEFINE full == IF p + size < Len(s) THEN p + size ELSE Len(s)
<1> DEFINE found == {b \in p .. full - 1 : s[b + 1] = "s"}
<1> DEFINE bp == LastSpace(s, p, full)
<1>0. Len(s) \in Nat /\ p \in Nat /\ p < Len(s)
  BY LenProperties
<1>1. full \in p + 1 .. Len(s) /\ full <= p + size /\ (full < Len(s) => full = p + size)
  BY <1>0
<1>2. size \div 2 \in Nat
  OBVIOUS
<1>3. ChunkEnd(s, p, size) = IF full < Len(s) /\ bp > p + size \div 2 THEN bp ELSE full
  BY DEF ChunkEnd
<1>4. bp = IF found = {} THEN -1 ELSE Max(found)
  BY DEF LastSpace
<1>5. found = {} \/ (bp \in found /\ \A b \in found : b <= bp)
  <2> SUFFICES ASSUME found # {} PROVE bp \in found /\ \A b \in found : b <= bp
    OBVIOUS
  <2>1. found \in SUBSET Nat /\ full \in Nat /\ \A b \in found : b <= full
    BY <1>0, <1>1
  <2> HIDE DEF found, full, bp
  <2> QED BY <1>4, <2>1, MinMaxDef
<1>6. ASSUME found # {} PROVE bp \in p .. full - 1 /\ s[bp + 1] = "s"
  BY <1>5, <1>6
<1>7. ASSUME NEW b \in p + size \div 2 + 1 .. p + size - 1, full = p + size, ~(bp > p + size \div 2)
      PROVE  s[b + 1] # "s"
  <2>1. (b \in p .. full - 1 /\ ~(b <= bp)) \/ found = {}
    <3>1. b \in p .. full - 1
      BY <1>0, <1>2, <1>7
    <3>2. CASE found # {}
      <4>1. bp \in p .. full - 1
        BY <1>6, <3>2
      <4> HIDE DEF full, found, bp
      <4> QED BY <1>0, <1>1, <1>2, <1>7, <3>1, <4>1
    <3> QED BY <3>1, <3>2
  <2>2. b \in p .. full - 1
    BY <1>0, <1>2, <1>7
  <2>3. b \notin found
    <3> HIDE DEF full, bp
    <3> QED BY <1>5, <2>1
  <2> HIDE DEF full
  <2> QED BY <2>2, <2>3
<1> HIDE DEF full, found, bp
<1>8. CASE full < Len(s) /\ bp > p + size \div 2
  <2>1. found # {}
    BY <1>0, <1>2, <1>4, <1>8
  <2>2. bp \in p .. full - 1 /\ s[bp + 1] = "s"
    BY <1>6, <2>1
  <2>3. bp \in p + 1 .. Len(s) /\ bp <= p + size
    BY <1>0, <1>1, <1>2, <1>8, <2>2
  <2>4. ChunkEnd(s, p, size) = bp
    BY <1>3, <1>8
  <2> QED BY <2>2, <2>3, <2>4
<1>9. CASE ~(full < Len(s) /\ bp > p + size \div 2)
  <2>1. ChunkEnd(s, p, size) = full
    BY <1>3, <1>9
  <2>2. CASE full = Len(s)
    BY <1>1, <2>1, <2>2
  <2>3. CASE full # Len(s)
    <3>1. full < Len(s) /\ full = p + size /\ ~(bp > p + size \div 2)
      BY <1>0, <1>1, <1>9, <2>3
    <3>2. \A b \in p + size \div 2 + 1 .. p + size - 1 : s[b + 1] # "s"
      BY <1>7, <3>1
    <3> QED BY <1>1, <2>1, <3>2
  <2> QED BY <2>2, <2>3
<1> QED BY <1>8, <1>9

\* The places c at which the text s is cut into the chunks q.
CutAt(c, q, s, sections, size) ==
  /\ Len(c) = Len(q) + 1 /\ c[1] = 0 /\ c[Len(c)] = Len(s)
  /\ \A i \in 1 .. Len(q) :
       /\ c[i] < c[i + 1] /\ c[i + 1] <= c[i] + size
       /\ q[i] = Piece(s, sections, c[i], c[i + 1])
       /\ \/ c[i + 1] = Len(s) \/ s[c[i + 1] + 1] = "s"
          \/ /\ c[i + 1] = c[i] + size
             /\ \A b \in c[i] + size \div 2 + 1 .. c[i] + size - 1 : s[b + 1] # "s"

\* _split_text, for every text and chunk size: the chunks are what lies between
\* successive places of the text, from its beginning to its end; none is longer
\* than the chunk size, and one that does not end at a space has none in its
\* second half or is the last.
THEOREM SplitCuts ==
  ASSUME NEW book, book.text \in Seq(Chars), book.text # <<>>, NEW size \in Nat \ {0}
  PROVE  LET s == Squeeze(book.text)
         IN /\ \E P : SplitText(book, size) \in Seq(P)
            /\ \E c \in Seq(0 .. Len(s)) :
                 CutAt(c, SplitText(book, size), s, ParseChapters(book.found), size)
<1> DEFINE s == Squeeze(book.text)
<1> DEFINE n == Len(s)
<1> DEFINE sections == ParseChapters(book.found)
<1> DEFINE end(p) == ChunkEnd(s, p, size)
<1> DEFINE next == [p \in 0 .. n - 1 |-> end(p)]
<1> DEFINE e == [p \in 0 .. n - 1 |-> Piece(s, sections, p, end(p))]
<1> DEFINE P == {e[p] : p \in 0 .. n - 1}
<1> DEFINE From == CHOOSE f : f = [p \in 0 .. n |->
             IF p = n THEN <<>> ELSE <<Piece(s, sections, p, end(p))>> \o f[end(p)]]
<1>1. s \in Seq(Chars) /\ n \in Nat
  BY SqueezeType, LenProperties
<1>2. SplitText(book, size) = From[0]
  BY DEF SplitText, NextPos
<1> HIDE DEF s, sections
<1>3. ASSUME NEW p \in 0 .. n - 1
      PROVE  /\ end(p) \in p + 1 .. n /\ end(p) <= p + size
             /\ \/ end(p) = n \/ s[end(p) + 1] = "s"
                \/ /\ end(p) = p + size
                   /\ \A b \in p + size \div 2 + 1 .. p + size - 1 : s[b + 1] # "s"
  BY <1>1, ChunkEndIs
<1> HIDE DEF end
<1>4. Onward(n, P, e, next)
  <2>1. ASSUME NEW p \in 0 .. n - 1 PROVE e[p] \in P /\ next[p] \in p + 1 .. n
    BY <1>3
  <2> QED BY <2>1 DEF Onward
<1>5. ASSUME NEW f
      PROVE  ChainOf(f, n, e, next) = [p \in 0 .. n |->
               IF p = n THEN <<>> ELSE <<Piece(s, sections, p, end(p))>> \o f[end(p)]]
  <2>1. ASSUME NEW p \in 0 .. n, p # n
        PROVE  e[p] = Piece(s, sections, p, end(p)) /\ next[p] = end(p)
    <3>1. p \in 0 .. n - 1
      BY <1>1, <2>1
    <3> QED BY <3>1
  <2> HIDE DEF e, next
  <2> QED BY <2>1 DEF ChainOf
<1>6. From = CHOOSE f : f = ChainOf(f, n, e, next)
  BY <1>5
<1> HIDE DEF From, e, next, P, n
<1>7. \E f : f = ChainOf(f, n, e, next)
  BY <1>1, <1>4, ChainTotal
<1>8. From = ChainOf(From, n, e, next)
  BY <1>6, <1>7
<1>9. /\ 0 \in 0 .. n
      /\ \A p \in 0 .. n :
           From[p] \in Seq(P) /\ \E c \in Seq(0 .. n) : Along(c, From[p], p, n, e, next)
  BY <1>1, <1>4, <1>8, ChainIs
<1>10. PICK c \in Seq(0 .. n) : Along(c, From[0], 0, n, e, next)
  BY <1>9
<1>11. CutAt(c, From[0], s, sections, size)
  <2>1. Len(c) = Len(From[0]) + 1 /\ c[1] = 0 /\ c[Len(c)] = n
    BY <1>10 DEF Along
  <2>2. ASSUME NEW i \in 1 .. Len(From[0])
        PROVE  /\ c[i] < c[i + 1] /\ c[i + 1] <= c[i] + size
               /\ From[0][i] = Piece(s, sections, c[i], c[i + 1])
               /\ \/ c[i + 1] = n \/ s[c[i + 1] + 1] = "s"
                  \/ /\ c[i + 1] = c[i] + size
                     /\ \A b \in c[i] + size \div 2 + 1 .. c[i] + size - 1 : s[b + 1] # "s"
    <3>1. c[i] < n /\ From[0][i] = e[c[i]] /\ c[i + 1] = next[c[i]]
      BY <1>10 DEF Along
    <3>2. Len(c) \in Nat /\ i \in 1 .. Len(c)
      BY <2>1, LenProperties
    <3>3. c[i] \in 0 .. n
      BY <3>2, ElementOfSeq
    <3>4. PICK p \in 0 .. n - 1 : p = c[i]
      BY <1>1, <3>1, <3>3
    <3>5. e[p] = Piece(s, sections, p, end(p)) /\ next[p] = end(p)
      BY DEF e, next
    <3>6. c[i + 1] = end(p) /\ From[0][i] = Piece(s, sections, p, end(p))
      BY <3>1, <3>4, <3>5
    <3>7. end(p) \in p + 1 .. n /\ p < end(p)
      BY <1>1, <1>3
    <3> QED BY <1>3, <3>4, <3>6, <3>7
  <2> QED BY <2>1, <2>2 DEF CutAt, n
<1>12. From[0] \in Seq(P)
  BY <1>9
<1> QED BY <1>2, <1>10, <1>11, <1>12 DEF s, sections, n

\* README.md of utils, the chunks of --chunk-size: no chunk of any book is
\* longer than that, and all are texts.
Bodies(size) == {body \in Seq(Chars) : Len(body) <= size}

THEOREM ChunksFit ==
  ASSUME NEW book, book.text \in Seq(Chars), NEW size \in Nat \ {0}
  PROVE  /\ \E P : SplitText(book, size) \in Seq(P)
         /\ \A i \in DOMAIN SplitText(book, size) : SplitText(book, size)[i].body \in Bodies(size)
<1>1. CASE book.text = <<>>
  <2>1. SplitText(book, size) = <<[body |-> <<>>, chapter |-> NoNumber]>>
    BY <1>1 DEF SplitText
  <2>2. [body |-> <<>>, chapter |-> NoNumber] \in [body: {<<>>}, chapter: {NoNumber}]
    OBVIOUS
  <2>3. <<>> \in Bodies(size)
    BY DEF Bodies
  <2> DEFINE r == [body |-> <<>>, chapter |-> NoNumber]
  <2>4. r.body = <<>>
    OBVIOUS
  <2> HIDE DEF r
  <2>5. <<r>> \in Seq({r}) /\ DOMAIN <<r>> = {1} /\ <<r>>[1] = r
    OBVIOUS
  <2>6. SplitText(book, size) = <<r>>
    BY <2>1 DEF r
  <2>7. \A i \in DOMAIN <<r>> : <<r>>[i].body \in Bodies(size)
    BY <2>3, <2>4, <2>5
  <2>8. \E P : SplitText(book, size) \in Seq(P)
    BY <2>5, <2>6
  <2> QED BY <2>6, <2>7, <2>8
<1>2. CASE book.text # <<>>
  <2> DEFINE s == Squeeze(book.text)
  <2> DEFINE q == SplitText(book, size)
  <2> DEFINE sections == ParseChapters(book.found)
  <2>1. s \in Seq(Chars) /\ Len(s) \in Nat
    BY SqueezeType, LenProperties
  <2>2. /\ \E P : q \in Seq(P)
        /\ \E c \in Seq(0 .. Len(s)) : CutAt(c, q, s, sections, size)
    BY <1>2, SplitCuts
  <2> HIDE DEF s, q, sections
  <2>3. PICK P : q \in Seq(P)
    BY <2>2
  <2>4. PICK c \in Seq(0 .. Len(s)) : CutAt(c, q, s, sections, size)
    BY <2>2
  <2>5. DOMAIN q = 1 .. Len(q) /\ Len(q) \in Nat
    BY <2>3, LenProperties
  <2>6. ASSUME NEW i \in 1 .. Len(q) PROVE q[i].body \in Bodies(size)
    <3>1. /\ c[i] < c[i + 1] /\ c[i + 1] <= c[i] + size
          /\ q[i] = Piece(s, sections, c[i], c[i + 1]) /\ Len(c) = Len(q) + 1
      BY <2>4 DEF CutAt
    <3>2. i \in 1 .. Len(c) /\ i + 1 \in 1 .. Len(c)
      BY <2>5, <3>1
    <3>3. c[i] \in 0 .. Len(s) /\ c[i + 1] \in 0 .. Len(s)
      BY <3>2, ElementOfSeq
    <3>4. PICK m, n \in 0 .. Len(s) : m = c[i] /\ n = c[i + 1]
      BY <3>3
    <3>5. m < n /\ n <= m + size /\ q[i].body = Trim(SubSeq(s, m + 1, n))
      BY <3>1, <3>4 DEF Piece
    <3>6. \A k \in m + 1 .. n : s[k] \in Chars
      BY <2>1, ElementOfSeq
    <3>7. /\ SubSeq(s, m + 1, n) \in Seq(Chars)
          /\ Len(SubSeq(s, m + 1, n)) = IF m + 1 <= n THEN n - (m + 1) + 1 ELSE 0
      BY <2>1, <3>6, SubSeqProperties
    <3>8. /\ Trim(SubSeq(s, m + 1, n)) \in Seq(Chars)
          /\ Len(Trim(SubSeq(s, m + 1, n))) <= Len(SubSeq(s, m + 1, n))
      BY <3>7, TrimType
    <3>9. Len(Trim(SubSeq(s, m + 1, n))) \in Nat
      BY <3>8, LenProperties
    <3>10. Len(Trim(SubSeq(s, m + 1, n))) <= size
      BY <2>1, <3>5, <3>7, <3>8, <3>9
    <3> QED BY <3>5, <3>8, <3>10 DEF Bodies
  <2> QED BY <2>3, <2>5, <2>6 DEF q
<1> QED BY <1>1, <1>2

-----------------------------------------------------------------------------
(***************************************************************************)
(* The members of a set in a sequence.                                     *)
(***************************************************************************)
\* f picks the members of S from the sequence s of members of P.
OnlyStep(P, S, s) ==
  [z \in Seq(P) \X (1 .. Len(s)) |-> IF s[z[2]] \in S THEN Append(z[1], s[z[2]]) ELSE z[1]]

Picks(f, P, S, s) == IsRecursion(f, Seq(P), <<>>, Len(s), OnlyStep(P, S, s))

LEMMA OnlyStepType ==
  ASSUME NEW P, NEW S, NEW s \in Seq(P)
  PROVE  OnlyStep(P, S, s) \in [Seq(P) \X (1 .. Len(s)) -> Seq(P)]
<1>1. \A n \in 1 .. Len(s) : s[n] \in P
  BY ElementOfSeq
<1>2. ASSUME NEW z \in Seq(P) \X (1 .. Len(s))
      PROVE  (IF s[z[2]] \in S THEN Append(z[1], s[z[2]]) ELSE z[1]) \in Seq(P)
  <2>1. z[1] \in Seq(P) /\ s[z[2]] \in P
    BY <1>1
  <2> QED BY <2>1, AppendProperties
<1> QED BY <1>2 DEF OnlyStep

LEMMA OnlyStepAt ==
  ASSUME NEW P, NEW S, NEW s, NEW x \in Seq(P), NEW n \in 1 .. Len(s)
  PROVE  OnlyStep(P, S, s)[<<x, n>>] = IF s[n] \in S THEN Append(x, s[n]) ELSE x
BY DEF OnlyStep

LEMMA OnlyIs ==
  ASSUME NEW P, NEW S, NEW s \in Seq(P)
  PROVE  \E f : Picks(f, P, S, s) /\ Only(S, s) = f[Len(s)]
<1> DEFINE N == Len(s)
           G == OnlyStep(P, S, s)
           E(f, n) == IF n = 0 THEN <<>>
                      ELSE IF s[n] \in S THEN Append(f[n - 1], s[n]) ELSE f[n - 1]
           F == CHOOSE f : f = [n \in 0 .. N |-> E(f, n)]
<1>1. N \in Nat /\ <<>> \in Seq(P)
  BY LenProperties, EmptySeq
<1>2. Only(S, s) = F[N]
  BY DEF Only
<1>3. /\ G \in [Seq(P) \X (1 .. N) -> Seq(P)]
      /\ \A x \in Seq(P), n \in 1 .. N : G[<<x, n>>] = IF s[n] \in S THEN Append(x, s[n]) ELSE x
  <2>1. G \in [Seq(P) \X (1 .. N) -> Seq(P)]
    BY OnlyStepType
  <2> HIDE DEF G
  <2>2. ASSUME NEW x \in Seq(P), NEW n \in 1 .. N
        PROVE  G[<<x, n>>] = IF s[n] \in S THEN Append(x, s[n]) ELSE x
    BY OnlyStepAt DEF G
  <2> QED BY <2>1, <2>2
<1> HIDE DEF G, N
<1>4. PICK g : IsRecursion(g, Seq(P), <<>>, N, G)
  BY ONLY <1>1, <1>3, Recursion
<1>5. ASSUME NEW n \in 0 .. N PROVE g[n] = E(g, n)
  <2>1. CASE n = 0
    BY <1>4, <2>1 DEF IsRecursion
  <2>2. CASE n # 0
    <3>1. n \in 1 .. N /\ n - 1 \in 0 .. N
      BY <1>1, <2>2
    <3>2. g[n] = G[<<g[n - 1], n>>] /\ g[n - 1] \in Seq(P)
      BY <1>4, <3>1 DEF IsRecursion
    <3> QED BY <1>3, <2>2, <3>1, <3>2
  <2> QED BY <2>1, <2>2
<1>6. g = [n \in 0 .. N |-> E(g, n)]
  <2>1. g = [n \in 0 .. N |-> g[n]]
    BY <1>4 DEF IsRecursion
  <2> HIDE DEF E
  <2> QED BY <1>5, <2>1
<1>7. F = [n \in 0 .. N |-> E(F, n)]
  <2> HIDE DEF E
  <2> QED BY <1>6
<1> HIDE DEF F
<1>8. F = [n \in 0 .. N |-> F[n]]
  <2> HIDE DEF E
  <2>1. \A n \in 0 .. N : F[n] = E(F, n)
    BY <1>7
  <2> QED BY <1>7, <2>1
<1>9. \A n \in 0 .. N : F[n] = E(F, n)
  <2> HIDE DEF E
  <2> QED BY <1>7
<1>10. F[0] = <<>>
  BY <1>1, <1>9
<1>11. ASSUME NEW n \in 1 .. N, F[n - 1] \in Seq(P) PROVE F[n] = G[<<F[n - 1], n>>]
  <2>1. n \in 0 .. N /\ n # 0
    BY <1>1
  <2> QED BY <1>3, <1>9, <1>11, <2>1
<1>12. IsRecursion(F, Seq(P), <<>>, N, G)
  <2> DEFINE b == <<>>
             Q == Seq(P)
  <2> HIDE DEF E, b, Q
  <2>1. b \in Q /\ N \in Nat /\ G \in [Q \X (1 .. N) -> Q] /\ F[0] = b
    BY <1>1, <1>3, <1>10 DEF b, Q
  <2>2. \A n \in 1 .. N : F[n - 1] \in Q => F[n] = G[<<F[n - 1], n>>]
    BY <1>11 DEF Q
  <2>3. IsRecursion(F, Q, b, N, G)
    BY ONLY <1>8, <2>1, <2>2, GoesOn
  <2> QED BY <2>3 DEF b, Q
<1> QED BY <1>2, <1>12 DEF Picks, G, N

LEMMA OnlyType ==
  ASSUME NEW P, NEW S, NEW s \in Seq(P)
  PROVE  Only(S, s) \in Seq(P) /\ Only(S, <<>>) = <<>>
<1>1. ASSUME NEW t \in Seq(P)
      PROVE  Only(S, t) \in Seq(P) /\ (Len(t) = 0 => Only(S, t) = <<>>)
  <2>1. PICK f : Picks(f, P, S, t) /\ Only(S, t) = f[Len(t)]
    BY OnlyIs
  <2>2. Len(t) \in 0 .. Len(t)
    BY LenProperties
  <2> QED BY <2>1, <2>2 DEF Picks, IsRecursion
<1>2. <<>> \in Seq(P) /\ Len(<<>>) = 0
  BY EmptySeq
<1> QED BY <1>1, <1>2

\* One element more.
LEMMA OnlyMore ==
  ASSUME NEW P, NEW S, NEW s \in Seq(P), NEW x \in P
  PROVE  Only(S, Append(s, x)) = IF x \in S THEN Append(Only(S, s), x) ELSE Only(S, s)
<1> DEFINE t == Append(s, x)
           N == Len(s)
<1>1. /\ t \in Seq(P) /\ Len(t) = N + 1 /\ N \in Nat
      /\ (\A i \in 1 .. N : t[i] = s[i]) /\ t[N + 1] = x
  BY AppendOf
<1> HIDE DEF t
<1>2. PICK f : Picks(f, P, S, s) /\ Only(S, s) = f[N]
  BY OnlyIs
<1>3. PICK g : Picks(g, P, S, t) /\ Only(S, t) = g[N + 1]
  BY <1>1, OnlyIs
<1> HIDE DEF N
<1>4. IsRecursion(f, Seq(P), <<>>, N, OnlyStep(P, S, s)) /\ N = Len(s)
  BY <1>2 DEF Picks, N
<1>5. IsRecursion(g, Seq(P), <<>>, N + 1, OnlyStep(P, S, t))
  BY <1>1, <1>3 DEF Picks
<1>6. \A u \in Seq(P), n \in 1 .. N : OnlyStep(P, S, s)[<<u, n>>] = OnlyStep(P, S, t)[<<u, n>>]
  <2>1. ASSUME NEW u \in Seq(P), NEW n \in 1 .. N
        PROVE  OnlyStep(P, S, s)[<<u, n>>] = OnlyStep(P, S, t)[<<u, n>>]
    <3>1. n \in 1 .. Len(s) /\ n \in 1 .. Len(t) /\ t[n] = s[n]
      BY <1>1, <1>4
    <3>2. OnlyStep(P, S, s)[<<u, n>>] = IF s[n] \in S THEN Append(u, s[n]) ELSE u
      BY ONLY <3>1, u \in Seq(P), OnlyStepAt
    <3>3. OnlyStep(P, S, t)[<<u, n>>] = IF t[n] \in S THEN Append(u, t[n]) ELSE u
      BY ONLY <3>1, u \in Seq(P), OnlyStepAt
    <3> QED BY <3>1, <3>2, <3>3
  <2> QED BY <2>1
<1>7. f[N] \in Seq(P) /\ g[N + 1] = OnlyStep(P, S, t)[<<f[N], N + 1>>]
  <2> DEFINE b == <<>>
             Q == Seq(P)
             G == OnlyStep(P, S, s)
             H == OnlyStep(P, S, t)
             M == N + 1
  <2>1. /\ IsRecursion(f, Q, b, N, G) /\ IsRecursion(g, Q, b, M, H) /\ N \in Nat
        /\ M \in Nat /\ N < M /\ M <= N + 1
        /\ \A u \in Q, n \in 1 .. N : G[<<u, n>>] = H[<<u, n>>]
    BY <1>1, <1>4, <1>5, <1>6
  <2> HIDE DEF b, Q, G, H, M
  <2>2. f[N] \in Q /\ g[M] = H[<<f[N], M>>]
    BY ONLY <2>1, OneStepMore
  <2> QED BY <2>2 DEF Q, H, M
<1>8. OnlyStep(P, S, t)[<<f[N], N + 1>>] = IF t[N + 1] \in S THEN Append(f[N], t[N + 1]) ELSE f[N]
  <2>1. N + 1 \in 1 .. Len(t)
    BY <1>1
  <2> QED BY ONLY <1>7, <2>1, OnlyStepAt
<1> QED BY <1>1, <1>2, <1>3, <1>7, <1>8 DEF t

LEMMA OnlyConcat ==
  ASSUME NEW P, NEW S, NEW s \in Seq(P), NEW t \in Seq(P)
  PROVE  Only(S, s \o t) = Only(S, s) \o Only(S, t)
<1> DEFINE T == {u \in Seq(P) : Only(S, s \o u) = Only(S, s) \o Only(S, u)}
<1>1. <<>> \in T
  <2>1. s \o <<>> = s /\ Only(S, <<>>) = <<>> /\ Only(S, s) \in Seq(P) /\ <<>> \in Seq(P)
    BY ConcatEmptySeq, OnlyType, EmptySeq
  <2> QED BY <2>1, ConcatEmptySeq
<1>2. ASSUME NEW u \in Seq(P), NEW x \in P, u \in T PROVE Append(u, x) \in T
  <2> DEFINE w == s \o u
  <2>1. /\ Append(u, x) \in Seq(P) /\ w \in Seq(P)
        /\ Only(S, s) \in Seq(P) /\ Only(S, u) \in Seq(P)
    BY AppendOf, ConcatProperties, OnlyType
  <2>2. s \o Append(u, x) = Append(w, x)
    BY ConcatAppend
  <2>3. Only(S, w) = Only(S, s) \o Only(S, u)
    BY <1>2
  <2> HIDE DEF w
  <2>4. Only(S, s) \o Append(Only(S, u), x) = Append(Only(S, s) \o Only(S, u), x)
    BY <2>1, ConcatAppend
  <2>5. CASE x \in S
    <3>1. Only(S, Append(u, x)) = Append(Only(S, u), x)
      BY <2>5, OnlyMore
    <3>2. Only(S, Append(w, x)) = Append(Only(S, w), x)
      BY <2>1, <2>5, OnlyMore
    <3> QED BY <2>1, <2>2, <2>3, <2>4, <3>1, <3>2
  <2>6. CASE x \notin S
    <3>1. Only(S, Append(u, x)) = Only(S, u)
      BY <2>6, OnlyMore
    <3>2. Only(S, Append(w, x)) = Only(S, w)
      BY <2>1, <2>6, OnlyMore
    <3> QED BY <2>1, <2>2, <2>3, <3>1, <3>2
  <2> QED BY <2>5, <2>6
<1>3. Seq(P) \subseteq T
  <2> HIDE DEF T
  <2> QED BY <1>1, <1>2, SeqInd
<1> QED BY <1>3

\* What has no members of S, and what has no others.
LEMMA OnlyNoneAll ==
  ASSUME NEW P, NEW S, NEW s \in Seq(P)
  PROVE  /\ (\A i \in 1 .. Len(s) : s[i] \notin S) => Only(S, s) = <<>>
         /\ (\A i \in 1 .. Len(s) : s[i] \in S) => Only(S, s) = s
<1> DEFINE None(u) == (\A i \in 1 .. Len(u) : u[i] \notin S) => Only(S, u) = <<>>
           All(u) == (\A i \in 1 .. Len(u) : u[i] \in S) => Only(S, u) = u
           T == {u \in Seq(P) : None(u) /\ All(u)}
<1>1. <<>> \in T
  <2>1. Only(S, <<>>) = <<>> /\ <<>> \in Seq(P)
    BY OnlyType, EmptySeq
  <2> QED BY <2>1
<1>2. ASSUME NEW u \in Seq(P), NEW x \in P, u \in T PROVE Append(u, x) \in T
  <2> DEFINE v == Append(u, x)
             n == Len(u)
  <2>1. /\ v \in Seq(P) /\ Len(v) = n + 1 /\ n \in Nat
        /\ (\A i \in 1 .. n : v[i] = u[i]) /\ v[n + 1] = x
    BY AppendOf
  <2>2. Only(S, v) = IF x \in S THEN Append(Only(S, u), x) ELSE Only(S, u)
    BY OnlyMore
  <2>3. n + 1 \in 1 .. Len(v) /\ \A i \in 1 .. n : i \in 1 .. Len(v)
    BY <2>1
  <2>4. None(u) /\ All(u)
    BY <1>2
  <2> HIDE DEF v
  <2>5. None(v)
    BY <2>1, <2>2, <2>3, <2>4
  <2>6. All(v)
    <3> SUFFICES ASSUME \A i \in 1 .. Len(v) : v[i] \in S PROVE Only(S, v) = v
      OBVIOUS
    <3>1. x \in S /\ Only(S, u) = u
      BY <2>1, <2>3, <2>4
    <3> QED BY <2>2, <3>1 DEF v
  <2> QED BY <2>1, <2>5, <2>6 DEF v
<1>3. Seq(P) \subseteq T
  <2> HIDE DEF T
  <2> QED BY <1>1, <1>2, SeqInd
<1> QED BY <1>3

-----------------------------------------------------------------------------
(***************************************************************************)
(* The words of a text, before and after it is trimmed.                    *)
(***************************************************************************)
Marks == Chars \cup {"W"}
AllBlank(s) == \A i \in 1 .. Len(s) : ~IsWordChar(s[i])

\* str.strip only takes blanks away.
LEMMA TrimIs ==
  ASSUME NEW P, NEW s \in Seq(P)
  PROVE  \E x, y \in Seq(P) : AllBlank(x) /\ AllBlank(y) /\ s = (x \o Trim(s)) \o y
<1> DEFINE words == {i \in DOMAIN s : IsWordChar(s[i])}
           n == Len(s)
<1>1. n \in Nat /\ DOMAIN s = 1 .. n /\ \A i \in 1 .. n : s[i] \in P
  BY LenProperties, ElementOfSeq
<1>2. CASE words = {}
  <2>1. Trim(s) = <<>> /\ <<>> \in Seq(P) /\ AllBlank(<<>>)
    BY <1>2 DEF Trim, AllBlank
  <2>2. AllBlank(s)
    BY <1>1, <1>2 DEF AllBlank
  <2>3. s = (s \o <<>>) \o <<>>
    BY ConcatEmptySeq
  <2> QED BY <2>1, <2>2, <2>3
<1>3. CASE words # {}
  <2>1. words \in SUBSET Nat /\ \A i \in words : i <= n
    BY <1>1
  <2>2. /\ Min(words) \in words /\ \A i \in words : Min(words) <= i
        /\ Max(words) \in words /\ \A i \in words : i <= Max(words)
    BY <1>1, <1>3, <2>1, MinMaxDef
  <2>3. Trim(s) = SubSeq(s, Min(words), Max(words))
    BY <1>3 DEF Trim
  <2>4. PICK a, b \in words : /\ Trim(s) = SubSeq(s, a, b)
                              /\ \A i \in words : a <= i /\ i <= b
    BY <2>2, <2>3
  <2>5. /\ a \in 1 .. n /\ b \in 1 .. n /\ a <= b
        /\ \A i \in 1 .. a - 1 : ~IsWordChar(s[i])
        /\ \A i \in b + 1 .. n : ~IsWordChar(s[i])
    <3>1. a \in 1 .. n /\ b \in 1 .. n /\ a <= b
      BY <1>1, <2>4
    <3>2. ASSUME NEW i \in 1 .. n, i < a \/ b < i PROVE ~IsWordChar(s[i])
      <4>1. i \notin words
        BY <2>4, <3>1, <3>2
      <4> QED BY <1>1, <4>1
    <3>3. /\ \A i \in 1 .. a - 1 : i \in 1 .. n /\ i < a
          /\ \A i \in b + 1 .. n : i \in 1 .. n /\ b < i
      BY <1>1, <3>1
    <3> QED BY <3>1, <3>2, <3>3
  <2> HIDE DEF words
  <2> DEFINE x == SubSeq(s, 1, a - 1)
             y == SubSeq(s, b + 1, n)
  <2>6. /\ x \in Seq(P) /\ Len(x) = a - 1 /\ \A i \in 1 .. a - 1 : x[i] = s[i]
    <3>1. a - 1 \in Int /\ 1 \in Int /\ \A i \in 1 .. a - 1 : s[i] \in P
      BY <1>1, <2>5
    <3>2. /\ x \in Seq(P) /\ Len(x) = IF 1 <= a - 1 THEN (a - 1) - 1 + 1 ELSE 0
          /\ \A i \in 1 .. (a - 1) - 1 + 1 : x[i] = s[1 + i - 1]
      BY <3>1, SubSeqProperties
    <3> HIDE DEF x
    <3> QED BY <2>5, <3>2
  <2>7. /\ y \in Seq(P) /\ Len(y) = n - b /\ \A i \in 1 .. n - b : y[i] = s[b + i]
    <3>1. b + 1 \in Int /\ n \in Int /\ \A i \in b + 1 .. n : s[i] \in P
      BY <1>1, <2>5
    <3>2. /\ y \in Seq(P) /\ Len(y) = IF b + 1 <= n THEN n - (b + 1) + 1 ELSE 0
          /\ \A i \in 1 .. n - (b + 1) + 1 : y[i] = s[(b + 1) + i - 1]
      BY <3>1, SubSeqProperties
    <3> HIDE DEF y
    <3>3. \A i \in 1 .. n - b : i \in 1 .. n - (b + 1) + 1 /\ (b + 1) + i - 1 = b + i
      BY <1>1, <2>5
    <3>4. Len(y) = n - b
      <4>1. n \in Int /\ b \in Int /\ b <= n
        BY <1>1, <2>5
      <4>2. CASE b + 1 <= n
        BY ONLY <3>2, <4>1, <4>2
      <4>3. CASE ~(b + 1 <= n)
        <5>1. n - b = 0
          BY ONLY <4>1, <4>3
        <5> QED BY ONLY <3>2, <4>3, <5>1
      <4> QED BY <4>2, <4>3
    <3>5. ASSUME NEW i \in 1 .. n - b PROVE y[i] = s[b + i]
      BY <3>2, <3>3
    <3> QED BY <3>2, <3>4, <3>5
  <2>8. AllBlank(x)
    <3> HIDE DEF x
    <3> QED BY <2>5, <2>6 DEF AllBlank
  <2>9. AllBlank(y)
    <3> HIDE DEF y
    <3>1. ASSUME NEW i \in 1 .. n - b PROVE ~IsWordChar(y[i])
      <4>1. b + i \in b + 1 .. n
        BY <1>1, <2>5
      <4> QED BY <2>5, <2>7, <4>1
    <3> QED BY <2>7, <3>1 DEF AllBlank
  <2>10. s = (x \o SubSeq(s, a, b)) \o y
    <3>1. x \o SubSeq(s, (a - 1) + 1, b) = SubSeq(s, 1, b)
      <4>1. 1 \in 1 .. Len(s) + 1 /\ a - 1 \in 1 - 1 .. Len(s) /\ b \in a - 1 .. Len(s)
        BY <1>1, <2>5
      <4> QED BY ONLY <4>1, s \in Seq(P), ConcatAdjacentSubSeq
    <3>2. SubSeq(s, 1, b) \o y = SubSeq(s, 1, n)
      <4>1. 1 \in 1 .. Len(s) + 1 /\ b \in 1 - 1 .. Len(s) /\ n \in b .. Len(s)
        BY <1>1, <2>5
      <4> QED BY ONLY <4>1, s \in Seq(P), ConcatAdjacentSubSeq
    <3>3. (a - 1) + 1 = a /\ SubSeq(s, 1, n) = s
      BY <2>5, SubSeqFull
    <3> HIDE DEF x, y
    <3> QED BY <3>1, <3>2, <3>3
  <2> HIDE DEF x, y
  <2> QED BY <2>4, <2>6, <2>7, <2>8, <2>9, <2>10
<1> QED BY <1>2, <1>3

LEMMA WordsType ==
  ASSUME NEW s \in Seq(Marks)
  PROVE  /\ Words(s) \in Seq(Marks) /\ Words(<<>>) = <<>>
         /\ AllBlank(s) => Words(s) = <<>>
         /\ \A t \in Seq(Marks) : Words(s \o t) = Words(s) \o Words(t)
<1>1. Words(s) \in Seq(Marks) /\ Words(<<>>) = <<>>
  BY OnlyType DEF Words
<1>2. ASSUME AllBlank(s) PROVE Words(s) = <<>>
  <2>1. \A i \in 1 .. Len(s) : s[i] \notin {"w", "W"}
    BY <1>2 DEF AllBlank, IsWordChar, Blank
  <2> QED BY <2>1, OnlyNoneAll DEF Words
<1>3. ASSUME NEW t \in Seq(Marks) PROVE Words(s \o t) = Words(s) \o Words(t)
  BY OnlyConcat DEF Words
<1> QED BY <1>1, <1>2, <1>3

\* What stands between blanks has all the words.
LEMMA WordsBetween ==
  ASSUME NEW x \in Seq(Marks), NEW t \in Seq(Marks), NEW y \in Seq(Marks),
         Words(x) = <<>>, Words(y) = <<>>
  PROVE  Words((x \o t) \o y) = Words(t)
<1>1. x \o t \in Seq(Marks) /\ Words(t) \in Seq(Marks)
  BY ConcatProperties, WordsType
<1>2. Words((x \o t) \o y) = Words(x \o t) \o Words(y) /\ Words(x \o t) = Words(x) \o Words(t)
  BY <1>1, WordsType
<1> QED BY <1>1, <1>2, ConcatEmptySeq

LEMMA CharsAreMarks ==
  /\ \A s \in Seq(Chars) : s \in Seq(Marks)
  /\ \A c \in Marks : IsWordChar(c) <=> c \in {"w", "W"}
<1>1. Chars \subseteq Marks
  BY DEF Marks
<1> QED BY <1>1, SeqMonotonic DEF Marks, Chars, Blank, IsWordChar

LEMMA WordsTrim ==
  ASSUME NEW s \in Seq(Chars)
  PROVE  Words(Trim(s)) = Words(s)
<1>1. PICK x, y \in Seq(Chars) : AllBlank(x) /\ AllBlank(y) /\ s = (x \o Trim(s)) \o y
  BY TrimIs
<1>2. x \in Seq(Marks) /\ y \in Seq(Marks) /\ Trim(s) \in Seq(Marks)
  BY TrimType, CharsAreMarks
<1>3. Words(x) = <<>> /\ Words(y) = <<>>
  BY <1>1, <1>2, WordsType
<1> DEFINE t == Trim(s)
<1>4. t \in Seq(Marks) /\ s = (x \o t) \o y
  BY <1>1, <1>2
<1> HIDE DEF t
<1>5. Words((x \o t) \o y) = Words(t)
  BY ONLY <1>2, <1>3, <1>4, WordsBetween
<1> QED BY <1>4, <1>5 DEF t

LEMMA CapitalsIs ==
  ASSUME NEW s \in Seq(Chars)
  PROVE  /\ Capitals(s) \in Seq(Marks) /\ Len(Capitals(s)) = Len(s)
         /\ \A i \in 1 .. Len(s) :
              Capitals(s)[i] = IF IsWordChar(s[i]) /\ (i = 1 \/ ~IsWordChar(s[i - 1]))
                               THEN "W" ELSE s[i]
<1>1. Len(s) \in Nat /\ DOMAIN s = 1 .. Len(s) /\ \A i \in 1 .. Len(s) : s[i] \in Marks
  BY CharsAreMarks, LenProperties, ElementOfSeq
<1> DEFINE E(i) == IF IsWordChar(s[i]) /\ (i = 1 \/ ~IsWordChar(s[i - 1])) THEN "W" ELSE s[i]
<1>2. \A i \in 1 .. Len(s) : E(i) \in Marks
  BY <1>1 DEF Marks
<1> HIDE DEF E
<1>3. Capitals(s) = [i \in 1 .. Len(s) |-> E(i)]
  BY <1>1 DEF Capitals, E
<1>4. Capitals(s) \in Seq(Marks)
  BY <1>1, <1>2, <1>3, SeqDef
<1>5. Len(Capitals(s)) = Len(s)
  BY <1>1, <1>3, <1>4, LenProperties
<1>6. \A i \in 1 .. Len(s) : Capitals(s)[i] = E(i)
  BY <1>3
<1> QED BY <1>4, <1>5, <1>6 DEF E

\* Capitals do not change where a text is cut next to a blank.
LEMMA CapitalsConcat ==
  ASSUME NEW s \in Seq(Chars), NEW t \in Seq(Chars),
         s = <<>> \/ t = <<>> \/ ~IsWordChar(s[Len(s)]) \/ ~IsWordChar(t[1])
  PROVE  Capitals(s \o t) = Capitals(s) \o Capitals(t)
<1> DEFINE u == s \o t
           m == Len(s)
           n == Len(t)
           v == Capitals(s) \o Capitals(t)
<1>1. /\ u \in Seq(Chars) /\ Len(u) = m + n /\ m \in Nat /\ n \in Nat
      /\ \A i \in 1 .. m + n : u[i] = IF i <= m THEN s[i] ELSE t[i - m]
  BY ConcatProperties, LenProperties
<1>2. /\ v \in Seq(Marks) /\ Len(v) = m + n
      /\ \A i \in 1 .. m + n : v[i] = IF i <= m THEN Capitals(s)[i] ELSE Capitals(t)[i - m]
  <2> DEFINE x == Capitals(s)
             y == Capitals(t)
  <2>1. x \in Seq(Marks) /\ Len(x) = m /\ y \in Seq(Marks) /\ Len(y) = n
    BY CapitalsIs
  <2> HIDE DEF x, y, m, n
  <2>2. /\ x \o y \in Seq(Marks) /\ Len(x \o y) = Len(x) + Len(y)
        /\ \A i \in 1 .. Len(x) + Len(y) : (x \o y)[i] = IF i <= Len(x) THEN x[i] ELSE y[i - Len(x)]
    BY ONLY <2>1, ConcatProperties
  <2> QED BY <2>1, <2>2 DEF x, y
<1>3. (s = <<>> => m = 0) /\ (t = <<>> => n = 0)
  BY EmptySeq
<1> HIDE DEF u, v
<1>4. Capitals(u) \in Seq(Marks) /\ Len(Capitals(u)) = m + n
  BY <1>1, CapitalsIs
<1>5. ASSUME NEW i \in 1 .. m + n PROVE Capitals(u)[i] = v[i]
  <2> HIDE DEF m, n
  <2>1. Capitals(u)[i] = IF IsWordChar(u[i]) /\ (i = 1 \/ ~IsWordChar(u[i - 1])) THEN "W" ELSE u[i]
    BY <1>1, CapitalsIs
  <2>2. CASE i <= m
    <3>1. i \in 1 .. m /\ (i # 1 => i - 1 \in 1 .. m + n /\ i - 1 <= m)
      BY <1>1, <2>2
    <3>2. Capitals(s)[i] = IF IsWordChar(s[i]) /\ (i = 1 \/ ~IsWordChar(s[i - 1])) THEN "W" ELSE s[i]
      BY <3>1, CapitalsIs DEF m
    <3>3. u[i] = s[i] /\ (i # 1 => u[i - 1] = s[i - 1])
      BY <1>1, <2>2, <3>1
    <3> QED BY <1>2, <2>1, <2>2, <3>2, <3>3
  <2>3. CASE ~(i <= m)
    <3>1. i - m \in 1 .. n
      BY <1>1, <2>3
    <3>2. Capitals(t)[i - m] = IF IsWordChar(t[i - m]) /\ (i - m = 1 \/ ~IsWordChar(t[(i - m) - 1]))
                               THEN "W" ELSE t[i - m]
      BY <3>1, CapitalsIs DEF n
    <3>3. u[i] = t[i - m] /\ v[i] = Capitals(t)[i - m]
      BY <1>1, <1>2, <2>3
    <3>4. CASE i - m # 1
      <4>1. i - 1 \in 1 .. m + n /\ ~(i - 1 <= m) /\ (i - 1) - m = (i - m) - 1 /\ i # 1
        BY <1>1, <2>3, <3>1, <3>4
      <4>2. u[i - 1] = t[(i - m) - 1]
        BY <1>1, <4>1
      <4> QED BY <2>1, <3>2, <3>3, <3>4, <4>1, <4>2
    <3>5. CASE i - m = 1
      <4>1. i = m + 1 /\ i - 1 = m
        BY <1>1, <3>5
      <4>2. CASE m = 0
        <5>1. i = 1
          BY <4>1, <4>2
        <5> QED BY <2>1, <3>2, <3>3, <3>5, <5>1
      <4>3. CASE m # 0
        <5>1. i - 1 \in 1 .. m + n /\ i - 1 <= m /\ i # 1
          BY <1>1, <4>1, <4>3
        <5>2. u[i - 1] = s[m]
          BY <1>1, <4>1, <5>1
        <5>3. n # 0
          BY <1>1, <3>1
        <5>4. ~IsWordChar(s[m]) \/ ~IsWordChar(t[1])
          BY <1>3, <4>3, <5>3 DEF m
        <5> QED BY <2>1, <3>2, <3>3, <3>5, <5>1, <5>2, <5>4
      <4> QED BY <4>2, <4>3
    <3> QED BY <3>4, <3>5
  <2> QED BY <2>2, <2>3
<1>6. Capitals(u) = v
  <2> HIDE DEF m, n
  <2> QED BY <1>2, <1>4, <1>5, SeqEqual
<1> QED BY <1>6 DEF u, v

LEMMA CapitalsBlank ==
  ASSUME NEW s \in Seq(Chars), AllBlank(s)
  PROVE  AllBlank(Capitals(s)) /\ Words(Capitals(s)) = <<>>
<1>1. AllBlank(Capitals(s))
  BY CapitalsIs DEF AllBlank
<1> QED BY <1>1, CapitalsIs, WordsType

LEMMA CapitalsTrim ==
  ASSUME NEW s \in Seq(Chars)
  PROVE  Words(Capitals(Trim(s))) = Words(Capitals(s))
<1>1. PICK x, y \in Seq(Chars) : AllBlank(x) /\ AllBlank(y) /\ s = (x \o Trim(s)) \o y
  BY TrimIs
<1> DEFINE t == Trim(s)
<1>2. t \in Seq(Chars) /\ x \o t \in Seq(Chars)
  BY TrimType, ConcatProperties
<1>3. s = (x \o t) \o y
  BY <1>1
<1> HIDE DEF t
<1>4. Capitals(x \o t) = Capitals(x) \o Capitals(t)
  <2>1. x = <<>> \/ ~IsWordChar(x[Len(x)])
    <3>1. x # <<>> => Len(x) \in 1 .. Len(x)
      BY EmptySeq
    <3> QED BY <1>1, <3>1 DEF AllBlank
  <2> QED BY <1>2, <2>1, CapitalsConcat
<1>5. Capitals((x \o t) \o y) = Capitals(x \o t) \o Capitals(y)
  <2>1. y = <<>> \/ ~IsWordChar(y[1])
    <3>1. y # <<>> => 1 \in 1 .. Len(y)
      BY EmptySeq
    <3> QED BY <1>1, <3>1 DEF AllBlank
  <2> QED BY <1>2, <2>1, CapitalsConcat
<1>6. Capitals(x) \in Seq(Marks) /\ Capitals(y) \in Seq(Marks) /\ Capitals(t) \in Seq(Marks)
  BY <1>2, CapitalsIs
<1>7. Words(Capitals(x)) = <<>> /\ Words(Capitals(y)) = <<>>
  BY <1>1, CapitalsBlank
<1>8. Words((Capitals(x) \o Capitals(t)) \o Capitals(y)) = Words(Capitals(t))
  BY <1>6, <1>7, WordsBetween
<1> QED BY <1>3, <1>4, <1>5, <1>8 DEF t

LEMMA CapitalsMore ==
  ASSUME NEW s \in Seq(Chars), NEW x \in Chars
  PROVE  Capitals(Append(s, x)) =
           Append(Capitals(s), IF IsWordChar(x) /\ (s = <<>> \/ ~IsWordChar(s[Len(s)])) THEN "W" ELSE x)
<1> DEFINE t == Append(s, x)
           n == Len(s)
           c == IF IsWordChar(x) /\ (s = <<>> \/ ~IsWordChar(s[Len(s)])) THEN "W" ELSE x
           u == Capitals(s)
           v == Append(u, c)
<1>1. /\ t \in Seq(Chars) /\ Len(t) = n + 1 /\ n \in Nat
      /\ (\A i \in 1 .. n : t[i] = s[i]) /\ t[n + 1] = x
  BY AppendOf
<1>2. u \in Seq(Marks) /\ Len(u) = n /\ c \in Marks
  BY CapitalsIs DEF Marks
<1>3. (s = <<>>) <=> n = 0
  BY EmptySeq
<1> HIDE DEF u, t
<1>4. /\ v \in Seq(Marks) /\ Len(v) = n + 1
      /\ (\A i \in 1 .. n : v[i] = u[i]) /\ v[n + 1] = c
  <2> HIDE DEF c, n
  <2> QED BY ONLY <1>2, AppendOf
<1> HIDE DEF v, n
<1>5. Capitals(t) \in Seq(Marks) /\ Len(Capitals(t)) = n + 1
  BY <1>1, CapitalsIs
<1>6. ASSUME NEW i \in 1 .. n + 1 PROVE Capitals(t)[i] = v[i]
  <2>1. Capitals(t)[i] = IF IsWordChar(t[i]) /\ (i = 1 \/ ~IsWordChar(t[i - 1])) THEN "W" ELSE t[i]
    BY <1>1, CapitalsIs
  <2>2. CASE i \in 1 .. n
    <3>1. i # 1 => i - 1 \in 1 .. n
      BY <1>1, <2>2
    <3>2. u[i] = IF IsWordChar(s[i]) /\ (i = 1 \/ ~IsWordChar(s[i - 1])) THEN "W" ELSE s[i]
      BY <2>2, CapitalsIs DEF u, n
    <3>3. t[i] = s[i] /\ (i # 1 => t[i - 1] = s[i - 1])
      BY <1>1, <2>2, <3>1
    <3> QED BY <1>4, <2>1, <2>2, <3>2, <3>3
  <2>3. CASE i = n + 1
    <3>1. (i = 1 <=> n = 0) /\ i - 1 = n /\ (n # 0 => n \in 1 .. n)
      BY <1>1, <2>3
    <3>2. t[i] = x /\ (n # 0 => t[i - 1] = s[n])
      BY <1>1, <2>3, <3>1
    <3> QED BY <1>3, <1>4, <2>1, <2>3, <3>1, <3>2 DEF n
  <2>4. i \in 1 .. n \/ i = n + 1
    BY <1>1
  <2> QED BY <2>2, <2>3, <2>4
<1>7. Capitals(t) = v
  BY <1>4, <1>5, <1>6, SeqEqual
<1> QED BY <1>7 DEF t, v, u

-----------------------------------------------------------------------------
(***************************************************************************)
(* The words of a text, before and after its blanks are squeezed.          *)
(***************************************************************************)
\* A text and what is left of it end alike, and have the same words.
SameWords(d, s) ==
  /\ d = <<>> <=> s = <<>>
  /\ s # <<>> => d[Len(d)] = s[Len(s)]
  /\ Words(d) = Words(s)
  /\ Words(Capitals(d)) = Words(Capitals(s))

LEMMA WordsMore ==
  ASSUME NEW s \in Seq(Marks), NEW x \in Marks
  PROVE  Words(Append(s, x)) = IF IsWordChar(x) THEN Append(Words(s), x) ELSE Words(s)
<1>1. IsWordChar(x) <=> x \in {"w", "W"}
  BY CharsAreMarks
<1>2. Words(Append(s, x)) = IF x \in {"w", "W"} THEN Append(Words(s), x) ELSE Words(s)
  BY OnlyMore DEF Words
<1> QED BY <1>1, <1>2

LEMMA DenseWords ==
  ASSUME NEW s \in Seq(Chars)
  PROVE  SameWords(Dense(s), s)
<1> DEFINE T == {u \in Seq(Chars) : SameWords(Dense(u), u)}
<1>1. <<>> \in T
  BY DenseType DEF SameWords
<1>2. ASSUME NEW u \in Seq(Chars), NEW x \in Chars, u \in T PROVE Append(u, x) \in T
  <2> DEFINE d == Dense(u)
             c(a) == IF IsWordChar(x) /\ (a = <<>> \/ ~IsWordChar(a[Len(a)])) THEN "W" ELSE x
  <2>1. d \in Seq(Chars) /\ SameWords(d, u)
    BY <1>2, DenseType
  <2>2. Dense(Append(u, x)) = IF u = <<>> \/ x # u[Len(u)] \/ IsWordChar(x) THEN Append(d, x) ELSE d
    BY DenseMore
  <2> HIDE DEF d
  <2>3. x \in Marks /\ c(u) \in Marks /\ c(d) = c(u) /\ (IsWordChar(c(u)) <=> IsWordChar(x))
    <3>1. "W" \in Marks /\ IsWordChar("W") /\ x \in Marks
      BY CharsAreMarks DEF Marks
    <3> QED BY <2>1, <3>1 DEF SameWords
  <2>4. /\ u \in Seq(Marks) /\ d \in Seq(Marks)
        /\ Capitals(u) \in Seq(Marks) /\ Capitals(d) \in Seq(Marks)
    BY <2>1, CapitalsIs, CharsAreMarks
  <2>5. /\ Capitals(Append(u, x)) = Append(Capitals(u), c(u))
        /\ Capitals(Append(d, x)) = Append(Capitals(d), c(d))
    BY <2>1, CapitalsMore
  <2> HIDE DEF c
  <2>6. /\ Words(Append(u, x)) = IF IsWordChar(x) THEN Append(Words(u), x) ELSE Words(u)
        /\ Words(Append(d, x)) = IF IsWordChar(x) THEN Append(Words(d), x) ELSE Words(d)
    BY <2>3, <2>4, WordsMore
  <2>7. Words(Append(Capitals(u), c(u))) =
          IF IsWordChar(c(u)) THEN Append(Words(Capitals(u)), c(u)) ELSE Words(Capitals(u))
    BY ONLY <2>3, <2>4, WordsMore
  <2>8. Words(Append(Capitals(d), c(u))) =
          IF IsWordChar(c(u)) THEN Append(Words(Capitals(d)), c(u)) ELSE Words(Capitals(d))
    BY ONLY <2>3, <2>4, WordsMore
  <2>9. /\ Append(u, x) \in Seq(Chars) /\ Append(u, x) # <<>>
        /\ Append(u, x)[Len(Append(u, x))] = x
    BY AppendOf
  <2>10. Append(d, x) # <<>> /\ Append(d, x)[Len(Append(d, x))] = x
    BY <2>1, AppendOf
  <2>11. CASE u = <<>> \/ x # u[Len(u)] \/ IsWordChar(x)
    <3>1. SameWords(Append(d, x), Append(u, x))
      BY <2>1, <2>3, <2>5, <2>6, <2>7, <2>8, <2>9, <2>10 DEF SameWords
    <3> QED BY <2>2, <2>9, <2>11, <3>1
  <2>12. CASE ~(u = <<>> \/ x # u[Len(u)] \/ IsWordChar(x))
    <3>1. SameWords(d, Append(u, x))
      BY <2>1, <2>3, <2>5, <2>6, <2>7, <2>9, <2>12 DEF SameWords
    <3> QED BY <2>2, <2>9, <2>12, <3>1
  <2> QED BY <2>11, <2>12
<1>3. Seq(Chars) \subseteq T
  <2> HIDE DEF T
  <2> QED BY <1>1, <1>2, SeqInd
<1> QED BY <1>3

\* Squeezing a text changes none of its words, and where they begin neither.
LEMMA SqueezeWords ==
  ASSUME NEW s \in Seq(Chars)
  PROVE  Words(Squeeze(s)) = Words(s) /\ Words(Capitals(Squeeze(s))) = Words(Capitals(s))
<1> DEFINE d == Dense(s)
<1>1. d \in Seq(Chars) /\ SameWords(d, s) /\ Squeeze(s) = Trim(d)
  BY DenseType, DenseWords DEF Squeeze
<1> HIDE DEF d
<1>2. Words(Trim(d)) = Words(d) /\ Words(Capitals(Trim(d))) = Words(Capitals(d))
  BY <1>1, WordsTrim, CapitalsTrim
<1> QED BY <1>1, <1>2 DEF SameWords

\* Characters of a word in a row: n and one more, from place i.
Row(s, i, n) == i >= 1 /\ i + n <= Len(s) /\ \A k \in i .. i + n : IsWordChar(s[k])

\* A row that is in d is in s, and at its end if it is at the end of d.
SameRows(d, s) ==
  \A n \in Nat : \A i \in Nat : Row(d, i, n) =>
    \E j \in Nat : Row(s, j, n) /\ (i + n = Len(d) => j + n = Len(s))

LEMMA RowMore ==
  ASSUME NEW P, NEW s \in Seq(P), NEW x \in P, NEW i \in Nat, NEW n \in Nat
  PROVE  /\ Row(s, i, n) => Row(Append(s, x), i, n)
         /\ Row(Append(s, x), i, n) /\ i + n <= Len(s) => Row(s, i, n)
         /\ Row(Append(s, x), i, n + 1) /\ i + (n + 1) = Len(s) + 1 => Row(s, i, n)
         /\ Row(s, i, n) /\ i + n = Len(s) /\ IsWordChar(x) => Row(Append(s, x), i, n + 1)
<1> DEFINE t == Append(s, x)
           N == Len(s)
<1>1. /\ Len(t) = N + 1 /\ N \in Nat
      /\ (\A k \in 1 .. N : t[k] = s[k]) /\ t[N + 1] = x
  BY AppendOf
<1> HIDE DEF t, N
<1>2. ASSUME i >= 1, i + n <= N PROVE \A k \in i .. i + n : t[k] = s[k] /\ k \in i .. i + (n + 1)
  <2>1. \A k \in i .. i + n : k \in 1 .. N /\ k \in i .. i + (n + 1)
    BY <1>1, <1>2
  <2> QED BY <1>1, <2>1
<1>3. ASSUME Row(s, i, n), i + n = N, IsWordChar(x) PROVE Row(t, i, n + 1)
  <2>1. i >= 1 /\ i + n <= N /\ \A k \in i .. i + n : IsWordChar(s[k])
    BY <1>3 DEF Row, N
  <2>2. \A k \in i .. i + (n + 1) : k \in i .. i + n \/ k = N + 1
    BY <1>1, <1>3
  <2>3. \A k \in i .. i + (n + 1) : IsWordChar(t[k])
    BY <1>1, <1>2, <1>3, <2>1, <2>2
  <2> QED BY <1>1, <1>3, <2>1, <2>3 DEF Row
<1>4. Row(s, i, n) => Row(t, i, n)
  BY <1>1, <1>2 DEF Row, N
<1>5. Row(t, i, n) /\ i + n <= N => Row(s, i, n)
  BY <1>1, <1>2 DEF Row, N
<1>6. Row(t, i, n + 1) /\ i + (n + 1) = N + 1 => Row(s, i, n)
  <2> SUFFICES ASSUME Row(t, i, n + 1), i + (n + 1) = N + 1 PROVE Row(s, i, n)
    OBVIOUS
  <2>1. i >= 1 /\ i + n <= N /\ \A k \in i .. i + (n + 1) : IsWordChar(t[k])
    BY <1>1 DEF Row
  <2> QED BY <1>2, <2>1 DEF Row, N
<1> QED BY <1>3, <1>4, <1>5, <1>6 DEF t, N

LEMMA DenseRows ==
  ASSUME NEW s \in Seq(Chars)
  PROVE  SameRows(Dense(s), s)
<1> DEFINE T == {u \in Seq(Chars) : SameRows(Dense(u), u)}
<1>1. <<>> \in T
  <2>1. Len(<<>>) = 0 /\ Dense(<<>>) = <<>> /\ <<>> \in Seq(Chars)
    BY DenseType, EmptySeq
  <2>2. \A n \in Nat, i \in Nat : ~Row(<<>>, i, n)
    BY <2>1 DEF Row
  <2> QED BY <2>1, <2>2 DEF SameRows
<1>2. ASSUME NEW u \in Seq(Chars), NEW x \in Chars, u \in T PROVE Append(u, x) \in T
  <2> DEFINE d == Dense(u)
             v == Append(u, x)
             e == Append(d, x)
  <2>1. d \in Seq(Chars) /\ SameRows(d, u) /\ SameWords(d, u)
    BY <1>2, DenseType, DenseWords
  <2>2. Dense(v) = IF u = <<>> \/ x # u[Len(u)] \/ IsWordChar(x) THEN e ELSE d
    BY DenseMore
  <2> HIDE DEF d
  <2>3. /\ v \in Seq(Chars) /\ Len(v) = Len(u) + 1 /\ Len(u) \in Nat /\ v[Len(u) + 1] = x
        /\ Len(e) = Len(d) + 1 /\ Len(d) \in Nat /\ e[Len(d) + 1] = x
    BY <2>1, AppendOf
  <2>4. CASE u = <<>> \/ x # u[Len(u)] \/ IsWordChar(x)
    <3> SUFFICES ASSUME NEW n \in Nat, NEW i \in Nat, Row(e, i, n)
                 PROVE  \E j \in Nat : Row(v, j, n) /\ (i + n = Len(e) => j + n = Len(v))
      BY <2>2, <2>3, <2>4 DEF SameRows
    <3>1. CASE i + n <= Len(d)
      <4>1. Row(d, i, n)
        BY <2>1, <3>1, RowMore
      <4>2. PICK j \in Nat : Row(u, j, n)
        BY <2>1, <4>1 DEF SameRows
      <4>3. Row(v, j, n) /\ i + n # Len(e)
        BY <2>3, <3>1, <4>2, RowMore
      <4> QED BY <4>3
    <3>2. CASE ~(i + n <= Len(d))
      <4>1. i + n = Len(d) + 1 /\ i >= 1 /\ IsWordChar(x)
        <5>1. i >= 1 /\ i + n <= Len(e) /\ \A k \in i .. i + n : IsWordChar(e[k])
          BY DEF Row
        <5>2. i + n = Len(d) + 1 /\ i + n \in i .. i + n
          BY <2>3, <3>2, <5>1
        <5> HIDE DEF e
        <5> QED BY <2>3, <5>1, <5>2
      <4>2. CASE n = 0
        <5>1. Len(u) + 1 \in Nat /\ Len(u) + 1 + n = Len(v) /\ Len(u) + 1 >= 1
          BY <2>3, <4>2
        <5>2. \A k \in Len(u) + 1 .. Len(u) + 1 + n : k = Len(u) + 1
          BY <2>3, <4>2
        <5> HIDE DEF v
        <5>3. Row(v, Len(u) + 1, n)
          BY <2>3, <4>1, <5>1, <5>2 DEF Row
        <5> QED BY <5>1, <5>3
      <4>3. CASE n # 0
        <5>1. PICK m \in Nat : n = m + 1
          <6>1. n - 1 \in Nat /\ n = (n - 1) + 1
            BY <4>3
          <6> QED BY <6>1
        <5>2. Row(e, i, m + 1) /\ i + (m + 1) = Len(d) + 1
          BY <4>1, <5>1
        <5>3. Row(d, i, m) /\ i + m = Len(d)
          BY <2>1, <2>3, <5>2, RowMore
        <5>4. PICK j \in Nat : Row(u, j, m) /\ j + m = Len(u)
          BY <2>1, <5>3 DEF SameRows
        <5>5. Row(v, j, m + 1)
          BY <4>1, <5>4, RowMore
        <5>6. j + n = Len(v)
          BY <2>3, <5>1, <5>4
        <5> QED BY <5>1, <5>5, <5>6
      <4> QED BY <4>2, <4>3
    <3> QED BY <3>1, <3>2
  <2>5. CASE ~(u = <<>> \/ x # u[Len(u)] \/ IsWordChar(x))
    <3> SUFFICES ASSUME NEW n \in Nat, NEW i \in Nat, Row(d, i, n)
                 PROVE  \E j \in Nat : Row(v, j, n) /\ (i + n = Len(d) => j + n = Len(v))
      BY <2>2, <2>3, <2>5 DEF SameRows
    <3>1. PICK j \in Nat : Row(u, j, n)
      BY <2>1 DEF SameRows
    <3>2. Row(v, j, n)
      BY <3>1, RowMore
    <3>3. ~IsWordChar(d[Len(d)])
      BY <2>1, <2>5 DEF SameWords
    <3>4. i + n # Len(d)
      <4>1. i + n \in i .. i + n
        OBVIOUS
      <4> QED BY <3>3, <4>1 DEF Row
    <3> QED BY <3>2, <3>4
  <2> QED BY <2>4, <2>5
<1>3. Seq(Chars) \subseteq T
  <2> HIDE DEF T
  <2> QED BY <1>1, <1>2, SeqInd
<1> QED BY <1>3

\* No word gets longer.
LEMMA ShortStays ==
  ASSUME NEW s \in Seq(Chars), NEW n \in Nat, ShortWords(s, n)
  PROVE  ShortWords(Squeeze(s), n)
<1> DEFINE d == Dense(s)
           t == Trim(d)
<1>1. d \in Seq(Chars) /\ SameRows(d, s)
  BY DenseType, DenseRows
<1>2. PICK x, y \in Seq(Chars) : d = (x \o t) \o y
  BY <1>1, TrimIs
<1> HIDE DEF d
<1>3. t \in Seq(Chars) /\ Len(t) \in Nat /\ Len(x) \in Nat /\ Len(y) \in Nat
  BY <1>1, TrimType, LenProperties
<1> HIDE DEF t
<1>4. /\ Len(d) = Len(x) + Len(t) + Len(y)
      /\ \A i \in 1 .. Len(t) : d[Len(x) + i] = t[i]
  <2> DEFINE z == x \o t
  <2>1. /\ z \in Seq(Chars) /\ Len(z) = Len(x) + Len(t)
        /\ \A i \in 1 .. Len(x) + Len(t) : z[i] = IF i <= Len(x) THEN x[i] ELSE t[i - Len(x)]
    BY <1>3, ConcatProperties
  <2> HIDE DEF z
  <2>2. /\ Len(z \o y) = Len(z) + Len(y)
        /\ \A i \in 1 .. Len(z) + Len(y) : (z \o y)[i] = IF i <= Len(z) THEN z[i] ELSE y[i - Len(z)]
    <3>1. z \in Seq(Chars) /\ y \in Seq(Chars)
      BY <2>1
    <3> QED BY ONLY <3>1, ConcatProperties
  <2>3. d = z \o y
    BY <1>2 DEF z
  <2>4. ASSUME NEW i \in 1 .. Len(t) PROVE d[Len(x) + i] = t[i]
    <3>1. /\ Len(x) + i \in 1 .. Len(z) + Len(y) /\ Len(x) + i <= Len(z)
          /\ Len(x) + i \in 1 .. Len(x) + Len(t) /\ ~(Len(x) + i <= Len(x))
          /\ (Len(x) + i) - Len(x) = i
      BY <1>3, <2>1
    <3> QED BY <2>1, <2>2, <2>3, <3>1
  <2> QED BY <1>3, <2>1, <2>2, <2>3, <2>4
<1>5. ASSUME NEW i \in 1 .. Len(t) - n PROVE \E j \in i .. i + n : ~IsWordChar(t[j])
  <2> SUFFICES ASSUME \A j \in i .. i + n : IsWordChar(t[j]) PROVE FALSE
    OBVIOUS
  <2>1. Row(d, Len(x) + i, n)
    <3>1. Len(x) + i >= 1 /\ (Len(x) + i) + n <= Len(d)
      BY <1>3, <1>4
    <3>2. ASSUME NEW k \in Len(x) + i .. (Len(x) + i) + n PROVE IsWordChar(d[k])
      <4>1. /\ k - Len(x) \in 1 .. Len(t) /\ k - Len(x) \in i .. i + n
            /\ Len(x) + (k - Len(x)) = k
        BY <1>3
      <4>2. d[Len(x) + (k - Len(x))] = t[k - Len(x)]
        BY <1>4, <4>1
      <4> QED BY <4>1, <4>2
    <3> QED BY <3>1, <3>2 DEF Row
  <2>2. Len(x) + i \in Nat
    BY <1>3
  <2>3. PICK j \in Nat : Row(s, j, n)
    BY <1>1, <2>1, <2>2 DEF SameRows
  <2>4. j \in 1 .. Len(s) - n
    BY <2>3, LenProperties DEF Row
  <2> QED BY <2>3, <2>4 DEF Row, ShortWords
<1> QED BY <1>5 DEF ShortWords, t, d, Squeeze

-----------------------------------------------------------------------------
(***************************************************************************)
(* The words of a text, before and after it is cut into chunks.            *)
(***************************************************************************)
\* The body of the piece between two places of a chain of cuts.
CutPart(c, q, s, i) ==
  /\ c[i] \in 0 .. Len(s) /\ c[i + 1] \in 0 .. Len(s) /\ c[i] < c[i + 1]
  /\ q[i].body = Trim(SubSeq(s, c[i] + 1, c[i + 1]))
  /\ SubSeq(s, c[i] + 1, c[i + 1]) \in Seq(Chars)
  /\ SubSeq(s, 1, c[i]) \in Seq(Chars) /\ Len(SubSeq(s, 1, c[i])) = c[i]
  /\ SubSeq(s, 1, c[i + 1]) = SubSeq(s, 1, c[i]) \o SubSeq(s, c[i] + 1, c[i + 1])

LEMMA CutParts ==
  ASSUME NEW s \in Seq(Chars), NEW P, NEW q \in Seq(P), NEW sections, NEW size \in Nat \ {0},
         NEW c \in Seq(0 .. Len(s)), CutAt(c, q, s, sections, size), NEW i \in 1 .. Len(q)
  PROVE  CutPart(c, q, s, i)
<1>1. /\ Len(s) \in Nat /\ Len(q) \in Nat /\ \A k \in 1 .. Len(s) : s[k] \in Chars
  BY LenProperties, ElementOfSeq
<1>2. /\ Len(c) = Len(q) + 1 /\ c[i] < c[i + 1]
      /\ q[i] = Piece(s, sections, c[i], c[i + 1])
  BY DEF CutAt
<1>3. i \in 1 .. Len(c) /\ i + 1 \in 1 .. Len(c)
  BY <1>1, <1>2
<1>4. c[i] \in 0 .. Len(s) /\ c[i + 1] \in 0 .. Len(s)
  BY <1>3, ElementOfSeq
<1>5. q[i].body = Trim(SubSeq(s, c[i] + 1, c[i + 1]))
  BY <1>2 DEF Piece
<1> DEFINE m == c[i]
           n == c[i + 1]
<1>6. m \in 0 .. Len(s) /\ n \in 0 .. Len(s) /\ m < n
  BY <1>2, <1>4
<1> HIDE DEF m, n
<1>7. \A k \in m + 1 .. n : s[k] \in Chars
  BY <1>1, <1>6
<1>8. \A k \in 1 .. m : s[k] \in Chars
  BY <1>1, <1>6
<1>9. SubSeq(s, m + 1, n) \in Seq(Chars)
  BY <1>1, <1>6, <1>7, SubSeqProperties
<1>10. SubSeq(s, 1, m) \in Seq(Chars) /\ Len(SubSeq(s, 1, m)) = IF 1 <= m THEN m - 1 + 1 ELSE 0
  <2>1. m \in Int /\ 1 \in Int
    BY <1>6
  <2> QED BY ONLY <1>8, <2>1, s \in Seq(Chars), SubSeqProperties
<1>11. Len(SubSeq(s, 1, m)) = m
  <2> DEFINE l == Len(SubSeq(s, 1, m))
  <2>1. m \in Nat /\ l = IF 1 <= m THEN m - 1 + 1 ELSE 0
    BY <1>6, <1>10
  <2> HIDE DEF l
  <2>2. l = m
    BY ONLY <2>1
  <2> QED BY <2>2 DEF l
<1>12. SubSeq(s, 1, m) \o SubSeq(s, m + 1, n) = SubSeq(s, 1, n)
  <2>1. 1 \in 1 .. Len(s) + 1 /\ m \in 1 - 1 .. Len(s) /\ n \in m .. Len(s)
    BY <1>1, <1>6
  <2> QED BY ONLY <2>1, s \in Seq(Chars), ConcatAdjacentSubSeq
<1> QED BY <1>2, <1>4, <1>5, <1>9, <1>10, <1>11, <1>12 DEF m, n, CutPart

\* The bodies of the pieces have the words of the text, in their order.
LEMMA CutWords ==
  ASSUME NEW s \in Seq(Chars), NEW P, NEW q \in Seq(P), NEW sections, NEW size \in Nat \ {0},
         NEW c \in Seq(0 .. Len(s)), CutAt(c, q, s, sections, size)
  PROVE  FlattenSeq([i \in 1 .. Len(q) |-> Words(q[i].body)]) = Words(s)
<1> DEFINE N == Len(q)
           cs == [i \in 1 .. N |-> Words(q[i].body)]
           f == [k \in 0 .. N |-> Words(SubSeq(s, 1, c[k + 1]))]
<1>1. N \in Nat /\ Len(s) \in Nat
  BY LenProperties
<1>2. ASSUME NEW i \in 1 .. N
      PROVE  /\ cs[i] \in Seq(Marks)
             /\ f[i] = f[i - 1] \o cs[i]
  <2> DEFINE u == SubSeq(s, 1, c[i])
             v == SubSeq(s, c[i] + 1, c[i + 1])
  <2>1. /\ u \in Seq(Chars) /\ v \in Seq(Chars) /\ SubSeq(s, 1, c[i + 1]) = u \o v
        /\ q[i].body = Trim(v)
    <3>1. /\ s \in Seq(Chars) /\ q \in Seq(P) /\ size \in Nat \ {0} /\ c \in Seq(0 .. Len(s))
          /\ CutAt(c, q, s, sections, size) /\ i \in 1 .. Len(q)
      BY <1>1
    <3>2. CutPart(c, q, s, i)
      BY ONLY <3>1, CutParts
    <3> QED BY <3>2 DEF CutPart
  <2>2. f[i] = Words(u \o v) /\ f[i - 1] = Words(u) /\ cs[i] = Words(Trim(v))
    <3>1. i \in 0 .. N /\ i - 1 \in 0 .. N /\ (i - 1) + 1 = i
      BY <1>1
    <3> QED BY <2>1, <3>1
  <2> HIDE DEF u, v, f, cs, N
  <2>3. u \in Seq(Marks) /\ v \in Seq(Marks)
    BY <2>1, CharsAreMarks
  <2>4. Words(u \o v) = Words(u) \o Words(v) /\ Words(v) \in Seq(Marks)
    BY <2>3, WordsType
  <2>5. Words(Trim(v)) = Words(v)
    BY <2>1, WordsTrim
  <2> QED BY <2>2, <2>4, <2>5
<1>3. f[0] = <<>>
  <2>1. c[1] = 0 /\ 0 \in 0 .. N /\ SubSeq(s, 1, 0) = <<>> /\ <<>> \in Seq(Marks)
    <3>1. 0 \in Int /\ 1 \in Int /\ 0 < 1
      OBVIOUS
    <3>2. SubSeq(s, 1, 0) = <<>>
      BY ONLY <3>1, SubSeqEmpty
    <3>3. c[1] = 0
      BY DEF CutAt
    <3>4. 0 \in 0 .. N /\ <<>> \in Seq(Marks)
      BY <1>1, EmptySeq
    <3> QED BY <3>2, <3>3, <3>4
  <2>2. Words(<<>>) = <<>>
    BY <2>1, WordsType
  <2>3. 0 + 1 = 1
    OBVIOUS
  <2>4. f[0] = Words(SubSeq(s, 1, c[0 + 1]))
    BY <2>1
  <2> HIDE DEF f
  <2> QED BY <2>1, <2>2, <2>3, <2>4
<1>4. f[N] = Words(s)
  <2>1. Len(c) = N + 1 /\ c[Len(c)] = Len(s) /\ N \in 0 .. N
    BY <1>1 DEF CutAt
  <2>2. SubSeq(s, 1, Len(s)) = s
    BY SubSeqFull
  <2> QED BY <2>1, <2>2
<1>5. cs \in Seq(Seq(Marks)) /\ Len(cs) = N
  <2> DEFINE Q == Seq(Marks)
  <2>1. \A i \in 1 .. N : cs[i] \in Q
    BY <1>2
  <2> HIDE DEF Q
  <2>2. cs \in [1 .. N -> Q]
    BY <2>1
  <2>3. cs \in Seq(Q)
    BY <1>1, <2>2, SeqDef
  <2>4. Len(cs) = N
    <3>1. DOMAIN cs = 1 .. N
      OBVIOUS
    <3> HIDE DEF cs
    <3> QED BY <1>1, <2>3, <3>1, LenProperties
  <2> QED BY <2>3, <2>4 DEF Q
<1>6. FlattenSeq(cs) = f[N]
  <2> HIDE DEF cs, f
  <2>1. /\ cs \in Seq(Seq(Marks)) /\ f[0] = <<>>
        /\ \A i \in 1 .. Len(cs) : f[i] = f[i - 1] \o cs[i]
    BY <1>2, <1>3, <1>5
  <2>2. FlattenSeq(cs) = f[Len(cs)]
    BY ONLY <2>1, FlattenPrefix
  <2> QED BY <1>5, <2>2
<1> QED BY <1>4, <1>6

\* Where no word is half as long as a chunk, no cut goes through one.
LEMMA CutBetween ==
  ASSUME NEW s \in Seq(Chars \ {"n"}), NEW P, NEW q \in Seq(P), NEW sections,
         NEW size \in Nat \ {0}, ShortWords(s, size - size \div 2 - 1),
         NEW c \in Seq(0 .. Len(s)), CutAt(c, q, s, sections, size),
         NEW i \in 1 .. Len(q), i # 1
  PROVE  ~IsWordChar(s[c[i]]) \/ ~IsWordChar(s[c[i] + 1])
<1> DEFINE p == c[i - 1]
           e == c[i]
           m == size - size \div 2 - 1
<1>1. Len(q) \in Nat /\ Len(s) \in Nat /\ i - 1 \in 1 .. Len(q) /\ (i - 1) + 1 = i
  BY LenProperties
<1>2. /\ Len(c) = Len(q) + 1 /\ c[i] < c[i + 1] /\ p < e
      /\ \/ e = Len(s) \/ s[e + 1] = "s"
         \/ e = p + size /\ \A b \in p + size \div 2 + 1 .. p + size - 1 : s[b + 1] # "s"
  <2>1. c[i] < c[i + 1] /\ Len(c) = Len(q) + 1
    BY DEF CutAt
  <2>2. /\ c[i - 1] < c[(i - 1) + 1]
        /\ \/ c[(i - 1) + 1] = Len(s) \/ s[c[(i - 1) + 1] + 1] = "s"
           \/ /\ c[(i - 1) + 1] = c[i - 1] + size
              /\ \A b \in c[i - 1] + size \div 2 + 1 .. c[i - 1] + size - 1 : s[b + 1] # "s"
    BY <1>1 DEF CutAt
  <2> QED BY <1>1, <2>1, <2>2
<1>3. p \in 0 .. Len(s) /\ e \in 0 .. Len(s) /\ c[i + 1] \in 0 .. Len(s) /\ e < Len(s)
  <2>1. i - 1 \in 1 .. Len(c) /\ i \in 1 .. Len(c) /\ i + 1 \in 1 .. Len(c)
    BY <1>1, <1>2
  <2>2. p \in 0 .. Len(s) /\ e \in 0 .. Len(s) /\ c[i + 1] \in 0 .. Len(s)
    BY <2>1, ElementOfSeq
  <2> QED BY <1>1, <1>2, <2>2
<1>4. size \div 2 \in Nat /\ size \div 2 < size /\ m \in Nat
  OBVIOUS
<1> HIDE DEF p, e, m
<1> SUFFICES ASSUME IsWordChar(s[e]), IsWordChar(s[e + 1]) PROVE FALSE
  BY DEF e
<1>5. s[e + 1] # "s"
  BY DEF IsWordChar, Blank
<1>6. e = p + size /\ \A b \in p + size \div 2 + 1 .. p + size - 1 : s[b + 1] # "s"
  BY <1>2, <1>3, <1>5
<1> DEFINE h == size \div 2
           j == p + h + 2
<1>7. h \in Nat /\ m = size - h - 1 /\ h < size
  BY <1>4 DEF m
<1> HIDE DEF h
<1>8. j \in 1 .. Len(s) - m /\ j + m = e + 1
  BY <1>1, <1>3, <1>6, <1>7
<1>9. ASSUME NEW k \in j .. j + m PROVE IsWordChar(s[k])
  <2>1. k \in 1 .. Len(s)
    BY <1>1, <1>3, <1>7, <1>8
  <2>2. s[k] \in Chars \ {"n"}
    BY <2>1, ElementOfSeq
  <2>3. CASE k = e + 1
    BY <2>3
  <2>4. CASE k # e + 1
    <3>1. k - 1 \in p + h + 1 .. p + size - 1 /\ (k - 1) + 1 = k
      BY <1>1, <1>3, <1>6, <1>7, <1>8, <2>4
    <3>2. s[k] # "s"
      BY <1>6, <3>1 DEF h
    <3> QED BY <2>2, <3>2 DEF Chars, Blank, IsWordChar
  <2> QED BY <2>3, <2>4
<1> HIDE DEF j
<1>10. \E k \in j .. j + m : ~IsWordChar(s[k])
  BY <1>8 DEF ShortWords, m
<1> QED BY <1>9, <1>10

\* Then they begin where they began in the text, too.
LEMMA CutCapitals ==
  ASSUME NEW s \in Seq(Chars \ {"n"}), NEW P, NEW q \in Seq(P), NEW sections,
         NEW size \in Nat \ {0}, ShortWords(s, size - size \div 2 - 1),
         NEW c \in Seq(0 .. Len(s)), CutAt(c, q, s, sections, size)
  PROVE  FlattenSeq([i \in 1 .. Len(q) |-> Words(Capitals(q[i].body))]) = Words(Capitals(s))
<1> DEFINE N == Len(q)
           W(t) == Words(Capitals(t))
           cs == [i \in 1 .. N |-> W(q[i].body)]
           f == [k \in 0 .. N |-> W(SubSeq(s, 1, c[k + 1]))]
<1>1. N \in Nat /\ Len(s) \in Nat /\ s \in Seq(Chars)
  <2>1. Chars \ {"n"} \subseteq Chars
    OBVIOUS
  <2> QED BY <2>1, LenProperties, SeqMonotonic
<1>2. ASSUME NEW i \in 1 .. N
      PROVE  /\ cs[i] \in Seq(Marks)
             /\ f[i] = f[i - 1] \o cs[i]
  <2> DEFINE u == SubSeq(s, 1, c[i])
             v == SubSeq(s, c[i] + 1, c[i + 1])
  <2>1. /\ u \in Seq(Chars) /\ v \in Seq(Chars) /\ SubSeq(s, 1, c[i + 1]) = u \o v
        /\ q[i].body = Trim(v) /\ Len(u) = c[i]
        /\ c[i] \in 0 .. Len(s) /\ c[i + 1] \in 0 .. Len(s) /\ c[i] < c[i + 1]
    <3>1. /\ s \in Seq(Chars) /\ q \in Seq(P) /\ size \in Nat \ {0} /\ c \in Seq(0 .. Len(s))
          /\ CutAt(c, q, s, sections, size) /\ i \in 1 .. Len(q)
      BY <1>1
    <3>2. CutPart(c, q, s, i)
      BY ONLY <3>1, CutParts
    <3> QED BY <3>2 DEF CutPart
  <2>2. f[i] = W(u \o v) /\ f[i - 1] = W(u) /\ cs[i] = W(Trim(v))
    <3>1. i \in 0 .. N /\ i - 1 \in 0 .. N /\ (i - 1) + 1 = i
      BY <1>1
    <3> HIDE DEF W
    <3> QED BY <2>1, <3>1
  <2>3. u = <<>> \/ v = <<>> \/ ~IsWordChar(u[Len(u)]) \/ ~IsWordChar(v[1])
    <3>1. CASE i = 1
      <4>1. Len(u) = 0
        BY <2>1, <3>1 DEF CutAt
      <4> HIDE DEF u
      <4> QED BY <2>1, <4>1, EmptySeq
    <3>2. CASE i # 1
      <4>1. ~IsWordChar(s[c[i]]) \/ ~IsWordChar(s[c[i] + 1])
        BY <3>2, CutBetween
      <4>2. CASE c[i] = 0
        <5>1. Len(u) = 0
          BY <2>1, <4>2
        <5> HIDE DEF u
        <5> QED BY <2>1, <5>1, EmptySeq
      <4>3. CASE c[i] # 0
        <5> DEFINE a == c[i]
                   b == c[i + 1]
        <5>1. a \in 1 .. Len(s) /\ b \in 1 .. Len(s) /\ a < b
          BY <1>1, <2>1, <4>3
        <5>2. u = SubSeq(s, 1, a) /\ v = SubSeq(s, a + 1, b) /\ Len(u) = a
          BY <2>1
        <5> HIDE DEF a, b, u, v
        <5>3. \A k \in 1 .. Len(s) : s[k] \in Chars
          BY <1>1, ElementOfSeq
        <5>4. u[a] = s[a]
          <6>1. a \in Int /\ a \in 1 .. a - 1 + 1 /\ 1 + a - 1 = a /\ \A k \in 1 .. a : s[k] \in Chars
            BY <1>1, <5>1, <5>3
          <6>2. \A k \in 1 .. a - 1 + 1 : SubSeq(s, 1, a)[k] = s[1 + k - 1]
            BY <6>1, SubSeqProperties
          <6> QED BY <5>2, <6>1, <6>2
        <5>5. v[1] = s[a + 1]
          <6>1. /\ a + 1 \in Int /\ b \in Int /\ 1 \in 1 .. b - (a + 1) + 1
                /\ (a + 1) + 1 - 1 = a + 1 /\ \A k \in a + 1 .. b : s[k] \in Chars
            BY <1>1, <5>1, <5>3
          <6>2. \A k \in 1 .. b - (a + 1) + 1 : SubSeq(s, a + 1, b)[k] = s[(a + 1) + k - 1]
            BY <6>1, SubSeqProperties
          <6> QED BY <5>2, <6>1, <6>2
        <5> QED BY <4>1, <5>2, <5>4, <5>5 DEF a
      <4> QED BY <4>2, <4>3
    <3> QED BY <3>1, <3>2
  <2> HIDE DEF u, v, f, cs, N
  <2>4. Capitals(u \o v) = Capitals(u) \o Capitals(v)
    BY <2>1, <2>3, CapitalsConcat
  <2>5. Capitals(u) \in Seq(Marks) /\ Capitals(v) \in Seq(Marks)
    BY <2>1, CapitalsIs
  <2>6. Words(Capitals(u) \o Capitals(v)) = W(u) \o W(v) /\ W(v) \in Seq(Marks)
    BY <2>5, WordsType
  <2>7. W(Trim(v)) = W(v)
    BY <2>1, CapitalsTrim
  <2> QED BY <2>2, <2>4, <2>6, <2>7
<1>3. f[0] = <<>>
  <2>1. c[1] = 0 /\ 0 \in 0 .. N /\ SubSeq(s, 1, 0) = <<>> /\ <<>> \in Seq(Chars) /\ AllBlank(<<>>)
    <3>1. 0 \in Int /\ 1 \in Int /\ 0 < 1
      OBVIOUS
    <3>2. SubSeq(s, 1, 0) = <<>>
      BY ONLY <3>1, SubSeqEmpty
    <3>3. c[1] = 0
      BY DEF CutAt
    <3>4. 0 \in 0 .. N /\ <<>> \in Seq(Chars)
      BY <1>1, EmptySeq
    <3>5. AllBlank(<<>>)
      BY DEF AllBlank
    <3> QED BY <3>2, <3>3, <3>4, <3>5
  <2>2. W(<<>>) = <<>>
    BY <2>1, CapitalsBlank
  <2>3. 0 + 1 = 1
    OBVIOUS
  <2> HIDE DEF W
  <2>4. f[0] = W(SubSeq(s, 1, c[0 + 1]))
    BY <2>1
  <2> HIDE DEF f
  <2> QED BY <2>1, <2>2, <2>3, <2>4
<1>4. f[N] = W(s)
  <2>1. Len(c) = N + 1 /\ c[Len(c)] = Len(s) /\ N \in 0 .. N
    BY <1>1 DEF CutAt
  <2>2. SubSeq(s, 1, Len(s)) = s
    BY SubSeqFull
  <2> HIDE DEF W
  <2> QED BY <2>1, <2>2
<1> HIDE DEF W
<1>5. cs \in Seq(Seq(Marks)) /\ Len(cs) = N
  <2> DEFINE Q == Seq(Marks)
  <2>1. \A i \in 1 .. N : cs[i] \in Q
    BY <1>2
  <2> HIDE DEF Q
  <2>2. cs \in [1 .. N -> Q]
    BY <2>1
  <2>3. cs \in Seq(Q)
    BY <1>1, <2>2, SeqDef
  <2>4. Len(cs) = N
    <3>1. DOMAIN cs = 1 .. N
      OBVIOUS
    <3> HIDE DEF cs
    <3> QED BY <1>1, <2>3, <3>1, LenProperties
  <2> QED BY <2>3, <2>4 DEF Q
<1>6. FlattenSeq(cs) = f[N]
  <2> HIDE DEF cs, f
  <2>1. /\ cs \in Seq(Seq(Marks)) /\ f[0] = <<>>
        /\ \A i \in 1 .. Len(cs) : f[i] = f[i - 1] \o cs[i]
    BY <1>2, <1>3, <1>5
  <2>2. FlattenSeq(cs) = f[Len(cs)]
    BY ONLY <2>1, FlattenPrefix
  <2> QED BY <1>5, <2>2
<1> QED BY <1>4, <1>6 DEF W

\* README.md of utils, a book is split into chunks at word boundaries: for every
\* text and chunk size the chunks have the words of the text, in their order,
\* and where only spaces part the words and none is half as long as a chunk, the
\* words also begin where they began in the text.
THEOREM WordsKept ==
  ASSUME NEW book, book.text \in Seq(Chars), NEW size \in Nat \ {0}
  PROVE  LET pieces == SplitText(book, size)
         IN /\ FlattenSeq([i \in DOMAIN pieces |-> Words(pieces[i].body)]) = Words(book.text)
            /\ /\ book.text \in Seq(Chars \ {"n"})
               /\ ShortWords(book.text, size - size \div 2 - 1)
               => FlattenSeq([i \in DOMAIN pieces |-> Words(Capitals(pieces[i].body))])
                    = Words(Capitals(book.text))
<1> DEFINE q == SplitText(book, size)
           t == book.text
           s == Squeeze(t)
           sections == ParseChapters(book.found)
           m == size - size \div 2 - 1
<1>1. CASE t = <<>>
  <2> DEFINE r == [body |-> <<>>, chapter |-> NoNumber]
             one == << <<>> >>
  <2>1. q = <<r>> /\ r.body = <<>>
    BY <1>1 DEF SplitText
  <2> HIDE DEF r
  <2>2. DOMAIN <<r>> = 1 .. 1 /\ <<r>>[1] = r
    OBVIOUS
  <2> HIDE DEF q
  <2>3. DOMAIN q = 1 .. 1 /\ q[1].body = <<>>
    BY <2>1, <2>2
  <2>4. Words(<<>>) = <<>> /\ Words(Capitals(<<>>)) = <<>>
    <3>1. <<>> \in Seq(Chars) /\ AllBlank(<<>>) /\ <<>> \in Seq(Marks)
      <4>1. AllBlank(<<>>)
        BY DEF AllBlank
      <4> QED BY <4>1, EmptySeq
    <3>2. Words(<<>>) = <<>>
      BY <3>1, WordsType
    <3>3. Words(Capitals(<<>>)) = <<>>
      BY <3>1, CapitalsBlank
    <3> QED BY <3>2, <3>3
  <2> DEFINE b == <<>>
  <2>5. one = [i \in 1 .. 1 |-> b]
    OBVIOUS
  <2>6. FlattenSeq(one) = <<>>
    <3> DEFINE f == [k \in 0 .. 1 |-> <<>>]
    <3>1. <<>> \in Seq(Marks) /\ <<>> \o <<>> = <<>>
      BY EmptySeq, ConcatEmptySeq
    <3>2. one \in Seq(Seq(Marks)) /\ Len(one) = 1 /\ one[1] = <<>>
      BY <3>1
    <3>3. f[0] = <<>> /\ f[1] = <<>>
      OBVIOUS
    <3> HIDE DEF one, f
    <3>4. \A i \in 1 .. Len(one) : i = 1 /\ i - 1 = 0
      BY <3>2
    <3>5. \A i \in 1 .. Len(one) : f[i] = f[i - 1] \o one[i]
      BY <3>1, <3>2, <3>3, <3>4
    <3>6. FlattenSeq(one) = f[Len(one)]
      BY ONLY <3>2, <3>3, <3>5, FlattenPrefix
    <3> QED BY <3>2, <3>3, <3>6
  <2>7. /\ [i \in DOMAIN q |-> Words(q[i].body)] = [i \in 1 .. 1 |-> b]
        /\ [i \in DOMAIN q |-> Words(Capitals(q[i].body))] = [i \in 1 .. 1 |-> b]
    <3>1. \A i \in 1 .. 1 : Words(q[i].body) = <<>> /\ Words(Capitals(q[i].body)) = <<>>
      BY <2>3, <2>4
    <3> QED BY <2>3, <3>1
  <2> HIDE DEF one, b
  <2> QED BY <1>1, <2>4, <2>5, <2>6, <2>7 DEF q
<1>2. CASE t # <<>>
  <2>1. s \in Seq(Chars) /\ Words(s) = Words(t) /\ Words(Capitals(s)) = Words(Capitals(t))
    BY SqueezeType, SqueezeWords
  <2>2. /\ \E P : q \in Seq(P)
        /\ \E c \in Seq(0 .. Len(s)) : CutAt(c, q, s, sections, size)
    BY <1>2, SplitCuts
  <2>3. ASSUME t \in Seq(Chars \ {"n"}), ShortWords(t, m)
        PROVE  s \in Seq(Chars \ {"n"}) /\ ShortWords(s, m)
    <3>1. m \in Nat
      OBVIOUS
    <3> HIDE DEF m, t
    <3>2. t \in Seq(Chars)
      BY DEF t
    <3> QED BY <2>3, <3>1, <3>2, SqueezeType, ShortStays
  <2> HIDE DEF q, s, sections
  <2>4. PICK P : q \in Seq(P)
    BY <2>2
  <2>5. PICK c \in Seq(0 .. Len(s)) : CutAt(c, q, s, sections, size)
    BY <2>2
  <2>6. DOMAIN q = 1 .. Len(q)
    BY <2>4, LenProperties
  <2>7. FlattenSeq([i \in 1 .. Len(q) |-> Words(q[i].body)]) = Words(s)
    BY <2>1, <2>4, <2>5, CutWords
  <2>8. ASSUME t \in Seq(Chars \ {"n"}), ShortWords(t, m)
        PROVE  FlattenSeq([i \in 1 .. Len(q) |-> Words(Capitals(q[i].body))]) = Words(Capitals(s))
    <3>1. /\ s \in Seq(Chars \ {"n"}) /\ ShortWords(s, size - size \div 2 - 1)
          /\ q \in Seq(P) /\ size \in Nat \ {0} /\ c \in Seq(0 .. Len(s))
          /\ CutAt(c, q, s, sections, size)
      BY <2>3, <2>4, <2>5, <2>8
    <3> QED BY ONLY <3>1, CutCapitals
  <2> HIDE DEF m, t
  <2> QED BY <2>1, <2>6, <2>7, <2>8 DEF q, t, m
<1> QED BY <1>1, <1>2 DEF t

\* No chunk is too long, no word gets lost and none that is shorter than half a
\* chunk is cut, for every bound on the texts and the chunk sizes.
THEOREM SplitSound == Spec => []SplitIsSound
<1>1. ASSUME NEW s \in Texts PROVE s \in Seq(Chars)
  <2>1. PICK n \in 0 .. MaxText : s \in [1 .. n -> {"w", "s", "n"}]
    BY DEF Texts
  <2>2. n \in Nat /\ {"w", "s", "n"} \subseteq Chars
    BY BoundsAssumption DEF Chars, Blank
  <2>3. s \in [1 .. n -> Chars]
    BY <2>1, <2>2
  <2> QED BY <2>2, <2>3, SeqDef
<1>2. ASSUME NEW s \in Texts, NEW size \in 1 .. MaxSize
      PROVE  LET pieces == SplitText([text |-> s, found |-> <<>>], size)
                 bodies == [i \in DOMAIN pieces |-> pieces[i].body]
             IN /\ \A i \in DOMAIN bodies : Len(bodies[i]) <= size
                /\ FlattenSeq([i \in DOMAIN bodies |-> Words(bodies[i])]) = Words(s)
                /\ "n" \notin ToSet(s) /\ ShortWords(s, size - size \div 2 - 1) =>
                     FlattenSeq([i \in DOMAIN bodies |-> Words(Capitals(bodies[i]))])
                       = Words(Capitals(s))
  <2> DEFINE book == [text |-> s, found |-> <<>>]
             q == SplitText(book, size)
             bodies == [i \in DOMAIN q |-> q[i].body]
  <2>1. book.text = s /\ s \in Seq(Chars) /\ size \in Nat \ {0}
    BY <1>1, BoundsAssumption
  <2>2. \A i \in DOMAIN q : q[i].body \in Bodies(size)
    <3> HIDE DEF book
    <3> QED BY <2>1, ChunksFit
  <2>3. /\ FlattenSeq([i \in DOMAIN q |-> Words(q[i].body)]) = Words(s)
        /\ s \in Seq(Chars \ {"n"}) /\ ShortWords(s, size - size \div 2 - 1) =>
             FlattenSeq([i \in DOMAIN q |-> Words(Capitals(q[i].body))]) = Words(Capitals(s))
    <3> HIDE DEF book
    <3> QED BY <2>1, WordsKept
  <2>4. ASSUME "n" \notin ToSet(s) PROVE s \in Seq(Chars \ {"n"})
    <3>1. \A i \in 1 .. Len(s) : s[i] \in Chars /\ s[i] # "n"
      BY <2>1, <2>4, LenProperties, ElementOfSeq DEF ToSet
    <3> QED BY <2>1, <3>1, SeqIn
  <2> HIDE DEF q
  <2>5. /\ DOMAIN bodies = DOMAIN q
        /\ \A i \in DOMAIN bodies : Len(bodies[i]) <= size
        /\ [i \in DOMAIN bodies |-> Words(bodies[i])] = [i \in DOMAIN q |-> Words(q[i].body)]
        /\ [i \in DOMAIN bodies |-> Words(Capitals(bodies[i]))]
             = [i \in DOMAIN q |-> Words(Capitals(q[i].body))]
    BY <2>2 DEF Bodies
  <2> HIDE DEF bodies
  <2> QED BY <2>3, <2>4, <2>5 DEF bodies, q
<1>3. SplitIsSound
  BY <1>2 DEF SplitIsSound
<1>4. []SplitIsSound
  BY <1>3, PTL
<1> QED BY <1>4

-----------------------------------------------------------------------------
(***************************************************************************)
(* Chapters.                                                               *)
(***************************************************************************)
Numbered == [pos: Nat, num: Nat \ {NoNumber}]

\* Headings whose numbers go up from 1 or more.
Ascending ==
  {r \in Seq(Numbered) :
     /\ \A i \in 1 .. Len(r) : r[i].num > 0
     /\ \A i, j \in 1 .. Len(r) : i < j => r[i].num < r[j].num}

LEMMA NumberedAt ==
  ASSUME NEW h \in Seq(Numbered)
  PROVE  /\ Len(h) \in Nat /\ DOMAIN h = 1 .. Len(h)
         /\ \A i \in 1 .. Len(h) :
              h[i] \in Numbered /\ h[i].pos \in Nat /\ h[i].num \in Nat /\ h[i].num # NoNumber
<1>1. ASSUME NEW i \in 1 .. Len(h) PROVE h[i] \in Numbered
  BY ElementOfSeq
<1>2. \A e \in Numbered : e.pos \in Nat /\ e.num \in Nat /\ e.num # NoNumber
  BY DEF Numbered
<1> QED BY <1>1, <1>2, LenProperties

LEMMA FirstBehindIs ==
  ASSUME NEW h \in Seq(Numbered), NEW pos \in Nat
  PROVE  /\ FirstBehind(h, pos) \in 1 .. Len(h) + 1
         /\ \A i \in 1 .. Len(h) : i < FirstBehind(h, pos) => h[i].pos <= pos
         /\ FirstBehind(h, pos) # Len(h) + 1 => h[FirstBehind(h, pos)].pos > pos
<1> DEFINE behind == {i \in DOMAIN h : h[i].pos > pos}
           fb == FirstBehind(h, pos)
<1>1. /\ Len(h) \in Nat /\ DOMAIN h = 1 .. Len(h)
      /\ \A i \in 1 .. Len(h) : h[i] \in Numbered /\ h[i].pos \in Nat
  BY NumberedAt
<1>2. fb = IF behind = {} THEN Len(h) + 1 ELSE Min(behind)
  BY DEF FirstBehind
<1>3. CASE behind = {}
  <2>1. fb = Len(h) + 1
    BY <1>2, <1>3
  <2>2. \A i \in 1 .. Len(h) : ~(h[i].pos > pos)
    BY <1>1, <1>3
  <2> HIDE DEF fb, behind
  <2> QED BY <1>1, <2>1, <2>2 DEF fb
<1>4. CASE behind # {}
  <2>1. behind \in SUBSET Nat /\ \A m \in behind : m <= Len(h)
    BY <1>1
  <2>2. fb \in behind /\ \A m \in behind : fb <= m
    <3> HIDE DEF behind, fb
    <3> QED BY <1>1, <1>2, <1>4, <2>1, MinMaxDef
  <2>3. ASSUME NEW i \in 1 .. Len(h), i < fb PROVE h[i].pos <= pos
    <3>1. i \notin behind
      <4> HIDE DEF behind, fb
      <4>1. fb \in Nat
        BY <2>1, <2>2
      <4> QED BY <2>2, <2>3, <4>1
    <3>2. ~(h[i].pos > pos)
      BY <1>1, <3>1
    <3> QED BY <1>1, <3>2
  <2>4. fb \in 1 .. Len(h) /\ h[fb].pos > pos
    <3> HIDE DEF fb
    <3> QED BY <1>1, <2>2
  <2> HIDE DEF fb, behind
  <2> QED BY <1>1, <2>3, <2>4 DEF fb
<1> QED BY <1>3, <1>4

LEMMA FirstBehindGrows ==
  ASSUME NEW h \in Seq(Numbered), NEW p \in Nat, NEW r \in Nat, p <= r
  PROVE  FirstBehind(h, p) <= FirstBehind(h, r)
<1> DEFINE f == FirstBehind(h, p)
           g == FirstBehind(h, r)
<1>1. Len(h) \in Nat /\ \A i \in 1 .. Len(h) : h[i].pos \in Nat
  BY NumberedAt
<1>2. /\ f \in 1 .. Len(h) + 1 /\ g \in 1 .. Len(h) + 1
      /\ \A i \in 1 .. Len(h) : i < f => h[i].pos <= p
      /\ g # Len(h) + 1 => h[g].pos > r
  BY FirstBehindIs
<1> HIDE DEF f, g
<1>0. f \in Nat /\ g \in Nat /\ f <= Len(h) + 1
  BY <1>1, <1>2
<1>3. CASE g = Len(h) + 1
  BY <1>0, <1>3 DEF f, g
<1>4. CASE g # Len(h) + 1
  <2>1. g \in 1 .. Len(h) /\ h[g].pos \in Nat /\ h[g].pos > r
    BY <1>1, <1>2, <1>4
  <2>2. ~(h[g].pos <= p)
    BY <2>1
  <2>3. ~(g < f)
    BY <1>2, <2>1, <2>2
  <2> QED BY <1>0, <2>3 DEF f, g
<1> QED BY <1>3, <1>4

LEMMA InOrderType ==
  ASSUME NEW found \in Seq(Headings)
  PROVE  InOrder(found) \in Seq(Numbered)
<1> DEFINE N == Len(found)
           S == Seq(Numbered)
           step(x, n) == IF found[n].num = NoNumber THEN x
                         ELSE InsertAt(x, FirstBehind(x, found[n].pos), found[n])
           G == [z \in S \X (1 .. N) |-> step(z[1], z[2])]
           E(f, n) == IF n = 0 THEN <<>> ELSE step(f[n - 1], n)
           F == CHOOSE f : f = [n \in 0 .. N |-> E(f, n)]
<1>1. N \in Nat /\ <<>> \in S /\ \A n \in 1 .. N : found[n] \in Headings
  BY LenProperties, EmptySeq, ElementOfSeq
<1>2. InOrder(found) = F[N]
  BY DEF InOrder
<1>3. ASSUME NEW x \in S, NEW n \in 1 .. N PROVE step(x, n) \in S
  <2>1. CASE found[n].num = NoNumber
    BY <2>1
  <2>2. CASE found[n].num # NoNumber
    <3> DEFINE e == found[n]
               k == FirstBehind(x, e.pos)
    <3>1. e \in Numbered /\ e.pos \in Nat
      BY <1>1, <2>2 DEF Headings, Numbered
    <3>2. k \in 1 .. Len(x) + 1 /\ Len(x) \in Nat /\ \A i \in 1 .. Len(x) : x[i] \in Numbered
      BY <3>1, FirstBehindIs, LenProperties, ElementOfSeq
    <3> HIDE DEF e, k
    <3> DEFINE u == SubSeq(x, 1, k - 1)
               v == SubSeq(x, k, Len(x))
    <3>3. u \in Seq(Numbered)
      <4>1. 1 \in Int /\ k - 1 \in Int /\ \A i \in 1 .. k - 1 : x[i] \in Numbered
        BY <3>2
      <4> QED BY ONLY <4>1, SubSeqProperties
    <3>4. v \in Seq(Numbered)
      <4>1. k \in Int /\ Len(x) \in Int /\ \A i \in k .. Len(x) : x[i] \in Numbered
        BY <3>2
      <4> QED BY ONLY <4>1, SubSeqProperties
    <3> HIDE DEF u, v
    <3>5. (u \o <<e>>) \o v \in Seq(Numbered)
      <4>1. <<e>> \in Seq(Numbered)
        BY <3>1
      <4>2. u \o <<e>> \in Seq(Numbered)
        BY ONLY <3>3, <4>1, ConcatProperties
      <4> QED BY ONLY <3>4, <4>2, ConcatProperties
    <3>6. InsertAt(x, k, e) = (u \o <<e>>) \o v
      BY DEF InsertAt, u, v
    <3> QED BY <2>2, <3>5, <3>6 DEF e, k
  <2> QED BY <2>1, <2>2
<1> HIDE DEF step
<1>4. G \in [S \X (1 .. N) -> S] /\ \A x \in S, n \in 1 .. N : G[<<x, n>>] = step(x, n)
  <2>1. \A z \in S \X (1 .. N) : step(z[1], z[2]) \in S
    BY <1>3
  <2> QED BY <2>1
<1> HIDE DEF G, N, S
<1>5. PICK g : IsRecursion(g, S, <<>>, N, G)
  <2> DEFINE b == <<>>
  <2>1. b \in S /\ N \in Nat /\ G \in [S \X (1 .. N) -> S]
    BY <1>1, <1>4
  <2> HIDE DEF b
  <2>2. \E f : IsRecursion(f, S, b, N, G)
    BY ONLY <2>1, Recursion
  <2> QED BY <2>2 DEF b
<1>6. ASSUME NEW n \in 0 .. N PROVE g[n] = E(g, n)
  <2>1. CASE n = 0
    BY <1>5, <2>1 DEF IsRecursion
  <2>2. CASE n # 0
    <3>1. n \in 1 .. N /\ n - 1 \in 0 .. N
      BY <1>1, <2>2
    <3>2. g[n] = G[<<g[n - 1], n>>] /\ g[n - 1] \in S
      BY <1>5, <3>1 DEF IsRecursion
    <3> QED BY <1>4, <2>2, <3>1, <3>2
  <2> QED BY <2>1, <2>2
<1>7. g = [n \in 0 .. N |-> E(g, n)]
  <2>1. g = [n \in 0 .. N |-> g[n]]
    BY <1>5 DEF IsRecursion
  <2> HIDE DEF E
  <2> QED BY <1>6, <2>1
<1>8. F = [n \in 0 .. N |-> E(F, n)]
  <2> HIDE DEF E
  <2> QED BY <1>7
<1> HIDE DEF F
<1>9. \A n \in 0 .. N : F[n] = E(F, n)
  <2> HIDE DEF E
  <2> QED BY <1>8
<1>10. F = [n \in 0 .. N |-> F[n]]
  <2> HIDE DEF E
  <2> QED BY <1>8, <1>9
<1>11. F[0] = <<>>
  BY <1>1, <1>9
<1>12. ASSUME NEW n \in 1 .. N, F[n - 1] \in S PROVE F[n] = G[<<F[n - 1], n>>]
  <2>1. n \in 0 .. N /\ n # 0
    BY <1>1
  <2> QED BY <1>4, <1>9, <1>12, <2>1
<1>13. IsRecursion(F, S, <<>>, N, G)
  <2> DEFINE b == <<>>
  <2> HIDE DEF E, b
  <2>1. b \in S /\ N \in Nat /\ G \in [S \X (1 .. N) -> S] /\ F[0] = b
    BY <1>1, <1>4, <1>11 DEF b
  <2>2. \A n \in 1 .. N : F[n - 1] \in S => F[n] = G[<<F[n - 1], n>>]
    BY <1>12
  <2>3. IsRecursion(F, S, b, N, G)
    BY ONLY <1>10, <2>1, <2>2, GoesOn
  <2> QED BY <2>3 DEF b
<1>14. F[N] \in S
  <2>1. N \in 0 .. N
    BY <1>1
  <2> QED BY <1>13, <2>1 DEF IsRecursion
<1> QED BY <1>2, <1>14 DEF S

\* ChapterParser.parse: whatever headings are found, the numbers of those that
\* it returns go up.
LEMMA ParseAscends ==
  ASSUME NEW found \in Seq(Headings)
  PROVE  ParseChapters(found) \in Ascending
<1> DEFINE cand == InOrder(found)
           N == Len(cand)
           S == Ascending
           last(x) == IF x = <<>> THEN 0 ELSE Last(x).num
           step(x, n) == IF cand[n].num > last(x) THEN Append(x, cand[n]) ELSE x
           G == [z \in S \X (1 .. N) |-> step(z[1], z[2])]
           E(f, n) == IF n = 0 THEN <<>> ELSE step(f[n - 1], n)
           F == CHOOSE f : f = [n \in 0 .. N |-> E(f, n)]
<1>0. cand \in Seq(Numbered)
  BY InOrderType
<1>2. ParseChapters(found) = F[N]
  BY DEF ParseChapters
<1> HIDE DEF cand
<1>1. N \in Nat /\ <<>> \in S /\ \A n \in 1 .. N : cand[n] \in Numbered
  BY <1>0, LenProperties, EmptySeq, ElementOfSeq DEF Ascending
<1>3. ASSUME NEW x \in S, NEW n \in 1 .. N PROVE step(x, n) \in S
  <2>1. CASE ~(cand[n].num > last(x))
    BY <2>1
  <2>2. CASE cand[n].num > last(x)
    <3> DEFINE e == cand[n]
               y == Append(x, e)
               m == Len(x)
    <3>1. e \in Numbered /\ e.num \in Nat /\ x \in Seq(Numbered)
      BY <1>1 DEF Numbered, Ascending
    <3>2. /\ m \in Nat /\ \A i \in 1 .. m : x[i].num \in Nat /\ x[i].num > 0
          /\ \A i, j \in 1 .. m : i < j => x[i].num < x[j].num
      <4>1. m \in Nat /\ \A i \in 1 .. m : x[i].num \in Nat
        BY <3>1, NumberedAt
      <4> QED BY <4>1 DEF Ascending
    <3>3. /\ y \in Seq(Numbered) /\ Len(y) = m + 1
          /\ (\A i \in 1 .. m : y[i] = x[i]) /\ y[m + 1] = e
      BY <3>1, AppendOf
    <3>4. e.num > 0 /\ \A i \in 1 .. m : x[i].num < e.num
      <4>1. x = <<>> <=> m = 0
        BY <3>1, EmptySeq
      <4>2. CASE m = 0
        BY <2>2, <4>1, <4>2
      <4>3. CASE m # 0
        <5>1. m \in 1 .. m /\ e.num > x[m].num
          BY <2>2, <3>2, <4>1, <4>3 DEF Last
        <5>2. \A i \in 1 .. m : i < m \/ i = m
          BY <3>2
        <5> HIDE DEF e, m
        <5>3. x[m].num \in Nat /\ x[m].num > 0
          BY <3>2, <5>1
        <5>4. ASSUME NEW i \in 1 .. m PROVE x[i].num < e.num
          <6>1. x[i].num \in Nat /\ x[i].num <= x[m].num
            BY <3>2, <5>1, <5>2
          <6> QED BY <3>1, <5>1, <5>3, <6>1
        <5> QED BY <3>1, <5>1, <5>3, <5>4
      <4> QED BY <4>2, <4>3
    <3> HIDE DEF e, y, m
    <3>5. \A i \in 1 .. m + 1 : i \in 1 .. m \/ i = m + 1
      BY <3>2
    <3>6. \A i \in 1 .. Len(y) : y[i].num > 0
      BY <3>2, <3>3, <3>4, <3>5
    <3>7. ASSUME NEW i \in 1 .. Len(y), NEW j \in 1 .. Len(y), i < j PROVE y[i].num < y[j].num
      <4>1. i \in 1 .. m
        BY <3>2, <3>3, <3>7
      <4> QED BY <3>2, <3>3, <3>4, <3>5, <3>7, <4>1
    <3>8. y \in S
      BY <3>3, <3>6, <3>7 DEF Ascending
    <3> QED BY <2>2, <3>8 DEF y, e
  <2> QED BY <2>1, <2>2
<1> HIDE DEF step
<1>4. G \in [S \X (1 .. N) -> S] /\ \A x \in S, n \in 1 .. N : G[<<x, n>>] = step(x, n)
  <2>1. \A z \in S \X (1 .. N) : step(z[1], z[2]) \in S
    BY <1>3
  <2> QED BY <2>1
<1> HIDE DEF G, N, S
<1>5. PICK g : IsRecursion(g, S, <<>>, N, G)
  <2> DEFINE b == <<>>
  <2>1. b \in S /\ N \in Nat /\ G \in [S \X (1 .. N) -> S]
    BY <1>1, <1>4
  <2> HIDE DEF b
  <2>2. \E f : IsRecursion(f, S, b, N, G)
    BY ONLY <2>1, Recursion
  <2> QED BY <2>2 DEF b
<1>6. ASSUME NEW n \in 0 .. N PROVE g[n] = E(g, n)
  <2>1. CASE n = 0
    BY <1>5, <2>1 DEF IsRecursion
  <2>2. CASE n # 0
    <3>1. n \in 1 .. N /\ n - 1 \in 0 .. N
      BY <1>1, <2>2
    <3>2. g[n] = G[<<g[n - 1], n>>] /\ g[n - 1] \in S
      BY <1>5, <3>1 DEF IsRecursion
    <3> QED BY <1>4, <2>2, <3>1, <3>2
  <2> QED BY <2>1, <2>2
<1>7. g = [n \in 0 .. N |-> E(g, n)]
  <2>1. g = [n \in 0 .. N |-> g[n]]
    BY <1>5 DEF IsRecursion
  <2> HIDE DEF E
  <2> QED BY <1>6, <2>1
<1>8. F = [n \in 0 .. N |-> E(F, n)]
  <2> HIDE DEF E
  <2> QED BY <1>7
<1> HIDE DEF F
<1>9. \A n \in 0 .. N : F[n] = E(F, n)
  <2> HIDE DEF E
  <2> QED BY <1>8
<1>10. F = [n \in 0 .. N |-> F[n]]
  <2> HIDE DEF E
  <2> QED BY <1>8, <1>9
<1>11. F[0] = <<>>
  BY <1>1, <1>9
<1>12. ASSUME NEW n \in 1 .. N, F[n - 1] \in S PROVE F[n] = G[<<F[n - 1], n>>]
  <2>1. n \in 0 .. N /\ n # 0
    BY <1>1
  <2> QED BY <1>4, <1>9, <1>12, <2>1
<1>13. IsRecursion(F, S, <<>>, N, G)
  <2> DEFINE b == <<>>
  <2> HIDE DEF E, b
  <2>1. b \in S /\ N \in Nat /\ G \in [S \X (1 .. N) -> S] /\ F[0] = b
    BY <1>1, <1>4, <1>11 DEF b
  <2>2. \A n \in 1 .. N : F[n - 1] \in S => F[n] = G[<<F[n - 1], n>>]
    BY <1>12
  <2>3. IsRecursion(F, S, b, N, G)
    BY ONLY <1>10, <2>1, <2>2, GoesOn
  <2> QED BY <2>3 DEF b
<1>14. F[N] \in S
  <2>1. N \in 0 .. N
    BY <1>1
  <2> QED BY <1>13, <2>1 DEF IsRecursion
<1> QED BY <1>2, <1>14 DEF S

\* The number of a chapter, 0 before the first.
Label(chapter) == IF chapter = NoNumber THEN 0 ELSE chapter

LEMMA LabelsAscend ==
  ASSUME NEW h \in Ascending, NEW p \in Nat, NEW r \in Nat, p <= r
  PROVE  /\ Label(FindSection(h, p)) \in Nat /\ Label(FindSection(h, r)) \in Nat
         /\ Label(FindSection(h, p)) <= Label(FindSection(h, r))
<1> DEFINE a == FirstBehind(h, p) - 1
           b == FirstBehind(h, r) - 1
<1>1. /\ h \in Seq(Numbered) /\ Len(h) \in Nat
      /\ \A i \in 1 .. Len(h) : h[i].num \in Nat \ {NoNumber} /\ h[i].num > 0
      /\ \A i, j \in 1 .. Len(h) : i < j => h[i].num < h[j].num
  <2>1. h \in Seq(Numbered)
    BY DEF Ascending
  <2>2. Len(h) \in Nat /\ \A i \in 1 .. Len(h) : h[i].num \in Nat \ {NoNumber}
    BY <2>1, NumberedAt
  <2> QED BY <2>1, <2>2 DEF Ascending
<1>2. /\ FirstBehind(h, p) \in 1 .. Len(h) + 1 /\ FirstBehind(h, r) \in 1 .. Len(h) + 1
      /\ FirstBehind(h, p) <= FirstBehind(h, r)
  BY <1>1, FirstBehindIs, FirstBehindGrows
<1>3. a \in 0 .. Len(h) /\ b \in 0 .. Len(h) /\ a <= b
  BY <1>1, <1>2
<1>4. /\ FindSection(h, p) = IF a = 0 THEN NoNumber ELSE h[a].num
      /\ FindSection(h, r) = IF b = 0 THEN NoNumber ELSE h[b].num
  BY DEF FindSection
<1> HIDE DEF a, b
<1>5. /\ Label(FindSection(h, p)) = IF a = 0 THEN 0 ELSE h[a].num
      /\ Label(FindSection(h, r)) = IF b = 0 THEN 0 ELSE h[b].num
  <2>1. (a # 0 => a \in 1 .. Len(h)) /\ (b # 0 => b \in 1 .. Len(h))
    BY <1>3
  <2> QED BY <1>1, <1>4, <2>1 DEF Label
<1>6. CASE a = 0
  BY <1>1, <1>3, <1>5, <1>6
<1>7. CASE a # 0
  <2>1. a \in 1 .. Len(h) /\ b \in 1 .. Len(h) /\ b # 0 /\ (a < b \/ a = b)
    BY <1>1, <1>3, <1>7
  <2>2. h[a].num \in Nat /\ h[b].num \in Nat /\ (a < b => h[a].num < h[b].num)
    BY <1>1, <2>1
  <2> QED BY <1>5, <1>7, <2>1, <2>2
<1> QED BY <1>6, <1>7

\* Places that go up from each to the next go up.
LEMMA PlacesAscend ==
  ASSUME NEW N \in Nat, NEW c, \A i \in 1 .. N : c[i] \in Nat /\ c[i + 1] \in Nat /\ c[i] < c[i + 1]
  PROVE  \A i, j \in 1 .. N : i <= j => c[i] <= c[j]
<1> DEFINE T == {n \in Nat : \A i \in 1 .. N : i + n <= N => c[i] <= c[i + n]}
<1>1. 0 \in T
  <2>1. \A i \in 1 .. N : i + 0 = i /\ c[i] <= c[i]
    OBVIOUS
  <2> QED BY <2>1
<1>2. ASSUME NEW n \in Nat, n \in T PROVE n + 1 \in T
  <2> SUFFICES ASSUME NEW i \in 1 .. N, i + (n + 1) <= N PROVE c[i] <= c[i + (n + 1)]
    OBVIOUS
  <2>1. i + n \in 1 .. N /\ i + n <= N /\ (i + n) + 1 = i + (n + 1)
    OBVIOUS
  <2>2. c[i] <= c[i + n] /\ c[i + n] < c[(i + n) + 1]
    BY <1>2, <2>1
  <2>3. c[i] \in Nat /\ c[i + n] \in Nat /\ c[(i + n) + 1] \in Nat
    BY <2>1
  <2> QED BY <2>1, <2>2, <2>3
<1>3. Nat \subseteq T
  <2> HIDE DEF T
  <2> QED BY <1>1, <1>2, NatInd
<1> SUFFICES ASSUME NEW i \in 1 .. N, NEW j \in 1 .. N, i <= j PROVE c[i] <= c[j]
  OBVIOUS
<1>4. j - i \in Nat /\ i + (j - i) = j /\ j <= N
  OBVIOUS
<1> QED BY <1>3, <1>4

\* chapter_parser.py:12, the chapters of a book's chunks never count backwards,
\* whatever the text is and whatever its headings refer to.
THEOREM ChaptersCountUp ==
  ASSUME NEW book, book.text \in Seq(Chars), book.found \in Seq(Headings), NEW size \in Nat \ {0}
  PROVE  \A i, j \in DOMAIN SplitText(book, size) : i < j =>
           Label(SplitText(book, size)[i].chapter) <= Label(SplitText(book, size)[j].chapter)
<1> DEFINE q == SplitText(book, size)
           s == Squeeze(book.text)
           sections == ParseChapters(book.found)
<1>1. CASE book.text = <<>>
  <2> DEFINE r == [body |-> <<>>, chapter |-> NoNumber]
  <2>1. q = <<r>>
    BY <1>1 DEF SplitText
  <2> HIDE DEF r, q
  <2>2. DOMAIN q = {1}
    BY <2>1
  <2>3. \A i, j \in DOMAIN q : ~(i < j)
    BY <2>2
  <2> QED BY <2>3 DEF q
<1>2. CASE book.text # <<>>
  <2>1. sections \in Ascending /\ s \in Seq(Chars)
    BY ParseAscends, SqueezeType
  <2>2. /\ \E P : q \in Seq(P)
        /\ \E c \in Seq(0 .. Len(s)) : CutAt(c, q, s, sections, size)
    BY <1>2, SplitCuts
  <2> HIDE DEF q, s, sections
  <2>3. PICK P : q \in Seq(P)
    BY <2>2
  <2>4. PICK c \in Seq(0 .. Len(s)) : CutAt(c, q, s, sections, size)
    BY <2>2
  <2>5. DOMAIN q = 1 .. Len(q) /\ Len(q) \in Nat /\ Len(s) \in Nat
    BY <2>1, <2>3, LenProperties
  <2>6. ASSUME NEW i \in 1 .. Len(q)
        PROVE  /\ c[i] \in Nat /\ c[i + 1] \in Nat /\ c[i] < c[i + 1]
               /\ q[i].chapter = FindSection(sections, c[i])
    <3>1. q[i] = Piece(s, sections, c[i], c[i + 1])
      BY <2>4 DEF CutAt
    <3>2. CutPart(c, q, s, i)
      BY <2>1, <2>3, <2>4, CutParts
    <3>3. c[i] \in 0 .. Len(s) /\ c[i + 1] \in 0 .. Len(s) /\ c[i] < c[i + 1]
      BY <3>2 DEF CutPart
    <3> QED BY <2>5, <3>1, <3>3 DEF Piece
  <2>7. \A i, j \in 1 .. Len(q) : i <= j => c[i] <= c[j]
    BY <2>5, <2>6, PlacesAscend
  <2>8. ASSUME NEW i \in 1 .. Len(q), NEW j \in 1 .. Len(q), i < j
        PROVE  Label(q[i].chapter) <= Label(q[j].chapter)
    <3>1. c[i] \in Nat /\ c[j] \in Nat /\ c[i] <= c[j]
      BY <2>5, <2>6, <2>7, <2>8
    <3>2. Label(FindSection(sections, c[i])) <= Label(FindSection(sections, c[j]))
      BY <2>1, <3>1, LabelsAscend
    <3> QED BY <2>6, <3>2
  <2> QED BY <2>5, <2>8 DEF q
<1> QED BY <1>1, <1>2

=============================================================================
