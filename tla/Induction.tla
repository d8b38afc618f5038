------------------------------ MODULE Induction ------------------------------
(***************************************************************************)
(* Facts about numbers, recursive functions and sequences that the proofs  *)
(* share.  The library's theorems on induction take a predicate; here a    *)
(* set of naturals is in its place: one that has 0 and with n also n + 1   *)
(* has all naturals, since the rest would have a least element.            *)
(***************************************************************************)
EXTENDS Integers, SequencesExt, SequenceTheorems, FiniteSetTheorems, WellFoundedInduction, TLAPS

\* Every set of naturals that is not empty has a least element.
LEMMA Least ==
  ASSUME NEW T \in SUBSET Nat, T # {}
  PROVE  \E n \in T : \A m \in T : n <= m
<1> DEFINE Below(n) == {m \in T : m <= n}
<1> DEFINE U == {Below(n) : n \in T}
<1>1. \A n \in T : IsFiniteSet(Below(n))
  <2> SUFFICES ASSUME NEW n \in T PROVE IsFiniteSet(Below(n))
    OBVIOUS
  <2>1. n \in Nat /\ Below(n) \in SUBSET Nat /\ \A s \in Below(n) : s <= n
    OBVIOUS
  <2> QED BY <2>1, FS_BoundedSetOfNaturals
<1>2. U \subseteq FiniteSubsetsOf(Nat) /\ U # {}
  BY <1>1 DEF FiniteSubsetsOf
<1>3. IsWellFoundedOn(StrictSubsetOrdering(Nat), FiniteSubsetsOf(Nat))
  BY FS_StrictSubsetOrderingWellFounded
<1>4. PICK u \in U : \A v \in U : ~(<<v, u>> \in StrictSubsetOrdering(Nat))
  BY <1>2, <1>3, WFMin
<1>5. PICK n \in T : u = Below(n)
  OBVIOUS
<1>6. ASSUME NEW m \in T, ~(n <= m) PROVE FALSE
  <2>1. m \in Nat /\ n \in Nat
    OBVIOUS
  <2>2. Below(m) \in U
    OBVIOUS
  <2>3. ASSUME NEW k \in Below(m) PROVE k \in Below(n)
    <3>1. k \in Nat /\ k \in T /\ k <= m
      OBVIOUS
    <3> QED BY <1>6, <2>1, <3>1
  <2>4. n \notin Below(m) /\ n \in Below(n)
    BY <1>6, <2>1
  <2>5. <<Below(m), Below(n)>> \in (SUBSET Nat) \X (SUBSET Nat)
    OBVIOUS
  <2> HIDE DEF Below
  <2>6. <<Below(m), Below(n)>> \in StrictSubsetOrdering(Nat)
    BY <2>3, <2>4, <2>5 DEF StrictSubsetOrdering
  <2> QED BY <1>4, <1>5, <2>2, <2>6
<1> QED BY <1>6

\* Induction, with a set in the place of the predicate.
LEMMA NatInd ==
  ASSUME NEW T, 0 \in T, \A n \in Nat : n \in T => n + 1 \in T
  PROVE  Nat \subseteq T
<1> SUFFICES ASSUME Nat \ T # {} PROVE FALSE
  OBVIOUS
<1>1. PICK n \in Nat \ T : \A m \in Nat \ T : n <= m
  <2>1. Nat \ T \in SUBSET Nat
    OBVIOUS
  <2> QED BY <2>1, Least
<1>2. n - 1 \in Nat /\ n - 1 \in T
  BY <1>1
<1> QED BY <1>1, <1>2

\* Every set of naturals that is not empty and has a bound has a greatest
\* element, which is what Max chooses; Min chooses the least.
LEMMA MinMaxDef ==
  ASSUME NEW T \in SUBSET Nat, T # {}, NEW b \in Nat, \A m \in T : m <= b
  PROVE  /\ Min(T) \in T /\ \A m \in T : Min(T) <= m
         /\ Max(T) \in T /\ \A m \in T : m <= Max(T)
<1>1. Min(T) \in T /\ \A m \in T : Min(T) <= m
  BY Least DEF Min
<1>2. \E n \in T : \A m \in T : n >= m
  <2> DEFINE D == {b - m : m \in T}
  <2>1. D \in SUBSET Nat /\ D # {}
    <3>1. ASSUME NEW m \in T PROVE b - m \in Nat
      <4>1. m \in Nat /\ m <= b
        OBVIOUS
      <4> QED BY <4>1
    <3> QED BY <3>1
  <2>2. PICK e \in D : \A f \in D : e <= f
    BY <2>1, Least
  <2>3. PICK n \in T : e = b - n
    OBVIOUS
  <2>4. ASSUME NEW m \in T PROVE n >= m
    <3>1. b - n <= b - m
      BY <2>2, <2>3
    <3>2. b \in Nat /\ m \in Nat /\ n \in Nat
      OBVIOUS
    <3> QED BY ONLY <3>1, <3>2
  <2> QED BY <2>4
<1>3. Max(T) \in T /\ \A m \in T : Max(T) >= m
  BY <1>2 DEF Max
<1>4. \A m \in T : m <= Max(T)
  BY <1>3
<1> QED BY <1>1, <1>3, <1>4

-----------------------------------------------------------------------------
(***************************************************************************)
(* Recursive functions.                                                    *)
(***************************************************************************)
\* f begins with b, and G gives each value from the one before.
IsRecursion(f, S, b, N, G) ==
  f \in [0 .. N -> S] /\ f[0] = b /\ \A n \in 1 .. N : f[n] = G[<<f[n - 1], n>>]

\* A function of 0 .. N can be defined by a first value and a step.
LEMMA Recursion ==
  ASSUME NEW S, NEW b \in S, NEW N \in Nat, NEW G \in [S \X (1 .. N) -> S]
  PROVE  \E f : IsRecursion(f, S, b, N, G)
<1> DEFINE Upto(f, m) == f[0] = b /\ \A n \in 1 .. m : f[n] = G[<<f[n - 1], n>>]
           T == {m \in Nat : m <= N => \E f \in [0 .. m -> S] : Upto(f, m)}
<1>1. 0 \in T
  <2>1. [n \in 0 .. 0 |-> b] \in [0 .. 0 -> S] /\ Upto([n \in 0 .. 0 |-> b], 0)
    OBVIOUS
  <2> QED
    BY <2>1
<1>2. ASSUME NEW m \in Nat, m \in T PROVE m + 1 \in T
  <2> SUFFICES ASSUME m + 1 <= N PROVE \E f \in [0 .. m + 1 -> S] : Upto(f, m + 1)
    OBVIOUS
  <2>1. PICK f \in [0 .. m -> S] : Upto(f, m)
    BY <1>2
  <2> DEFINE x == G[<<f[m], m + 1>>]
             g == [n \in 0 .. m + 1 |-> IF n = m + 1 THEN x ELSE f[n]]
  <2>2. x \in S
    <3>1. f[m] \in S /\ m + 1 \in 1 .. N
      OBVIOUS
    <3> QED
      BY <3>1
  <2>3. g \in [0 .. m + 1 -> S]
    <3>1. ASSUME NEW n \in 0 .. m + 1, n # m + 1 PROVE n \in 0 .. m
      BY <3>1
    <3> QED
      BY <2>2, <3>1
  <2>4. g[0] = b
    BY <2>1
  <2>5. ASSUME NEW n \in 1 .. m + 1 PROVE g[n] = G[<<g[n - 1], n>>]
    <3>1. n - 1 \in 0 .. m + 1 /\ n - 1 # m + 1 /\ n \in 0 .. m + 1
      OBVIOUS
    <3>2. g[n - 1] = f[n - 1]
      BY <3>1
    <3>3. CASE n = m + 1
      <4>1. n - 1 = m
        BY <3>3
      <4> QED
        BY <3>1, <3>2, <3>3, <4>1
    <3>4. CASE n # m + 1
      <4>1. n \in 1 .. m
        BY <3>4
      <4>2. g[n] = f[n] /\ f[n] = G[<<f[n - 1], n>>]
        BY <2>1, <3>1, <3>4, <4>1
      <4> QED
        BY <3>2, <4>2
    <3> QED
      BY <3>3, <3>4
  <2> HIDE DEF g, x
  <2> QED
    BY <2>3, <2>4, <2>5
<1> HIDE DEF T
<1>3. N \in T
  BY <1>1, <1>2, NatInd
<1> QED
  BY <1>3 DEF T, IsRecursion

\* What goes on like a recursion from a value of the type is one.
LEMMA GoesOn ==
  ASSUME NEW S, NEW b \in S, NEW N \in Nat, NEW G \in [S \X (1 .. N) -> S],
         NEW f, f = [n \in 0 .. N |-> f[n]], f[0] = b,
         \A n \in 1 .. N : f[n - 1] \in S => f[n] = G[<<f[n - 1], n>>]
  PROVE  IsRecursion(f, S, b, N, G)
<1> DEFINE T == {n \in Nat : n <= N => f[n] \in S}
<1>1. 0 \in T
  OBVIOUS
<1>2. ASSUME NEW n \in Nat, n \in T PROVE n + 1 \in T
  <2> SUFFICES ASSUME n + 1 <= N PROVE f[n + 1] \in S
    OBVIOUS
  <2>1. n + 1 \in 1 .. N /\ (n + 1) - 1 = n /\ f[n] \in S
    BY <1>2
  <2>2. f[n + 1] = G[<<f[n], n + 1>>]
    BY <2>1
  <2> QED
    BY <2>1, <2>2
<1>3. Nat \subseteq T
  <2> HIDE DEF T
  <2> QED
    BY <1>1, <1>2, NatInd
<1>4. \A n \in 0 .. N : f[n] \in S
  BY <1>3
<1>5. f \in [0 .. N -> S]
  BY <1>4
<1>6. \A n \in 1 .. N : n - 1 \in 0 .. N
  OBVIOUS
<1> QED
  BY <1>4, <1>5, <1>6 DEF IsRecursion

\* Two recursions agree as far as their steps do.
LEMMA SameRecursion ==
  ASSUME NEW S, NEW b, NEW N \in Nat, NEW G, NEW f, IsRecursion(f, S, b, N, G),
         NEW M \in Nat, NEW H, NEW g, IsRecursion(g, S, b, M, H), N <= M,
         \A x \in S, n \in 1 .. N : G[<<x, n>>] = H[<<x, n>>]
  PROVE  \A n \in 0 .. N : f[n] = g[n]
<1> DEFINE T == {n \in Nat : n <= N => f[n] = g[n]}
<1>1. 0 \in T
  BY DEF IsRecursion
<1>2. ASSUME NEW n \in Nat, n \in T PROVE n + 1 \in T
  <2> SUFFICES ASSUME n + 1 <= N PROVE f[n + 1] = g[n + 1]
    OBVIOUS
  <2>1. n + 1 \in 1 .. N /\ n + 1 \in 1 .. M /\ (n + 1) - 1 = n /\ f[n] = g[n] /\ n \in 0 .. N
    BY <1>2
  <2>2. f[n] \in S /\ f[n + 1] = G[<<f[n], n + 1>>] /\ g[n + 1] = H[<<g[n], n + 1>>]
    BY <2>1 DEF IsRecursion
  <2> QED
    BY <2>1, <2>2
<1>3. Nat \subseteq T
  <2> HIDE DEF T
  <2> QED
    BY <1>1, <1>2, NatInd
<1> QED
  BY <1>3

\* A recursion that goes one step further than another.
LEMMA OneStepMore ==
  ASSUME NEW S, NEW b, NEW N \in Nat, NEW G, NEW f, IsRecursion(f, S, b, N, G),
         NEW M \in Nat, N < M, M <= N + 1, NEW H, NEW g, IsRecursion(g, S, b, M, H),
         \A x \in S, n \in 1 .. N : G[<<x, n>>] = H[<<x, n>>]
  PROVE  f[N] \in S /\ g[M] = H[<<f[N], M>>]
<1>1. M \in Nat /\ N <= M /\ M \in 1 .. M /\ M - 1 = N /\ N \in 0 .. N
  OBVIOUS
<1>3. \A n \in 0 .. N : f[n] = g[n]
  <2>1. /\ N \in Nat /\ M \in Nat /\ N <= M
        /\ IsRecursion(f, S, b, N, G) /\ IsRecursion(g, S, b, M, H)
        /\ \A x \in S, n \in 1 .. N : G[<<x, n>>] = H[<<x, n>>]
    BY <1>1
  <2> QED
    BY ONLY <2>1, SameRecursion
<1>4. f[N] \in S /\ f[N] = g[N]
  BY <1>1, <1>3 DEF IsRecursion
<1>5. g[M] = H[<<g[M - 1], M>>]
  BY <1>1 DEF IsRecursion
<1> QED
  BY <1>1, <1>4, <1>5

-----------------------------------------------------------------------------
(***************************************************************************)
(* Sequences.                                                              *)
(***************************************************************************)
LEMMA SeqIn ==
  ASSUME NEW S, NEW T, NEW s \in Seq(S), \A i \in 1 .. Len(s) : s[i] \in T
  PROVE  s \in Seq(T)
<1>1. Len(s) \in Nat /\ s = [i \in 1 .. Len(s) |-> s[i]]
  BY LenProperties
<1>2. s \in [1 .. Len(s) -> T]
  BY <1>1
<1> QED BY <1>1, <1>2, SeqDef

LEMMA AppendOf ==
  ASSUME NEW S, NEW s \in Seq(S), NEW e \in S
  PROVE  /\ Append(s, e) \in Seq(S) /\ Len(Append(s, e)) = Len(s) + 1 /\ Len(s) \in Nat
         /\ \A i \in 1 .. Len(s) : Append(s, e)[i] = s[i]
         /\ Append(s, e)[Len(s) + 1] = e
         /\ Append(s, e) # <<>>
<1>1. /\ Append(s, e) \in Seq(S) /\ Len(Append(s, e)) = Len(s) + 1 /\ Len(s) \in Nat
      /\ \A i \in 1 .. Len(s) : Append(s, e)[i] = s[i]
      /\ Append(s, e)[Len(s) + 1] = e
  OBVIOUS
<1>2. Append(s, e) # <<>>
  BY <1>1, EmptySeq
<1> QED
  BY <1>1, <1>2

\* The beginning of a sequence, and the element behind it.
LEMMA PrefixMore ==
  ASSUME NEW S, NEW s \in Seq(S), NEW n \in Nat, n + 1 <= Len(s)
  PROVE  /\ SubSeq(s, 1, n + 1) = Append(SubSeq(s, 1, n), s[n + 1])
         /\ SubSeq(s, 1, n) \in Seq(S) /\ Len(SubSeq(s, 1, n)) = n
         /\ s[n + 1] \in S
<1>1. \A i \in 1 .. n + 1 : s[i] \in S
  OBVIOUS
<1>2. /\ SubSeq(s, 1, n + 1) \in Seq(S) /\ Len(SubSeq(s, 1, n + 1)) = n + 1
      /\ \A i \in 1 .. n + 1 : SubSeq(s, 1, n + 1)[i] = s[i]
  BY <1>1, SubSeqProperties
<1>3. /\ SubSeq(s, 1, n) \in Seq(S) /\ Len(SubSeq(s, 1, n)) = n
      /\ \A i \in 1 .. n : SubSeq(s, 1, n)[i] = s[i]
  BY <1>1, SubSeqProperties
<1> DEFINE u == SubSeq(s, 1, n)
           v == SubSeq(s, 1, n + 1)
           x == s[n + 1]
<1>4. x \in S
  BY <1>1
<1> HIDE DEF u, v, x
<1>5. /\ Append(u, x) \in Seq(S) /\ Len(Append(u, x)) = n + 1
      /\ (\A i \in 1 .. n : Append(u, x)[i] = u[i]) /\ Append(u, x)[n + 1] = x
  BY <1>3, <1>4, AppendProperties DEF u
<1>6. ASSUME NEW i \in 1 .. n + 1 PROVE v[i] = Append(u, x)[i]
  <2>1. CASE i \in 1 .. n
    BY <1>2, <1>3, <1>5, <2>1 DEF u, v
  <2>2. CASE i = n + 1
    BY <1>2, <1>5, <2>2 DEF v, x
  <2>3. i \in 1 .. n \/ i = n + 1
    OBVIOUS
  <2> QED
    BY <2>1, <2>2, <2>3
<1>7. v \in Seq(S) /\ Len(v) = n + 1
  BY <1>2 DEF v
<1>8. v = Append(u, x)
  BY <1>5, <1>6, <1>7, SeqEqual
<1> QED
  BY <1>3, <1>4, <1>8 DEF u, v, x

\* Induction over sequences: a set that has the empty one and with s also what
\* is longer by one element has them all.
LEMMA SeqInd ==
  ASSUME NEW S, NEW T, <<>> \in T,
         \A s \in Seq(S), x \in S : s \in T => Append(s, x) \in T
  PROVE  Seq(S) \subseteq T
<1> DEFINE U == {n \in Nat : \A s \in Seq(S) : Len(s) = n => s \in T}
<1>1. 0 \in U
  BY EmptySeq
<1>2. ASSUME NEW n \in Nat, n \in U PROVE n + 1 \in U
  <2> SUFFICES ASSUME NEW s \in Seq(S), Len(s) = n + 1 PROVE s \in T
    OBVIOUS
  <2> DEFINE u == SubSeq(s, 1, n)
             x == s[n + 1]
  <2>1. SubSeq(s, 1, n + 1) = Append(u, x) /\ u \in Seq(S) /\ Len(u) = n /\ x \in S
    BY PrefixMore
  <2>2. SubSeq(s, 1, n + 1) = s
    BY SubSeqFull
  <2> HIDE DEF u, x
  <2>3. u \in T
    BY <1>2, <2>1
  <2>4. s = Append(u, x)
    BY <2>1, <2>2
  <2> QED
    BY <2>1, <2>3, <2>4
<1>3. Nat \subseteq U
  <2> HIDE DEF U
  <2> QED
    BY <1>1, <1>2, NatInd
<1> QED
  BY <1>3, LenProperties

LEMMA ConcatAppend ==
  ASSUME NEW S, NEW s \in Seq(S), NEW t \in Seq(S), NEW x \in S
  PROVE  s \o Append(t, x) = Append(s \o t, x)
<1>1. <<x>> \in Seq(S) /\ s \o t \in Seq(S)
  BY ConcatProperties
<1>2. Append(t, x) = t \o <<x>> /\ Append(s \o t, x) = (s \o t) \o <<x>>
  BY <1>1, AppendIsConcat
<1> QED
  BY <1>1, <1>2, ConcatAssociative

FlatStep(f, cs, i) == IF i = 1 THEN cs[i] ELSE f[i - 1] \o cs[i]

Flattened(cs) == CHOOSE f : f = [i \in 1 .. Len(cs) |-> FlatStep(f, cs, i)]

LEMMA FlattenedIs ==
  ASSUME NEW S, NEW cs \in Seq(Seq(S)), cs # <<>>
  PROVE  /\ FlattenSeq(cs) = Flattened(cs)[Len(cs)]
         /\ Flattened(cs) = [i \in 1 .. Len(cs) |-> FlatStep(Flattened(cs), cs, i)]
         /\ \A i \in 1 .. Len(cs) : Flattened(cs)[i] \in Seq(S)
<1> DEFINE N == Len(cs)
           F == Flattened(cs)
           G == [z \in Seq(S) \X (1 .. N - 1) |-> z[1] \o cs[z[2] + 1]]
<1>1. N \in Nat \ {0} /\ \A n \in 1 .. N : cs[n] \in Seq(S)
  <2>1. N \in Nat /\ N # 0
    BY EmptySeq
  <2> QED
    BY <2>1
<1>2. /\ N - 1 \in Nat /\ cs[1] \in Seq(S)
      /\ \A n \in 1 .. N - 1 : n + 1 \in 1 .. N /\ cs[n + 1] \in Seq(S)
  BY <1>1
<1>3. G \in [Seq(S) \X (1 .. N - 1) -> Seq(S)]
  <2>1. ASSUME NEW z \in Seq(S) \X (1 .. N - 1) PROVE z[1] \o cs[z[2] + 1] \in Seq(S)
    <3>1. z[1] \in Seq(S) /\ cs[z[2] + 1] \in Seq(S)
      BY <1>2
    <3> QED
      BY <3>1, ConcatProperties
  <2> QED
    BY <2>1
<1>4. \A x \in Seq(S), n \in 1 .. N - 1 : G[<<x, n>>] = x \o cs[n + 1]
  OBVIOUS
<1>5. PICK f : IsRecursion(f, Seq(S), cs[1], N - 1, G)
  <2> DEFINE m == N - 1
  <2>1. m \in Nat
    BY <1>2
  <2>2. G \in [Seq(S) \X (1 .. m) -> Seq(S)]
    BY <1>3
  <2> HIDE DEF m, G
  <2>3. \E f : IsRecursion(f, Seq(S), cs[1], m, G)
    BY ONLY <1>2, <2>1, <2>2, Recursion
  <2> QED
    BY <2>3 DEF m
<1> HIDE DEF G
<1>6. /\ f \in [0 .. N - 1 -> Seq(S)] /\ f[0] = cs[1]
      /\ \A n \in 1 .. N - 1 : f[n] = G[<<f[n - 1], n>>]
  BY <1>5 DEF IsRecursion
<1> DEFINE h == [i \in 1 .. N |-> f[i - 1]]
<1>7. ASSUME NEW i \in 1 .. N PROVE h[i] = FlatStep(h, cs, i)
  <2>1. CASE i = 1
    BY <1>6, <2>1 DEF FlatStep
  <2>2. CASE i # 1
    <3>1. i - 1 \in 1 .. N - 1 /\ i - 1 \in 1 .. N /\ (i - 1) + 1 = i /\ (i - 1) - 1 \in 0 .. N - 1
      BY <1>1, <2>2
    <3>2. h[i] = f[i - 1] /\ h[i - 1] = f[(i - 1) - 1]
      BY <3>1
    <3> HIDE DEF h
    <3>3. f[i - 1] = f[(i - 1) - 1] \o cs[i]
      <4>1. f[i - 1] = G[<<f[(i - 1) - 1], i - 1>>] /\ f[(i - 1) - 1] \in Seq(S)
        BY <1>6, <3>1
      <4>2. G[<<f[(i - 1) - 1], i - 1>>] = f[(i - 1) - 1] \o cs[(i - 1) + 1]
        BY <1>4, <3>1, <4>1
      <4> QED
        BY <3>1, <4>1, <4>2
    <3> QED
      BY <2>2, <3>2, <3>3 DEF FlatStep
  <2> QED
    BY <2>1, <2>2
<1>8. h = [i \in 1 .. N |-> FlatStep(h, cs, i)]
  <2>1. h = [i \in 1 .. N |-> h[i]]
    OBVIOUS
  <2> HIDE DEF h, N
  <2> QED
    BY <1>7, <2>1
<1>9. F = [i \in 1 .. N |-> FlatStep(F, cs, i)]
  <2> HIDE DEF h
  <2> QED
    BY <1>8 DEF Flattened
<1>10. FlattenSeq(cs) = F[N]
  BY <1>1 DEF FlattenSeq, Flattened, FlatStep
<1> HIDE DEF F
<1> DEFINE T == {n \in Nat : n + 1 <= N => F[n + 1] \in Seq(S)}
<1>11. 0 \in T
  <2>1. 1 \in 1 .. N
    BY <1>1
  <2>2. F[1] = FlatStep(F, cs, 1)
    <3> HIDE DEF N
    <3> QED
      BY <1>9, <2>1
  <2> QED
    BY <1>2, <2>2 DEF FlatStep
<1>12. ASSUME NEW n \in Nat, n \in T PROVE n + 1 \in T
  <2> SUFFICES ASSUME (n + 1) + 1 <= N PROVE F[(n + 1) + 1] \in Seq(S)
    OBVIOUS
  <2>1. (n + 1) + 1 \in 1 .. N /\ (n + 1) + 1 # 1 /\ ((n + 1) + 1) - 1 = n + 1 /\ n + 1 <= N
    BY <1>1
  <2>2. F[n + 1] \in Seq(S) /\ cs[(n + 1) + 1] \in Seq(S)
    BY <1>1, <1>12, <2>1
  <2>3. F[(n + 1) + 1] = FlatStep(F, cs, (n + 1) + 1)
    <3> HIDE DEF N
    <3> QED
      BY <1>9, <2>1
  <2>4. FlatStep(F, cs, (n + 1) + 1) = F[n + 1] \o cs[(n + 1) + 1]
    BY <2>1 DEF FlatStep
  <2>5. F[n + 1] \o cs[(n + 1) + 1] \in Seq(S)
    BY ONLY <2>2, ConcatProperties
  <2> QED
    BY <2>3, <2>4, <2>5
<1>13. ASSUME NEW i \in 1 .. N PROVE F[i] \in Seq(S)
  <2> HIDE DEF T
  <2>1. Nat \subseteq T
    BY <1>11, <1>12, NatInd
  <2>2. i - 1 \in Nat /\ (i - 1) + 1 = i /\ i <= N
    BY <1>1
  <2> QED
    BY <2>1, <2>2 DEF T
<1> QED
  BY <1>9, <1>10, <1>13 DEF F

LEMMA FlattenType ==
  ASSUME NEW S, NEW cs \in Seq(Seq(S))
  PROVE  FlattenSeq(cs) \in Seq(S) /\ FlattenSeq(<<>>) = <<>>
<1>1. FlattenSeq(<<>>) = <<>>
  <2>1. \A x : Len(x) = 0 => FlattenSeq(x) = x
    BY DEF FlattenSeq
  <2>2. Len(<<>>) = 0
    OBVIOUS
  <2> QED
    BY <2>1, <2>2
<1>2. CASE cs = <<>>
  <2>1. <<>> \in Seq(S)
    OBVIOUS
  <2> QED
    BY <1>1, <1>2, <2>1
<1>3. CASE cs # <<>>
  <2>1. Len(cs) \in 1 .. Len(cs)
    BY <1>3, EmptySeq
  <2> QED
    BY <1>1, <1>3, <2>1, FlattenedIs
<1> QED
  BY <1>2, <1>3

\* The words of one more chunk come after those before.
LEMMA FlattenMore ==
  ASSUME NEW S, NEW cs \in Seq(Seq(S)), NEW c \in Seq(S)
  PROVE  FlattenSeq(Append(cs, c)) = FlattenSeq(cs) \o c
<1> DEFINE d == Append(cs, c)
           N == Len(cs)
           F == Flattened(cs)
           H == Flattened(d)
<1>1. /\ d \in Seq(Seq(S)) /\ d # <<>> /\ Len(d) = N + 1 /\ N \in Nat
      /\ \A i \in 1 .. N : d[i] = cs[i]
      /\ d[N + 1] = c
  <2>1. c \in Seq(S)
    OBVIOUS
  <2> DEFINE Q == Seq(S)
  <2> HIDE DEF Q
  <2>2. cs \in Seq(Q) /\ c \in Q
    BY DEF Q
  <2>3. d \in Seq(Q) /\ d # <<>> /\ Len(d) = N + 1 /\ N \in Nat
        /\ (\A i \in 1 .. N : d[i] = cs[i]) /\ d[N + 1] = c
    BY ONLY <2>2, AppendOf
  <2> QED
    BY <2>3 DEF Q
<1>2. H = [i \in 1 .. N + 1 |-> FlatStep(H, d, i)] /\ FlattenSeq(d) = H[N + 1]
  <2> HIDE DEF d, N, H
  <2> QED
    BY <1>1, FlattenedIs DEF H
<1> HIDE DEF d, H
<1>3. FlattenSeq(d) = FlatStep(H, d, N + 1)
  <2>1. N + 1 \in 1 .. N + 1
    BY <1>1
  <2> HIDE DEF N
  <2> QED
    BY <1>2, <2>1
<1>4. CASE cs = <<>>
  <2>1. N = 0 /\ FlattenSeq(cs) = <<>>
    BY <1>4, FlattenType
  <2>2. FlattenSeq(d) = c
    BY <1>1, <1>3, <2>1 DEF FlatStep
  <2> QED
    BY <2>1, <2>2, ConcatEmptySeq DEF d
<1>5. CASE cs # <<>>
  <2>1. F = [i \in 1 .. N |-> FlatStep(F, cs, i)] /\ FlattenSeq(cs) = F[N]
    <3> HIDE DEF F, N
    <3> QED
      BY <1>5, FlattenedIs DEF F, N
  <2>2. N \in Nat \ {0}
    BY <1>5, EmptySeq
  <2> HIDE DEF F, N
  <2> DEFINE T == {n \in Nat : n + 1 <= N => H[n + 1] = F[n + 1]}
  <2>3. 0 \in T
    <3>1. 1 \in 1 .. N /\ 1 \in 1 .. N + 1
      BY <2>2
    <3>2. H[1] = FlatStep(H, d, 1) /\ F[1] = FlatStep(F, cs, 1)
      BY <1>2, <2>1, <3>1
    <3>3. FlatStep(H, d, 1) = FlatStep(F, cs, 1)
      BY <1>1, <3>1 DEF FlatStep
    <3> QED
      BY <3>2, <3>3
  <2>4. ASSUME NEW n \in Nat, n \in T PROVE n + 1 \in T
    <3> SUFFICES ASSUME (n + 1) + 1 <= N PROVE H[(n + 1) + 1] = F[(n + 1) + 1]
      OBVIOUS
    <3>1. /\ (n + 1) + 1 \in 1 .. N /\ (n + 1) + 1 \in 1 .. N + 1 /\ (n + 1) + 1 # 1
          /\ ((n + 1) + 1) - 1 = n + 1 /\ n + 1 <= N
      BY <2>2
    <3>2. H[n + 1] = F[n + 1]
      BY <2>4, <3>1
    <3>3. FlatStep(H, d, (n + 1) + 1) = FlatStep(F, cs, (n + 1) + 1)
      BY <1>1, <3>1, <3>2 DEF FlatStep
    <3>4. H[(n + 1) + 1] = FlatStep(H, d, (n + 1) + 1) /\ F[(n + 1) + 1] = FlatStep(F, cs, (n + 1) + 1)
      BY <1>2, <2>1, <3>1
    <3> QED
      BY <3>3, <3>4
  <2>5. H[N] = F[N]
    <3>1. Nat \subseteq T
      <4> HIDE DEF T
      <4> QED
        BY <2>3, <2>4, NatInd
    <3>2. N - 1 \in Nat /\ (N - 1) + 1 = N /\ N <= N
      BY <2>2
    <3> QED
      BY <3>1, <3>2
  <2>6. N + 1 # 1 /\ (N + 1) - 1 = N
    BY <2>2
  <2>7. FlatStep(H, d, N + 1) = H[N] \o c
    BY <1>1, <2>6 DEF FlatStep
  <2> QED
    BY <1>3, <2>1, <2>5, <2>7 DEF d
<1> QED
  BY <1>4, <1>5

\* The flattening of the parts is what adds them up one by one.
LEMMA FlattenPrefix ==
  ASSUME NEW S, NEW cs \in Seq(Seq(S)), NEW f, f[0] = <<>>,
         \A i \in 1 .. Len(cs) : f[i] = f[i - 1] \o cs[i]
  PROVE  FlattenSeq(cs) = f[Len(cs)]
<1> DEFINE Q == Seq(S)
           N == Len(cs)
           T == {n \in Nat : n <= N => FlattenSeq(SubSeq(cs, 1, n)) = f[n]}
<1>1. N \in Nat /\ \A i \in 1 .. N : cs[i] \in Q
  OBVIOUS
<1>2. 0 \in T
  <2>1. SubSeq(cs, 1, 0) = <<>>
    BY SubSeqEmpty
  <2> QED
    BY <2>1, FlattenType
<1>3. ASSUME NEW n \in Nat, n \in T PROVE n + 1 \in T
  <2> SUFFICES ASSUME n + 1 <= N PROVE FlattenSeq(SubSeq(cs, 1, n + 1)) = f[n + 1]
    OBVIOUS
  <2>1. n + 1 \in 1 .. N /\ (n + 1) - 1 = n /\ FlattenSeq(SubSeq(cs, 1, n)) = f[n]
    BY <1>3
  <2>2. cs \in Seq(Q) /\ cs[n + 1] \in Q
    BY <1>1, <2>1
  <2> HIDE DEF Q, N
  <2>3. SubSeq(cs, 1, n + 1) = Append(SubSeq(cs, 1, n), cs[n + 1]) /\ SubSeq(cs, 1, n) \in Seq(Q)
    BY <2>1, <2>2, PrefixMore DEF N
  <2>4. FlattenSeq(Append(SubSeq(cs, 1, n), cs[n + 1])) = FlattenSeq(SubSeq(cs, 1, n)) \o cs[n + 1]
    BY <2>2, <2>3, FlattenMore DEF Q
  <2>5. f[n + 1] = f[n] \o cs[n + 1]
    BY <2>1 DEF N
  <2> QED
    BY <2>1, <2>3, <2>4, <2>5
<1>4. N \in Nat => N \in T
  <2> HIDE DEF T, N
  <2> QED
    BY <1>2, <1>3, NatInd
<1>5. SubSeq(cs, 1, N) = cs
  <2>1. cs \in Seq(Q)
    OBVIOUS
  <2> HIDE DEF Q
  <2> QED
    BY <2>1, SubSeqFull
<1>6. FlattenSeq(SubSeq(cs, 1, N)) = f[N]
  <2> HIDE DEF N
  <2> QED
    BY <1>1, <1>4
<1> QED
  BY <1>5, <1>6

=============================================================================
