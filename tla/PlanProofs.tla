----------------------------- MODULE PlanProofs -----------------------------
(***************************************************************************)
(* What holds of the tree of any plan: the paths tell the nodes apart,     *)
(* show what is above what, and put the nodes in pre-order.  Then, for any *)
(* plans, registries and indexes, and however often others change them     *)
(* during a call: the walk yields every node, no rule that holds goes      *)
(* untold, all filters are judged by one reading of the indexes, and the   *)
(* suggested work_mem is the first that fits.                              *)
(***************************************************************************)
EXTENDS PlanInvariants, SequenceTheorems, FiniteSetTheorems, TLAPS

(***************************************************************************)
(* Sequences.                                                              *)
(***************************************************************************)
LEMMA SeqIs ==
  ASSUME NEW S, NEW s \in Seq(S)
  PROVE  IsSeq(s) /\ DOMAIN s = 1 .. Len(s) /\ \A i \in DOMAIN s : s[i] \in S
  BY DEF IsSeq

LEMMA IsSeqDomain ==
  ASSUME NEW s, IsSeq(s)
  PROVE  DOMAIN s = 1 .. Len(s) /\ Len(s) \in Nat /\ \E S : s \in Seq(S)
<1> DEFINE n == Len(s)
           S == {s[i] : i \in 1 .. n}
<1>1. n \in Nat /\ s = [i \in 1 .. n |-> s[i]]
  BY DEF IsSeq
<1>2. s \in [1 .. n -> S]
  BY <1>1
<1>3. s \in Seq(S)
  BY <1>1, <1>2, SeqDef
<1> QED
  BY <1>1, <1>3

LEMMA AppendIs ==
  ASSUME NEW s, IsSeq(s), NEW e
  PROVE  /\ IsSeq(Append(s, e)) /\ Len(Append(s, e)) = Len(s) + 1
         /\ \A i \in 1 .. Len(s) : Append(s, e)[i] = s[i]
         /\ Append(s, e)[Len(s) + 1] = e
<1>1. PICK S : s \in Seq(S)
  BY IsSeqDomain
<1>2. s \in Seq(S \cup {e}) /\ e \in S \cup {e}
  BY <1>1
<1>3. Append(s, e) \in Seq(S \cup {e})
  BY <1>2
<1>4. /\ Len(Append(s, e)) = Len(s) + 1
      /\ \A i \in 1 .. Len(s) : Append(s, e)[i] = s[i]
      /\ Append(s, e)[Len(s) + 1] = e
  BY <1>2
<1> QED
  BY <1>3, <1>4, SeqIs

LEMMA ReverseIs ==
  ASSUME NEW S, NEW s \in Seq(S)
  PROVE  /\ Reverse(s) \in Seq(S) /\ ToSet(Reverse(s)) = ToSet(s)
         /\ Len(Reverse(s)) = Len(s)
         /\ \A i \in 1 .. Len(s) :
              Len(s) - i + 1 \in 1 .. Len(s) /\ Reverse(s)[i] = s[Len(s) - i + 1]
<1> DEFINE n == Len(s)
           r == [i \in 1 .. n |-> s[n - i + 1]]
<1>1. n \in Nat /\ \A i \in 1 .. n : s[i] \in S /\ n - i + 1 \in 1 .. n
  OBVIOUS
<1>2. Reverse(s) = r
  BY DEF Reverse
<1>3. r \in [1 .. n -> S]
  BY <1>1
<1>4. r \in Seq(S) /\ Len(r) = n /\ \A i \in 1 .. n : r[i] = s[n - i + 1]
  BY <1>1, <1>3, SeqDef
<1>5. ASSUME NEW x \in ToSet(s) PROVE x \in ToSet(r)
  <2>1. PICK i \in 1 .. n : x = s[i]
    BY DEF ToSet
  <2>2. n - i + 1 \in 1 .. n /\ r[n - i + 1] = s[i]
    BY <1>1
  <2> QED
    BY <2>1, <2>2, <1>3 DEF ToSet
<1>6. ASSUME NEW x \in ToSet(r) PROVE x \in ToSet(s)
  BY <1>1 DEF ToSet
<1> QED
  BY <1>1, <1>2, <1>4, <1>5, <1>6

LEMMA LastIs ==
  ASSUME NEW S, NEW s \in Seq(S), s # <<>>
  PROVE  /\ Last(s) \in S /\ Front(s) \in Seq(S) /\ Len(s) \in Nat \ {0}
         /\ Last(s) = s[Len(s)]
         /\ Len(Front(s)) = Len(s) - 1 /\ \A i \in 1 .. Len(s) - 1 : Front(s)[i] = s[i]
         /\ ToSet(s) = ToSet(Front(s)) \cup {Last(s)}
<1>1. Len(s) \in Nat \ {0}
  BY EmptySeq
<1>2. Last(s) = s[Len(s)] /\ Front(s) = SubSeq(s, 1, Len(s) - 1)
  BY DEF Last, Front
<1>3. 1 \in Int /\ Len(s) - 1 \in Int /\ \A i \in 1 .. Len(s) - 1 : s[i] \in S
  BY <1>1
<1>4. /\ Front(s) \in Seq(S) /\ Len(Front(s)) = Len(s) - 1
      /\ \A i \in 1 .. Len(s) - 1 : Front(s)[i] = s[i]
  <2>1. \A m, n \in Int : (\A i \in m .. n : s[i] \in S) =>
          /\ SubSeq(s, m, n) \in Seq(S)
          /\ Len(SubSeq(s, m, n)) = IF m <= n THEN n - m + 1 ELSE 0
          /\ \A i \in 1 .. n - m + 1 : SubSeq(s, m, n)[i] = s[m + i - 1]
    BY SubSeqProperties
  <2>2. \A n \in Nat : /\ (IF 1 <= n THEN n - 1 + 1 ELSE 0) = n /\ n - 1 + 1 = n
                       /\ \A i \in 1 .. n : 1 + i - 1 = i
    OBVIOUS
  <2> DEFINE n == Len(s) - 1
             f == SubSeq(s, 1, n)
  <2>3. n \in Nat
    BY <1>1
  <2>4. f \in Seq(S) /\ Len(f) = n /\ \A i \in 1 .. n : f[i] = s[1 + i - 1]
    BY <1>3, <2>1, <2>2, <2>3
  <2>5. \A i \in 1 .. n : f[i] = s[i]
    BY <2>2, <2>3, <2>4
  <2> QED
    BY <2>4, <2>5, <1>2
<1>5. ToSet(s) = ToSet(Front(s)) \cup {s[Len(s)]}
  <2>1. DOMAIN Front(s) = 1 .. Len(s) - 1 /\ DOMAIN s = 1 .. Len(s)
    BY <1>1, <1>4
  <2> QED
    BY <1>1, <1>4, <2>1 DEF ToSet
<1> QED
  BY <1>1, <1>2, <1>4, <1>5

LEMMA ConcatSet ==
  ASSUME NEW S, NEW s \in Seq(S), NEW t \in Seq(S)
  PROVE  s \o t \in Seq(S) /\ ToSet(s \o t) = ToSet(s) \cup ToSet(t)
<1>1. /\ s \o t \in Seq(S) /\ Len(s \o t) = Len(s) + Len(t)
      /\ \A i \in 1 .. Len(s) : (s \o t)[i] = s[i]
      /\ \A i \in 1 .. Len(t) : (s \o t)[Len(s) + i] = t[i]
  BY ConcatProperties
<1>2. ASSUME NEW x \in ToSet(t) PROVE x \in ToSet(s \o t)
  <2>1. PICK i \in 1 .. Len(t) : x = t[i]
    BY DEF ToSet
  <2>2. Len(s) + i \in 1 .. Len(s \o t)
    BY <1>1
  <2> QED
    BY <1>1, <2>1, <2>2 DEF ToSet
<1>3. ASSUME NEW x \in ToSet(s) PROVE x \in ToSet(s \o t)
  BY <1>1 DEF ToSet
<1>4. ASSUME NEW x \in ToSet(s \o t) PROVE x \in ToSet(s) \cup ToSet(t)
  <2>1. PICK i \in 1 .. Len(s) + Len(t) : x = (s \o t)[i]
    BY <1>1 DEF ToSet
  <2>2. CASE i <= Len(s)
    BY <2>1, <2>2, <1>1 DEF ToSet
  <2>3. CASE i > Len(s)
    <3>1. i - Len(s) \in 1 .. Len(t) /\ Len(s) + (i - Len(s)) = i
      BY <2>3
    <3> QED
      BY <2>1, <3>1, <1>1 DEF ToSet
  <2> QED
    BY <2>1, <2>2, <2>3
<1> QED
  BY <1>1, <1>2, <1>3, <1>4

LEMMA OneSet ==
  ASSUME NEW S, NEW x \in S
  PROVE  <<x>> \in Seq(S) /\ Len(<<x>>) = 1 /\ ToSet(<<x>>) = {x}
<1>1. <<x>> \in Seq(S) /\ Len(<<x>>) = 1 /\ <<x>>[1] = x /\ DOMAIN <<x>> = {1}
  OBVIOUS
<1> QED
  BY <1>1 DEF ToSet

LEMMA AppendSet ==
  ASSUME NEW S, NEW s \in Seq(S), NEW e \in S
  PROVE  /\ Append(s, e) \in Seq(S) /\ Len(Append(s, e)) = Len(s) + 1
         /\ ToSet(Append(s, e)) = ToSet(s) \cup {e}
<1>1. /\ Append(s, e) \in Seq(S) /\ Len(Append(s, e)) = Len(s) + 1
      /\ \A i \in 1 .. Len(s) : Append(s, e)[i] = s[i]
      /\ Append(s, e)[Len(s) + 1] = e
  OBVIOUS
<1>2. DOMAIN Append(s, e) = 1 .. Len(s) + 1 /\ DOMAIN s = 1 .. Len(s) /\ Len(s) \in Nat
  BY <1>1
<1> QED
  BY <1>1, <1>2 DEF ToSet

-----------------------------------------------------------------------------
(***************************************************************************)
(* Parents and children.                                                   *)
(***************************************************************************)
LEMMA PlanIs ==
  ASSUME NEW p, IsPlan(p)
  PROVE  /\ p.root \in p.nodes /\ NoNode \notin p.nodes
         /\ \A n \in p.nodes :
              p.kids[n] \in Seq(p.nodes \ {p.root}) /\ p.kids[n] \in Seq(p.nodes)
<1>1. \A n \in p.nodes : p.kids[n] \in Seq(p.nodes \ {p.root})
  BY DEF IsPlan
<1> QED
  BY <1>1 DEF IsPlan

\* A child and its parent.
LEMMA KidIs ==
  ASSUME NEW p, IsPlan(p), NEW n \in p.nodes, NEW m \in ToSet(p.kids[n])
  PROVE  m \in p.nodes /\ m # p.root /\ Parent(p, m) = n
<1>1. m \in p.nodes \ {p.root}
  <2>1. p.kids[n] \in Seq(p.nodes \ {p.root})
    BY PlanIs
  <2> QED
    BY <2>1 DEF ToSet
<1>2. \A q \in p.nodes : m \in ToSet(p.kids[q]) => q = n
  BY <1>1 DEF IsPlan
<1> QED
  BY <1>1, <1>2 DEF Parent

LEMMA ParentIs ==
  ASSUME NEW p, IsPlan(p), NEW m \in p.nodes, m # p.root
  PROVE  Parent(p, m) \in p.nodes /\ m \in ToSet(p.kids[Parent(p, m)])
<1>1. \E q \in p.nodes : m \in ToSet(p.kids[q])
  BY DEF IsPlan
<1> QED
  BY <1>1 DEF Parent

\* The place of a child.
LEMMA SiblingIs ==
  ASSUME NEW p, IsPlan(p), NEW n \in p.nodes, NEW i \in 1 .. Len(p.kids[n])
  PROVE  /\ p.kids[n][i] \in ToSet(p.kids[n]) /\ p.kids[n][i] \in p.nodes
         /\ p.kids[n][i] # p.root
         /\ Parent(p, p.kids[n][i]) = n /\ Sibling(p, p.kids[n][i]) = i - 1
<1> DEFINE m == p.kids[n][i]
<1>1. p.kids[n] \in Seq(p.nodes) /\ i \in DOMAIN p.kids[n]
  <2>1. p.kids[n] \in Seq(p.nodes)
    BY PlanIs
  <2> QED
    BY <2>1
<1>2. m \in ToSet(p.kids[n])
  BY <1>1 DEF ToSet
<1>3. m \in p.nodes /\ m # p.root /\ Parent(p, m) = n
  BY <1>2, KidIs
<1>4. \A j \in DOMAIN p.kids[n] : p.kids[n][j] = m => j = i
  BY <1>1 DEF IsPlan
<1>5. (CHOOSE j \in DOMAIN p.kids[Parent(p, m)] : p.kids[Parent(p, m)][j] = m) = i
  BY <1>1, <1>3, <1>4
<1>6. Sibling(p, m) = i - 1
  BY <1>3, <1>5 DEF Sibling
<1> QED
  BY <1>2, <1>3, <1>6

\* Every child stands somewhere.
LEMMA PlaceIs ==
  ASSUME NEW p, IsPlan(p), NEW m \in p.nodes, m # p.root
  PROVE  /\ Sibling(p, m) \in Nat /\ Sibling(p, m) + 1 \in 1 .. Len(p.kids[Parent(p, m)])
         /\ p.kids[Parent(p, m)][Sibling(p, m) + 1] = m
<1> DEFINE n == Parent(p, m)
<1>1. n \in p.nodes /\ m \in ToSet(p.kids[n])
  BY ParentIs
<1>2. p.kids[n] \in Seq(p.nodes)
  BY <1>1, PlanIs
<1>3. PICK i \in 1 .. Len(p.kids[n]) : p.kids[n][i] = m
  BY <1>1, <1>2 DEF ToSet
<1>4. Sibling(p, m) = i - 1
  BY <1>1, <1>3, SiblingIs
<1>5. i \in Nat /\ i >= 1 /\ (i - 1) + 1 = i
  BY <1>2
<1> QED
  BY <1>3, <1>4, <1>5

\* What holds of the root, and of the children of a node it holds of, holds of
\* all nodes.
LEMMA TreeInduction ==
  ASSUME NEW p, IsPlan(p), NEW S \in SUBSET p.nodes, p.root \in S,
         \A n \in S : ToSet(p.kids[n]) \subseteq S
  PROVE  S = p.nodes
<1> DEFINE T == p.nodes \ S
<1>1. ASSUME T # {} PROVE FALSE
  <2>1. T \in SUBSET (p.nodes \ {p.root})
    OBVIOUS
  <2>2. PICK n \in T : \A q \in T : n \notin ToSet(p.kids[q])
    BY <1>1, <2>1 DEF IsPlan
  <2>3. Parent(p, n) \in p.nodes /\ n \in ToSet(p.kids[Parent(p, n)])
    BY <2>2, ParentIs
  <2> QED
    BY <2>2, <2>3
<1> QED
  BY <1>1

-----------------------------------------------------------------------------
(***************************************************************************)
(* The way from the root down to a node.                                   *)
(***************************************************************************)
IsChain(p, c, n) ==
  /\ c \in Seq(p.nodes) /\ c # <<>>
  /\ c[1] = p.root /\ c[Len(c)] = n
  /\ \A i \in 1 .. Len(c) - 1 : c[i + 1] \in ToSet(p.kids[c[i]])

IsLonger(d, c, m) == d = Append(c, m)

Chain(p, n) == CHOOSE c : IsChain(p, c, n)

\* Sequences of one element.
LEMMA OneIs ==
  ASSUME NEW S, NEW x \in S
  PROVE  /\ <<x>> \in Seq(S) /\ Len(<<x>>) = 1 /\ <<x>>[1] = x /\ <<x>> # <<>>
         /\ \A s \in Seq(S) : Len(s) = 1 /\ s[1] = x => s = <<x>>
<1>1. <<x>> \in Seq(S) /\ Len(<<x>>) = 1 /\ <<x>>[1] = x /\ <<x>> # <<>>
  OBVIOUS
<1>2. ASSUME NEW s \in Seq(S), Len(s) = 1, s[1] = x PROVE s = <<x>>
  BY <1>2, SeqEqual
<1> QED
  BY <1>1, <1>2

LEMMA ChainOfRoot ==
  ASSUME NEW p, IsPlan(p)
  PROVE  /\ IsChain(p, <<p.root>>, p.root)
         /\ \A c : IsChain(p, c, p.root) => c = <<p.root>>
<1>1. p.root \in p.nodes
  BY PlanIs
<1> DEFINE r == p.root
           one == <<r>>
<1>a. /\ one \in Seq(p.nodes) /\ one # <<>> /\ Len(one) = 1 /\ one[1] = r
      /\ \A s \in Seq(p.nodes) : Len(s) = 1 /\ s[1] = r => s = one
  BY <1>1, OneIs
<1>2. IsChain(p, one, r)
  <2>1. one[Len(one)] = r /\ \A i \in 1 .. Len(one) - 1 : FALSE
    BY <1>a
  <2> QED
    BY <1>a, <2>1 DEF IsChain
<1>3. ASSUME NEW c, IsChain(p, c, p.root) PROVE c = <<p.root>>
  <2>1. c \in Seq(p.nodes) /\ c # <<>> /\ c[1] = p.root /\ c[Len(c)] = p.root
    BY <1>3 DEF IsChain
  <2>2. Len(c) \in Nat \ {0} /\ \A i \in 1 .. Len(c) : c[i] \in p.nodes
    BY <2>1, EmptySeq
  <2>3. ~(Len(c) > 1)
    <3> SUFFICES ASSUME Len(c) > 1 PROVE FALSE
      OBVIOUS
    <3>1. Len(c) - 1 \in 1 .. Len(c) - 1 /\ (Len(c) - 1) + 1 = Len(c)
      BY <2>2
    <3>2. c[Len(c)] \in ToSet(p.kids[c[Len(c) - 1]]) /\ c[Len(c) - 1] \in p.nodes
      BY <1>3, <2>2, <3>1 DEF IsChain
    <3> QED
      BY <2>1, <3>2, KidIs
  <2>4. Len(c) = 1
    BY ONLY <2>2, <2>3
  <2> QED
    BY <1>a, <2>1, <2>4
<1> QED
  BY <1>2, <1>3

\* A step further down.
LEMMA ChainDown ==
  ASSUME NEW p, IsPlan(p), NEW n \in p.nodes, NEW m \in ToSet(p.kids[n]),
         NEW c, IsChain(p, c, n)
  PROVE  IsChain(p, Append(c, m), m)
<1>0. m \in p.nodes /\ m # p.root /\ Parent(p, m) = n
  BY KidIs
<1> DEFINE d == Append(c, m)
<1>1. c \in Seq(p.nodes) /\ c # <<>> /\ c[1] = p.root /\ c[Len(c)] = n
  BY DEF IsChain
<1>2. /\ d \in Seq(p.nodes) /\ d # <<>> /\ Len(d) = Len(c) + 1 /\ Len(c) \in Nat \ {0}
      /\ \A i \in 1 .. Len(c) : d[i] = c[i]
      /\ d[Len(c) + 1] = m
  BY <1>1, <1>0, EmptySeq, AppendProperties
<1>3. ASSUME NEW i \in 1 .. Len(d) - 1 PROVE d[i + 1] \in ToSet(p.kids[d[i]])
  <2>1. CASE i < Len(c)
    <3>1. i \in 1 .. Len(c) - 1 /\ i \in 1 .. Len(c) /\ i + 1 \in 1 .. Len(c)
      BY <1>2, <2>1
    <3>2. c[i + 1] \in ToSet(p.kids[c[i]])
      BY <3>1 DEF IsChain
    <3> QED
      BY <1>2, <3>1, <3>2
  <2>2. CASE i = Len(c)
    BY <1>1, <1>2, <2>2
  <2> QED
    BY <1>2, <2>1, <2>2
<1> QED
  BY <1>1, <1>2, <1>3 DEF IsChain

LEMMA ChainUp ==
  ASSUME NEW p, IsPlan(p), NEW n \in p.nodes, NEW m \in ToSet(p.kids[n]),
         NEW d, IsChain(p, d, m)
  PROVE  \E e : IsChain(p, e, n) /\ IsLonger(d, e, m)
<1>0. m \in p.nodes /\ m # p.root /\ Parent(p, m) = n
  BY KidIs
<1> DEFINE len == Len(d) - 1
           c == [i \in 1 .. len |-> d[i]]
<1>1. d \in Seq(p.nodes) /\ d # <<>> /\ d[1] = p.root /\ d[Len(d)] = m
  BY DEF IsChain
<1>2. Len(d) \in Nat \ {0} /\ \A i \in 1 .. Len(d) : d[i] \in p.nodes
  BY <1>1, EmptySeq
<1>3. Len(d) # 1
  BY ONLY <1>0, <1>1
<1>4. /\ len \in Nat \ {0} /\ len + 1 = Len(d) /\ len \in 1 .. Len(d) - 1 /\ 1 \in 1 .. len
      /\ \A i \in 1 .. Len(d) : i \in 1 .. len \/ i = len + 1
  <2>1. \A x \in Nat \ {0} : x # 1 =>
          /\ x - 1 \in Nat \ {0} /\ (x - 1) + 1 = x /\ x - 1 \in 1 .. x - 1
          /\ 1 \in 1 .. x - 1 /\ \A i \in 1 .. x : i \in 1 .. x - 1 \/ i = (x - 1) + 1
    OBVIOUS
  <2> QED
    BY ONLY <2>1, <1>2, <1>3
<1> HIDE DEF len
<1>5. m \in ToSet(p.kids[d[len]]) /\ d[len] \in p.nodes
  BY <1>1, <1>2, <1>4 DEF IsChain
<1>6. d[len] = n
  BY <1>0, <1>5, KidIs
<1>7. c \in Seq(p.nodes) /\ Len(c) = len
  <2>1. c \in [1 .. len -> p.nodes]
    BY <1>2, <1>4
  <2> QED
    BY <2>1, <1>4, SeqDef
<1>8. IsChain(p, c, n)
  <2>1. c # <<>> /\ c[1] = p.root /\ c[Len(c)] = n
    BY <1>1, <1>4, <1>6, <1>7
  <2>2. ASSUME NEW i \in 1 .. Len(c) - 1 PROVE c[i + 1] \in ToSet(p.kids[c[i]])
    <3>1. i \in 1 .. len /\ i + 1 \in 1 .. len /\ i \in 1 .. Len(d) - 1
      BY <1>4, <1>7
    <3> QED
      BY <3>1 DEF IsChain
  <2> QED
    BY <1>7, <2>1, <2>2 DEF IsChain
<1>9. d = Append(c, m)
  <2>1. /\ Append(c, m) \in Seq(p.nodes) /\ Len(Append(c, m)) = Len(d)
        /\ \A i \in 1 .. len : Append(c, m)[i] = d[i]
        /\ Append(c, m)[len + 1] = m
    <3>1. \A i \in 1 .. len : c[i] = d[i]
      OBVIOUS
    <3> HIDE DEF c
    <3>2. /\ Append(c, m) \in Seq(p.nodes) /\ Len(Append(c, m)) = Len(c) + 1
          /\ \A i \in 1 .. Len(c) : Append(c, m)[i] = c[i]
          /\ Append(c, m)[Len(c) + 1] = m
      BY <1>0, <1>7, AppendProperties
    <3> HIDE DEF len
    <3> QED
      BY <3>1, <3>2, <1>4, <1>7
  <2>3. \A i \in 1 .. Len(d) : Append(c, m)[i] = d[i]
    BY <1>1, <1>4, <2>1
  <2> QED
    BY <1>1, <2>1, <2>3, SeqEqual
<1>10. IsLonger(d, c, m)
  BY <1>9 DEF IsLonger
<1> QED
  BY <1>8, <1>10

\* There is one chain for each node.
LEMMA ChainIs ==
  ASSUME NEW p, IsPlan(p)
  PROVE  /\ Chain(p, p.root) = <<p.root>>
         /\ \A n \in p.nodes :
              /\ Chain(p, n) \in Seq(p.nodes) /\ Len(Chain(p, n)) \in Nat \ {0}
              /\ Chain(p, n)[Len(Chain(p, n))] = n
              /\ \A m \in ToSet(p.kids[n]) : Chain(p, m) = Append(Chain(p, n), m)
<1> DEFINE One(n) == \E c : IsChain(p, c, n) /\ \A d : IsChain(p, d, n) => d = c
           S == {n \in p.nodes : One(n)}
<1>1. p.root \in S
  BY ChainOfRoot, PlanIs
<1>2. ASSUME NEW n \in p.nodes, One(n), NEW m \in ToSet(p.kids[n]) PROVE One(m)
  <2>2. PICK c : IsChain(p, c, n) /\ \A d : IsChain(p, d, n) => d = c
    BY <1>2
  <2>3. IsChain(p, Append(c, m), m)
    BY <2>2, ChainDown
  <2>4. ASSUME NEW d, IsChain(p, d, m) PROVE d = Append(c, m)
    <3>1. PICK e : IsChain(p, e, n) /\ IsLonger(d, e, m)
      BY <2>4, ChainUp
    <3> QED
      BY <2>2, <3>1 DEF IsLonger
  <2> QED
    BY <2>3, <2>4
<1>3. S = p.nodes
  <2>1. \A n \in S : ToSet(p.kids[n]) \subseteq S
    BY <1>2, KidIs
  <2> HIDE DEF S
  <2>2. S \in SUBSET p.nodes
    BY DEF S
  <2> QED
    BY <1>1, <2>1, <2>2, TreeInduction
<1>4. ASSUME NEW n \in p.nodes
      PROVE  IsChain(p, Chain(p, n), n) /\ \A d : IsChain(p, d, n) => d = Chain(p, n)
  BY <1>3 DEF Chain
<1>5. Chain(p, p.root) = <<p.root>>
  BY <1>4, ChainOfRoot, PlanIs
<1>6. ASSUME NEW n \in p.nodes
      PROVE  /\ Chain(p, n) \in Seq(p.nodes) /\ Len(Chain(p, n)) \in Nat \ {0}
             /\ Chain(p, n)[Len(Chain(p, n))] = n
  BY <1>4, EmptySeq DEF IsChain
<1>7. ASSUME NEW n \in p.nodes, NEW m \in ToSet(p.kids[n])
      PROVE  Chain(p, m) = Append(Chain(p, n), m)
  BY <1>4, ChainDown, KidIs
<1> QED
  BY <1>5, <1>6, <1>7

-----------------------------------------------------------------------------
(***************************************************************************)
(* Paths and ancestors, as their recursion says.                           *)
(***************************************************************************)
LEMMA SeqOfFunction ==
  ASSUME NEW S, NEW n \in Nat, NEW f \in [1 .. n -> S]
  PROVE  f \in Seq(S) /\ Len(f) = n
BY SeqDef

LEMMA FunctionOfSeq ==
  ASSUME NEW S, NEW s \in Seq(S)
  PROVE  s = [i \in 1 .. Len(s) |-> s[i]]
OBVIOUS

Segments(p, n) == [i \in 1 .. Len(Chain(p, n)) |-> <<i - 1, Sibling(p, Chain(p, n)[i])>>]

PathStep(p, f, m) ==
  IF m = p.root THEN <<<<0, 0>>>>
  ELSE LET above == f[Parent(p, m)]
       IN Append(above, <<Len(above), Sibling(p, m)>>)

LEMMA SegmentsAre ==
  ASSUME NEW p, IsPlan(p)
  PROVE  /\ Segments(p, p.root) = <<<<0, 0>>>>
         /\ \A m \in p.nodes : m # p.root =>
              LET above == Segments(p, Parent(p, m))
              IN Segments(p, m) = Append(above, <<Len(above), Sibling(p, m)>>)
<1>1. Segments(p, p.root) = <<<<0, 0>>>>
  <2>1. Chain(p, p.root) = <<p.root>> /\ Sibling(p, p.root) = 0
    BY ChainIs DEF Sibling
  <2>2. Len(Chain(p, p.root)) = 1 /\ Chain(p, p.root)[1] = p.root
    BY <2>1
  <2>3. Segments(p, p.root) = [i \in 1 .. 1 |-> <<i - 1, Sibling(p, Chain(p, p.root)[i])>>]
    BY <2>2 DEF Segments
  <2>4. \A i \in 1 .. 1 : <<i - 1, Sibling(p, Chain(p, p.root)[i])>> = <<0, 0>>
    BY <2>1, <2>2
  <2>5. Segments(p, p.root) = [i \in 1 .. 1 |-> <<0, 0>>]
    BY <2>3, <2>4
  <2> QED
    BY <2>5
<1>2. ASSUME NEW m \in p.nodes, m # p.root
      PROVE  LET above == Segments(p, Parent(p, m))
             IN Segments(p, m) = Append(above, <<Len(above), Sibling(p, m)>>)
  <2> DEFINE q == Parent(p, m)
             c == Chain(p, q)
             d == Chain(p, m)
             above == Segments(p, q)
             last == <<Len(above), Sibling(p, m)>>
             S == {above[i] : i \in 1 .. Len(c)} \cup {last}
  <2>1. q \in p.nodes /\ m \in ToSet(p.kids[q])
    BY <1>2, ParentIs
  <2>2. c \in Seq(p.nodes) /\ Len(c) \in Nat \ {0} /\ d = Append(c, m)
    BY <2>1, ChainIs
  <2>3. /\ Len(d) = Len(c) + 1 /\ \A i \in 1 .. Len(c) : d[i] = c[i]
        /\ d[Len(c) + 1] = m
    <3> HIDE DEF c, d
    <3> QED
      BY <2>2, AppendProperties
  <2>4. above \in Seq(S) /\ Len(above) = Len(c)
    <3>1. above = [i \in 1 .. Len(c) |-> <<i - 1, Sibling(p, c[i])>>]
      BY DEF Segments
    <3>2. above \in [1 .. Len(c) -> S]
      <4> HIDE DEF above
      <4> QED
        BY <3>1
    <3>3. Len(c) \in Nat
      BY <2>2
    <3> HIDE DEF above, S, c
    <3> QED
      BY <3>2, <3>3, SeqOfFunction
  <2>5. last \in S
    OBVIOUS
  <2>6. /\ Append(above, last) \in Seq(S) /\ Len(Append(above, last)) = Len(above) + 1
        /\ \A i \in 1 .. Len(above) : Append(above, last)[i] = above[i]
        /\ Append(above, last)[Len(above) + 1] = last
    <3> HIDE DEF above, last, S
    <3> QED
      BY <2>4, <2>5, AppendProperties
  <2>7. ASSUME NEW i \in 1 .. Len(c) + 1
        PROVE  <<i - 1, Sibling(p, d[i])>> = Append(above, last)[i]
    <3>1. CASE i \in 1 .. Len(c)
      <4>1. above[i] = <<i - 1, Sibling(p, c[i])>>
        BY <3>1 DEF Segments
      <4> HIDE DEF above, last, c, d
      <4> QED
        BY <3>1, <4>1, <2>3, <2>4, <2>6
    <3>2. CASE i = Len(c) + 1
      <4>1. i - 1 = Len(c)
        BY <2>2, <3>2
      <4>2. last = <<i - 1, Sibling(p, d[i])>>
        <5>1. Len(above) = i - 1 /\ d[i] = m
          BY <4>1, <3>2, <2>3, <2>4
        <5> HIDE DEF above, d
        <5> QED
          BY <5>1
      <4> HIDE DEF above, last, c, d
      <4> QED
        BY <3>2, <4>2, <2>4, <2>6
    <3>3. i \in 1 .. Len(c) \/ i = Len(c) + 1
      <4> HIDE DEF c
      <4> QED
        BY <2>2
    <3> HIDE DEF above, last, c, d
    <3> QED
      BY <3>1, <3>2, <3>3
  <2>8. Segments(p, m) = [i \in 1 .. Len(c) + 1 |-> <<i - 1, Sibling(p, d[i])>>]
    BY <2>3 DEF Segments
  <2>9. Segments(p, m) = [i \in 1 .. Len(c) + 1 |-> Append(above, last)[i]]
    <3> HIDE DEF above, last, c, d
    <3> QED
      BY <2>7, <2>8
  <2>10. Append(above, last) = [i \in 1 .. Len(c) + 1 |-> Append(above, last)[i]]
    <3> HIDE DEF above, last, c, S
    <3>1. Len(Append(above, last)) = Len(c) + 1
      BY <2>4, <2>6
    <3> QED
      BY <2>6, <3>1, FunctionOfSeq
  <2> QED
    BY <2>9, <2>10
<1> QED
  BY <1>1, <1>2

\* The recursive definition of the paths has a solution, and its equations hold.
LEMMA PathIs ==
  ASSUME NEW p, IsPlan(p)
  PROVE  /\ Path(p, p.root) = <<<<0, 0>>>>
         /\ \A m \in p.nodes : m # p.root =>
              LET above == Path(p, Parent(p, m))
              IN Path(p, m) = Append(above, <<Len(above), Sibling(p, m)>>)
<1> DEFINE F == [m \in p.nodes |-> Segments(p, m)]
           P == CHOOSE path : path = [m \in p.nodes |-> PathStep(p, path, m)]
<1>1. ASSUME NEW m \in p.nodes PROVE F[m] = PathStep(p, F, m)
  <2>1. CASE m = p.root
    BY <2>1, SegmentsAre DEF PathStep
  <2>2. CASE m # p.root
    <3>1. Parent(p, m) \in p.nodes
      BY <2>2, ParentIs
    <3>2. F[Parent(p, m)] = Segments(p, Parent(p, m)) /\ F[m] = Segments(p, m)
      BY <3>1
    <3> DEFINE above == Segments(p, Parent(p, m))
    <3>3. Segments(p, m) = Append(above, <<Len(above), Sibling(p, m)>>)
      BY <2>2, SegmentsAre
    <3> HIDE DEF F
    <3> QED
      BY <2>2, <3>2, <3>3 DEF PathStep
  <2> QED
    BY <2>1, <2>2
<1>2. F = [m \in p.nodes |-> PathStep(p, F, m)]
  <2>1. F = [m \in p.nodes |-> F[m]]
    OBVIOUS
  <2> HIDE DEF F
  <2> QED
    BY <1>1, <2>1
<1>3. P = [m \in p.nodes |-> PathStep(p, P, m)]
  <2> HIDE DEF F
  <2> QED
    BY <1>2
<1>4. ASSUME NEW n \in p.nodes PROVE Path(p, n) = P[n]
  BY DEF Path, PathStep
<1>5. ASSUME NEW n \in p.nodes PROVE P[n] = PathStep(p, P, n)
  <2> HIDE DEF P
  <2> QED
    BY <1>3
<1>6. Path(p, p.root) = <<<<0, 0>>>>
  <2> HIDE DEF P
  <2> QED
    BY <1>4, <1>5, PlanIs DEF PathStep
<1>7. ASSUME NEW m \in p.nodes, m # p.root
      PROVE  LET above == Path(p, Parent(p, m))
             IN Path(p, m) = Append(above, <<Len(above), Sibling(p, m)>>)
  <2> HIDE DEF P
  <2>1. Path(p, Parent(p, m)) = P[Parent(p, m)]
    BY <1>4, <1>7, ParentIs
  <2>2. Path(p, m) = PathStep(p, P, m)
    BY <1>4, <1>5
  <2> QED
    BY <1>7, <2>1, <2>2 DEF PathStep
<1> QED
  BY <1>6, <1>7

\* The chain without its end, upwards.
Upwards(p, n) == [i \in 1 .. Len(Chain(p, n)) - 1 |-> Chain(p, n)[Len(Chain(p, n)) - i]]

AncestorsStep(p, f, m) ==
  IF m = p.root THEN <<>> ELSE <<Parent(p, m)>> \o f[Parent(p, m)]

LEMMA UpwardsAre ==
  ASSUME NEW p, IsPlan(p)
  PROVE  /\ Upwards(p, p.root) = <<>>
         /\ \A m \in p.nodes : Upwards(p, m) \in Seq(p.nodes)
         /\ \A m \in p.nodes : m # p.root =>
              Upwards(p, m) = <<Parent(p, m)>> \o Upwards(p, Parent(p, m))
<1>1. Upwards(p, p.root) = <<>>
  <2>1. Chain(p, p.root) = <<p.root>>
    BY ChainIs
  <2>2. Len(Chain(p, p.root)) = 1
    BY <2>1
  <2> QED
    BY <2>2 DEF Upwards
<1>2. ASSUME NEW m \in p.nodes
      PROVE  Upwards(p, m) \in Seq(p.nodes) /\ Len(Upwards(p, m)) = Len(Chain(p, m)) - 1
  <2> DEFINE d == Chain(p, m)
             n == Len(d) - 1
  <2>1. d \in Seq(p.nodes) /\ Len(d) \in Nat \ {0}
    BY ChainIs
  <2>2. n \in Nat /\ \A i \in 1 .. n : Len(d) - i \in 1 .. Len(d)
    <3> HIDE DEF d
    <3> QED
      BY <2>1
  <2>3. \A i \in 1 .. n : d[Len(d) - i] \in p.nodes
    <3> HIDE DEF d, n
    <3>1. \A j \in 1 .. Len(d) : d[j] \in p.nodes
      BY <2>1, ElementOfSeq
    <3> QED
      BY <2>2, <3>1
  <2>4. Upwards(p, m) = [i \in 1 .. n |-> d[Len(d) - i]]
    BY DEF Upwards
  <2>5. Upwards(p, m) \in [1 .. n -> p.nodes]
    <3> HIDE DEF d, n
    <3> QED
      BY <2>3, <2>4
  <2> HIDE DEF d, n
  <2>6. Upwards(p, m) \in Seq(p.nodes) /\ Len(Upwards(p, m)) = n
    BY <2>2, <2>5, SeqOfFunction
  <2> QED
    BY <2>6 DEF d, n
<1>3. ASSUME NEW m \in p.nodes, m # p.root
      PROVE  Upwards(p, m) = <<Parent(p, m)>> \o Upwards(p, Parent(p, m))
  <2> DEFINE q == Parent(p, m)
             c == Chain(p, q)
             d == Chain(p, m)
             u == Upwards(p, m)
             w == Upwards(p, q)
             one == <<q>>
  <2>1. q \in p.nodes /\ m \in ToSet(p.kids[q])
    BY <1>3, ParentIs
  <2>2. c \in Seq(p.nodes) /\ Len(c) \in Nat \ {0} /\ c[Len(c)] = q /\ d = Append(c, m)
    BY <2>1, ChainIs
  <2>3. Len(d) = Len(c) + 1 /\ \A i \in 1 .. Len(c) : d[i] = c[i]
    <3> HIDE DEF c, d
    <3> QED
      BY <2>2, AppendProperties
  <2>4. u \in Seq(p.nodes) /\ Len(u) = Len(c) /\ w \in Seq(p.nodes) /\ Len(w) = Len(c) - 1
    <3>1. u \in Seq(p.nodes) /\ Len(u) = Len(d) - 1 /\ w \in Seq(p.nodes) /\ Len(w) = Len(c) - 1
      BY <1>2, <2>1
    <3> HIDE DEF c, d, u, w
    <3> QED
      BY <2>2, <2>3, <3>1
  <2>5. one \in Seq(p.nodes) /\ Len(one) = 1 /\ one[1] = q
    <3> HIDE DEF q
    <3> QED
      BY <2>1, OneIs
  <2>6. /\ one \o w \in Seq(p.nodes) /\ Len(one \o w) = Len(c)
        /\ (one \o w)[1] = q
        /\ \A i \in 1 .. Len(c) - 1 : (one \o w)[1 + i] = w[i]
    <3> HIDE DEF one, w, c, q
    <3>1. /\ one \o w \in Seq(p.nodes) /\ Len(one \o w) = Len(one) + Len(w)
          /\ \A i \in 1 .. Len(one) : (one \o w)[i] = one[i]
          /\ \A i \in 1 .. Len(w) : (one \o w)[Len(one) + i] = w[i]
      <4>1. one \in Seq(p.nodes) /\ w \in Seq(p.nodes)
        BY <2>4, <2>5
      <4> QED
        BY ONLY <4>1, ConcatProperties
    <3> QED
      BY <2>2, <2>4, <2>5, <3>1
  <2>7. ASSUME NEW i \in 1 .. Len(c) PROVE u[i] = (one \o w)[i]
    <3>1. u[i] = d[Len(d) - i]
      <4>1. i \in 1 .. Len(d) - 1
        <5> HIDE DEF c, d
        <5> QED
          BY <2>2, <2>3
      <4> QED
        BY <4>1 DEF Upwards
    <3>2. CASE i = 1
      <4> HIDE DEF c, d, u, one, w, q
      <4>1. Len(d) - i = Len(c) /\ Len(c) \in 1 .. Len(c)
        BY <2>2, <2>3, <3>2
      <4> QED
        BY <2>2, <2>3, <2>6, <3>1, <3>2, <4>1
    <3>3. CASE i # 1
      <4>1. i - 1 \in 1 .. Len(c) - 1 /\ i = 1 + (i - 1)
        <5> HIDE DEF c
        <5> QED
          BY <2>2, <3>3
      <4>2. w[i - 1] = c[Len(c) - (i - 1)]
        BY <4>1 DEF Upwards
      <4> HIDE DEF c, d, u, one, w, q
      <4>3. Len(d) - i = Len(c) - (i - 1) /\ Len(d) - i \in 1 .. Len(c)
        BY <2>2, <2>3, <4>1
      <4>4. (one \o w)[i] = w[i - 1]
        BY <2>6, <4>1
      <4> QED
        BY <2>3, <3>1, <4>2, <4>3, <4>4
    <3> QED
      BY <3>2, <3>3
  <2> HIDE DEF u, one, w, c
  <2>8. u = one \o w
    BY <2>4, <2>6, <2>7, SeqEqual
  <2> QED
    BY <2>8 DEF u, one, w
<1> QED
  BY <1>1, <1>2, <1>3

\* So has that of the ancestors.
LEMMA AncestorsAre ==
  ASSUME NEW p, IsPlan(p)
  PROVE  /\ Ancestors(p, p.root) = <<>>
         /\ \A m \in p.nodes : m # p.root =>
              Ancestors(p, m) = <<Parent(p, m)>> \o Ancestors(p, Parent(p, m))
<1> DEFINE F == [m \in p.nodes |-> Upwards(p, m)]
           P == CHOOSE above : above = [m \in p.nodes |-> AncestorsStep(p, above, m)]
<1>1. ASSUME NEW m \in p.nodes PROVE F[m] = AncestorsStep(p, F, m)
  <2>1. CASE m = p.root
    BY <2>1, UpwardsAre DEF AncestorsStep
  <2>2. CASE m # p.root
    <3>1. Parent(p, m) \in p.nodes
      BY <2>2, ParentIs
    <3>2. F[Parent(p, m)] = Upwards(p, Parent(p, m)) /\ F[m] = Upwards(p, m)
      BY <3>1
    <3>3. Upwards(p, m) = <<Parent(p, m)>> \o Upwards(p, Parent(p, m))
      BY <2>2, UpwardsAre
    <3> HIDE DEF F
    <3> QED
      BY <2>2, <3>2, <3>3 DEF AncestorsStep
  <2> QED
    BY <2>1, <2>2
<1>2. F = [m \in p.nodes |-> AncestorsStep(p, F, m)]
  <2>1. F = [m \in p.nodes |-> F[m]]
    OBVIOUS
  <2> HIDE DEF F
  <2> QED
    BY <1>1, <2>1
<1>3. P = [m \in p.nodes |-> AncestorsStep(p, P, m)]
  <2> HIDE DEF F
  <2> QED
    BY <1>2
<1>4. ASSUME NEW n \in p.nodes PROVE Ancestors(p, n) = P[n]
  BY DEF Ancestors, AncestorsStep
<1>5. ASSUME NEW n \in p.nodes PROVE P[n] = AncestorsStep(p, P, n)
  <2> HIDE DEF P
  <2> QED
    BY <1>3
<1>6. Ancestors(p, p.root) = <<>>
  <2> HIDE DEF P
  <2> QED
    BY <1>4, <1>5, PlanIs DEF AncestorsStep
<1>7. ASSUME NEW m \in p.nodes, m # p.root
      PROVE  Ancestors(p, m) = <<Parent(p, m)>> \o Ancestors(p, Parent(p, m))
  <2> HIDE DEF P
  <2>1. Ancestors(p, Parent(p, m)) = P[Parent(p, m)]
    BY <1>4, <1>7, ParentIs
  <2>2. Ancestors(p, m) = AncestorsStep(p, P, m)
    BY <1>4, <1>5
  <2> QED
    BY <1>7, <2>1, <2>2 DEF AncestorsStep
<1> QED
  BY <1>6, <1>7

-----------------------------------------------------------------------------
(***************************************************************************)
(* The order of paths.                                                     *)
(***************************************************************************)
Paths == Seq(Nat \X Nat)

Leads(a, b) == Len(a) <= Len(b) /\ \A i \in 1 .. Len(a) : a[i] = b[i]

\* Up to i they are the same, there a is the one to the left.
PartsAt(a, b, i) ==
  /\ i \in 1 .. Len(a) /\ i \in 1 .. Len(b)
  /\ a[i][2] < b[i][2]
  /\ \A j \in 1 .. i - 1 : a[j] = b[j]

IsLeftOf(a, b) == \E i : PartsAt(a, b, i)

LEMMA PathElements ==
  ASSUME NEW a \in Paths
  PROVE  Len(a) \in Nat /\ DOMAIN a = 1 .. Len(a) /\ \A i \in 1 .. Len(a) : a[i][2] \in Nat
<1>1. Len(a) \in Nat /\ DOMAIN a = 1 .. Len(a) /\ \A i \in 1 .. Len(a) : a[i] \in Nat \X Nat
  BY ElementOfSeq DEF Paths
<1>2. \A x \in Nat \X Nat : x[2] \in Nat
  OBVIOUS
<1> QED
  BY <1>1, <1>2

\* The first n elements of two sequences.
LEMMA CutsAlike ==
  ASSUME NEW S, NEW a \in Seq(S), NEW b \in Seq(S), NEW n \in Nat, n <= Len(a), n <= Len(b)
  PROVE  SubSeq(a, 1, n) = SubSeq(b, 1, n) <=> \A i \in 1 .. n : a[i] = b[i]
<1> DEFINE c == SubSeq(a, 1, n)
           d == SubSeq(b, 1, n)
<1>1. c = [i \in 1 .. n |-> a[i]] /\ d = [i \in 1 .. n |-> b[i]]
  <2>1. \A i \in 1 .. n : 1 + i - 1 = i
    OBVIOUS
  <2>2. 1 .. (1 + n) - 1 = 1 .. n
    OBVIOUS
  <2> QED
    BY <2>1, <2>2
<1> HIDE DEF c, d
<1>2. c = d => \A i \in 1 .. n : a[i] = b[i]
  <2> SUFFICES ASSUME c = d, NEW i \in 1 .. n PROVE a[i] = b[i]
    OBVIOUS
  <2>1. c[i] = a[i] /\ d[i] = b[i]
    BY <1>1
  <2> QED
    BY <2>1
<1>3. (\A i \in 1 .. n : a[i] = b[i]) => c = d
  BY <1>1
<1>4. c = d <=> \A i \in 1 .. n : a[i] = b[i]
  BY <1>2, <1>3
<1> QED
  BY <1>4 DEF c, d

LEMMA PrefixIs ==
  ASSUME NEW a \in Paths, NEW b \in Paths
  PROVE  /\ IsPrefix(a, b) <=> Leads(a, b)
         /\ IsStrictPrefix(a, b) <=> Leads(a, b) /\ Len(a) < Len(b)
<1>1. Len(a) \in Nat /\ Len(b) \in Nat
  BY PathElements
<1>2. IsPrefix(a, b) <=> Leads(a, b)
  <2>1. CASE Len(a) <= Len(b)
    BY <1>1, <2>1, CutsAlike DEF IsPrefix, Leads, Paths
  <2>2. CASE ~(Len(a) <= Len(b))
    BY <2>2 DEF IsPrefix, Leads
  <2> QED
    BY <2>1, <2>2
<1>3. ASSUME Leads(a, b) PROVE a = b <=> Len(a) = Len(b)
  <2>1. ASSUME Len(a) = Len(b) PROVE a = b
    BY <1>3, <2>1, SeqEqual DEF Leads, Paths
  <2> QED
    BY <2>1
<1>4. Leads(a, b) => Len(a) <= Len(b)
  BY DEF Leads
<1> QED
  BY <1>1, <1>2, <1>3, <1>4 DEF IsStrictPrefix

LEMMA BeforeIs ==
  ASSUME NEW a \in Paths, NEW b \in Paths
  PROVE  /\ ToTheLeft(a, b) <=> IsLeftOf(a, b)
         /\ PathBefore(a, b) <=> (Leads(a, b) /\ Len(a) < Len(b)) \/ IsLeftOf(a, b)
<1> DEFINE At(i) == a[i][2] < b[i][2] /\ SubSeq(a, 1, i - 1) = SubSeq(b, 1, i - 1)
<1>1. /\ Len(a) \in Nat /\ Len(b) \in Nat
      /\ DOMAIN a = 1 .. Len(a) /\ DOMAIN b = 1 .. Len(b)
  BY PathElements
<1>2. ASSUME NEW i \in DOMAIN a \cap DOMAIN b PROVE At(i) <=> PartsAt(a, b, i)
  <2>1. i - 1 \in Nat /\ i - 1 <= Len(a) /\ i - 1 <= Len(b)
    BY <1>1
  <2>2. SubSeq(a, 1, i - 1) = SubSeq(b, 1, i - 1) <=> \A j \in 1 .. i - 1 : a[j] = b[j]
    BY <2>1, CutsAlike DEF Paths
  <2> QED
    BY <1>1, <2>2 DEF PartsAt
<1>3. (\E i \in DOMAIN a \cap DOMAIN b : At(i)) <=> IsLeftOf(a, b)
  <2> HIDE DEF At
  <2>1. \A i : PartsAt(a, b, i) => i \in DOMAIN a \cap DOMAIN b
    BY <1>1 DEF PartsAt
  <2> QED
    BY <1>2, <2>1 DEF IsLeftOf
<1>4. ToTheLeft(a, b) <=> IsLeftOf(a, b)
  BY <1>3 DEF ToTheLeft
<1> QED
  BY <1>4, PrefixIs DEF PathBefore

LEMMA LeadsOn ==
  ASSUME NEW a \in Paths, NEW b \in Paths, NEW c \in Paths, Leads(a, b), Leads(b, c)
  PROVE  Leads(a, c)
BY PathElements DEF Leads

\* What is to the left stays there, further down too.
LEMMA LeftExtends ==
  ASSUME NEW a \in Paths, NEW b \in Paths, NEW c \in Paths, NEW d \in Paths,
         IsLeftOf(a, b), Leads(a, c), Leads(b, d)
  PROVE  IsLeftOf(c, d)
<1>1. PICK i : PartsAt(a, b, i)
  BY DEF IsLeftOf
<1>2. /\ Len(a) \in Nat /\ Len(b) \in Nat /\ Len(c) \in Nat /\ Len(d) \in Nat
      /\ Len(a) <= Len(c) /\ Len(b) <= Len(d)
      /\ \A j \in 1 .. Len(a) : a[j] = c[j]
      /\ \A j \in 1 .. Len(b) : b[j] = d[j]
  BY PathElements DEF Leads
<1>3. /\ i \in 1 .. Len(a) /\ i \in 1 .. Len(b) /\ a[i][2] < b[i][2]
      /\ \A j \in 1 .. i - 1 : a[j] = b[j]
  BY <1>1 DEF PartsAt
<1>4. /\ i \in 1 .. Len(c) /\ i \in 1 .. Len(d)
      /\ \A j \in 1 .. i - 1 : j \in 1 .. Len(a) /\ j \in 1 .. Len(b)
  BY <1>2, <1>3
<1>5. c[i][2] < d[i][2] /\ \A j \in 1 .. i - 1 : c[j] = d[j]
  BY <1>2, <1>3, <1>4
<1>6. PartsAt(c, d, i)
  BY <1>4, <1>5 DEF PartsAt
<1> QED
  BY <1>6 DEF IsLeftOf

LEMMA LeadsSelf ==
  ASSUME NEW a \in Paths
  PROVE  Leads(a, a)
BY PathElements DEF Leads

\* What comes before a path comes before all that is below it.
LEMMA BeforeExtends ==
  ASSUME NEW a \in Paths, NEW b \in Paths, NEW d \in Paths, PathBefore(a, b), Leads(b, d)
  PROVE  PathBefore(a, d)
<1>1. CASE Leads(a, b) /\ Len(a) < Len(b)
  <2>1. Leads(a, d)
    BY <1>1, LeadsOn
  <2>2. Len(a) < Len(d)
    <3>1. Len(a) \in Nat /\ Len(b) \in Nat /\ Len(d) \in Nat /\ Len(b) <= Len(d)
      BY PathElements DEF Leads
    <3> QED
      BY <1>1, <3>1
  <2> QED
    BY <2>1, <2>2, BeforeIs
<1>2. CASE IsLeftOf(a, b)
  BY <1>2, LeadsSelf, LeftExtends, BeforeIs
<1> QED
  BY <1>1, <1>2, BeforeIs

\* One of two comes first.
LEMMA LeftOnce ==
  ASSUME NEW a \in Paths, NEW b \in Paths, IsLeftOf(a, b)
  PROVE  ~IsLeftOf(b, a) /\ ~Leads(a, b) /\ ~Leads(b, a)
<1>1. PICK i : PartsAt(a, b, i)
  BY DEF IsLeftOf
<1>2. /\ i \in 1 .. Len(a) /\ i \in 1 .. Len(b) /\ a[i][2] < b[i][2]
      /\ \A j \in 1 .. i - 1 : a[j] = b[j]
  BY <1>1 DEF PartsAt
<1>3. a[i][2] \in Nat /\ b[i][2] \in Nat /\ Len(a) \in Nat /\ Len(b) \in Nat
  BY <1>2, PathElements
<1>4. a[i] # b[i] /\ ~(b[i][2] < a[i][2])
  BY <1>2, <1>3
<1>5. ASSUME IsLeftOf(b, a) PROVE FALSE
  <2>1. PICK h : PartsAt(b, a, h)
    BY <1>5 DEF IsLeftOf
  <2>2. /\ h \in 1 .. Len(a) /\ h \in 1 .. Len(b) /\ b[h][2] < a[h][2]
        /\ \A j \in 1 .. h - 1 : b[j] = a[j]
    BY <2>1 DEF PartsAt
  <2>3. b[h][2] \in Nat /\ a[h][2] \in Nat
    BY <2>2, PathElements
  <2>4. CASE h < i
    <3>1. h \in 1 .. i - 1
      BY <1>2, <1>3, <2>2, <2>4
    <3>2. a[h] = b[h]
      BY <1>2, <3>1
    <3> QED
      BY <2>2, <2>3, <3>2
  <2>5. CASE h = i
    BY <1>4, <2>2, <2>5
  <2>6. CASE i < h
    <3>1. i \in 1 .. h - 1
      BY <1>2, <1>3, <2>2, <2>6
    <3> QED
      BY <1>4, <2>2, <3>1
  <2>7. h < i \/ h = i \/ i < h
    BY <1>2, <1>3, <2>2
  <2> QED
    BY <2>4, <2>5, <2>6, <2>7
<1> QED
  BY <1>2, <1>4, <1>5 DEF Leads

\* Pre-order has no circles.
LEMMA BeforeOnce ==
  ASSUME NEW a \in Paths, NEW b \in Paths, PathBefore(a, b)
  PROVE  ~PathBefore(b, a) /\ a # b /\ ~Leads(b, a)
<1>1. Len(a) \in Nat /\ Len(b) \in Nat
  BY PathElements
<1>2. CASE Leads(a, b) /\ Len(a) < Len(b)
  <2>1. ~Leads(b, a) /\ a # b
    BY <1>1, <1>2 DEF Leads
  <2>2. ~IsLeftOf(b, a)
    BY <1>2, LeftOnce
  <2> QED
    BY <2>1, <2>2, BeforeIs
<1>3. CASE IsLeftOf(a, b)
  <2>1. ~IsLeftOf(b, a) /\ ~Leads(b, a)
    BY <1>3, LeftOnce
  <2>2. a # b
    BY <2>1, LeadsSelf
  <2> QED
    BY <2>1, <2>2, BeforeIs
<1> QED
  BY <1>2, <1>3, BeforeIs

-----------------------------------------------------------------------------
(***************************************************************************)
(* The paths of the nodes.                                                 *)
(***************************************************************************)
\* A segment more.
LEMMA LongerPath ==
  ASSUME NEW a \in Paths, NEW x \in Nat \X Nat
  PROVE  /\ Append(a, x) \in Paths
         /\ Len(Append(a, x)) = Len(a) + 1 /\ Append(a, x)[Len(a) + 1] = x
         /\ Leads(a, Append(a, x)) /\ \A i \in 1 .. Len(a) : Append(a, x)[i] = a[i]
<1> DEFINE b == Append(a, x)
<1>1. Len(a) \in Nat
  BY PathElements
<1>2. /\ b \in Paths /\ Len(b) = Len(a) + 1
      /\ \A i \in 1 .. Len(a) : b[i] = a[i]
      /\ b[Len(a) + 1] = x
  BY AppendProperties DEF Paths
<1> HIDE DEF b
<1>3. Leads(a, b)
  BY <1>1, <1>2 DEF Leads
<1> QED
  BY <1>2, <1>3 DEF b

\* A path is a sequence of pairs of a depth and a place.
LEMMA PathTypes ==
  ASSUME NEW p, IsPlan(p)
  PROVE  \A n \in p.nodes : Path(p, n) \in Paths /\ Len(Path(p, n)) \in Nat \ {0}
<1> DEFINE S == {n \in p.nodes : Path(p, n) \in Paths /\ Len(Path(p, n)) \in Nat \ {0}}
<1>1. p.root \in S
  <2>1. p.root \in p.nodes /\ Path(p, p.root) = <<<<0, 0>>>>
    BY PlanIs, PathIs
  <2>2. <<<<0, 0>>>> \in Paths /\ Len(<<<<0, 0>>>>) = 1
    <3>1. <<0, 0>> \in Nat \X Nat
      OBVIOUS
    <3> QED
      BY <3>1, OneIs DEF Paths
  <2> QED
    BY <2>1, <2>2
<1>2. ASSUME NEW n \in S, NEW m \in ToSet(p.kids[n]) PROVE m \in S
  <2>1. m \in p.nodes /\ m # p.root /\ Parent(p, m) = n
    BY KidIs
  <2> DEFINE a == Path(p, n)
             x == <<Len(a), Sibling(p, m)>>
  <2>2. Path(p, m) = Append(a, x)
    BY <2>1, PathIs
  <2>3. x \in Nat \X Nat
    BY <2>1, PlaceIs
  <2>4. a \in Paths
    OBVIOUS
  <2> HIDE DEF a, x
  <2>5. Append(a, x) \in Paths /\ Len(Append(a, x)) = Len(a) + 1 /\ Len(a) \in Nat
    BY <2>3, <2>4, LongerPath, PathElements
  <2>6. Path(p, m) \in Paths /\ Len(Path(p, m)) \in Nat \ {0}
    <3> DEFINE b == Append(a, x)
    <3>1. b \in Paths /\ Len(b) \in Nat \ {0}
      BY <2>5
    <3> HIDE DEF b
    <3>2. Path(p, m) = b
      BY <2>2 DEF b
    <3> QED
      BY <3>1, <3>2
  <2> QED
    BY <2>1, <2>6
<1>3. S = p.nodes
  <2>1. \A n \in S : ToSet(p.kids[n]) \subseteq S
    BY <1>2
  <2>2. S \in SUBSET p.nodes
    OBVIOUS
  <2> HIDE DEF S
  <2> QED
    BY <1>1, <2>1, <2>2, TreeInduction
<1> QED
  BY <1>3

\* The path of a child.
LEMMA PathOfKid ==
  ASSUME NEW p, IsPlan(p), NEW n \in p.nodes, NEW m \in ToSet(p.kids[n])
  PROVE  /\ Len(Path(p, m)) = Len(Path(p, n)) + 1
         /\ Path(p, m)[Len(Path(p, m))] = <<Len(Path(p, n)), Sibling(p, m)>>
         /\ Leads(Path(p, n), Path(p, m))
         /\ \A i \in 1 .. Len(Path(p, n)) : Path(p, m)[i] = Path(p, n)[i]
<1> DEFINE a == Path(p, n)
           x == <<Len(a), Sibling(p, m)>>
<1>1. m \in p.nodes /\ m # p.root /\ Parent(p, m) = n
  BY KidIs
<1>2. Path(p, m) = Append(a, x)
  BY <1>1, PathIs
<1>3. a \in Paths /\ x \in Nat \X Nat
  BY <1>1, PathTypes, PlaceIs
<1>4. /\ Len(Path(p, m)) = Len(a) + 1 /\ Path(p, m)[Len(Path(p, m))] = x
      /\ Leads(a, Path(p, m)) /\ \A i \in 1 .. Len(a) : Path(p, m)[i] = a[i]
  <2> DEFINE b == Append(a, x)
  <2>1. /\ Len(b) = Len(a) + 1 /\ b[Len(a) + 1] = x
        /\ Leads(a, b) /\ \A i \in 1 .. Len(a) : b[i] = a[i]
    <3> HIDE DEF a, x
    <3> QED
      BY <1>3, LongerPath
  <2>2. Path(p, m) = b
    BY <1>2
  <2> HIDE DEF a, x, b
  <2> QED
    BY <2>1, <2>2
<1> QED
  BY <1>4

LEMMA PathOfRoot ==
  ASSUME NEW p, IsPlan(p)
  PROVE  /\ Len(Path(p, p.root)) = 1 /\ Path(p, p.root)[1] = <<0, 0>>
         /\ \A n \in p.nodes : Leads(Path(p, p.root), Path(p, n))
         /\ \A n \in p.nodes : Len(Path(p, n)) = 1 => n = p.root
<1>1. Path(p, p.root) = <<<<0, 0>>>>
  BY PathIs
<1>2. Len(Path(p, p.root)) = 1 /\ Path(p, p.root)[1] = <<0, 0>>
  BY <1>1
<1> DEFINE S == {n \in p.nodes : Leads(Path(p, p.root), Path(p, n))}
<1>3. p.root \in S
  BY PlanIs, PathTypes, LeadsSelf
<1>4. ASSUME NEW n \in S, NEW m \in ToSet(p.kids[n]) PROVE m \in S
  <2>1. m \in p.nodes /\ Leads(Path(p, n), Path(p, m)) /\ p.root \in p.nodes
    BY KidIs, PathOfKid, PlanIs
  <2> QED
    BY <2>1, PathTypes, LeadsOn
<1>5. S = p.nodes
  <2>1. \A n \in S : ToSet(p.kids[n]) \subseteq S
    BY <1>4
  <2>2. S \in SUBSET p.nodes
    OBVIOUS
  <2> HIDE DEF S
  <2> QED
    BY <1>3, <2>1, <2>2, TreeInduction
<1>6. ASSUME NEW n \in p.nodes, n # p.root PROVE Len(Path(p, n)) # 1
  <2>1. Parent(p, n) \in p.nodes /\ n \in ToSet(p.kids[Parent(p, n)])
    BY <1>6, ParentIs
  <2>2. /\ Len(Path(p, n)) = Len(Path(p, Parent(p, n))) + 1
        /\ Len(Path(p, Parent(p, n))) \in Nat \ {0}
    BY <2>1, PathOfKid, PathTypes
  <2> QED
    BY <2>2
<1> QED
  BY <1>2, <1>5, <1>6

\* Two nodes have two paths, and children one behind the other.
LEMMA KidsLeft ==
  ASSUME NEW p, IsPlan(p), NEW n \in p.nodes,
         NEW i \in 1 .. Len(p.kids[n]), NEW j \in 1 .. Len(p.kids[n]), i < j
  PROVE  IsLeftOf(Path(p, p.kids[n][i]), Path(p, p.kids[n][j]))
<1> DEFINE c == p.kids[n][i]
           d == p.kids[n][j]
           a == Path(p, c)
           b == Path(p, d)
           l == Len(Path(p, n))
<1>1. /\ c \in ToSet(p.kids[n]) /\ Sibling(p, c) = i - 1
      /\ d \in ToSet(p.kids[n]) /\ Sibling(p, d) = j - 1
  BY SiblingIs
<1>2. /\ Len(a) = l + 1 /\ a[Len(a)] = <<l, i - 1>> /\ \A h \in 1 .. l : a[h] = Path(p, n)[h]
      /\ Len(b) = l + 1 /\ b[Len(b)] = <<l, j - 1>> /\ \A h \in 1 .. l : b[h] = Path(p, n)[h]
  BY <1>1, PathOfKid
<1>3. l \in Nat /\ i \in Int /\ j \in Int
  <2>1. p.kids[n] \in Seq(p.nodes) /\ Len(Path(p, n)) \in Nat
    BY PlanIs, PathTypes
  <2> QED
    BY <2>1
<1> HIDE DEF a, b, l, c, d
<1>4. a[l + 1][2] = i - 1 /\ b[l + 1][2] = j - 1
  BY <1>2
<1>5. PartsAt(a, b, l + 1)
  BY <1>2, <1>3, <1>4 DEF PartsAt
<1> QED
  BY <1>5 DEF IsLeftOf, a, b, c, d

\* No two nodes have the same path.
LEMMA PathInjective ==
  ASSUME NEW p, IsPlan(p)
  PROVE  \A m, n \in p.nodes : Path(p, m) = Path(p, n) => m = n
<1> DEFINE Only(n) == \A m \in p.nodes : Path(p, m) = Path(p, n) => m = n
           S == {n \in p.nodes : Only(n)}
<1>1. p.root \in S
  BY PathOfRoot, PlanIs
<1>2. ASSUME NEW n \in p.nodes, Only(n), NEW c \in ToSet(p.kids[n]) PROVE Only(c)
  <2> SUFFICES ASSUME NEW m \in p.nodes, Path(p, m) = Path(p, c) PROVE m = c
    OBVIOUS
  <2>1. c \in p.nodes /\ c # p.root /\ Parent(p, c) = n
    BY KidIs
  <2>2. m # p.root
    BY <2>1, PathOfRoot
  <2> DEFINE q == Parent(p, m)
  <2>3. q \in p.nodes /\ m \in ToSet(p.kids[q])
    BY <2>2, ParentIs
  <2> DEFINE a == Path(p, q)
             b == Path(p, n)
  <2>4. a \in Paths /\ b \in Paths
    BY <2>3, PathTypes
  <2>5. /\ Path(p, m) = Append(a, <<Len(a), Sibling(p, m)>>)
        /\ Path(p, c) = Append(b, <<Len(b), Sibling(p, c)>>)
    BY <2>1, <2>2, PathIs
  <2>6. Sibling(p, m) \in Nat /\ Sibling(p, c) \in Nat
    BY <2>1, <2>2, PlaceIs
  <2>7. Len(a) \in Nat /\ Len(b) \in Nat
    BY <2>4, PathElements
  <2>8. a = b /\ Sibling(p, m) = Sibling(p, c)
    <3> DEFINE x == <<Len(a), Sibling(p, m)>>
               y == <<Len(b), Sibling(p, c)>>
    <3>1. x \in Nat \X Nat /\ y \in Nat \X Nat
      BY <2>6, <2>7
    <3>2. Append(a, x) = Append(b, y)
      BY <2>5
    <3>3. a = b /\ x = y
      <4> HIDE DEF a, b, x, y
      <4> QED
        BY <2>4, <3>1, <3>2, AppendInjective DEF Paths
    <3> QED
      BY <3>3
  <2>9. q = n
    BY <1>2, <2>3, <2>8
  <2> QED
    BY <2>1, <2>2, <2>8, <2>9, PlaceIs
<1>3. S = p.nodes
  <2>1. \A n \in S : ToSet(p.kids[n]) \subseteq S
    BY <1>2, KidIs
  <2>2. S \in SUBSET p.nodes
    OBVIOUS
  <2> HIDE DEF S
  <2> QED
    BY <1>1, <2>1, <2>2, TreeInduction
<1> QED
  BY <1>3

\* Below a node is the node itself and what is below its children.
LEMMA BelowKid ==
  ASSUME NEW p, IsPlan(p), NEW t \in p.nodes
  PROVE  \A m \in p.nodes : Leads(Path(p, t), Path(p, m)) =>
           m = t \/ \E c \in ToSet(p.kids[t]) : Leads(Path(p, c), Path(p, m))
<1> DEFINE Good(m) == Leads(Path(p, t), Path(p, m)) =>
             m = t \/ \E c \in ToSet(p.kids[t]) : Leads(Path(p, c), Path(p, m))
           S == {m \in p.nodes : Good(m)}
<1>1. Good(p.root)
  <2> SUFFICES ASSUME Leads(Path(p, t), Path(p, p.root)) PROVE p.root = t
    OBVIOUS
  <2>1. Len(Path(p, t)) <= 1 /\ Len(Path(p, t)) \in Nat \ {0}
    BY PathOfRoot, PathTypes DEF Leads
  <2>2. Len(Path(p, t)) = 1
    <3>1. \A x \in Nat \ {0} : x <= 1 => x = 1
      OBVIOUS
    <3> QED
      BY ONLY <2>1, <3>1
  <2> QED
    BY <2>2, PathOfRoot
<1>2. ASSUME NEW n \in p.nodes, Good(n), NEW m \in ToSet(p.kids[n]) PROVE Good(m)
  <2> SUFFICES ASSUME Leads(Path(p, t), Path(p, m))
               PROVE  m = t \/ \E c \in ToSet(p.kids[t]) : Leads(Path(p, c), Path(p, m))
    OBVIOUS
  <2> DEFINE a == Path(p, t)
             b == Path(p, n)
             d == Path(p, m)
  <2>1. m \in p.nodes /\ a \in Paths /\ b \in Paths /\ d \in Paths
    BY KidIs, PathTypes
  <2>2. Len(d) = Len(b) + 1 /\ Leads(b, d) /\ \A i \in 1 .. Len(b) : d[i] = b[i]
    BY PathOfKid
  <2>3. Len(a) \in Nat /\ Len(b) \in Nat
    BY <2>1, PathElements
  <2>4. Leads(a, d)
    OBVIOUS
  <2>5. CASE Len(a) <= Len(b)
    <3>1. Leads(a, b)
      <4> HIDE DEF a, b, d
      <4> QED
        BY <2>2, <2>3, <2>4, <2>5 DEF Leads
    <3>2. CASE n = t
      BY <2>1, <3>2, LeadsSelf
    <3>3. CASE n # t
      <4>1. PICK c \in ToSet(p.kids[t]) : Leads(Path(p, c), b)
        BY <1>2, <3>1, <3>3
      <4>2. Path(p, c) \in Paths
        BY KidIs, PathTypes
      <4>3. Leads(Path(p, c), d)
        <5> HIDE DEF b, d
        <5> QED
          BY <2>1, <2>2, <4>1, <4>2, LeadsOn
      <4> QED
        BY <4>3
    <3> QED
      BY <3>2, <3>3
  <2>6. CASE Len(a) > Len(b)
    <3>1. a = d
      <4> HIDE DEF a, b, d
      <4>1. Len(a) = Len(d)
        BY <2>2, <2>3, <2>4, <2>6 DEF Leads
      <4> QED
        BY <2>1, <2>4, <4>1, SeqEqual DEF Leads, Paths
    <3> QED
      BY <2>1, <3>1, PathInjective
  <2> QED
    BY <2>3, <2>5, <2>6
<1>3. S = p.nodes
  <2>1. p.root \in S
    BY <1>1, PlanIs
  <2>2. \A n \in S : ToSet(p.kids[n]) \subseteq S
    BY <1>2, KidIs
  <2>3. S \in SUBSET p.nodes
    OBVIOUS
  <2> HIDE DEF S
  <2> QED
    BY <2>1, <2>2, <2>3, TreeInduction
<1> QED
  BY <1>3

\* The ancestors of a node are those whose paths lead to its own.
LEMMA AncestorsLead ==
  ASSUME NEW p, IsPlan(p)
  PROVE  \A n \in p.nodes : \A m \in p.nodes :
           Leads(Path(p, m), Path(p, n)) => m = n \/ m \in ToSet(Ancestors(p, n))
<1> DEFINE Good(n) == /\ Ancestors(p, n) \in Seq(p.nodes)
                      /\ \A m \in p.nodes : Leads(Path(p, m), Path(p, n)) =>
                           m = n \/ m \in ToSet(Ancestors(p, n))
           S == {n \in p.nodes : Good(n)}
<1>1. Good(p.root)
  <2>1. Ancestors(p, p.root) \in Seq(p.nodes)
    <3>1. Ancestors(p, p.root) = <<>> /\ <<>> \in Seq(p.nodes)
      BY AncestorsAre
    <3> QED
      BY <3>1
  <2>2. ASSUME NEW m \in p.nodes, Leads(Path(p, m), Path(p, p.root)) PROVE m = p.root
    <3>1. Len(Path(p, m)) <= 1 /\ Len(Path(p, m)) \in Nat \ {0}
      BY <2>2, PathOfRoot, PathTypes DEF Leads
    <3>2. Len(Path(p, m)) = 1
      <4>1. \A x \in Nat \ {0} : x <= 1 => x = 1
        OBVIOUS
      <4> QED
        BY ONLY <3>1, <4>1
    <3> QED
      BY <3>2, PathOfRoot
  <2> QED
    BY <2>1, <2>2
<1>2. ASSUME NEW n \in p.nodes, Good(n), NEW c \in ToSet(p.kids[n]) PROVE Good(c)
  <2>1. c \in p.nodes /\ c # p.root /\ Parent(p, c) = n
    BY KidIs
  <2> DEFINE up == Ancestors(p, n)
             one == <<n>>
  <2>2. one \in Seq(p.nodes) /\ up \in Seq(p.nodes) /\ Len(one) = 1 /\ one[1] = n
    BY <1>2, OneIs
  <2>3. /\ Ancestors(p, c) \in Seq(p.nodes)
        /\ ToSet(Ancestors(p, c)) = {n} \cup ToSet(up)
    <3>1. Ancestors(p, c) = one \o up
      BY <2>1, AncestorsAre
    <3>2. ToSet(one) = {n}
      <4> HIDE DEF one
      <4> QED
        BY <2>2 DEF ToSet
    <3>3. one \o up \in Seq(p.nodes) /\ ToSet(one \o up) = ToSet(one) \cup ToSet(up)
      <4> HIDE DEF one, up
      <4> QED
        BY <2>2, ConcatSet
    <3> HIDE DEF one, up
    <3> QED
      BY <3>1, <3>2, <3>3
  <2>4. ASSUME NEW m \in p.nodes, Leads(Path(p, m), Path(p, c)), m # c
        PROVE  m \in ToSet(Ancestors(p, c))
    <3> DEFINE a == Path(p, m)
               b == Path(p, n)
               d == Path(p, c)
    <3>1. a \in Paths /\ b \in Paths /\ d \in Paths /\ a # d
      BY <2>1, <2>4, PathTypes, PathInjective
    <3>2. Len(d) = Len(b) + 1 /\ \A i \in 1 .. Len(b) : d[i] = b[i]
      BY PathOfKid
    <3>3. Len(a) \in Nat /\ Len(b) \in Nat /\ Leads(a, d)
      BY <2>4, <3>1, PathElements
    <3>4. Leads(a, b)
      <4> HIDE DEF a, b, d
      <4>1. Len(a) # Len(d)
        <5> SUFFICES ASSUME Len(a) = Len(d) PROVE FALSE
          OBVIOUS
        <5> QED
          BY <3>1, <3>3, SeqEqual DEF Leads, Paths
      <4>2. Len(a) <= Len(b)
        BY <3>2, <3>3, <4>1 DEF Leads
      <4> QED
        BY <3>2, <3>3, <4>2 DEF Leads
    <3>5. m = n \/ m \in ToSet(up)
      BY <1>2, <3>4
    <3> QED
      BY <2>3, <3>5
  <2> QED
    BY <2>3, <2>4
<1>3. S = p.nodes
  <2>1. p.root \in S
    BY <1>1, PlanIs
  <2>2. \A n \in S : ToSet(p.kids[n]) \subseteq S
    BY <1>2, KidIs
  <2>3. S \in SUBSET p.nodes
    OBVIOUS
  <2> HIDE DEF S
  <2> QED
    BY <2>1, <2>2, <2>3, TreeInduction
<1> QED
  BY <1>3

-----------------------------------------------------------------------------
(***************************************************************************)
(* Walks over a tree in pre-order.                                         *)
(***************************************************************************)
LEMMA CountIs ==
  ASSUME NEW T, NEW n \in Nat, NEW f \in [1 .. n -> T],
         \A i, j \in 1 .. n : f[i] = f[j] => i = j,
         \A x \in T : \E i \in 1 .. n : f[i] = x
  PROVE  Cardinality(T) = n
<1>1. f \in Surjection(1 .. n, T) /\ f \in Injection(1 .. n, T)
  BY DEF Surjection, Injection, IsInjective
<1>2. IsFiniteSet(1 .. n) /\ Cardinality(1 .. n) = n
  BY FS_Interval
<1> QED
  BY <1>1, <1>2, FS_Surjection

LEMMA BeforeNodes ==
  ASSUME NEW p, IsPlan(p), NEW m \in p.nodes, NEW n \in p.nodes
  PROVE  /\ Before(p, m, n) => ~Before(p, n, m) /\ m # n /\ ~IsPrefix(Path(p, n), Path(p, m))
         /\ ToTheLeft(Path(p, m), Path(p, n)) => Before(p, m, n)
         /\ IsPrefix(Path(p, m), Path(p, n)) <=> Leads(Path(p, m), Path(p, n))
         /\ ToTheLeft(Path(p, m), Path(p, n)) <=> IsLeftOf(Path(p, m), Path(p, n))
<1> DEFINE a == Path(p, m)
           b == Path(p, n)
<1>1. a \in Paths /\ b \in Paths
  BY PathTypes
<1> HIDE DEF a, b
<1>2. PathBefore(a, b) => ~PathBefore(b, a) /\ a # b /\ ~Leads(b, a)
  BY <1>1, BeforeOnce
<1>3. /\ ToTheLeft(a, b) => PathBefore(a, b)
      /\ IsPrefix(a, b) <=> Leads(a, b)
      /\ IsPrefix(b, a) <=> Leads(b, a)
      /\ ToTheLeft(a, b) <=> IsLeftOf(a, b)
  BY <1>1, PrefixIs, BeforeIs
<1>4. m = n => a = b
  BY DEF a, b
<1> QED
  BY <1>2, <1>3, <1>4 DEF Before, a, b

\* A child comes behind its parent and all that comes before the parent.
LEMMA BeforeKid ==
  ASSUME NEW p, IsPlan(p), NEW n \in p.nodes, NEW c \in ToSet(p.kids[n])
  PROVE  /\ c \in p.nodes
         /\ Before(p, n, c)
         /\ \A m \in p.nodes : Before(p, m, n) => Before(p, m, c)
         /\ \A m \in p.nodes : ToTheLeft(Path(p, n), Path(p, m)) => ToTheLeft(Path(p, c), Path(p, m))
<1>1. c \in p.nodes
  BY KidIs
<1>2. /\ Leads(Path(p, n), Path(p, c)) /\ Len(Path(p, c)) = Len(Path(p, n)) + 1
      /\ Path(p, n) \in Paths /\ Path(p, c) \in Paths /\ Len(Path(p, n)) \in Nat
  BY <1>1, PathOfKid, PathTypes
<1>3. Before(p, n, c)
  <2>1. Len(Path(p, n)) < Len(Path(p, c))
    BY <1>2
  <2> QED
    BY <1>2, <2>1, BeforeIs DEF Before
<1>4. ASSUME NEW m \in p.nodes, Before(p, m, n) PROVE Before(p, m, c)
  BY <1>2, <1>4, PathTypes, BeforeExtends DEF Before
<1>5. ASSUME NEW m \in p.nodes, ToTheLeft(Path(p, n), Path(p, m))
      PROVE  ToTheLeft(Path(p, c), Path(p, m))
  <2>1. Path(p, m) \in Paths /\ Leads(Path(p, m), Path(p, m))
    BY PathTypes, LeadsSelf
  <2>2. IsLeftOf(Path(p, n), Path(p, m))
    BY <1>2, <1>5, <2>1, BeforeIs
  <2>3. IsLeftOf(Path(p, c), Path(p, m))
    BY <1>2, <2>1, <2>2, LeftExtends
  <2> QED
    BY <1>2, <2>1, <2>3, BeforeIs
<1> QED
  BY <1>1, <1>3, <1>4, <1>5

\* The first node.
LEMMA WalkBegins ==
  ASSUME NEW p, IsPlan(p), NEW v, v = <<p.root>>
  PROVE  Traversed(p, v, ToSet(p.kids[p.root]))
<1> DEFINE P == ToSet(p.kids[p.root])
<1>1. p.root \in p.nodes
  BY PlanIs
<1>2. DOMAIN v = {1} /\ v[1] = p.root /\ ToSet(v) = {p.root}
  BY DEF ToSet
<1>3. ASSUME NEW m \in p.nodes
      PROVE  m \in ToSet(v) \/ \E t \in P : IsPrefix(Path(p, t), Path(p, m))
  <2>1. Leads(Path(p, p.root), Path(p, m))
    BY PathOfRoot
  <2>2. m = p.root \/ \E t \in P : Leads(Path(p, t), Path(p, m))
    BY <1>1, <2>1, BelowKid
  <2> QED
    BY <1>1, <1>2, <2>2, KidIs, BeforeNodes
<1>4. \A t \in P : Before(p, p.root, t)
  BY <1>1, BeforeKid
<1>5. \A m \in p.nodes : ~Before(p, m, p.root)
  <2> SUFFICES ASSUME NEW m \in p.nodes PROVE ~Before(p, m, p.root)
    OBVIOUS
  <2>1. Leads(Path(p, p.root), Path(p, m))
    BY PathOfRoot
  <2> QED
    BY <1>1, <2>1, BeforeNodes
<1>6. \A i, j \in DOMAIN v : ~(i < j)
  BY <1>2
<1> HIDE DEF P
<1>7. Traversed(p, v, P)
  BY <1>2, <1>3, <1>4, <1>5, <1>6 DEF Traversed
<1> QED
  BY <1>7 DEF P

\* One node more, one that stands to the left of all others that are pending.
LEMMA WalkGoesOn ==
  ASSUME NEW p, IsPlan(p), NEW v \in Seq(p.nodes), NEW P \in SUBSET p.nodes, NEW t \in P,
         Traversed(p, v, P),
         \A u \in P \ {t} : ToTheLeft(Path(p, t), Path(p, u))
  PROVE  Traversed(p, Append(v, t), (P \ {t}) \cup ToSet(p.kids[t]))
<1> DEFINE w == Append(v, t)
           Q == (P \ {t}) \cup ToSet(p.kids[t])
           n == Len(v)
<1>1. t \in p.nodes /\ Q \subseteq p.nodes
  BY KidIs
<1>2. /\ n \in Nat /\ DOMAIN v = 1 .. n /\ DOMAIN w = 1 .. n + 1
      /\ \A i \in 1 .. n : w[i] = v[i] /\ v[i] \in p.nodes
      /\ w[n + 1] = t
      /\ ToSet(w) = ToSet(v) \cup {t}
  <2>1. w \in Seq(p.nodes) /\ Len(w) = n + 1 /\ (\A i \in 1 .. n : w[i] = v[i]) /\ w[n + 1] = t
    BY <1>1, AppendProperties
  <2>2. ToSet(w) = ToSet(v) \cup {t}
    BY <1>1, AppendSet
  <2>3. n \in Nat /\ DOMAIN v = 1 .. n /\ \A i \in 1 .. n : v[i] \in p.nodes
    BY ElementOfSeq, LenProperties
  <2>4. DOMAIN w = 1 .. n + 1
    <3> HIDE DEF w
    <3> QED
      BY <2>1, LenProperties
  <2> HIDE DEF w
  <2> QED
    BY <2>1, <2>2, <2>3, <2>4
<1>3. ASSUME NEW m \in p.nodes
      PROVE  m \in ToSet(w) \/ \E u \in Q : IsPrefix(Path(p, u), Path(p, m))
  <2>1. CASE m \in ToSet(v)
    BY <2>1, <1>2
  <2>2. CASE m \notin ToSet(v)
    <3>1. PICK u \in P : IsPrefix(Path(p, u), Path(p, m))
      BY <2>2 DEF Traversed
    <3>2. CASE u # t
      BY <3>1, <3>2
    <3>3. CASE u = t
      <4>1. Leads(Path(p, t), Path(p, m))
        BY <3>1, <3>3, <1>1, BeforeNodes
      <4>2. m = t \/ \E c \in ToSet(p.kids[t]) : Leads(Path(p, c), Path(p, m))
        BY <4>1, <1>1, BelowKid
      <4>3. \A c \in ToSet(p.kids[t]) : Leads(Path(p, c), Path(p, m)) => IsPrefix(Path(p, c), Path(p, m))
        BY <1>1, KidIs, BeforeNodes
      <4> HIDE DEF w
      <4> QED
        BY <1>2, <4>2, <4>3
    <3> QED
      BY <3>2, <3>3
  <2> QED
    BY <2>1, <2>2
<1>4. \A i \in 1 .. n : Before(p, v[i], t)
  BY <1>2 DEF Traversed
<1>5. ASSUME NEW i \in DOMAIN w, NEW u \in Q PROVE Before(p, w[i], u)
  <2>1. CASE i \in 1 .. n
    <3>1. w[i] = v[i] /\ v[i] \in p.nodes
      BY <1>2, <2>1
    <3>2. CASE u \in P
      BY <1>2, <2>1, <3>1, <3>2 DEF Traversed
    <3>3. CASE u \in ToSet(p.kids[t])
      BY <1>1, <1>4, <2>1, <3>1, <3>3, BeforeKid
    <3> QED
      BY <3>2, <3>3
  <2>2. CASE i = n + 1
    <3>1. w[i] = t
      BY <1>2, <2>2
    <3>2. CASE u \in P \ {t}
      BY <1>1, <3>1, <3>2, BeforeNodes
    <3>3. CASE u \in ToSet(p.kids[t])
      BY <1>1, <3>1, <3>3, BeforeKid
    <3> QED
      BY <3>2, <3>3
  <2> HIDE DEF w, n
  <2> QED
    BY <1>2, <2>1, <2>2
<1>6. ASSUME NEW i \in DOMAIN w, NEW j \in DOMAIN w, i < j PROVE Before(p, w[i], w[j])
  <2> HIDE DEF w, n
  <2>1. i \in 1 .. n /\ (j \in 1 .. n \/ j = n + 1)
    BY <1>2, <1>6
  <2>2. CASE j \in 1 .. n
    BY <1>2, <1>6, <2>1, <2>2 DEF Traversed
  <2>3. CASE j = n + 1
    BY <1>2, <1>4, <2>1, <2>3
  <2> QED
    BY <2>1, <2>2, <2>3
<1>7. ASSUME NEW i \in DOMAIN w, NEW m \in p.nodes, Before(p, m, w[i])
      PROVE  \E j \in DOMAIN w : j < i /\ w[j] = m
  <2>1. CASE i \in 1 .. n
    <3>1. Before(p, m, v[i])
      BY <1>2, <1>7, <2>1
    <3>2. PICK j \in DOMAIN v : j < i /\ v[j] = m
      BY <1>2, <2>1, <3>1 DEF Traversed
    <3> HIDE DEF w, n
    <3> QED
      BY <1>2, <3>2
  <2>2. CASE i = n + 1
    <3>1. Before(p, m, t)
      BY <1>2, <1>7, <2>2
    <3>2. m \in ToSet(v)
      <4> SUFFICES ASSUME m \notin ToSet(v) PROVE FALSE
        OBVIOUS
      <4>1. PICK u \in P : IsPrefix(Path(p, u), Path(p, m))
        BY DEF Traversed
      <4>2. u # t
        BY <1>1, <3>1, <4>1, BeforeNodes
      <4>3. u \in p.nodes /\ IsLeftOf(Path(p, t), Path(p, u)) /\ Leads(Path(p, u), Path(p, m))
        BY <1>1, <4>1, <4>2, BeforeNodes
      <4>4. Path(p, t) \in Paths /\ Path(p, u) \in Paths /\ Path(p, m) \in Paths
        BY <1>1, <4>3, PathTypes
      <4>5. IsLeftOf(Path(p, t), Path(p, m))
        BY <4>3, <4>4, LeadsSelf, LeftExtends
      <4> QED
        BY <1>1, <3>1, <4>5, BeforeNodes
    <3>3. PICK j \in DOMAIN v : v[j] = m
      BY <3>2 DEF ToSet
    <3> HIDE DEF w, n
    <3> QED
      BY <1>2, <2>2, <3>3
  <2> HIDE DEF w, n
  <2> QED
    BY <1>2, <2>1, <2>2
<1> HIDE DEF w, Q
<1>8. Traversed(p, w, Q)
  BY <1>3, <1>5, <1>6, <1>7 DEF Traversed
<1> QED
  BY <1>8 DEF w, Q

\* As many nodes come before the i-th node of a walk as it has passed.
LEMMA WalkCounts ==
  ASSUME NEW p, IsPlan(p), NEW v \in Seq(p.nodes), NEW P, Traversed(p, v, P)
  PROVE  /\ \A i \in 1 .. Len(v) : Cardinality({m \in p.nodes : Before(p, m, v[i])}) = i - 1
         /\ \A i, j \in 1 .. Len(v) : v[i] = v[j] => i = j
         /\ P = {} => Cardinality(p.nodes) = Len(v)
<1> DEFINE n == Len(v)
<1>1. n \in Nat /\ DOMAIN v = 1 .. n /\ \A i \in 1 .. n : v[i] \in p.nodes
  BY ElementOfSeq, LenProperties
<1>2. ASSUME NEW i \in 1 .. n, NEW j \in 1 .. n, v[i] = v[j] PROVE i = j
  <2>1. ~(i < j)
    BY <1>1, <1>2, BeforeNodes DEF Traversed
  <2>2. ~(j < i)
    BY <1>1, <1>2, BeforeNodes DEF Traversed
  <2> HIDE DEF n
  <2> QED
    BY <1>1, <2>1, <2>2
<1>3. ASSUME NEW i \in 1 .. n PROVE Cardinality({m \in p.nodes : Before(p, m, v[i])}) = i - 1
  <2> DEFINE T == {m \in p.nodes : Before(p, m, v[i])}
             f == [j \in 1 .. i - 1 |-> v[j]]
  <2>1. i - 1 \in Nat /\ \A j \in 1 .. i - 1 : j \in 1 .. n /\ j < i
    <3> HIDE DEF n
    <3> QED
      BY <1>1
  <2>2. f \in [1 .. i - 1 -> T]
    <3>1. \A j \in 1 .. i - 1 : v[j] \in T
      BY <1>1, <2>1 DEF Traversed
    <3> HIDE DEF T
    <3> QED
      BY <3>1
  <2>3. \A j, h \in 1 .. i - 1 : f[j] = f[h] => j = h
    BY <1>2, <2>1
  <2>4. \A x \in T : \E j \in 1 .. i - 1 : f[j] = x
    <3> SUFFICES ASSUME NEW x \in T PROVE \E j \in 1 .. i - 1 : v[j] = x
      OBVIOUS
    <3>1. PICK j \in DOMAIN v : j < i /\ v[j] = x
      BY <1>1 DEF Traversed
    <3>2. j \in 1 .. i - 1
      <4> HIDE DEF n
      <4> QED
        BY <1>1, <3>1
    <3> QED
      BY <3>1, <3>2
  <2> HIDE DEF T, f
  <2>5. Cardinality(T) = i - 1
    BY <2>1, <2>2, <2>3, <2>4, CountIs
  <2> QED
    BY <2>5 DEF T
<1>4. ASSUME P = {} PROVE Cardinality(p.nodes) = n
  <2>1. \A m \in p.nodes : m \in ToSet(v)
    BY <1>4 DEF Traversed
  <2>2. \A m \in p.nodes : \E i \in 1 .. n : v[i] = m
    BY <1>1, <2>1 DEF ToSet
  <2>3. v \in [1 .. n -> p.nodes]
    <3>1. v = [i \in 1 .. n |-> v[i]]
      BY FunctionOfSeq
    <3> HIDE DEF n
    <3> QED
      BY <1>1, <3>1
  <2> HIDE DEF n
  <2> QED
    BY <1>1, <1>2, <2>2, <2>3, CountIs
<1> QED
  BY <1>2, <1>3, <1>4

-----------------------------------------------------------------------------
(***************************************************************************)
(* Plans, and what of the state the conjuncts of PlanInv depend on.        *)
(***************************************************************************)
LEMMA PlanFacts ==
  ASSUME NEW p \in Plans
  PROVE  /\ p.root \in p.nodes
         /\ \A n \in p.nodes : p.kids[n] \in Seq(p.nodes) /\ SpillKb(p, n) \in Nat
<1>1. IsPlan(p) /\ \A n \in p.nodes : SpillKb(p, n) \in Nat
  BY PlanAssumption
<1>2. \A n \in p.nodes : p.kids[n] \in Seq(p.nodes \ {p.root})
  BY <1>1 DEF IsPlan
<1> QED
  BY <1>1, <1>2 DEF IsPlan

\* The parameters of the check that suggests work_mem.
LEMMA WorkMemParams ==
  ASSUME Shaped, pos <= Len(order), k <= Len(checks.checks), Check = "DiskSpillSortCheck",
         plan \in Plans
  PROVE  /\ Params.min_work_mem_mb \in Nat \ {0}
         /\ Params.headroom_ratio[1] \in Nat /\ Params.headroom_ratio[2] \in Nat \ {0}
         /\ Node \in plan.nodes /\ SpillKb(plan, Node) \in Nat
         /\ Params = checks.params["DiskSpillSortCheck"]
<1>1. k \in Nat \ {0} /\ pos \in Nat \ {0} /\ order \in Seq(plan.nodes)
  BY DEF Shaped, TypeOK
<1>2. checks # NoChecks
  BY <1>1 DEF NoChecks, Shaped
<1>3. PICK c \in Configs : /\ checks = [checks |-> c.checks, params |-> c.params]
                           /\ ToSet(c.checks) \subseteq DOMAIN c.params
  BY <1>2 DEF Shaped
<1>4. /\ c.checks \in Seq(CheckNames)
      /\ "DiskSpillSortCheck" \in DOMAIN c.params =>
            /\ c.params["DiskSpillSortCheck"].min_work_mem_mb \in Nat \ {0}
            /\ c.params["DiskSpillSortCheck"].headroom_ratio[1] \in Nat
            /\ c.params["DiskSpillSortCheck"].headroom_ratio[2] \in Nat \ {0}
  BY PlanAssumption
<1>5. checks.checks = c.checks /\ checks.params = c.params
  BY <1>3
<1>6. Check \in ToSet(c.checks)
  <2>1. k \in 1 .. Len(c.checks)
    BY <1>1, <1>4, <1>5
  <2> QED
    BY <2>1, <1>4, <1>5 DEF Check, ToSet
<1>7. Node \in plan.nodes
  BY <1>1 DEF Node
<1> QED
  BY <1>3, <1>4, <1>5, <1>6, <1>7, PlanFacts DEF Params

\* What has been judged stays as it is.
LEMMA JudgedAlike ==
  ASSUME ByCache, ByChecks, WorkMemFits, UNCHANGED <<plan, checks, order, pos, k, cache, issues>>,
         seen \subseteq seen'
  PROVE  ByCache' /\ ByChecks' /\ WorkMemFits'
  BY DEF ByCache, ByChecks, WorkMemFits, Done, Reported, Columns

\* An issue more.
LEMMA IssueAdded ==
  ASSUME Shaped, NEW e, issues' = Append(issues, e), e.node \in plan.nodes, e.target \in Nat,
         plan' = plan
  PROVE  /\ IsSeq(issues')
         /\ Len(issues') = Len(issues) + 1 /\ Len(issues) \in Nat
         /\ DOMAIN issues' = 1 .. Len(issues) + 1 /\ DOMAIN issues = 1 .. Len(issues)
         /\ \A i \in DOMAIN issues : issues'[i] = issues[i]
         /\ issues'[Len(issues) + 1] = e
         /\ \A i \in DOMAIN issues' :
              issues'[i].node \in plan'.nodes /\ issues'[i].target \in Nat
<1>1. IsSeq(issues) /\ \A i \in DOMAIN issues : issues[i].node \in plan.nodes /\ issues[i].target \in Nat
  BY DEF Shaped, TypeOK
<1>2. /\ IsSeq(issues') /\ Len(issues') = Len(issues) + 1
      /\ \A i \in 1 .. Len(issues) : issues'[i] = issues[i]
      /\ issues'[Len(issues) + 1] = e
  BY <1>1, AppendIs
<1>3. DOMAIN issues = 1 .. Len(issues) /\ Len(issues) \in Nat /\ DOMAIN issues' = 1 .. Len(issues')
  BY <1>1, <1>2, IsSeqDomain
<1> QED
  BY <1>1, <1>2, <1>3

\* A check more has been applied.
LEMMA NextDone ==
  ASSUME TypeOK, pos <= Len(order), k <= Len(checks.checks), checks.checks \in Seq(CheckNames),
         NextCheck, UNCHANGED <<checks, order>>
  PROVE  /\ pos' \in 1 .. Len(order) + 1 /\ k' \in Nat \ {0}
         /\ \A i \in DOMAIN order, c \in DOMAIN checks.checks :
              Done(i, c)' => Done(i, c) \/ (i = pos /\ c = k)
<1>1. /\ pos \in 1 .. Len(order) + 1 /\ k \in Nat \ {0} /\ Len(order) \in Nat
      /\ DOMAIN order = 1 .. Len(order)
  BY DEF TypeOK
<1>2. DOMAIN checks.checks = 1 .. Len(checks.checks) /\ Len(checks.checks) \in Nat
  OBVIOUS
<1>3. CASE k < Len(checks.checks)
  BY <1>1, <1>2, <1>3 DEF NextCheck, Done
<1>4. CASE ~(k < Len(checks.checks))
  BY <1>1, <1>2, <1>4 DEF NextCheck, Done
<1> QED
  BY <1>3, <1>4

LEMMA ChecksAre ==
  ASSUME Shaped
  PROVE  checks.checks \in Seq(CheckNames)
<1>1. CASE checks = NoChecks
  BY <1>1 DEF NoChecks
<1>2. CASE checks # NoChecks
  BY <1>2, PlanAssumption DEF Shaped
<1> QED
  BY <1>1, <1>2

-----------------------------------------------------------------------------
(***************************************************************************)
(* The steps that judge nothing.                                           *)
(***************************************************************************)
LEMMA InitHolds ==
  ASSUME Init
  PROVE  PlanInv
<1>1. IsSeq(<<>>)
  BY DEF IsSeq
<1>2. TypeOK
  BY PlanAssumption DEF Init, TypeOK, Tools, NoPlan
<1>3. Shaped
  BY <1>1, <1>2 DEF Init, Shaped
<1>4. Phases /\ ByCache /\ ByChecks /\ WorkMemFits
  BY DEF Init, Phases, ByCache, ByChecks, WorkMemFits
<1> QED
  BY <1>3, <1>4 DEF PlanInv

LEMMA AskHolds ==
  ASSUME PlanInv, Ask
  PROVE  PlanInv'
<1>1. IsSeq(<<>>)
  BY DEF IsSeq
<1>2. TypeOK'
  BY PlanAssumption DEF PlanInv, Shaped, TypeOK, Ask, Clear, Tools, NoPlan
<1>3. Shaped'
  BY <1>1, <1>2 DEF Ask, Clear, Shaped
<1>4. Phases' /\ ByCache' /\ ByChecks' /\ WorkMemFits'
  BY DEF Ask, Clear, Phases, ByCache, ByChecks, WorkMemFits, Fresh
<1> QED
  BY <1>3, <1>4 DEF PlanInv

\* An error, or nothing to explain.
LEMMA EndHolds ==
  ASSUME PlanInv, Reject \/ Fails \/ ReadNothing \/ LoadRejects \/ FetchFails \/ EmitBreaks
  PROVE  PlanInv'
<1>1. PICK a \in {"rejected", "failed", "nothing", "crashed"} : End(a)
  BY DEF Reject, Fails, ReadNothing, LoadRejects, FetchFails, EmitBreaks
<1>2. Shaped'
  BY <1>1 DEF PlanInv, Shaped, TypeOK, End, Frames, outside, judging, serving
<1>3. Phases'
  BY <1>1 DEF PlanInv, Phases, End
<1>4. ByCache' /\ ByChecks' /\ WorkMemFits'
  BY <1>1, JudgedAlike DEF PlanInv, End, outside, judging
<1> QED
  BY <1>2, <1>3, <1>4 DEF PlanInv

LEMMA AnswerHolds ==
  ASSUME PlanInv, Answer
  PROVE  PlanInv'
<1>1. Shaped'
  BY DEF PlanInv, Shaped, TypeOK, Answer, End, Frames, outside, judging, serving
<1>2. Phases'
  BY DEF PlanInv, Phases, Answer, End, Finished, judging
<1>3. ByCache' /\ ByChecks' /\ WorkMemFits'
  BY JudgedAlike DEF PlanInv, Answer, End, outside, judging
<1> QED
  BY <1>1, <1>2, <1>3 DEF PlanInv

LEMMA ExplainHolds ==
  ASSUME PlanInv, Explain
  PROVE  PlanInv'
<1>1. /\ checks = NoChecks /\ Fresh /\ frames = <<>> /\ plan' \in Plans /\ reply = "none"
      /\ pc' \in {"load", "policy"}
  BY DEF PlanInv, Phases, Explain
<1>2. TypeOK'
  BY <1>1 DEF PlanInv, Shaped, TypeOK, Fresh, Explain, outside, judging, serving
<1>3. Shaped'
  BY <1>1, <1>2 DEF PlanInv, Shaped, Explain, judging, serving
<1>4. Phases'
  BY <1>1 DEF Phases, Explain, Finished, Fresh, NoChecks, judging, serving
<1>5. ByCache' /\ ByChecks' /\ WorkMemFits'
  BY <1>1 DEF PlanInv, ByCache, ByChecks, WorkMemFits, Fresh, Explain, outside, judging
<1> QED
  BY <1>3, <1>4, <1>5 DEF PlanInv

LEMMA PolicyHolds ==
  ASSUME PlanInv, Policy
  PROVE  PlanInv'
<1>1. Shaped'
  BY DEF PlanInv, Shaped, TypeOK, Policy, Frames, outside, judging
<1>2. Phases'
  BY DEF PlanInv, Phases, Policy, Finished, judging
<1>3. ByCache' /\ ByChecks' /\ WorkMemFits'
  BY JudgedAlike DEF PlanInv, Policy, outside, judging
<1> QED
  BY <1>1, <1>2, <1>3 DEF PlanInv

\* What others do during a call.
LEMMA ChangeHolds ==
  ASSUME PlanInv, ChangeConfig \/ ChangeIndexes
  PROVE  PlanInv'
<1>1. UNCHANGED <<pc, tool, plan, judging, serving, reply>> /\ seen \subseteq seen'
  BY DEF ChangeConfig, ChangeIndexes
<1>2. TypeOK'
  <2>1. CASE ChangeConfig
    BY <2>1, PlanAssumption DEF PlanInv, Shaped, TypeOK, ChangeConfig, judging, serving
  <2>2. CASE ChangeIndexes
    BY <2>2, PlanAssumption DEF PlanInv, Shaped, TypeOK, ChangeIndexes, judging, serving
  <2> QED
    BY <2>1, <2>2
<1>3. Shaped'
  BY <1>1, <1>2 DEF PlanInv, Shaped, Frames, judging, serving
<1>4. Phases'
  BY <1>1 DEF PlanInv, Phases, Fresh, Walking, Finished, Doubling, Check, Params, Node,
              judging, serving
<1>5. ByCache' /\ ByChecks' /\ WorkMemFits'
  BY <1>1, JudgedAlike DEF PlanInv, judging
<1> QED
  BY <1>3, <1>4, <1>5 DEF PlanInv

LEMMA IdleHolds ==
  ASSUME PlanInv, UNCHANGED vars
  PROVE  PlanInv'
<1>1. Shaped'
  BY DEF PlanInv, Shaped, TypeOK, Frames, vars, outside, judging, serving
<1>2. Phases'
  BY DEF PlanInv, Phases, Fresh, Walking, Finished, Doubling, Check, Params, Node, vars,
         judging, serving
<1>3. ByCache' /\ ByChecks' /\ WorkMemFits'
  BY JudgedAlike DEF PlanInv, vars, outside, judging
<1> QED
  BY <1>1, <1>2, <1>3 DEF PlanInv

-----------------------------------------------------------------------------
(***************************************************************************)
(* The walk.                                                               *)
(***************************************************************************)
\* Before the first check there is nothing to be said.
LEMMA NoneDone ==
  ASSUME Shaped', pos' = 1, k' = 1, cache' = NoNode, issues' = <<>>
  PROVE  ByCache' /\ ByChecks' /\ WorkMemFits'
<1>1. checks'.checks \in Seq(CheckNames)
  <2>1. CASE checks' = NoChecks
    BY <2>1 DEF NoChecks
  <2>2. CASE checks' # NoChecks
    BY <2>2, PlanAssumption DEF Shaped
  <2> QED
    BY <2>1, <2>2
<1>2. DOMAIN checks'.checks = 1 .. Len(checks'.checks)
  BY <1>1
<1>3. order' \in Seq(plan'.nodes)
  BY DEF Shaped, TypeOK
<1>4. DOMAIN order' = 1 .. Len(order')
  BY <1>3
<1>5. \A i \in DOMAIN order', c \in DOMAIN checks'.checks : ~Done(i, c)'
  BY <1>2, <1>4 DEF Done
<1> QED
  BY <1>5 DEF ByCache, ByChecks, WorkMemFits

LEMMA LoadHolds ==
  ASSUME PlanInv, Load
  PROVE  PlanInv'
<1>1. /\ plan \in Plans /\ Fresh /\ frames = <<>> /\ reply = "none" /\ plan' = plan
      /\ pc' = "walk"
  BY DEF PlanInv, Phases, Load
<1>2. /\ plan.root \in plan.nodes /\ plan.kids[plan.root] \in Seq(plan.nodes)
  BY <1>1, PlanFacts
<1>3. /\ stack' \in Seq(plan.nodes) /\ ToSet(stack') = ToSet(plan.kids[plan.root])
  BY <1>2, ReverseIs DEF Load
<1>4. /\ order' \in Seq(plan.nodes) /\ ToSet(order') = {plan.root} /\ Len(order') = 1
  <2>1. order' = <<plan.root>>
    BY DEF Load
  <2> QED
    BY <1>2, <2>1, OneSet
<1>5. \E c \in Configs :
        checks' = [checks |-> c.checks, params |-> c.params] /\ ToSet(c.checks) \subseteq DOMAIN c.params
  <2>1. /\ checks' = [checks |-> config.checks, params |-> config.params] /\ config \in Configs
        /\ ToSet(config.checks) \subseteq DOMAIN config.params
    BY DEF Load, PlanInv, Shaped, TypeOK
  <2>2. config \in Configs
    BY <2>1
  <2> WITNESS config \in Configs
  <2> QED
    BY <2>1
<1>6. TypeOK'
  BY <1>1, <1>3, <1>4 DEF PlanInv, Shaped, TypeOK, Fresh, Load, outside, serving
<1>7. Shaped'
  BY <1>1, <1>5, <1>6 DEF PlanInv, Shaped, Load, serving
<1>8. Phases'
  BY <1>1, <1>3, <1>4, <1>5 DEF Phases, Load, Walking, Fresh, serving
<1>9. ByCache' /\ ByChecks' /\ WorkMemFits'
  BY <1>1, <1>4, <1>7, NoneDone DEF Fresh, Load
<1> QED
  BY <1>7, <1>8, <1>9 DEF PlanInv

LEMMA NextNodeHolds ==
  ASSUME PlanInv, NextNode
  PROVE  PlanInv'
<1>1. /\ plan \in Plans /\ Walking /\ pos = 1 /\ k = 1 /\ cache = NoNode /\ issues = <<>>
      /\ frames = <<>> /\ reply = "none" /\ pc' = "walk" /\ stack # <<>>
      /\ UNCHANGED <<outside, tool, plan, checks, pos, k, cache, target, issues, serving, reply>>
  BY DEF PlanInv, Phases, NextNode
<1>2. stack \in Seq(plan.nodes) /\ order \in Seq(plan.nodes)
  BY DEF PlanInv, Shaped, TypeOK
<1> DEFINE n == Last(stack)
           kids == plan.kids[n]
<1>3. /\ n \in plan.nodes /\ Front(stack) \in Seq(plan.nodes)
      /\ ToSet(stack) = ToSet(Front(stack)) \cup {n}
  BY <1>1, <1>2, LastIs
<1>4. kids \in Seq(plan.nodes)
  BY <1>1, <1>3, PlanFacts
<1>5. stack' \in Seq(plan.nodes) /\ ToSet(stack') = ToSet(Front(stack)) \cup ToSet(kids)
  <2>1. Reverse(kids) \in Seq(plan.nodes) /\ ToSet(Reverse(kids)) = ToSet(kids)
    BY <1>4, ReverseIs
  <2>2. stack' = Front(stack) \o Reverse(kids)
    BY DEF NextNode
  <2>3. \A s, t \in Seq(plan.nodes) :
          s \o t \in Seq(plan.nodes) /\ ToSet(s \o t) = ToSet(s) \cup ToSet(t)
    BY ConcatSet
  <2> QED
    BY <1>3, <2>1, <2>2, <2>3
<1>6. /\ order' \in Seq(plan.nodes) /\ ToSet(order') = ToSet(order) \cup {n}
      /\ Len(order') = Len(order) + 1
  BY <1>2, <1>3, AppendSet DEF NextNode
<1>7. Walking'
  <2>1. plan.root \in ToSet(order')
    BY <1>1, <1>6 DEF Walking
  <2>2. ASSUME NEW m \in ToSet(order')
        PROVE  ToSet(plan.kids[m]) \subseteq ToSet(order') \cup ToSet(stack')
    <3>1. CASE m = n
      BY <3>1, <1>5
    <3>2. CASE m \in ToSet(order)
      BY <3>2, <1>1, <1>3, <1>5, <1>6 DEF Walking
    <3> QED
      BY <2>2, <3>1, <3>2, <1>6
  <2> QED
    BY <1>1, <2>1, <2>2 DEF Walking
<1>8. TypeOK'
  BY <1>1, <1>2, <1>5, <1>6 DEF PlanInv, Shaped, TypeOK, outside, serving
<1>9. Shaped'
  BY <1>1, <1>8 DEF PlanInv, Shaped, serving
<1>10. Phases'
  BY <1>1, <1>7 DEF Phases, serving
<1>11. ByCache' /\ ByChecks' /\ WorkMemFits'
  BY <1>1, <1>9, NoneDone
<1> QED
  BY <1>9, <1>10, <1>11 DEF PlanInv

\* When the stack is empty every node has been yielded: none of the others
\* could have its parent among them.
LEMMA AllYielded ==
  ASSUME NEW p \in Plans, NEW S \in SUBSET p.nodes, p.root \in S,
         \A n \in S : ToSet(p.kids[n]) \subseteq S
  PROVE  S = p.nodes
<1> SUFFICES ASSUME S # p.nodes PROVE FALSE
  OBVIOUS
<1> DEFINE R == p.nodes \ S
<1>1. R \in SUBSET (p.nodes \ {p.root}) /\ R # {}
  OBVIOUS
<1>2. IsPlan(p)
  BY PlanAssumption
<1>3. PICK n \in R : \A q \in R : n \notin ToSet(p.kids[q])
  BY <1>1, <1>2 DEF IsPlan
<1>4. n \in p.nodes \ {p.root}
  BY <1>1
<1>5. PICK q \in p.nodes : n \in ToSet(p.kids[q])
  BY <1>2, <1>4 DEF IsPlan
<1>6. q \in S
  BY <1>3, <1>5
<1> QED
  BY <1>3, <1>5, <1>6

LEMMA WalkedHolds ==
  ASSUME PlanInv, Walked
  PROVE  PlanInv'
<1>1. /\ plan \in Plans /\ Walking /\ stack = <<>> /\ pc' = "check"
      /\ frames = <<>> /\ reply = "none"
      /\ UNCHANGED <<outside, tool, plan, judging, serving, reply>>
  BY DEF PlanInv, Phases, Walked
<1>2. ToSet(order) = plan.nodes
  <2>1. order \in Seq(plan.nodes) /\ ToSet(stack) = {}
    BY <1>1 DEF PlanInv, Shaped, TypeOK, ToSet
  <2>2. ToSet(order) \in SUBSET plan.nodes
    BY <2>1 DEF ToSet
  <2> QED
    BY <1>1, <2>1, <2>2, AllYielded DEF Walking
<1>3. Shaped'
  BY <1>1 DEF PlanInv, Shaped, TypeOK, Frames, outside, judging, serving
<1>4. Phases'
  BY <1>1, <1>2 DEF Phases, judging, serving
<1>5. ByCache' /\ ByChecks' /\ WorkMemFits'
  BY <1>1, JudgedAlike DEF PlanInv, outside, judging
<1> QED
  BY <1>3, <1>4, <1>5 DEF PlanInv

-----------------------------------------------------------------------------
(***************************************************************************)
(* The loops over nodes and checks.                                        *)
(***************************************************************************)
\* The check at hand has found nothing.
LEMMA NothingFound ==
  ASSUME PlanInv, pos <= Len(order), k <= Len(checks.checks), NextCheck, issues' = issues,
         UNCHANGED <<plan, checks, order, cache, seen>>,
         IF Check = "NonSargableCheck" THEN cache # NoNode /\ Columns(Node) = {}
         ELSE ~Fires(Check, plan, Node, Params)
  PROVE  /\ pos' \in 1 .. Len(order) + 1 /\ k' \in Nat \ {0}
         /\ ByCache' /\ ByChecks' /\ WorkMemFits'
<1> DEFINE D(i, c) == i < pos' \/ (i = pos' /\ c < k')
           C(n) == NonSargable(plan, n, checks.params["NonSargableCheck"], cache)
           R(n) == \E j \in DOMAIN issues' :
                     issues'[j].check = "NonSargableCheck" /\ issues'[j].node = n
<1>1. /\ pos' \in 1 .. Len(order) + 1 /\ k' \in Nat \ {0}
      /\ \A i \in DOMAIN order, c \in DOMAIN checks.checks :
           D(i, c) => Done(i, c) \/ (i = pos /\ c = k)
  BY NextDone, ChecksAre DEF PlanInv, Shaped, Done
<1>2. WorkMemFits'
  BY DEF PlanInv, WorkMemFits
<1>3. \A n : Columns(n) = C(n) /\ (Reported(n) => R(n))
  BY DEF Columns, Reported
<1>4. ASSUME NEW i \in DOMAIN order, NEW c \in DOMAIN checks.checks, D(i, c),
             checks.checks[c] = "NonSargableCheck"
      PROVE  cache # NoNode /\ (C(order[i]) # {} => R(order[i]))
  <2>1. CASE Done(i, c)
    BY <1>3, <1>4, <2>1 DEF PlanInv, ByCache
  <2>2. CASE i = pos /\ c = k
    BY <1>3, <1>4, <2>2 DEF Check, Node
  <2> QED
    BY <1>1, <1>4, <2>1, <2>2
<1>5. \A j \in DOMAIN issues : issues[j].check = "NonSargableCheck" =>
        cache # NoNode /\ issues[j].column \in C(issues[j].node)
  BY <1>3 DEF PlanInv, ByCache
<1>6. cache \in seen \cup {NoNode}
  BY DEF PlanInv, ByCache
<1>7. ASSUME NEW i \in DOMAIN order, NEW c \in DOMAIN checks.checks, D(i, c),
             checks.checks[c] # "NonSargableCheck",
             Fires(checks.checks[c], plan, order[i], checks.params[checks.checks[c]])
      PROVE  \E j \in DOMAIN issues :
               issues[j].check = checks.checks[c] /\ issues[j].node = order[i]
  <2>1. CASE Done(i, c)
    BY <1>7, <2>1 DEF PlanInv, ByChecks
  <2>2. CASE i = pos /\ c = k
    BY <1>7, <2>2 DEF Check, Node, Params
  <2> QED
    BY <1>1, <1>7, <2>1, <2>2
<1>8. ByChecks'
  BY <1>7 DEF ByChecks, Done
<1> HIDE DEF R
<1>9. ByCache'
  BY <1>4, <1>5, <1>6 DEF ByCache, Columns, Reported, Done, R
<1> QED
  BY <1>1, <1>2, <1>9, <1>8

\* The check at hand has found something.
LEMMA IssueFound ==
  ASSUME PlanInv, plan \in Plans, pos <= Len(order), k <= Len(checks.checks), NextCheck,
         NEW column, NEW mb \in Nat, issues' = Append(issues, Issue(column, mb)),
         UNCHANGED <<plan, checks, order, cache, seen>>,
         Check = "NonSargableCheck" => cache # NoNode /\ column \in Columns(Node),
         mb > 0 => IsFirst(mb, SpillKb(plan, Node), checks.params["DiskSpillSortCheck"])
  PROVE  /\ pos' \in 1 .. Len(order) + 1 /\ k' \in Nat \ {0}
         /\ IsSeq(issues')
         /\ \A i \in DOMAIN issues' :
              issues'[i].node \in plan'.nodes /\ issues'[i].target \in Nat
         /\ ByCache' /\ ByChecks' /\ WorkMemFits'
<1> DEFINE e == Issue(column, mb)
           D(i, c) == i < pos' \/ (i = pos' /\ c < k')
           C(n) == NonSargable(plan, n, checks.params["NonSargableCheck"], cache)
           R(n) == \E j \in DOMAIN issues' :
                     issues'[j].check = "NonSargableCheck" /\ issues'[j].node = n
<1>1. /\ pos' \in 1 .. Len(order) + 1 /\ k' \in Nat \ {0}
      /\ \A i \in DOMAIN order, c \in DOMAIN checks.checks :
           D(i, c) => Done(i, c) \/ (i = pos /\ c = k)
  BY NextDone, ChecksAre DEF PlanInv, Shaped, Done
<1>2. Node \in plan.nodes
  <2>1. order \in Seq(plan.nodes) /\ pos \in 1 .. Len(order) + 1
    BY DEF PlanInv, Shaped, TypeOK
  <2> QED
    BY <2>1 DEF Node
<1>3. e.check = Check /\ e.node = Node /\ e.column = column /\ e.target = mb
  BY DEF Issue
<1> HIDE DEF e
<1>4. /\ IsSeq(issues')
      /\ Len(issues) \in Nat
      /\ DOMAIN issues' = 1 .. Len(issues) + 1 /\ DOMAIN issues = 1 .. Len(issues)
      /\ \A i \in DOMAIN issues : issues'[i] = issues[i]
      /\ issues'[Len(issues) + 1] = e
      /\ \A i \in DOMAIN issues' :
           issues'[i].node \in plan'.nodes /\ issues'[i].target \in Nat
  <2>1. issues' = Append(issues, e) /\ e.node \in plan.nodes /\ e.target \in Nat
    BY <1>2, <1>3 DEF e
  <2> QED
    BY <2>1, IssueAdded DEF PlanInv
<1>5. \A i \in DOMAIN issues' : i \in DOMAIN issues \/ i = Len(issues) + 1
  BY <1>4
<1>6. WorkMemFits'
  <2> SUFFICES ASSUME NEW i \in DOMAIN issues', issues'[i].target > 0
               PROVE  IsFirst(issues'[i].target, SpillKb(plan, issues'[i].node),
                              checks.params["DiskSpillSortCheck"])
    BY DEF WorkMemFits
  <2>1. CASE i \in DOMAIN issues
    BY <2>1, <1>4 DEF PlanInv, WorkMemFits
  <2>2. CASE i = Len(issues) + 1
    BY <2>2, <1>3, <1>4
  <2> QED
    BY <2>1, <2>2, <1>5
<1>7. \A n : Columns(n) = C(n) /\ (Reported(n) => R(n))
  <2>1. ASSUME NEW n, Reported(n) PROVE R(n)
    <3>1. PICK j \in DOMAIN issues : issues[j].check = "NonSargableCheck" /\ issues[j].node = n
      BY <2>1 DEF Reported
    <3>2. j \in DOMAIN issues' /\ issues'[j] = issues[j]
      BY <1>4
    <3> QED
      BY <3>1, <3>2
  <2> QED
    BY <2>1 DEF Columns
<1>8. Check = "NonSargableCheck" => R(Node)
  <2>1. Len(issues) + 1 \in DOMAIN issues'
    BY <1>4
  <2> QED
    BY <1>3, <1>4, <2>1
<1> HIDE DEF R, C
<1>9. ASSUME NEW i \in DOMAIN order, NEW c \in DOMAIN checks.checks, D(i, c),
             checks.checks[c] = "NonSargableCheck"
      PROVE  cache # NoNode /\ (C(order[i]) # {} => R(order[i]))
  <2>1. CASE Done(i, c)
    BY <1>7, <1>9, <2>1 DEF PlanInv, ByCache
  <2>2. CASE i = pos /\ c = k
    BY <1>8, <1>9, <2>2 DEF Check, Node
  <2> QED
    BY <1>1, <1>9, <2>1, <2>2
<1>10. ASSUME NEW j \in DOMAIN issues', issues'[j].check = "NonSargableCheck"
       PROVE  cache # NoNode /\ issues'[j].column \in C(issues'[j].node)
  <2>1. CASE j \in DOMAIN issues
    BY <1>10, <2>1, <1>4, <1>7 DEF PlanInv, ByCache
  <2>2. CASE j = Len(issues) + 1
    BY <1>10, <2>2, <1>3, <1>4, <1>7
  <2> QED
    BY <2>1, <2>2, <1>5
<1>11. cache \in seen \cup {NoNode}
  BY DEF PlanInv, ByCache
<1>12. ASSUME NEW i \in DOMAIN order, NEW c \in DOMAIN checks.checks, D(i, c),
             checks.checks[c] # "NonSargableCheck",
             Fires(checks.checks[c], plan, order[i], checks.params[checks.checks[c]])
       PROVE  \E j \in DOMAIN issues' :
                issues'[j].check = checks.checks[c] /\ issues'[j].node = order[i]
  <2>1. CASE Done(i, c)
    <3>1. PICK j \in DOMAIN issues :
            issues[j].check = checks.checks[c] /\ issues[j].node = order[i]
      BY <1>12, <2>1 DEF PlanInv, ByChecks
    <3>2. j \in DOMAIN issues' /\ issues'[j] = issues[j]
      BY <1>4
    <3> QED
      BY <3>1, <3>2
  <2>2. CASE i = pos /\ c = k
    <3>1. Len(issues) + 1 \in DOMAIN issues'
      BY <1>4
    <3> QED
      BY <2>2, <3>1, <1>3, <1>4 DEF Check, Node
  <2> QED
    BY <1>1, <1>12, <2>1, <2>2
<1>13. ByChecks'
  BY <1>12 DEF ByChecks, Done
<1>14. ByCache'
  BY <1>9, <1>10, <1>11 DEF ByCache, Columns, Reported, Done, R, C
<1> QED
  BY <1>1, <1>4, <1>6, <1>14, <1>13

LEMMA JudgeHolds ==
  ASSUME PlanInv, Judge
  PROVE  PlanInv'
<1> DEFINE fires == Fires(Check, plan, Node, Params)
<1>1. /\ plan \in Plans /\ ToSet(order) = plan.nodes /\ frames = <<>> /\ reply = "none"
      /\ pc = "check" /\ pos <= Len(order) /\ k <= Len(checks.checks)
      /\ Check # "NonSargableCheck"
      /\ NextCheck
      /\ UNCHANGED <<outside, pc, tool, plan, checks, stack, order, cache, target, serving, reply>>
  BY DEF PlanInv, Phases, Judge, Checking
<1>2. \/ ~fires /\ issues' = issues
      \/ issues' = Append(issues, Issue(NoNode, 0))
  BY DEF Judge
<1>3. /\ pos' \in 1 .. Len(order) + 1 /\ k' \in Nat \ {0}
      /\ IsSeq(issues')
      /\ \A i \in DOMAIN issues' :
           issues'[i].node \in plan'.nodes /\ issues'[i].target \in Nat
      /\ ByCache' /\ ByChecks' /\ WorkMemFits'
  <2>1. CASE ~fires /\ issues' = issues
    <3>1. IsSeq(issues') /\ \A i \in DOMAIN issues' :
            issues'[i].node \in plan'.nodes /\ issues'[i].target \in Nat
      BY <1>1, <2>1 DEF PlanInv, Shaped, TypeOK
    <3> QED
      BY <1>1, <2>1, <3>1, NothingFound DEF outside
  <2>2. CASE issues' = Append(issues, Issue(NoNode, 0))
    BY <1>1, <2>2, IssueFound DEF outside
  <2> QED
    BY <1>2, <2>1, <2>2
<1>4. Shaped'
  BY <1>1, <1>3 DEF PlanInv, Shaped, TypeOK, Frames, outside, serving
<1>5. Phases'
  BY <1>1 DEF Phases, serving
<1> QED
  BY <1>3, <1>4, <1>5 DEF PlanInv

LEMMA JudgeFilterHolds ==
  ASSUME PlanInv, JudgeFilter
  PROVE  PlanInv'
<1>1. /\ plan \in Plans /\ ToSet(order) = plan.nodes /\ frames = <<>> /\ reply = "none"
      /\ pc = "check" /\ pos <= Len(order) /\ k <= Len(checks.checks)
      /\ Check = "NonSargableCheck" /\ cache # NoNode
      /\ NextCheck
      /\ UNCHANGED <<outside, pc, tool, plan, checks, stack, order, cache, target, serving, reply>>
  BY DEF PlanInv, Phases, JudgeFilter, Checking
<1>2. \/ Columns(Node) = {} /\ issues' = issues
      \/ \E c \in Columns(Node) : issues' = Append(issues, Issue(c, 0))
  BY <1>1 DEF JudgeFilter, Columns, Params
<1>3. /\ pos' \in 1 .. Len(order) + 1 /\ k' \in Nat \ {0}
      /\ IsSeq(issues')
      /\ \A i \in DOMAIN issues' :
           issues'[i].node \in plan'.nodes /\ issues'[i].target \in Nat
      /\ ByCache' /\ ByChecks' /\ WorkMemFits'
  <2>1. CASE Columns(Node) = {} /\ issues' = issues
    <3>1. IsSeq(issues') /\ \A i \in DOMAIN issues' :
            issues'[i].node \in plan'.nodes /\ issues'[i].target \in Nat
      BY <1>1, <2>1 DEF PlanInv, Shaped, TypeOK
    <3> QED
      BY <1>1, <2>1, <3>1, NothingFound DEF outside
  <2>2. CASE \E c \in Columns(Node) : issues' = Append(issues, Issue(c, 0))
    <3>1. PICK c \in Columns(Node) : issues' = Append(issues, Issue(c, 0))
      BY <2>2
    <3> QED
      BY <1>1, <3>1, IssueFound DEF outside
  <2> QED
    BY <1>2, <2>1, <2>2
<1>4. Shaped'
  BY <1>1, <1>3 DEF PlanInv, Shaped, TypeOK, Frames, outside, serving
<1>5. Phases'
  BY <1>1 DEF Phases, serving
<1> QED
  BY <1>3, <1>4, <1>5 DEF PlanInv

LEMMA FetchHolds ==
  ASSUME PlanInv, Fetch
  PROVE  PlanInv'
<1>1. /\ plan \in Plans /\ ToSet(order) = plan.nodes /\ frames = <<>> /\ reply = "none"
      /\ pc = "check" /\ cache = NoNode /\ cache' = catalog
      /\ UNCHANGED <<outside, pc, tool, plan, checks, stack, order, pos, k, target, issues, serving,
                     reply>>
  BY DEF PlanInv, Phases, Fetch, Checking
<1>2. catalog \in Catalogs /\ catalog \in seen
  BY DEF PlanInv, Shaped, TypeOK
<1>3. Shaped'
  BY <1>1, <1>2 DEF PlanInv, Shaped, TypeOK, Frames, outside, serving
<1>4. Phases'
  BY <1>1 DEF Phases, serving
<1>5. ByCache' /\ ByChecks' /\ WorkMemFits'
  BY <1>1, <1>2 DEF PlanInv, ByCache, ByChecks, WorkMemFits, Done, outside
<1> QED
  BY <1>3, <1>4, <1>5 DEF PlanInv

LEMMA JudgedHolds ==
  ASSUME PlanInv, Judged
  PROVE  PlanInv'
<1>1. /\ plan \in Plans /\ ToSet(order) = plan.nodes /\ frames = <<>> /\ reply = "none"
      /\ pos > Len(order) \/ checks.checks = <<>>
      /\ pc' = "policy"
      /\ UNCHANGED <<outside, tool, plan, judging, serving, reply>>
  BY DEF PlanInv, Phases, Judged
<1>2. Shaped'
  BY <1>1 DEF PlanInv, Shaped, TypeOK, Frames, outside, judging, serving
<1>3. Phases'
  BY <1>1 DEF Phases, Finished, judging, serving
<1>4. ByCache' /\ ByChecks' /\ WorkMemFits'
  BY <1>1, JudgedAlike DEF PlanInv, outside, judging
<1> QED
  BY <1>2, <1>3, <1>4 DEF PlanInv

-----------------------------------------------------------------------------
(***************************************************************************)
(* The loop for work_mem.                                                  *)
(***************************************************************************)
LEMMA SpilledHolds ==
  ASSUME PlanInv, Spilled
  PROVE  PlanInv'
<1>1. /\ plan \in Plans /\ ToSet(order) = plan.nodes /\ frames = <<>> /\ reply = "none"
      /\ pos <= Len(order) /\ k <= Len(checks.checks) /\ Check = "DiskSpillSortCheck"
      /\ target' = Params.min_work_mem_mb /\ pc' = "double"
      /\ UNCHANGED <<outside, tool, plan, checks, stack, order, pos, k, cache, issues, serving, reply>>
  BY DEF PlanInv, Phases, Spilled, Checking, Sized
<1>2. Params.min_work_mem_mb \in Nat \ {0}
  BY <1>1, WorkMemParams DEF PlanInv
<1>3. Shaped'
  BY <1>1, <1>2 DEF PlanInv, Shaped, TypeOK, Frames, outside, serving
<1>4. Check' = Check /\ Params' = Params /\ Node' = Node
  BY <1>1 DEF Check, Params, Node
<1>5. Doubling'
  BY <1>1, <1>2, <1>4 DEF Doubling
<1>6. Phases'
  BY <1>1, <1>5 DEF Phases, serving
<1>7. ByCache' /\ ByChecks' /\ WorkMemFits'
  BY <1>1, JudgedAlike DEF PlanInv, outside
<1> QED
  BY <1>3, <1>6, <1>7 DEF PlanInv

LEMMA DoubleHolds ==
  ASSUME PlanInv, Double
  PROVE  PlanInv'
<1>1. /\ plan \in Plans /\ ToSet(order) = plan.nodes /\ frames = <<>> /\ reply = "none"
      /\ Doubling /\ pc' = "double"
      /\ TooSmall(target, SpillKb(plan, Node), Params) /\ target' = target * 2
      /\ UNCHANGED <<outside, tool, plan, checks, stack, order, pos, k, cache, issues, serving, reply>>
  BY DEF PlanInv, Phases, Double
<1>2. target \in Nat
  BY DEF PlanInv, Shaped, TypeOK
<1>3. Shaped'
  BY <1>1, <1>2 DEF PlanInv, Shaped, TypeOK, Frames, outside, serving
<1>4. Check' = Check /\ Params' = Params /\ Node' = Node
  BY <1>1 DEF Check, Params, Node
<1>5. Doubling'
  <2>1. /\ Params.headroom_ratio[1] \in Nat /\ Params.headroom_ratio[2] \in Nat \ {0}
        /\ SpillKb(plan, Node) \in Nat
    BY <1>1, WorkMemParams DEF PlanInv, Doubling
  <2>2. ~Holds(target, SpillKb(plan, Node), Params)
    <3>1. target * 1024 * Params.headroom_ratio[2] \in Nat
      BY <1>2, <2>1
    <3>2. SpillKb(plan, Node) * Params.headroom_ratio[1] \in Nat
      BY <2>1
    <3> QED
      BY <1>1, <3>1, <3>2 DEF TooSmall, Holds
  <2>3. target' \div 2 = target /\ target' = 2 * (target' \div 2) /\ target' > 0
    BY <1>1, <1>2 DEF Doubling
  <2> QED
    BY <1>1, <1>4, <2>2, <2>3 DEF Doubling
<1>6. Phases'
  BY <1>1, <1>5 DEF Phases, serving
<1>7. ByCache' /\ ByChecks' /\ WorkMemFits'
  BY <1>1, JudgedAlike DEF PlanInv, outside
<1> QED
  BY <1>3, <1>6, <1>7 DEF PlanInv

LEMMA DoubledHolds ==
  ASSUME PlanInv, Doubled
  PROVE  PlanInv'
<1>1. /\ plan \in Plans /\ ToSet(order) = plan.nodes /\ frames = <<>> /\ reply = "none"
      /\ Doubling /\ pc' = "check" /\ target' = 0
      /\ ~TooSmall(target, SpillKb(plan, Node), Params)
      /\ issues' = Append(issues, Issue(NoNode, target))
      /\ NextCheck
      /\ UNCHANGED <<outside, tool, plan, checks, stack, order, cache, serving, reply>>
  BY DEF PlanInv, Phases, Doubled
<1>2. target \in Nat
  BY DEF PlanInv, Shaped, TypeOK
<1>3. /\ Params.headroom_ratio[1] \in Nat /\ Params.headroom_ratio[2] \in Nat \ {0}
      /\ SpillKb(plan, Node) \in Nat
      /\ Params = checks.params["DiskSpillSortCheck"]
  BY <1>1, WorkMemParams DEF PlanInv, Doubling
<1>4. Holds(target, SpillKb(plan, Node), Params)
  <2>1. target * 1024 * Params.headroom_ratio[2] \in Nat
    BY <1>2, <1>3
  <2>2. SpillKb(plan, Node) * Params.headroom_ratio[1] \in Nat
    BY <1>3
  <2> QED
    BY <1>1, <2>1, <2>2 DEF TooSmall, Holds
<1>5. IsFirst(target, SpillKb(plan, Node), Params)
  BY <1>1, <1>4 DEF IsFirst, Doubling
<1>6. /\ pos' \in 1 .. Len(order) + 1 /\ k' \in Nat \ {0}
      /\ IsSeq(issues')
      /\ \A i \in DOMAIN issues' :
           issues'[i].node \in plan'.nodes /\ issues'[i].target \in Nat
      /\ ByCache' /\ ByChecks' /\ WorkMemFits'
  <2>1. pos <= Len(order) /\ k <= Len(checks.checks) /\ Check # "NonSargableCheck"
    BY <1>1 DEF Doubling
  <2> QED
    BY <1>1, <1>2, <1>3, <1>5, <2>1, IssueFound DEF outside
<1>7. Shaped'
  BY <1>1, <1>6 DEF PlanInv, Shaped, TypeOK, Frames, outside, serving
<1>8. Phases'
  BY <1>1 DEF Phases, serving
<1> QED
  BY <1>6, <1>7, <1>8 DEF PlanInv

-----------------------------------------------------------------------------
(***************************************************************************)
(* The list of nodes.                                                      *)
(***************************************************************************)
\* The steps of visit leave alone what has been judged.
LEMMA Visiting ==
  ASSUME PlanInv, pc = "visit",
         UNCHANGED <<outside, pc, tool, plan, judging, policy, reply>>,
         IsSeq(list'), frames' \in Seq(Frames)
  PROVE  PlanInv'
<1>1. \A i \in DOMAIN frames' : frames'[i].node \in plan'.nodes
  <2>1. \A f \in Frames : f.node \in plan.nodes
    BY DEF Frames
  <2> QED
    BY <2>1
<1>2. TypeOK'
  BY <1>1 DEF PlanInv, Shaped, TypeOK, outside, judging
<1>3. Shaped'
  BY <1>2 DEF PlanInv, Shaped, Frames, judging
<1>4. Phases'
  BY DEF PlanInv, Phases, Finished, judging
<1>5. ByCache' /\ ByChecks' /\ WorkMemFits'
  BY JudgedAlike DEF PlanInv, outside, judging
<1> QED
  BY <1>3, <1>4, <1>5 DEF PlanInv

LEMMA PutIs ==
  ASSUME PlanInv, NEW n, NEW parent, Put(n, parent)
  PROVE  IsSeq(list')
<1>1. IsSeq(list)
  BY DEF PlanInv, Shaped
<1> QED
  BY <1>1, AppendIs DEF Put

LEMMA VisitRootHolds ==
  ASSUME PlanInv, VisitRoot
  PROVE  PlanInv'
<1>1. plan \in Plans /\ plan.root \in plan.nodes
  BY PlanFacts DEF PlanInv, Phases, VisitRoot
<1>2. Frame(plan.root, 0) \in Frames
  BY <1>1 DEF Frame, Frames
<1>3. frames' \in Seq(Frames)
  BY <1>2, OneSet DEF VisitRoot
<1>4. IsSeq(list')
  BY PutIs DEF VisitRoot
<1> QED
  BY <1>3, <1>4, Visiting DEF VisitRoot

LEMMA VisitChildHolds ==
  ASSUME PlanInv, VisitChild
  PROVE  PlanInv'
<1> DEFINE top == Last(frames)
           kids == plan.kids[top.node]
           kept == [frames EXCEPT ![Len(frames)].done = @ + 1]
           f == Frame(kids[top.done + 1], Len(list))
<1>1. /\ plan \in Plans /\ frames \in Seq(Frames) /\ frames # <<>> /\ pc = "visit"
      /\ top.done < Len(kids) /\ Put(kids[top.done + 1], top.id) /\ frames' = Append(kept, f)
      /\ UNCHANGED <<outside, pc, tool, plan, judging, policy, reply>>
  BY DEF PlanInv, Shaped, Phases, VisitChild
<1>2. top \in Frames /\ Len(frames) \in Nat \ {0} /\ top = frames[Len(frames)]
  BY <1>1, LastIs
<1>3. top.node \in plan.nodes /\ top.done \in Nat /\ top.id \in Nat
  BY <1>2 DEF Frames
<1>4. kids \in Seq(plan.nodes)
  BY <1>1, <1>3, PlanFacts
<1>5. top.done + 1 \in 1 .. Len(kids)
  BY <1>1, <1>3, <1>4
<1>6. f \in Frames
  <2>1. kids[top.done + 1] \in plan.nodes
    BY <1>4, <1>5
  <2>2. Len(list) \in Nat
    BY DEF PlanInv, Shaped, IsSeq
  <2> QED
    BY <2>1, <2>2 DEF Frame, Frames
<1>7. kept \in Seq(Frames)
  <2>1. [top EXCEPT !.done = @ + 1] \in Frames
    BY <1>2 DEF Frames
  <2>2. kept = [frames EXCEPT ![Len(frames)] = [top EXCEPT !.done = @ + 1]]
    BY <1>2
  <2>3. Len(frames) \in 1 .. Len(frames)
    BY <1>2
  <2> QED
    BY <1>1, <2>1, <2>2, <2>3
<1>8. frames' \in Seq(Frames)
  BY <1>1, <1>6, <1>7
<1>9. IsSeq(list')
  BY <1>1, PutIs
<1> QED
  BY <1>1, <1>8, <1>9, Visiting

LEMMA ReturnHolds ==
  ASSUME PlanInv, Return
  PROVE  PlanInv'
<1>1. /\ frames \in Seq(Frames) /\ frames # <<>> /\ pc = "visit" /\ frames' = Front(frames)
      /\ IsSeq(list)
      /\ UNCHANGED <<outside, pc, tool, plan, judging, policy, reply>>
  BY DEF PlanInv, Shaped, Return
<1>2. frames' \in Seq(Frames)
  BY <1>1, LastIs
<1>3. IsSeq(list')
  <2>1. CASE list' = list
    BY <1>1, <2>1
  <2>2. CASE list' # list
    <3>1. PICK i, x : list' = [list EXCEPT ![i].children_ids = x]
      BY <2>2 DEF Return
    <3>2. Len(list) \in Nat /\ DOMAIN list = 1 .. Len(list)
      BY <1>1, IsSeqDomain
    <3>3. DOMAIN list' = 1 .. Len(list) /\ list' = [j \in 1 .. Len(list) |-> list'[j]]
      BY <3>1, <3>2
    <3>4. list' \in Seq({list'[j] : j \in 1 .. Len(list)})
      BY <3>2, <3>3, SeqDef
    <3> QED
      BY <3>4, SeqIs
  <2> QED
    BY <2>1, <2>2
<1> QED
  BY <1>1, <1>2, <1>3, Visiting

-----------------------------------------------------------------------------
(***************************************************************************)
(* The theorems.                                                           *)
(***************************************************************************)
LEMMA StepHolds ==
  ASSUME PlanInv, [Next]_vars
  PROVE  PlanInv'
<1>1. CASE Ask
  BY <1>1, AskHolds
<1>2. CASE Reject \/ Fails \/ ReadNothing \/ LoadRejects \/ FetchFails \/ EmitBreaks
  BY <1>2, EndHolds
<1>3. CASE Explain \/ Load \/ NextNode \/ Walked
  BY <1>3, ExplainHolds, LoadHolds, NextNodeHolds, WalkedHolds
<1>4. CASE Judge \/ Spilled \/ Double \/ Doubled \/ Fetch \/ JudgeFilter \/ Judged
  BY <1>4, JudgeHolds, SpilledHolds, DoubleHolds, DoubledHolds, FetchHolds, JudgeFilterHolds,
     JudgedHolds
<1>5. CASE Policy \/ VisitRoot \/ VisitChild \/ Return \/ Answer
  BY <1>5, PolicyHolds, VisitRootHolds, VisitChildHolds, ReturnHolds, AnswerHolds
<1>6. CASE ChangeConfig \/ ChangeIndexes
  BY <1>6, ChangeHolds
<1>7. CASE UNCHANGED vars
  BY <1>7, IdleHolds
<1> QED
  BY <1>1, <1>2, <1>3, <1>4, <1>5, <1>6, <1>7 DEF Next, CallStep

LEMMA PlanInvariance == Spec => []PlanInv
<1>1. Init => PlanInv
  BY InitHolds
<1>2. PlanInv /\ [Next]_vars => PlanInv'
  BY StepHolds
<1> QED
  BY <1>1, <1>2, PTL DEF Spec

\* TypeOK, of any plans and however many calls and changes there are: the
\* stack, the order and the issues hold nodes of the plan, and the loops of
\* new_analyze_plan stay within the nodes and the checks.
THEOREM PlanTypes == Spec => []TypeOK
<1>1. PlanInv => TypeOK
  BY DEF PlanInv, Shaped
<1> QED
  BY <1>1, PlanInvariance, PTL

\* NoIssueLost: the loop with a stack of descendants() yields every node, and
\* every check whose rule holds at a node has an issue in the answer.
THEOREM EveryRuleTold == Spec => []NoIssueLost
<1>1. PlanInv => NoIssueLost
  <2> SUFFICES ASSUME PlanInv, reply = "answered",
                      NEW c \in ToSet(checks.checks) \ {"NonSargableCheck"}, NEW n \in plan.nodes,
                      Fires(c, plan, n, checks.params[c])
               PROVE  \E j \in DOMAIN issues : issues[j].check = c /\ issues[j].node = n
    BY DEF NoIssueLost
  <2>1. PICK x \in DOMAIN checks.checks : checks.checks[x] = c
    BY DEF ToSet
  <2>2. checks.checks # <<>>
    BY <2>1
  <2>3. ToSet(order) = plan.nodes /\ pos > Len(order)
    BY <2>2 DEF PlanInv, Phases, Finished
  <2>4. PICK i \in DOMAIN order : order[i] = n
    BY <2>3 DEF ToSet
  <2>5. Done(i, x)
    <3>1. order \in Seq(plan.nodes) /\ pos \in 1 .. Len(order) + 1
      BY DEF PlanInv, Shaped, TypeOK
    <3>2. i \in 1 .. Len(order)
      BY <3>1, <2>4
    <3> QED
      BY <2>3, <3>1, <3>2 DEF Done
  <2> QED
    BY <2>1, <2>4, <2>5 DEF PlanInv, ByChecks
<1> QED
  BY <1>1, PlanInvariance, PTL

\* OneSnapshot: whatever is done to the indexes while a call runs, all filters
\* of its answer are judged by the indexes of one moment of the call.
THEOREM SnapshotHolds == Spec => []OneSnapshot
<1>1. PlanInv => OneSnapshot
  <2> SUFFICES ASSUME PlanInv, reply = "answered", "NonSargableCheck" \in ToSet(checks.checks)
               PROVE  \E indexes \in seen : \A n \in plan.nodes :
                        LET columns == NonSargable(plan, n, checks.params["NonSargableCheck"], indexes)
                            told == {issues[i].column : i \in {j \in DOMAIN issues :
                                       issues[j].check = "NonSargableCheck" /\ issues[j].node = n}}
                        IN told \subseteq columns /\ (columns # {} => told # {})
    BY DEF OneSnapshot
  <2>1. PICK x \in DOMAIN checks.checks : checks.checks[x] = "NonSargableCheck"
    BY DEF ToSet
  <2>2. checks.checks # <<>>
    BY <2>1
  <2>3. ToSet(order) = plan.nodes /\ pos > Len(order)
    BY <2>2 DEF PlanInv, Phases, Finished
  <2>4. ASSUME NEW n \in plan.nodes
        PROVE  /\ cache \in seen
               /\ Columns(n) # {} => Reported(n)
               /\ \A j \in DOMAIN issues :
                    issues[j].check = "NonSargableCheck" /\ issues[j].node = n =>
                      issues[j].column \in Columns(n)
    <3>1. PICK i \in DOMAIN order : order[i] = n
      BY <2>3 DEF ToSet
    <3>2. Done(i, x)
      <4>1. order \in Seq(plan.nodes) /\ pos \in 1 .. Len(order) + 1
        BY DEF PlanInv, Shaped, TypeOK
      <4>2. i \in 1 .. Len(order)
        BY <4>1, <3>1
      <4> QED
        BY <2>3, <4>1, <4>2 DEF Done
    <3> QED
      BY <2>1, <3>1, <3>2 DEF PlanInv, ByCache
  <2>5. CASE plan.nodes = {}
    <3>1. catalog \in seen
      BY DEF PlanInv, Shaped, TypeOK
    <3> QED
      BY <2>5, <3>1
  <2>6. CASE plan.nodes # {}
    <3>1. cache \in seen
      BY <2>4, <2>6
    <3> WITNESS cache \in seen
    <3> TAKE n \in plan.nodes
    <3> DEFINE columns == NonSargable(plan, n, checks.params["NonSargableCheck"], cache)
               told == {issues[i].column : i \in {j \in DOMAIN issues :
                          issues[j].check = "NonSargableCheck" /\ issues[j].node = n}}
    <3>2. columns = Columns(n)
      BY DEF Columns
    <3>3. told \subseteq columns
      BY <2>4, <3>2
    <3>4. columns # {} => told # {}
      BY <2>4, <3>2 DEF Reported
    <3> QED
      BY <3>3, <3>4
  <2> QED
    BY <2>5, <2>6
<1> QED
  BY <1>1, PlanInvariance, PTL

\* WorkMemFits: the work_mem that is suggested for a spilled sort holds the
\* spill with headroom, and half of it, unless below the minimum, would not.
THEOREM WorkMemHolds == Spec => []WorkMemFits
<1>1. PlanInv => WorkMemFits
  BY DEF PlanInv
<1> QED
  BY <1>1, PlanInvariance, PTL

=============================================================================
