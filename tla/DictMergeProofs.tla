--------------------------- MODULE DictMergeProofs ---------------------------
(***************************************************************************)
(* What the operators of JsonPaths do, for values of any depth and paths   *)
(* of any length; and what DictMerge computes: the effect of patches on    *)
(* different parts of a dictionary, of cutting lists out and of putting    *)
(* them back, and of a three-way merge.                                    *)
(***************************************************************************)
EXTENDS DictMerge, FiniteSetTheorems, SequenceTheorems, NaturalsInduction, WellFoundedInduction,
        TLAPS

LEMMA Least ==
  ASSUME NEW S \in SUBSET Nat, S # {}
  PROVE  \E i \in S : \A j \in S : i <= j
<1>1. PICK i \in S : \A j \in S : ~(<<j, i>> \in OpToRel(<, Nat))
  BY NatLessThanWellFounded, WFMin
<1>2. \A j \in S : ~(j < i)
  BY <1>1 DEF OpToRel
<1> QED
  BY <1>2

---------------------------------------------------------------------------
(* Paths.                                                                  *)

LEMMA AppendEffect ==
  ASSUME NEW X, NEW p \in Seq(X), NEW k \in X
  PROVE  /\ Append(p, k) \in Seq(X) /\ Append(p, k) # <<>>
         /\ Len(Append(p, k)) = Len(p) + 1
         /\ \A i \in 1 .. Len(p) : Append(p, k)[i] = p[i]
         /\ Append(p, k)[Len(p) + 1] = k
         /\ Front(Append(p, k)) = p /\ Last(Append(p, k)) = k
         /\ p \o <<k>> = Append(p, k)
<1>1. /\ Append(p, k) \in Seq(X) /\ Append(p, k) # <<>>
      /\ Len(Append(p, k)) = Len(p) + 1 /\ Len(p) \in Nat
      /\ \A i \in 1 .. Len(p) : Append(p, k)[i] = p[i]
      /\ Append(p, k)[Len(p) + 1] = k
  OBVIOUS
<1>2. Last(Append(p, k)) = k
  BY <1>1 DEF Last
<1>3. Front(Append(p, k)) = p
  <2>1. Front(Append(p, k)) = SubSeq(Append(p, k), 1, Len(p))
    BY <1>1 DEF Front
  <2>2. /\ SubSeq(Append(p, k), 1, Len(p)) \in Seq(X)
        /\ Len(SubSeq(Append(p, k), 1, Len(p))) = Len(p)
        /\ \A i \in 1 .. Len(p) : SubSeq(Append(p, k), 1, Len(p))[i] = Append(p, k)[i]
    BY <1>1
  <2> QED
    BY <1>1, <2>1, <2>2, SeqEqual
<1>4. p \o <<k>> = Append(p, k)
  OBVIOUS
<1> QED
  BY <1>1, <1>2, <1>3, <1>4

LEMMA PrefixEffect ==
  ASSUME NEW X, NEW p \in Seq(X), NEW n \in 0 .. Len(p)
  PROVE  /\ SubSeq(p, 1, n) \in Seq(X) /\ Len(SubSeq(p, 1, n)) = n
         /\ \A i \in 1 .. n : SubSeq(p, 1, n)[i] = p[i]
<1>1. Len(p) \in Nat /\ n \in Nat /\ \A i \in 1 .. n : p[i] \in X
  OBVIOUS
<1>2. SubSeq(p, 1, n) = [i \in 1 .. n |-> p[i]]
  BY <1>1
<1> QED
  BY <1>1, <1>2

(* A path that is not empty is a path and a last step.                     *)
LEMMA FrontLast ==
  ASSUME NEW X, NEW p \in Seq(X), p # <<>>
  PROVE  /\ Front(p) \in Seq(X) /\ Last(p) \in X /\ p = Append(Front(p), Last(p))
         /\ Len(Front(p)) = Len(p) - 1 /\ Len(p) \in Nat \ {0} /\ Last(p) = p[Len(p)]
         /\ \A i \in 1 .. Len(p) - 1 : Front(p)[i] = p[i]
<1>1. Len(p) \in Nat /\ Len(p) # 0
  OBVIOUS
<1>2. /\ Front(p) \in Seq(X) /\ Len(Front(p)) = Len(p) - 1
      /\ \A i \in 1 .. Len(p) - 1 : Front(p)[i] = p[i]
  <2>1. Len(p) - 1 \in 0 .. Len(p)
    BY <1>1
  <2>2. /\ SubSeq(p, 1, Len(p) - 1) \in Seq(X) /\ Len(SubSeq(p, 1, Len(p) - 1)) = Len(p) - 1
        /\ \A i \in 1 .. Len(p) - 1 : SubSeq(p, 1, Len(p) - 1)[i] = p[i]
    BY <2>1, PrefixEffect
  <2> QED
    BY <2>2 DEF Front
<1>3. Last(p) = p[Len(p)] /\ Last(p) \in X
  BY <1>1 DEF Last
<1>4. /\ Append(Front(p), Last(p)) \in Seq(X) /\ Len(Append(Front(p), Last(p))) = Len(p)
      /\ \A i \in 1 .. Len(p) - 1 : Append(Front(p), Last(p))[i] = p[i]
      /\ Append(Front(p), Last(p))[Len(p)] = p[Len(p)]
  BY <1>1, <1>2, <1>3, AppendEffect
<1>5. \A i \in 1 .. Len(p) : Append(Front(p), Last(p))[i] = p[i]
  BY <1>1, <1>4
<1>6. p = Append(Front(p), Last(p))
  BY <1>4, <1>5, SeqEqual
<1> QED
  BY <1>1, <1>2, <1>3, <1>6

---------------------------------------------------------------------------
(* Get, step by step.                                                      *)

GetUpTo(f, obj, path, n) ==
  f = [i \in 0 .. n |-> IF i = 0 THEN obj ELSE Step(f[i - 1], path[i])]

LEMMA GetExists ==
  ASSUME NEW obj, NEW path, NEW n \in Nat
  PROVE  \E f : GetUpTo(f, obj, path, n)
<1> DEFINE X == {k \in Nat : ~\E f : GetUpTo(f, obj, path, k)}
<1> SUFFICES ASSUME X # {} PROVE FALSE
  OBVIOUS
<1>1. PICK m \in X : \A k \in X : m <= k
  <2>1. X \in SUBSET Nat
    OBVIOUS
  <2> HIDE DEF X
  <2> QED
    BY <2>1, Least
<1>2. CASE m = 0
  <2> DEFINE f == [k \in 0 .. 0 |-> obj]
  <2>1. f = [k \in 0 .. 0 |-> IF k = 0 THEN obj ELSE Step(f[k - 1], path[k])]
    OBVIOUS
  <2> QED
    BY <1>2, <2>1 DEF GetUpTo
<1>3. CASE m # 0
  <2>1. m - 1 \in Nat /\ m - 1 \notin X
    BY <1>1, <1>3
  <2>2. PICK f : GetUpTo(f, obj, path, m - 1)
    BY <2>1
  <2>3. \A k \in 0 .. m - 1 : f[k] = IF k = 0 THEN obj ELSE Step(f[k - 1], path[k])
    BY <2>2 DEF GetUpTo
  <2> DEFINE g == [k \in 0 .. m |-> IF k = m THEN Step(f[m - 1], path[m]) ELSE f[k]]
  <2>4. \A k \in 0 .. m - 1 : g[k] = f[k]
    BY <1>3, <2>1
  <2>5. g[m] = Step(f[m - 1], path[m])
    BY <1>3, <2>1
  <2>6. ASSUME NEW k \in 0 .. m
        PROVE  g[k] = IF k = 0 THEN obj ELSE Step(g[k - 1], path[k])
    <3>1. CASE k = m
      <4>1. m - 1 \in 0 .. m - 1
        BY <2>1
      <4>2. g[m - 1] = f[m - 1]
        BY <2>4, <4>1
      <4> HIDE DEF g
      <4> QED
        BY <1>3, <2>5, <3>1, <4>2
    <3>2. CASE k = 0
      <4>1. k \in 0 .. m - 1
        BY <2>1, <3>2
      <4> HIDE DEF g
      <4> QED
        BY <2>3, <2>4, <3>2, <4>1
    <3>3. CASE k # m /\ k # 0
      <4>1. k \in 0 .. m - 1 /\ k - 1 \in 0 .. m - 1
        BY <2>1, <3>3
      <4> HIDE DEF g
      <4> QED
        BY <2>3, <2>4, <3>3, <4>1
    <3> QED
      BY <3>1, <3>2, <3>3
  <2>7. g = [k \in 0 .. m |-> g[k]]
    OBVIOUS
  <2> HIDE DEF g
  <2>8. GetUpTo(g, obj, path, m)
    BY <2>6, <2>7 DEF GetUpTo
  <2> QED
    BY <2>8
<1> QED
  BY <1>2, <1>3

LEMMA GetMeans ==
  ASSUME NEW X, NEW path \in Seq(X), NEW obj
  PROVE  \E f : GetUpTo(f, obj, path, Len(path)) /\ Get(obj, path) = f[Len(path)]
<1> DEFINE g == CHOOSE f : GetUpTo(f, obj, path, Len(path))
<1>1. Get(obj, path) = g[Len(path)]
  BY DEF Get, GetUpTo
<1>2. GetUpTo(g, obj, path, Len(path))
  <2>1. \E f : GetUpTo(f, obj, path, Len(path))
    <3>1. Len(path) \in Nat
      OBVIOUS
    <3> HIDE DEF g
    <3> QED
      BY <3>1, GetExists
  <2> QED
    BY <2>1
<1> QED
  BY <1>1, <1>2

LEMMA GetEmpty ==
  ASSUME NEW obj
  PROVE  Get(obj, <<>>) = obj
<1>1. <<>> \in Seq({}) /\ Len(<<>>) = 0
  OBVIOUS
<1>2. PICK f : GetUpTo(f, obj, <<>>, Len(<<>>)) /\ Get(obj, <<>>) = f[Len(<<>>)]
  BY <1>1, GetMeans
<1> QED
  BY <1>1, <1>2 DEF GetUpTo

LEMMA GetAppend ==
  ASSUME NEW X, NEW p \in Seq(X), NEW k \in X, NEW obj
  PROVE  Get(obj, Append(p, k)) = Step(Get(obj, p), k)
<1> DEFINE q == Append(p, k)
           n == Len(p)
<1>1. /\ q \in Seq(X) /\ Len(q) = n + 1 /\ n \in Nat
      /\ \A i \in 1 .. n : q[i] = p[i]
      /\ q[n + 1] = k
  BY AppendEffect
<1> HIDE DEF q
<1>2. PICK f : GetUpTo(f, obj, p, n) /\ Get(obj, p) = f[n]
  BY GetMeans
<1>3. PICK g : GetUpTo(g, obj, q, n + 1) /\ Get(obj, q) = g[n + 1]
  BY <1>1, GetMeans
<1>4. /\ \A i \in 0 .. n : f[i] = IF i = 0 THEN obj ELSE Step(f[i - 1], p[i])
      /\ \A i \in 0 .. n + 1 : g[i] = IF i = 0 THEN obj ELSE Step(g[i - 1], q[i])
  BY <1>2, <1>3 DEF GetUpTo
<1> DEFINE Y == {i \in 0 .. n : g[i] # f[i]}
<1>5. Y = {}
  <2> SUFFICES ASSUME Y # {} PROVE FALSE
    OBVIOUS
  <2>1. PICK m \in Y : \A i \in Y : m <= i
    <3>1. Y \in SUBSET Nat
      OBVIOUS
    <3> HIDE DEF Y
    <3> QED
      BY <3>1, Least
  <2>2. m \in 0 .. n /\ g[m] # f[m]
    BY <2>1
  <2>3. m # 0
    BY <1>1, <1>4, <2>2
  <2>4. m - 1 \in 0 .. n /\ m \in 1 .. n /\ m \in 0 .. n + 1 /\ ~(m <= m - 1)
    BY <1>1, <2>2, <2>3
  <2>5. g[m - 1] = f[m - 1]
    BY <2>1, <2>4
  <2> QED
    BY <1>1, <1>4, <2>2, <2>3, <2>4, <2>5
<1>6. n \in 0 .. n /\ n + 1 \in 0 .. n + 1 /\ n + 1 # 0 /\ (n + 1) - 1 = n
  BY <1>1
<1>7. g[n + 1] = Step(g[n], k)
  BY <1>1, <1>4, <1>6
<1>8. g[n] = f[n]
  BY <1>5, <1>6
<1> QED
  BY <1>2, <1>3, <1>7, <1>8 DEF q

(* What is found below a value of a set that has all below its values.     *)
LEMMA GetClosed ==
  ASSUME NEW V, NEW X, NEW obj \in V, NEW path \in Seq(X),
         \A v \in V : \A k \in Steps(v) : Children(v)[k] \in V
  PROVE  Get(obj, path) \in V \cup {Missing}
<1>1. PICK f : GetUpTo(f, obj, path, Len(path)) /\ Get(obj, path) = f[Len(path)]
  BY GetMeans
<1>2. \A i \in 0 .. Len(path) : f[i] = IF i = 0 THEN obj ELSE Step(f[i - 1], path[i])
  BY <1>1 DEF GetUpTo
<1>3. Len(path) \in Nat
  OBVIOUS
<1>4. \A k : Step(Missing, k) = Missing
  BY DEF Step, Steps, Children, Missing, IsDict, IsList
<1>5. \A v \in V \cup {Missing} : \A k : Step(v, k) \in V \cup {Missing}
  BY <1>4 DEF Step
<1> DEFINE Y == {i \in 0 .. Len(path) : f[i] \notin V \cup {Missing}}
<1>6. Y = {}
  <2> SUFFICES ASSUME Y # {} PROVE FALSE
    OBVIOUS
  <2>1. PICK m \in Y : \A i \in Y : m <= i
    <3>1. Y \in SUBSET Nat
      BY <1>3
    <3> HIDE DEF Y
    <3> QED
      BY <3>1, Least
  <2>2. m \in 0 .. Len(path) /\ f[m] \notin V \cup {Missing}
    BY <2>1
  <2>3. m # 0
    BY <1>2, <2>2
  <2>4. m - 1 \in 0 .. Len(path) /\ ~(m <= m - 1)
    BY <1>3, <2>2, <2>3
  <2>5. f[m - 1] \in V \cup {Missing}
    BY <2>1, <2>4
  <2> QED
    BY <1>2, <1>5, <2>2, <2>3, <2>5
<1> QED
  BY <1>1, <1>3, <1>6

---------------------------------------------------------------------------
(* Set, which rebuilds what is on the way from the end of the path.        *)

LEMMA WithChildrenEffect ==
  ASSUME NEW obj, NEW f
  PROVE  /\ IsList(WithChildren(obj, f)) <=> IsList(obj)
         /\ IsDict(WithChildren(obj, f)) <=> ~IsList(obj)
         /\ Children(WithChildren(obj, f)) = f /\ Steps(WithChildren(obj, f)) = DOMAIN f
BY DEF WithChildren, IsList, IsDict, List, Dict, Children, Steps

LEMMA WithStepEffect ==
  ASSUME NEW obj, NEW k, NEW value
  PROVE  /\ IsList(WithStep(obj, k, value)) <=> IsList(obj)
         /\ IsDict(WithStep(obj, k, value)) <=> ~IsList(obj)
         /\ Step(WithStep(obj, k, value), k) = value
         /\ \A j : j # k => Step(WithStep(obj, k, value), j) = Step(obj, j)
         /\ Steps(WithStep(obj, k, value)) = Steps(obj) \cup {k}
<1> DEFINE f == [j \in Steps(obj) \cup {k} |-> IF j = k THEN value ELSE Children(obj)[j]]
           new == WithStep(obj, k, value)
<1>1. /\ DOMAIN f = Steps(obj) \cup {k} /\ f[k] = value
      /\ \A j \in Steps(obj) : j # k => f[j] = Children(obj)[j]
  OBVIOUS
<1>2. new = WithChildren(obj, f)
  BY DEF WithStep
<1> HIDE DEF f, new
<1>3. /\ IsList(new) <=> IsList(obj)
      /\ IsDict(new) <=> ~IsList(obj)
      /\ Children(new) = f /\ Steps(new) = DOMAIN f
  BY <1>2, WithChildrenEffect
<1> QED
  BY <1>1, <1>3 DEF Step, new

LEMMA PrefixNext ==
  ASSUME NEW X, NEW p \in Seq(X), NEW n \in Nat, n < Len(p)
  PROVE  /\ SubSeq(p, 1, n) \in Seq(X) /\ p[n + 1] \in X
         /\ SubSeq(p, 1, n + 1) = Append(SubSeq(p, 1, n), p[n + 1])
<1>1. n \in 0 .. Len(p) /\ n + 1 \in 0 .. Len(p) /\ n + 1 \in 1 .. Len(p)
  OBVIOUS
<1>2. /\ SubSeq(p, 1, n) \in Seq(X) /\ Len(SubSeq(p, 1, n)) = n
      /\ \A i \in 1 .. n : SubSeq(p, 1, n)[i] = p[i]
  BY <1>1, PrefixEffect
<1>3. /\ SubSeq(p, 1, n + 1) \in Seq(X) /\ Len(SubSeq(p, 1, n + 1)) = n + 1
      /\ \A i \in 1 .. n + 1 : SubSeq(p, 1, n + 1)[i] = p[i]
  BY <1>1, PrefixEffect
<1> DEFINE q == SubSeq(p, 1, n)
           s == SubSeq(p, 1, n + 1)
           e == p[n + 1]
<1>4. e \in X
  BY <1>1
<1> HIDE DEF q, s, e
<1>5. /\ Append(q, e) \in Seq(X) /\ Len(Append(q, e)) = n + 1
      /\ \A i \in 1 .. n : Append(q, e)[i] = q[i]
      /\ Append(q, e)[n + 1] = e
  BY <1>2, <1>4, AppendEffect DEF q
<1>6. \A i \in 1 .. n + 1 : i = n + 1 \/ i \in 1 .. n
  OBVIOUS
<1>7. \A i \in 1 .. n + 1 : Append(q, e)[i] = s[i]
  BY <1>2, <1>3, <1>5, <1>6 DEF q, s, e
<1>8. s = Append(q, e)
  BY <1>3, <1>5, <1>7, SeqEqual DEF s
<1> QED
  BY <1>2, <1>4, <1>8 DEF q, s, e

LEMMA PrefixEnds ==
  ASSUME NEW X, NEW p \in Seq(X)
  PROVE  SubSeq(p, 1, 0) = <<>> /\ SubSeq(p, 1, Len(p)) = p
<1>1. 0 \in 0 .. Len(p) /\ Len(p) \in 0 .. Len(p)
  OBVIOUS
<1>2. SubSeq(p, 1, 0) \in Seq(X) /\ Len(SubSeq(p, 1, 0)) = 0
  BY <1>1, PrefixEffect
<1>3. /\ SubSeq(p, 1, Len(p)) \in Seq(X) /\ Len(SubSeq(p, 1, Len(p))) = Len(p)
      /\ \A i \in 1 .. Len(p) : SubSeq(p, 1, Len(p))[i] = p[i]
  BY <1>1, PrefixEffect
<1>4. SubSeq(p, 1, 0) = <<>>
  BY <1>2, EmptySeq
<1>5. SubSeq(p, 1, Len(p)) = p
  BY <1>3, SeqEqual
<1> QED
  BY <1>4, <1>5

LEMMA PrefixOfPrefix ==
  ASSUME NEW X, NEW p \in Seq(X), NEW m \in 0 .. Len(p), NEW n \in 0 .. m
  PROVE  SubSeq(SubSeq(p, 1, m), 1, n) = SubSeq(p, 1, n)
<1> DEFINE q == SubSeq(p, 1, m)
<1>1. /\ q \in Seq(X) /\ Len(q) = m /\ \A i \in 1 .. m : q[i] = p[i]
  BY PrefixEffect
<1>2. n \in 0 .. Len(p) /\ n \in 0 .. Len(q) /\ \A i \in 1 .. n : i \in 1 .. m
  BY <1>1
<1> HIDE DEF q
<1>3. /\ SubSeq(q, 1, n) \in Seq(X) /\ Len(SubSeq(q, 1, n)) = n
      /\ \A i \in 1 .. n : SubSeq(q, 1, n)[i] = q[i]
  BY <1>1, <1>2, PrefixEffect
<1>4. /\ SubSeq(p, 1, n) \in Seq(X) /\ Len(SubSeq(p, 1, n)) = n
      /\ \A i \in 1 .. n : SubSeq(p, 1, n)[i] = p[i]
  BY <1>2, PrefixEffect
<1>5. \A i \in 1 .. n : SubSeq(q, 1, n)[i] = SubSeq(p, 1, n)[i]
  BY <1>1, <1>2, <1>3, <1>4
<1> QED
  BY <1>3, <1>4, <1>5, SeqEqual DEF q

LEMMA GetPrefix ==
  ASSUME NEW X, NEW p \in Seq(X), NEW n \in Nat, n < Len(p), NEW obj
  PROVE  Get(obj, SubSeq(p, 1, n + 1)) = Step(Get(obj, SubSeq(p, 1, n)), p[n + 1])
BY PrefixNext, GetAppend

(* A path and another below it.                                            *)
LEMMA GetConcat ==
  ASSUME NEW X, NEW p \in Seq(X), NEW r \in Seq(X), NEW obj
  PROVE  Get(obj, p \o r) = Get(Get(obj, p), r)
<1> DEFINE Y == {n \in 0 .. Len(r) : Get(obj, p \o SubSeq(r, 1, n)) # Get(Get(obj, p), SubSeq(r, 1, n))}
<1>1. Y = {}
  <2> SUFFICES ASSUME Y # {} PROVE FALSE
    OBVIOUS
  <2>1. PICK m \in Y : \A n \in Y : m <= n
    <3>1. Y \in SUBSET Nat
      OBVIOUS
    <3> HIDE DEF Y
    <3> QED
      BY <3>1, Least
  <2>2. m \in 0 .. Len(r) /\ Get(obj, p \o SubSeq(r, 1, m)) # Get(Get(obj, p), SubSeq(r, 1, m))
    BY <2>1
  <2>3. m # 0
    <3>1. SubSeq(r, 1, 0) = <<>> /\ p \o <<>> = p
      BY PrefixEnds
    <3> QED
      BY <2>2, <3>1, GetEmpty
  <2>4. m - 1 \in 0 .. Len(r) /\ ~(m <= m - 1) /\ m - 1 \in Nat /\ m - 1 < Len(r) /\ (m - 1) + 1 = m
    BY <2>2, <2>3
  <2> DEFINE n == m - 1
             q == SubSeq(r, 1, n)
             k == r[n + 1]
  <2>5. Get(obj, p \o q) = Get(Get(obj, p), q)
    BY <2>1, <2>4
  <2>6. q \in Seq(X) /\ k \in X /\ SubSeq(r, 1, m) = Append(q, k)
    <3>1. q \in Seq(X) /\ k \in X /\ SubSeq(r, 1, n + 1) = Append(q, k)
      <4>1. n \in Nat /\ n < Len(r)
        BY <2>4
      <4> HIDE DEF n
      <4> QED
        BY <4>1, PrefixNext
    <3> QED
      BY <2>4, <3>1
  <2> HIDE DEF q, k, Y
  <2>7. p \o Append(q, k) = Append(p \o q, k) /\ p \o q \in Seq(X)
    BY <2>6
  <2>8. Get(obj, Append(p \o q, k)) = Step(Get(obj, p \o q), k)
    BY <2>6, <2>7, GetAppend
  <2>9. Get(Get(obj, p), Append(q, k)) = Step(Get(Get(obj, p), q), k)
    BY <2>6, GetAppend
  <2> QED
    BY <2>2, <2>5, <2>6, <2>7, <2>8, <2>9
<1>2. Len(r) \in 0 .. Len(r) /\ SubSeq(r, 1, Len(r)) = r
  BY PrefixEnds
<1>3. Len(r) \notin Y
  BY <1>1
<1> QED
  BY <1>2, <1>3

Rebuilt(obj, path, i, new) == WithStep(Get(obj, SubSeq(path, 1, i)), path[i + 1], new)

SetFrom(f, obj, path, value, n) ==
  f = [i \in n .. Len(path) |-> IF i = Len(path) THEN value ELSE Rebuilt(obj, path, i, f[i + 1])]

LEMMA SetExists ==
  ASSUME NEW obj, NEW path, NEW value, Len(path) \in Nat
  PROVE  \E f : SetFrom(f, obj, path, value, 0)
<1> DEFINE N == Len(path)
           X == {k \in 0 .. N : ~\E f : SetFrom(f, obj, path, value, N - k)}
<1>0. N \in Nat
  OBVIOUS
<1>1. X = {}
  <2> SUFFICES ASSUME X # {} PROVE FALSE
    OBVIOUS
  <2>1. PICK m \in X : \A k \in X : m <= k
    <3>1. X \in SUBSET Nat
      OBVIOUS
    <3> HIDE DEF X
    <3> QED
      BY <3>1, Least
  <2>2. m \in 0 .. N /\ ~\E f : SetFrom(f, obj, path, value, N - m)
    BY <2>1
  <2>3. CASE m = 0
    <3> DEFINE f == [i \in N .. N |-> value]
    <3>1. f = [i \in N .. N |-> IF i = N THEN value ELSE Rebuilt(obj, path, i, f[i + 1])]
      BY <1>0
    <3>2. N - m = N
      BY <1>0, <2>3
    <3> QED
      BY <2>2, <3>1, <3>2 DEF SetFrom
  <2>4. CASE m # 0
    <3>1. m - 1 \in 0 .. N /\ ~(m <= m - 1) /\ N - (m - 1) = (N - m) + 1 /\ N - m \in Nat /\ N - m < N
      BY <1>0, <2>2, <2>4
    <3>2. m - 1 \notin X
      BY <2>1, <3>1
    <3>3. \E f : SetFrom(f, obj, path, value, N - (m - 1))
      BY <3>1, <3>2
    <3> DEFINE n == N - m
    <3>4. n \in Nat /\ n < N /\ \E f : SetFrom(f, obj, path, value, n + 1)
      BY <3>1, <3>3
    <3>5. ~\E f : SetFrom(f, obj, path, value, n)
      BY <2>2
    <3> HIDE DEF X, n
    <3>6. PICK f : SetFrom(f, obj, path, value, n + 1)
      BY <3>4
    <3>7. \A i \in n + 1 .. N : f[i] = IF i = N THEN value ELSE Rebuilt(obj, path, i, f[i + 1])
      BY <3>6 DEF SetFrom
    <3> DEFINE g == [i \in n .. N |-> IF i = n THEN Rebuilt(obj, path, n, f[n + 1]) ELSE f[i]]
    <3>8. /\ \A i \in n + 1 .. N : g[i] = f[i]
          /\ g[n] = Rebuilt(obj, path, n, f[n + 1])
      BY <1>0, <3>4
    <3>9. g = [i \in n .. N |-> g[i]]
      OBVIOUS
    <3> HIDE DEF g
    <3>10. ASSUME NEW i \in n .. N
           PROVE  g[i] = IF i = N THEN value ELSE Rebuilt(obj, path, i, g[i + 1])
      <4>1. CASE i = n
        <5>1. n + 1 \in n + 1 .. N /\ n # N
          BY <1>0, <3>4
        <5>2. g[n + 1] = f[n + 1]
          BY <3>8, <5>1
        <5> QED
          BY <3>8, <4>1, <5>1, <5>2
      <4>2. CASE i # n /\ i = N
        <5>1. i \in n + 1 .. N
          BY <1>0, <3>4, <4>2
        <5> QED
          BY <3>7, <3>8, <4>2, <5>1
      <4>3. CASE i # n /\ i # N
        <5>1. i \in n + 1 .. N /\ i + 1 \in n + 1 .. N
          BY <1>0, <3>4, <4>3
        <5>2. g[i] = f[i] /\ g[i + 1] = f[i + 1]
          BY <3>8, <5>1
        <5> QED
          BY <3>7, <4>3, <5>1, <5>2
      <4> QED
        BY <4>1, <4>2, <4>3
    <3>11. SetFrom(g, obj, path, value, n)
      BY <3>9, <3>10 DEF SetFrom
    <3> QED
      BY <3>5, <3>11
  <2> QED
    BY <2>3, <2>4
<1>2. N \in 0 .. N /\ N - N = 0
  BY <1>0
<1>3. N \notin X
  BY <1>1
<1> QED
  BY <1>2, <1>3

LEMMA SetMeans ==
  ASSUME NEW X, NEW path \in Seq(X), NEW obj, NEW value
  PROVE  \E f : SetFrom(f, obj, path, value, 0) /\ Set(obj, path, value) = f[0]
<1> DEFINE g == CHOOSE f : SetFrom(f, obj, path, value, 0)
<1>1. Set(obj, path, value) = g[0]
  BY DEF Set, SetFrom, Rebuilt
<1>2. \E f : SetFrom(f, obj, path, value, 0)
  <2>1. Len(path) \in Nat
    OBVIOUS
  <2> HIDE DEF g
  <2> QED
    BY <2>1, SetExists
<1>3. SetFrom(g, obj, path, value, 0)
  BY <1>2
<1> QED
  BY <1>1, <1>3

LEMMA SetAlong ==
  ASSUME NEW X, NEW path \in Seq(X), NEW obj, NEW value, NEW f,
         SetFrom(f, obj, path, value, 0), NEW n \in 0 .. Len(path)
  PROVE  Get(f[0], SubSeq(path, 1, n)) = f[n]
<1> DEFINE Y == {i \in 0 .. n : Get(f[0], SubSeq(path, 1, i)) # f[i]}
<1>0. Len(path) \in Nat /\ n \in Nat /\ n <= Len(path)
  OBVIOUS
<1>1. Y = {}
  <2> SUFFICES ASSUME Y # {} PROVE FALSE
    OBVIOUS
  <2>1. PICK m \in Y : \A i \in Y : m <= i
    <3>1. Y \in SUBSET Nat
      OBVIOUS
    <3> HIDE DEF Y
    <3> QED
      BY <3>1, Least
  <2>2. m \in 0 .. n /\ Get(f[0], SubSeq(path, 1, m)) # f[m]
    BY <2>1
  <2>3. m # 0
    BY <2>2, PrefixEnds, GetEmpty
  <2> DEFINE i == m - 1
  <2>4. i \in 0 .. n /\ ~(m <= i) /\ i \in Nat /\ i < Len(path) /\ i + 1 = m /\ i \in 0 .. n - 1
        /\ i \in 0 .. Len(path) /\ i # Len(path)
    BY <1>0, <2>2, <2>3
  <2>5. Get(f[0], SubSeq(path, 1, i)) = f[i]
    BY <2>1, <2>4
  <2> HIDE DEF i, Y
  <2>6. f[i] = WithStep(Get(obj, SubSeq(path, 1, i)), path[i + 1], f[i + 1])
    BY <2>4 DEF SetFrom, Rebuilt
  <2>7. Step(f[i], path[i + 1]) = f[i + 1]
    BY <2>6, WithStepEffect
  <2>8. Get(f[0], SubSeq(path, 1, i + 1)) = Step(Get(f[0], SubSeq(path, 1, i)), path[i + 1])
    BY <2>4, GetPrefix
  <2> QED
    BY <2>2, <2>4, <2>5, <2>7, <2>8
<1>2. n \notin Y /\ n \in 0 .. n
  BY <1>0, <1>1
<1> QED
  BY <1>2

LEMMA SplitAt ==
  ASSUME NEW X, NEW p \in Seq(X), NEW n \in 0 .. Len(p)
  PROVE  \E r \in Seq(X) : p = SubSeq(p, 1, n) \o r /\ Len(r) = Len(p) - n
<1>1. Len(p) \in Nat /\ n \in Nat /\ n <= Len(p)
  OBVIOUS
<1> DEFINE q == SubSeq(p, 1, n)
           r == SubSeq(p, n + 1, Len(p))
<1>2. q \in Seq(X) /\ Len(q) = n /\ \A i \in 1 .. n : q[i] = p[i]
  BY PrefixEffect
<1>3. r \in Seq(X) /\ Len(r) = Len(p) - n /\ \A i \in 1 .. Len(p) - n : r[i] = p[i + n]
  BY <1>1
<1> HIDE DEF q, r
<1>4. /\ q \o r \in Seq(X) /\ Len(q \o r) = Len(q) + Len(r)
      /\ \A i \in 1 .. Len(q) + Len(r) :
           (q \o r)[i] = IF i <= Len(q) THEN q[i] ELSE r[i - Len(q)]
  <2>1. q \in Seq(X) /\ r \in Seq(X)
    BY <1>2, <1>3
  <2> QED
    BY ONLY <2>1, ConcatProperties
<1>5. Len(q) + Len(r) = Len(p)
  BY <1>1, <1>2, <1>3
<1>6. ASSUME NEW i \in 1 .. Len(p)
      PROVE  (q \o r)[i] = p[i]
  <2>1. CASE i <= n
    BY <1>1, <1>2, <1>4, <1>5, <2>1
  <2>2. CASE ~(i <= n)
    <3>1. i - n \in 1 .. Len(p) - n /\ (i - n) + n = i
      BY <1>1, <2>2
    <3> QED
      BY <1>2, <1>3, <1>4, <1>5, <2>2, <3>1
  <2> QED
    BY <2>1, <2>2
<1>7. q \o r = p
  BY <1>4, <1>5, <1>6, SeqEqual
<1> QED
  BY <1>3, <1>7 DEF q

LEMMA GetOfMissing ==
  ASSUME NEW X, NEW r \in Seq(X)
  PROVE  Get(Missing, r) = Missing
<1>1. Steps(Missing) = {}
  BY DEF Steps, Children, Missing, IsDict, IsList
<1>2. \A v \in {Missing} : \A k \in Steps(v) : Children(v)[k] \in {Missing}
  BY <1>1
<1>3. Missing \in {Missing}
  OBVIOUS
<1>4. Get(Missing, r) \in {Missing} \cup {Missing}
  BY <1>2, <1>3, GetClosed
<1> QED
  BY <1>4

(* Where something is found, the way is open.                              *)
LEMMA FoundOn ==
  ASSUME NEW X, NEW path \in Seq(X), NEW obj, Get(obj, path) # Missing,
         NEW n \in Nat, n < Len(path)
  PROVE  path[n + 1] \in Steps(Get(obj, SubSeq(path, 1, n)))
<1>1. n + 1 \in 0 .. Len(path)
  OBVIOUS
<1>2. PICK r \in Seq(X) : path = SubSeq(path, 1, n + 1) \o r
  BY <1>1, SplitAt
<1>3. SubSeq(path, 1, n + 1) \in Seq(X)
  BY <1>1, PrefixEffect
<1>4. Get(obj, SubSeq(path, 1, n + 1)) # Missing
  <2> DEFINE q == SubSeq(path, 1, n + 1)
  <2>1. q \in Seq(X) /\ path = q \o r
    BY <1>2, <1>3
  <2> HIDE DEF q
  <2>2. Get(obj, q \o r) = Get(Get(obj, q), r)
    BY <2>1, GetConcat
  <2>3. Get(obj, q) # Missing
    BY <2>1, <2>2, GetOfMissing
  <2> QED
    BY <2>3 DEF q
<1>5. Step(Get(obj, SubSeq(path, 1, n)), path[n + 1]) # Missing
  BY <1>4, GetPrefix
<1> QED
  BY <1>5 DEF Step

LEMMA SetThere ==
  ASSUME NEW X, NEW path \in Seq(X), NEW obj, NEW value
  PROVE  Get(Set(obj, path, value), path) = value
<1>1. PICK f : SetFrom(f, obj, path, value, 0) /\ Set(obj, path, value) = f[0]
  BY SetMeans
<1>2. Len(path) \in 0 .. Len(path) /\ SubSeq(path, 1, Len(path)) = path
  BY PrefixEnds
<1>3. f[Len(path)] = value
  <2>1. Len(path) \in 0 .. Len(path)
    BY <1>2
  <2> QED
    BY ONLY <1>1, <2>1 DEF SetFrom
<1>4. path \in Seq(X) /\ SetFrom(f, obj, path, value, 0) /\ Len(path) \in 0 .. Len(path)
  BY <1>1, <1>2
<1>5. Get(f[0], SubSeq(path, 1, Len(path))) = f[Len(path)]
  BY ONLY <1>4, SetAlong
<1> QED
  BY <1>1, <1>2, <1>3, <1>5

(* What is above the end of the path, on it.                               *)
LEMMA SetAbove ==
  ASSUME NEW X, NEW path \in Seq(X), NEW obj, NEW value,
         NEW n \in Nat, n < Len(path)
  PROVE  \E new : Get(Set(obj, path, value), SubSeq(path, 1, n)) =
                    WithStep(Get(obj, SubSeq(path, 1, n)), path[n + 1], new)
<1>1. PICK f : SetFrom(f, obj, path, value, 0) /\ Set(obj, path, value) = f[0]
  BY SetMeans
<1>2. n \in 0 .. Len(path) /\ n # Len(path)
  OBVIOUS
<1>3. f[n] = Rebuilt(obj, path, n, f[n + 1])
  BY <1>1, <1>2 DEF SetFrom
<1>4. path \in Seq(X) /\ SetFrom(f, obj, path, value, 0) /\ n \in 0 .. Len(path)
  BY <1>1, <1>2
<1>5. Get(f[0], SubSeq(path, 1, n)) = f[n]
  BY ONLY <1>4, SetAlong
<1> QED
  BY <1>1, <1>3, <1>5 DEF Rebuilt

(* What is beside the path.                                                *)
LEMMA SetBeside ==
  ASSUME NEW X, NEW path \in Seq(X), NEW q \in Seq(X), NEW obj, NEW value,
         NEW n \in Nat, n < Len(path), n < Len(q),
         SubSeq(q, 1, n) = SubSeq(path, 1, n), q[n + 1] # path[n + 1]
  PROVE  Get(Set(obj, path, value), q) = Get(obj, q)
<1>0. path \in Seq(X) /\ n \in Nat /\ n < Len(path)
  OBVIOUS
<1> DEFINE new == Set(obj, path, value)
<1> HIDE DEF new
<1>1. PICK v : Get(new, SubSeq(path, 1, n)) = WithStep(Get(obj, SubSeq(path, 1, n)), path[n + 1], v)
  BY ONLY <1>0, SetAbove DEF new
<1>2. Step(Get(new, SubSeq(path, 1, n)), q[n + 1]) = Step(Get(obj, SubSeq(path, 1, n)), q[n + 1])
  BY <1>1, WithStepEffect
<1>3. Get(new, SubSeq(q, 1, n + 1)) = Get(obj, SubSeq(q, 1, n + 1))
  BY <1>2, GetPrefix
<1>4. n + 1 \in 0 .. Len(q)
  OBVIOUS
<1>5. PICK r \in Seq(X) : q = SubSeq(q, 1, n + 1) \o r
  BY <1>4, SplitAt
<1>6. SubSeq(q, 1, n + 1) \in Seq(X)
  BY <1>4, PrefixEffect
<1> DEFINE s == SubSeq(q, 1, n + 1)
<1>7. s \in Seq(X) /\ q = s \o r /\ Get(new, s) = Get(obj, s)
  BY <1>3, <1>5, <1>6
<1> HIDE DEF s
<1>8. Get(new, s \o r) = Get(Get(new, s), r) /\ Get(obj, s \o r) = Get(Get(obj, s), r)
  BY <1>7, GetConcat
<1> QED
  BY <1>7, <1>8 DEF new

---------------------------------------------------------------------------
(* Patches applied one after the other, in whatever order is chosen.       *)

AppliedUpTo(f, patches, obj, all) ==
  f = [s \in SUBSET all |->
         IF s = {} THEN obj
         ELSE LET x == CHOOSE y \in s : TRUE IN Apply(x, f[s \ {x}])]

LEMMA AppliedMeans ==
  ASSUME NEW patches, NEW obj, \E f : AppliedUpTo(f, patches, obj, patches)
  PROVE  \E f : AppliedUpTo(f, patches, obj, patches) /\ Applied(patches, obj) = f[patches]
<1> DEFINE F == CHOOSE f : AppliedUpTo(f, patches, obj, patches)
<1>1. Applied(patches, obj) = F[patches]
  BY DEF Applied, FoldSet, MapThenFoldSet, AppliedUpTo
<1>2. AppliedUpTo(F, patches, obj, patches)
  OBVIOUS
<1> QED
  BY <1>1, <1>2

LEMMA AppliedExists ==
  ASSUME NEW patches, IsFiniteSet(patches), NEW obj
  PROVE  \E f : AppliedUpTo(f, patches, obj, patches)
<1> DEFINE D(n) == {s \in SUBSET patches : Cardinality(s) <= n}
           UpTo(f, n) ==
             f = [s \in D(n) |-> IF s = {} THEN obj
                                 ELSE LET x == CHOOSE y \in s : TRUE IN Apply(x, f[s \ {x}])]
           Y == {n \in Nat : ~\E f : UpTo(f, n)}
<1>1. \A s \in SUBSET patches : IsFiniteSet(s) /\ Cardinality(s) \in Nat
  BY FS_Subset, FS_CardinalityType
<1>2. \A s \in SUBSET patches : s # {} =>
        LET t == s \ {CHOOSE y \in s : TRUE}
        IN t \in SUBSET patches /\ Cardinality(t) = Cardinality(s) - 1
  BY <1>1, FS_RemoveElement
<1>3. \A s \in SUBSET patches : Cardinality(s) = 0 <=> s = {}
  BY <1>1, FS_EmptySet
<1>4. Y = {}
  <2> SUFFICES ASSUME Y # {} PROVE FALSE
    OBVIOUS
  <2>1. PICK n \in Y : \A m \in Y : n <= m
    BY Least
  <2>2. CASE n = 0
    <3> DEFINE f == [s \in D(0) |-> obj]
    <3>1. \A s \in D(0) : s = {}
      BY <1>1, <1>3
    <3>2. UpTo(f, 0)
      BY <3>1
    <3> QED
      BY <2>1, <2>2, <3>2
  <2>3. CASE n # 0
    <3>1. n - 1 \in Nat /\ n - 1 \notin Y
      <4>1. n \in Nat
        OBVIOUS
      <4> HIDE DEF Y
      <4>2. n - 1 \in Nat /\ ~(n <= n - 1)
        BY <2>3, <4>1
      <4> QED
        BY <2>1, <4>2
    <3>2. PICK f : UpTo(f, n - 1)
      BY <3>1
    <3> DEFINE Next1(h, s) == LET x == CHOOSE y \in s : TRUE IN Apply(x, h[s \ {x}])
               g == [s \in D(n) |-> IF s = {} THEN obj ELSE Next1(f, s)]
    <3>3. ASSUME NEW s \in D(n - 1), s # {}
          PROVE  f[s] = Next1(f, s)
      BY <3>2, <3>3
    <3>4. ASSUME NEW s \in D(n), s # {}
          PROVE  s \ {CHOOSE y \in s : TRUE} \in D(n - 1)
      BY <1>1, <1>2, <3>4
    <3>5. ASSUME NEW s \in D(n - 1)
          PROVE  g[s] = f[s]
      <4>1. s \in D(n)
        BY <1>1, <2>1, <3>1
      <4>2. s = {} => f[s] = obj
        BY <3>2
      <4> HIDE DEF Next1, D
      <4> QED
        BY <3>3, <4>1, <4>2
    <3>6. ASSUME NEW s \in D(n), s # {}
          PROVE  Next1(f, s) = Next1(g, s)
      <4> HIDE DEF g, D
      <4> QED
        BY <3>4, <3>5, <3>6
    <3>7. g = [s \in D(n) |-> IF s = {} THEN obj ELSE Next1(g, s)]
      <4> HIDE DEF Next1
      <4>1. \A s \in D(n) : (IF s = {} THEN obj ELSE Next1(f, s)) = (IF s = {} THEN obj ELSE Next1(g, s))
        BY <3>6
      <4> HIDE DEF D
      <4> QED
        BY <4>1
    <3>8. UpTo(g, n)
      BY <3>7
    <3> QED
      BY <2>1, <3>8
  <2> QED
    BY <2>2, <2>3
<1>5. Cardinality(patches) \in Nat
  BY FS_CardinalityType
<1>6. PICK f : UpTo(f, Cardinality(patches))
  BY <1>4, <1>5
<1>7. D(Cardinality(patches)) = SUBSET patches
  BY FS_Subset
<1>8. AppliedUpTo(f, patches, obj, patches)
  BY <1>6, <1>7 DEF AppliedUpTo
<1> QED
  BY <1>8

---------------------------------------------------------------------------
(* Paths above, below and beside each other.                               *)

LEMMA PrefixIs ==
  ASSUME NEW X, NEW p \in Seq(X), NEW q \in Seq(X)
  PROVE  /\ IsPrefix(p, q) <=> Len(p) <= Len(q) /\ SubSeq(q, 1, Len(p)) = p
         /\ IsPrefix(p, q) => \E r \in Seq(X) : q = p \o r
<1>1. SubSeq(p, 1, Len(p)) = p /\ Len(p) \in Nat /\ Len(q) \in Nat
  BY PrefixEnds
<1>2. IsPrefix(p, q) <=> Len(p) <= Len(q) /\ SubSeq(q, 1, Len(p)) = p
  BY <1>1 DEF IsPrefix
<1>3. ASSUME IsPrefix(p, q) PROVE \E r \in Seq(X) : q = p \o r
  <2>1. Len(p) \in 0 .. Len(q)
    BY <1>1, <1>2, <1>3
  <2> DEFINE n == Len(p)
  <2>2. q \in Seq(X) /\ n \in 0 .. Len(q)
    BY <2>1
  <2> HIDE DEF n
  <2>3. PICK r \in Seq(X) : q = SubSeq(q, 1, n) \o r
    BY ONLY <2>2, SplitAt
  <2> QED
    BY <1>2, <1>3, <2>3 DEF n
<1> QED
  BY <1>2, <1>3

LEMMA ConcatPrefix ==
  ASSUME NEW X, NEW p \in Seq(X), NEW r \in Seq(X)
  PROVE  /\ p \o r \in Seq(X) /\ IsPrefix(p, p \o r) /\ Len(p \o r) = Len(p) + Len(r)
         /\ \A i \in 1 .. Len(p) : (p \o r)[i] = p[i]
         /\ \A i \in 1 .. Len(r) : (p \o r)[Len(p) + i] = r[i]
<1> DEFINE q == p \o r
<1>1. /\ q \in Seq(X) /\ Len(q) = Len(p) + Len(r)
      /\ \A i \in 1 .. Len(p) + Len(r) : q[i] = IF i <= Len(p) THEN p[i] ELSE r[i - Len(p)]
  BY ConcatProperties
<1>2. Len(p) \in Nat /\ Len(r) \in Nat
  OBVIOUS
<1> HIDE DEF q
<1>3. Len(p) \in 0 .. Len(q)
  BY <1>1, <1>2
<1>4. /\ SubSeq(q, 1, Len(p)) \in Seq(X) /\ Len(SubSeq(q, 1, Len(p))) = Len(p)
      /\ \A i \in 1 .. Len(p) : SubSeq(q, 1, Len(p))[i] = q[i]
  BY <1>1, <1>3, PrefixEffect
<1>5. \A i \in 1 .. Len(p) : q[i] = p[i]
  BY <1>1, <1>2
<1>6. \A i \in 1 .. Len(r) : q[Len(p) + i] = r[i]
  <2> SUFFICES ASSUME NEW i \in 1 .. Len(r) PROVE q[Len(p) + i] = r[i]
    OBVIOUS
  <2>1. Len(p) + i \in 1 .. Len(p) + Len(r) /\ ~(Len(p) + i <= Len(p)) /\ Len(p) + i - Len(p) = i
    BY <1>2
  <2> QED
    BY <1>1, <2>1
<1>7. SubSeq(q, 1, Len(p)) = p
  BY <1>4, <1>5, SeqEqual
<1>8. IsPrefix(p, q)
  <2>1. p \in Seq(X) /\ q \in Seq(X) /\ Len(p) <= Len(q) /\ SubSeq(q, 1, Len(p)) = p
    BY <1>1, <1>3, <1>7
  <2> QED
    BY ONLY <2>1, PrefixIs
<1> QED
  BY <1>1, <1>5, <1>6, <1>8 DEF q

LEMMA PrefixTrans ==
  ASSUME NEW X, NEW p \in Seq(X), NEW q \in Seq(X), NEW r \in Seq(X), IsPrefix(p, q), IsPrefix(q, r)
  PROVE  IsPrefix(p, r)
<1>1. /\ Len(p) <= Len(q) /\ SubSeq(q, 1, Len(p)) = p
      /\ Len(q) <= Len(r) /\ SubSeq(r, 1, Len(q)) = q
  BY PrefixIs
<1>2. Len(q) \in 0 .. Len(r) /\ Len(p) \in 0 .. Len(q) /\ Len(p) <= Len(r)
  BY <1>1
<1>3. SubSeq(SubSeq(r, 1, Len(q)), 1, Len(p)) = SubSeq(r, 1, Len(p))
  BY <1>2, PrefixOfPrefix
<1> QED
  BY <1>1, <1>2, <1>3, PrefixIs

LEMMA PrefixesCompare ==
  ASSUME NEW X, NEW p \in Seq(X), NEW q \in Seq(X), NEW r \in Seq(X), IsPrefix(p, r), IsPrefix(q, r)
  PROVE  IsPrefix(p, q) \/ IsPrefix(q, p)
<1>1. /\ Len(p) <= Len(r) /\ SubSeq(r, 1, Len(p)) = p
      /\ Len(q) <= Len(r) /\ SubSeq(r, 1, Len(q)) = q
      /\ Len(p) \in Nat /\ Len(q) \in Nat /\ Len(r) \in Nat
  BY PrefixIs
<1>2. CASE Len(p) <= Len(q)
  <2>1. Len(q) \in 0 .. Len(r) /\ Len(p) \in 0 .. Len(q)
    BY <1>1, <1>2
  <2>2. SubSeq(SubSeq(r, 1, Len(q)), 1, Len(p)) = SubSeq(r, 1, Len(p))
    BY <2>1, PrefixOfPrefix
  <2> QED
    BY <1>1, <1>2, <2>2, PrefixIs
<1>3. CASE Len(q) <= Len(p)
  <2>1. Len(p) \in 0 .. Len(r) /\ Len(q) \in 0 .. Len(p)
    BY <1>1, <1>3
  <2>2. SubSeq(SubSeq(r, 1, Len(p)), 1, Len(q)) = SubSeq(r, 1, Len(q))
    BY <2>1, PrefixOfPrefix
  <2> QED
    BY <1>1, <1>3, <2>2, PrefixIs
<1> QED
  BY <1>1, <1>2, <1>3

LEMMA PrefixBoth ==
  ASSUME NEW X, NEW p \in Seq(X), NEW q \in Seq(X), IsPrefix(p, q), IsPrefix(q, p)
  PROVE  p = q
<1>1. Len(p) <= Len(q) /\ SubSeq(q, 1, Len(p)) = p /\ Len(q) <= Len(p)
  BY PrefixIs
<1>2. Len(p) = Len(q) /\ SubSeq(q, 1, Len(q)) = q
  BY <1>1, PrefixEnds
<1> QED
  BY <1>1, <1>2

LEMMA PrefixProper ==
  ASSUME NEW X, NEW p \in Seq(X), NEW q \in Seq(X), IsPrefix(p, q), p # q
  PROVE  /\ Len(p) \in Nat /\ Len(p) < Len(q) /\ SubSeq(q, 1, Len(p)) = p
         /\ q # <<>> /\ IsPrefix(p, Front(q))
<1>1. Len(p) <= Len(q) /\ SubSeq(q, 1, Len(p)) = p /\ Len(p) \in Nat /\ Len(q) \in Nat
  BY PrefixIs
<1>2. Len(p) # Len(q)
  BY <1>1, PrefixEnds
<1>3. q # <<>>
  BY <1>1, <1>2
<1>4. /\ Front(q) \in Seq(X) /\ Len(Front(q)) = Len(q) - 1
  BY <1>3, FrontLast
<1>5. Len(q) - 1 \in 0 .. Len(q) /\ Len(p) \in 0 .. Len(q) - 1 /\ Len(p) <= Len(q) - 1
  BY <1>1, <1>2
<1>6. SubSeq(Front(q), 1, Len(p)) = SubSeq(q, 1, Len(p))
  BY <1>5, PrefixOfPrefix DEF Front
<1>7. IsPrefix(p, Front(q))
  <2>1. /\ p \in Seq(X) /\ Front(q) \in Seq(X) /\ Len(p) <= Len(Front(q))
        /\ SubSeq(Front(q), 1, Len(p)) = p
    BY <1>1, <1>4, <1>5, <1>6
  <2> QED
    BY ONLY <2>1, PrefixIs
<1> QED
  BY <1>1, <1>2, <1>3, <1>5, <1>7

LEMMA AppendPrefix ==
  ASSUME NEW X, NEW p \in Seq(X), NEW k \in X
  PROVE  /\ IsPrefix(p, Append(p, k)) /\ IsPrefix(p, p) /\ ~IsPrefix(Append(p, k), p)
         /\ \A q \in Seq(X) : IsPrefix(q, Append(p, k)) => q = Append(p, k) \/ IsPrefix(q, p)
<1>1. /\ Append(p, k) \in Seq(X) /\ Len(Append(p, k)) = Len(p) + 1 /\ Front(Append(p, k)) = p
      /\ p \o <<k>> = Append(p, k) /\ <<k>> \in Seq(X) /\ Len(p) \in Nat
  BY AppendEffect
<1>2. IsPrefix(p, Append(p, k))
  BY <1>1, ConcatPrefix
<1>3. IsPrefix(p, p)
  BY <1>1, PrefixEnds DEF IsPrefix
<1>4. ~IsPrefix(Append(p, k), p)
  BY <1>1 DEF IsPrefix
<1>5. \A q \in Seq(X) : IsPrefix(q, Append(p, k)) => q = Append(p, k) \/ IsPrefix(q, p)
  BY <1>1, PrefixProper
<1> QED
  BY <1>2, <1>3, <1>4, <1>5

Beside(p, q) == ~IsPrefix(p, q) /\ ~IsPrefix(q, p)

(* Paths beside each other part at a step.                                 *)
PartAt(p, q, n) ==
  /\ n \in Nat /\ n < Len(p) /\ n < Len(q)
  /\ SubSeq(p, 1, n) = SubSeq(q, 1, n) /\ p[n + 1] # q[n + 1]

LEMMA PathsPart ==
  ASSUME NEW X, NEW p \in Seq(X), NEW q \in Seq(X), Beside(p, q)
  PROVE  \E n : PartAt(p, q, n)
<1> DEFINE Y == {n \in Nat : n = Len(p) \/ n = Len(q) \/ p[n + 1] # q[n + 1]}
<1>0. Len(p) \in Nat /\ Len(q) \in Nat
  OBVIOUS
<1>1. PICK m \in Y : \A n \in Y : m <= n
  <2>1. Y \in SUBSET Nat /\ Len(p) \in Y
    BY <1>0
  <2> HIDE DEF Y
  <2> QED
    BY <2>1, Least
<1>2. /\ m \in Nat /\ m <= Len(p) /\ m <= Len(q)
      /\ m = Len(p) \/ m = Len(q) \/ p[m + 1] # q[m + 1]
  <2>1. Len(p) \in Y /\ Len(q) \in Y
    BY <1>0
  <2> QED
    BY <1>1, <2>1
<1>3. \A n \in Nat : n < m => p[n + 1] = q[n + 1]
  <2>1. \A n \in Nat : n < m => ~(m <= n)
    BY <1>2
  <2> QED
    BY <1>1, <2>1
<1>4. SubSeq(p, 1, m) = SubSeq(q, 1, m)
  <2>1. m \in 0 .. Len(p) /\ m \in 0 .. Len(q)
    BY <1>0, <1>2
  <2>2. /\ SubSeq(p, 1, m) \in Seq(X) /\ Len(SubSeq(p, 1, m)) = m
        /\ \A i \in 1 .. m : SubSeq(p, 1, m)[i] = p[i]
    BY <2>1, PrefixEffect
  <2>3. /\ SubSeq(q, 1, m) \in Seq(X) /\ Len(SubSeq(q, 1, m)) = m
        /\ \A i \in 1 .. m : SubSeq(q, 1, m)[i] = q[i]
    BY <2>1, PrefixEffect
  <2>4. \A i \in 1 .. m : p[i] = q[i]
    <3> SUFFICES ASSUME NEW i \in 1 .. m PROVE p[i] = q[i]
      OBVIOUS
    <3>1. i - 1 \in Nat /\ i - 1 < m /\ (i - 1) + 1 = i
      BY <1>2
    <3> QED
      BY <1>3, <3>1
  <2>5. \A i \in 1 .. m : SubSeq(p, 1, m)[i] = SubSeq(q, 1, m)[i]
    BY <2>2, <2>3, <2>4
  <2> QED
    BY <2>2, <2>3, <2>5, SeqEqual
<1>6. m # Len(p) /\ m # Len(q)
  BY <1>0, <1>2, <1>4, PrefixEnds, PrefixIs DEF Beside
<1>8. PartAt(p, q, m)
  BY <1>0, <1>2, <1>4, <1>6 DEF PartAt
<1> QED
  BY <1>8

---------------------------------------------------------------------------
(* What a path leads through: dictionaries and lists.                      *)

AllSteps == Keys \cup Nat

LEMMA KeysAreSteps ==
  /\ Keys \subseteq AllSteps /\ Nat \subseteq AllSteps
  /\ Seq(Keys) \subseteq Seq(AllSteps)
<1>1. Keys \subseteq AllSteps /\ Nat \subseteq AllSteps
  BY DEF AllSteps
<1>2. ASSUME NEW p \in Seq(Keys)
      PROVE  p \in Seq(AllSteps)
  <2>1. Len(p) \in Nat /\ \A i \in 1 .. Len(p) : p[i] \in AllSteps
    BY <1>1
  <2>2. p = [i \in 1 .. Len(p) |-> p[i]]
    OBVIOUS
  <2> QED
    BY <2>1, <2>2
<1> QED
  BY <1>1, <1>2

Formed(v) ==
  IsContainer(v) =>
    Steps(v) \subseteq AllSteps /\ v = WithChildren(v, [k \in Steps(v) |-> Children(v)[k]])

(* Both are dictionaries, both are lists, or neither is either.            *)
OneShape(v, w) == (IsDict(v) <=> IsDict(w)) /\ (IsList(v) <=> IsList(w))

WellFormed(obj) == \A q \in Seq(AllSteps) : Formed(Get(obj, q))

OnContainers(obj, p) == \A n \in Nat : n < Len(p) => IsContainer(Get(obj, SubSeq(p, 1, n)))

LEMMA NoSteps ==
  ASSUME NEW v, ~IsContainer(v), NEW k
  PROVE  k \notin Steps(v) /\ Step(v, k) = Missing
BY DEF IsContainer, Steps, Children, Step

LEMMA WellFormedBelow ==
  ASSUME NEW obj, WellFormed(obj), NEW p \in Seq(AllSteps)
  PROVE  WellFormed(Get(obj, p))
<1> SUFFICES ASSUME NEW q \in Seq(AllSteps) PROVE Formed(Get(Get(obj, p), q))
  BY DEF WellFormed
<1>1. Get(obj, p \o q) = Get(Get(obj, p), q)
  BY GetConcat
<1>2. p \o q \in Seq(AllSteps)
  BY ConcatPrefix
<1> QED
  BY <1>1, <1>2 DEF WellFormed

LEMMA MissingTree == WellFormed(Missing)
<1>1. \A q \in Seq(AllSteps) : Get(Missing, q) = Missing
  BY GetOfMissing
<1>2. Formed(Missing)
  BY DEF Formed, Missing, IsContainer, IsList, IsDict
<1> QED
  BY <1>1, <1>2 DEF WellFormed

LEMMA FoundOnContainers ==
  ASSUME NEW obj, NEW p \in Seq(AllSteps), Get(obj, p) # Missing
  PROVE  OnContainers(obj, p)
<1> SUFFICES ASSUME NEW n \in Nat, n < Len(p) PROVE IsContainer(Get(obj, SubSeq(p, 1, n)))
  BY DEF OnContainers
<1>1. p[n + 1] \in Steps(Get(obj, SubSeq(p, 1, n)))
  BY FoundOn
<1> QED
  BY <1>1, NoSteps

LEMMA OnContainersTo ==
  ASSUME NEW obj, NEW p \in Seq(AllSteps), p = <<>> \/ IsContainer(Get(obj, Front(p)))
  PROVE  OnContainers(obj, p)
<1> SUFFICES ASSUME NEW n \in Nat, n < Len(p) PROVE IsContainer(Get(obj, SubSeq(p, 1, n)))
  BY DEF OnContainers
<1>1. p # <<>> /\ Len(p) \in Nat
  OBVIOUS
<1>2. Front(p) = SubSeq(p, 1, Len(p) - 1) /\ Front(p) \in Seq(AllSteps) /\ Len(Front(p)) = Len(p) - 1
  BY <1>1, FrontLast DEF Front
<1>3. CASE n = Len(p) - 1
  BY <1>1, <1>2, <1>3
<1>4. CASE n # Len(p) - 1
  <2>1. n < Len(Front(p)) /\ Len(p) - 1 \in 0 .. Len(p) /\ n \in 0 .. Len(p) - 1
    BY <1>1, <1>2, <1>4
  <2>2. OnContainers(obj, Front(p))
    <3>1. Get(obj, Front(p)) # Missing
      BY <1>1 DEF IsContainer, IsDict, IsList, Missing
    <3> QED
      BY <1>2, <3>1, FoundOnContainers
  <2>3. SubSeq(Front(p), 1, n) = SubSeq(p, 1, n)
    BY <1>2, <2>1, PrefixOfPrefix
  <2> QED
    BY <2>1, <2>2, <2>3 DEF OnContainers
<1> QED
  BY <1>3, <1>4

(* What is set at the end of containers, seen beside it, below it and      *)
(* above it.                                                               *)
LEMMA SetOnContainersBeside ==
  ASSUME NEW obj, NEW p \in Seq(AllSteps), OnContainers(obj, p), NEW value, NEW q \in Seq(AllSteps), Beside(p, q)
  PROVE  Get(Set(obj, p, value), q) = Get(obj, q)
<1>1. Len(p) \in Nat /\ Len(q) \in Nat
  OBVIOUS
<1>2. PICK n : PartAt(p, q, n)
  BY PathsPart
<1>3. /\ p \in Seq(AllSteps) /\ q \in Seq(AllSteps) /\ n \in Nat /\ n < Len(p) /\ n < Len(q)
      /\ SubSeq(q, 1, n) = SubSeq(p, 1, n) /\ q[n + 1] # p[n + 1]
  BY <1>1, <1>2 DEF PartAt
<1> QED
  BY ONLY <1>3, SetBeside

LEMMA SetOnContainersBelow ==
  ASSUME NEW obj, NEW p \in Seq(AllSteps), OnContainers(obj, p), NEW value, NEW r \in Seq(AllSteps)
  PROVE  Get(Set(obj, p, value), p \o r) = Get(value, r)
BY SetThere, GetConcat

LEMMA WithChildrenFormed ==
  ASSUME NEW v, NEW f, f = [k \in DOMAIN f |-> f[k]], DOMAIN f \subseteq AllSteps
  PROVE  Formed(WithChildren(v, f))
<1> DEFINE w == WithChildren(v, f)
<1>1. /\ IsList(w) <=> IsList(v)
      /\ Children(w) = f /\ Steps(w) = DOMAIN f
  BY WithChildrenEffect
<1>2. [k \in Steps(w) |-> Children(w)[k]] = f
  BY <1>1
<1>3. WithChildren(w, f) = w
  BY <1>1 DEF WithChildren
<1> HIDE DEF w
<1>4. Formed(w)
  BY <1>1, <1>2, <1>3 DEF Formed
<1> QED
  BY <1>4 DEF w

LEMMA WithStepOfContainer ==
  ASSUME NEW v, IsContainer(v), Formed(v), NEW k \in AllSteps, NEW value
  PROVE  /\ IsContainer(WithStep(v, k, value)) /\ OneShape(WithStep(v, k, value), v)
         /\ Formed(WithStep(v, k, value))
         /\ Steps(WithStep(v, k, value)) = Steps(v) \cup {k}
<1> DEFINE f == [j \in Steps(v) \cup {k} |-> IF j = k THEN value ELSE Children(v)[j]]
<1>1. WithStep(v, k, value) = WithChildren(v, f)
  BY DEF WithStep
<1>2. DOMAIN f = Steps(v) \cup {k} /\ f = [j \in DOMAIN f |-> f[j]]
  OBVIOUS
<1>3. Steps(v) \subseteq AllSteps
  BY DEF Formed
<1> HIDE DEF f
<1>4. Formed(WithChildren(v, f))
  BY <1>2, <1>3, WithChildrenFormed
<1>5. IsDict(v) <=> ~IsList(v)
  BY DEF IsContainer, IsDict, IsList
<1> QED
  BY <1>1, <1>4, <1>5, WithStepEffect DEF IsContainer, OneShape

LEMMA SetOnContainersAbove ==
  ASSUME NEW obj, WellFormed(obj), NEW p \in Seq(AllSteps), OnContainers(obj, p), NEW value,
         NEW q \in Seq(AllSteps), IsPrefix(q, p), p # q
  PROVE  /\ IsContainer(Get(obj, q)) /\ OneShape(Get(Set(obj, p, value), q), Get(obj, q))
         /\ Formed(Get(Set(obj, p, value), q))
         /\ Steps(Get(Set(obj, p, value), q)) = Steps(Get(obj, q)) \cup {p[Len(q) + 1]}
<1> DEFINE n == Len(q)
           new == Set(obj, p, value)
<1>1. n \in Nat /\ n < Len(p) /\ SubSeq(p, 1, n) = q
  BY PrefixProper
<1>2. IsContainer(Get(obj, q)) /\ Formed(Get(obj, q)) /\ p[n + 1] \in AllSteps
  <2>1. IsContainer(Get(obj, q)) /\ Formed(Get(obj, q))
    BY <1>1 DEF OnContainers, WellFormed
  <2>2. n + 1 \in 1 .. Len(p)
    BY <1>1
  <2> QED
    BY <2>1, <2>2
<1>3. p \in Seq(AllSteps) /\ n \in Nat /\ n < Len(p)
  BY <1>1
<1> HIDE DEF n, new
<1>4. PICK v : Get(new, SubSeq(p, 1, n)) = WithStep(Get(obj, SubSeq(p, 1, n)), p[n + 1], v)
  BY ONLY <1>3, SetAbove DEF new
<1>5. /\ OneShape(Get(new, q), Get(obj, q)) /\ Formed(Get(new, q))
      /\ Steps(Get(new, q)) = Steps(Get(obj, q)) \cup {p[n + 1]}
  <2> DEFINE o == Get(obj, q)
             k == p[n + 1]
  <2>1. IsContainer(o) /\ Formed(o) /\ k \in AllSteps /\ Get(new, q) = WithStep(o, k, v)
    BY <1>1, <1>2, <1>4
  <2> HIDE DEF o, k
  <2>2. /\ OneShape(WithStep(o, k, v), o) /\ Formed(WithStep(o, k, v))
        /\ Steps(WithStep(o, k, v)) = Steps(o) \cup {k}
    BY ONLY <2>1, WithStepOfContainer
  <2> QED
    BY <2>1, <2>2 DEF o, k
<1> QED
  BY <1>2, <1>5 DEF n, new

---------------------------------------------------------------------------
(* What patches do that are beside each other.                             *)

PatchOK(x) ==
  /\ x.path \in Seq(AllSteps) /\ x.path # <<>> /\ WellFormed(x.value)
  /\ x.type = "remove" => x.value = Missing

PatchesOK(patches) ==
  /\ \A x \in patches : PatchOK(x)
  /\ \A x, y \in patches : x # y => Beside(x.path, y.path)

(* A patch that shows nothing at a path: it is beside it, or removes what  *)
(* is not there.                                                           *)
Absent(obj, p) == Last(p) \notin Steps(Get(obj, Front(p)))

Quiet(x, obj, q) == Beside(x.path, q) \/ (x.type = "remove" /\ Absent(obj, x.path))

(* Nothing changes beside the patches, what is below one is what it says,  *)
(* and the container above loses or gains its step.                        *)
Effect(patches, obj, new) ==
  /\ WellFormed(new)
  /\ \A x \in patches : \A r \in Seq(AllSteps) : Get(new, x.path \o r) = Get(x.value, r)
  /\ \A q \in Seq(AllSteps) :
       /\ (\A x \in patches : Quiet(x, obj, q)) => Get(new, q) = Get(obj, q)
       /\ (\A x \in patches : ~IsPrefix(x.path, q)) =>
            /\ OneShape(Get(new, q), Get(obj, q))
            /\ ~IsContainer(Get(obj, q)) => Get(new, q) = Get(obj, q)
            /\ \A k \in AllSteps :
                 k \in Steps(Get(new, q)) <=>
                   IF \E x \in patches : x.path = Append(q, k)
                   THEN IsContainer(Get(obj, q)) /\ \E x \in patches : x.path = Append(q, k) /\ x.type # "remove"
                   ELSE k \in Steps(Get(obj, q))

LEMMA EffectOfNone ==
  ASSUME NEW obj, WellFormed(obj)
  PROVE  Effect({}, obj, obj)
BY DEF Effect, OneShape

(* A path is below another, above it or beside it.                         *)
LEMMA ThreeWays ==
  ASSUME NEW X, NEW p \in Seq(X), NEW q \in Seq(X)
  PROVE  (\E r \in Seq(X) : q = p \o r) \/ (IsPrefix(q, p) /\ p # q) \/ Beside(p, q)
<1>1. CASE IsPrefix(p, q)
  BY <1>1, PrefixIs
<1>2. CASE ~IsPrefix(p, q)
  <2>1. p # q
    BY <1>2, PrefixEnds DEF IsPrefix
  <2> QED
    BY <1>2, <2>1 DEF Beside
<1> QED
  BY <1>1, <1>2

LEMMA EffectOfSetting ==
  ASSUME NEW x, PatchOK(x), x.type # "remove", NEW obj, WellFormed(obj), IsContainer(Get(obj, Front(x.path)))
  PROVE  Effect({x}, obj, Set(obj, x.path, x.value))
<1> DEFINE p == x.path
           new == Set(obj, p, x.value)
<1>0. p \in Seq(AllSteps) /\ p # <<>> /\ WellFormed(x.value) /\ OnContainers(obj, p) /\ Len(p) \in Nat
  BY OnContainersTo DEF PatchOK
<1>1. ASSUME NEW q \in Seq(AllSteps)
      PROVE  /\ Beside(p, q) => Get(new, q) = Get(obj, q)
             /\ IsPrefix(q, p) /\ p # q =>
                  /\ IsContainer(Get(obj, q)) /\ OneShape(Get(new, q), Get(obj, q)) /\ Formed(Get(new, q))
                  /\ Steps(Get(new, q)) = Steps(Get(obj, q)) \cup {p[Len(q) + 1]}
  <2> DEFINE value == x.value
  <2>1. /\ WellFormed(obj) /\ p \in Seq(AllSteps) /\ OnContainers(obj, p) /\ q \in Seq(AllSteps)
        /\ new = Set(obj, p, value)
    BY <1>0
  <2> HIDE DEF p, new, value
  <2>2. Beside(p, q) => Get(Set(obj, p, value), q) = Get(obj, q)
    BY ONLY <2>1, SetOnContainersBeside
  <2>3. ASSUME IsPrefix(q, p), p # q
        PROVE  /\ IsContainer(Get(obj, q)) /\ OneShape(Get(Set(obj, p, value), q), Get(obj, q))
               /\ Formed(Get(Set(obj, p, value), q))
               /\ Steps(Get(Set(obj, p, value), q)) = Steps(Get(obj, q)) \cup {p[Len(q) + 1]}
    BY ONLY <2>1, <2>3, SetOnContainersAbove
  <2> QED
    BY <2>1, <2>2, <2>3 DEF value
<1>5. ASSUME NEW r \in Seq(AllSteps)
      PROVE  Get(new, p \o r) = Get(x.value, r)
  BY <1>0, SetOnContainersBelow
<1> HIDE DEF new
<1>2. ASSUME NEW q \in Seq(AllSteps), IsPrefix(q, p), p # q
      PROVE  /\ IsContainer(Get(obj, q)) /\ OneShape(Get(new, q), Get(obj, q)) /\ Formed(Get(new, q))
             /\ \A k \in AllSteps : k \in Steps(Get(new, q)) <=> p = Append(q, k) \/ k \in Steps(Get(obj, q))
  <2> DEFINE n == Len(q)
             k == p[n + 1]
  <2>1. n \in Nat /\ n < Len(p) /\ SubSeq(p, 1, n) = q
    BY <1>0, <1>2, PrefixProper
  <2>2. k \in AllSteps /\ SubSeq(p, 1, n + 1) = Append(q, k)
    BY <1>0, <2>1, PrefixNext
  <2>4. /\ IsContainer(Get(obj, q)) /\ OneShape(Get(new, q), Get(obj, q)) /\ Formed(Get(new, q))
        /\ Steps(Get(new, q)) = Steps(Get(obj, q)) \cup {k}
    BY <1>1, <1>2
  <2> HIDE DEF k
  <2>5. p = Append(q, k) \/ k \in Steps(Get(obj, q))
    <3>1. CASE n + 1 = Len(p)
      BY <1>0, <2>2, <3>1, PrefixEnds
    <3>2. CASE n + 1 # Len(p)
      <4>1. n + 1 \in Nat /\ n + 1 < Len(p)
        BY <1>0, <2>1, <3>2
      <4>2. IsContainer(Get(obj, Append(q, k)))
        BY <1>0, <2>2, <4>1 DEF OnContainers
      <4>3. Get(obj, Append(q, k)) = Step(Get(obj, q), k)
        BY <2>2, GetAppend
      <4> QED
        BY <4>2, <4>3 DEF Step, IsContainer, IsDict, IsList, Missing
    <3> QED
      BY <3>1, <3>2
  <2>6. \A j \in AllSteps : p = Append(q, j) => j = k
    <3> SUFFICES ASSUME NEW j \in AllSteps, p = Append(q, j) PROVE j = k
      OBVIOUS
    <3>1. Append(q, j)[Len(q) + 1] = j
      BY AppendEffect
    <3> QED
      BY <3>1 DEF k
  <2> QED
    BY <2>4, <2>5, <2>6
<1>3. ASSUME NEW q \in Seq(AllSteps)
      PROVE  Formed(Get(new, q))
  <2>1. CASE \E r \in Seq(AllSteps) : q = p \o r
    BY <1>0, <1>5, <2>1 DEF WellFormed
  <2>2. CASE IsPrefix(q, p) /\ p # q
    BY <1>2, <2>2
  <2>3. CASE Beside(p, q)
    BY <1>1, <2>3 DEF WellFormed
  <2> QED
    BY <1>0, <2>1, <2>2, <2>3, ThreeWays
<1>4. ASSUME NEW q \in Seq(AllSteps), ~IsPrefix(p, q)
      PROVE  /\ OneShape(Get(new, q), Get(obj, q))
             /\ ~IsContainer(Get(obj, q)) => Get(new, q) = Get(obj, q)
             /\ \A k \in AllSteps :
                  k \in Steps(Get(new, q)) <=>
                    IF p = Append(q, k) THEN IsContainer(Get(obj, q)) ELSE k \in Steps(Get(obj, q))
  <2>1. p # q
    BY <1>0, <1>4, PrefixEnds DEF IsPrefix
  <2>2. CASE IsPrefix(q, p)
    BY <1>2, <2>1, <2>2
  <2>3. CASE ~IsPrefix(q, p)
    <3>1. \A k \in AllSteps : p # Append(q, k)
      <4>1. \A k \in AllSteps : IsPrefix(q, Append(q, k))
        BY AppendPrefix
      <4> QED
        BY <2>3, <4>1
    <3> QED
      BY <1>1, <1>4, <2>3, <3>1 DEF Beside, OneShape
  <2> QED
    BY <2>2, <2>3
<1> QED
  <2>1. WellFormed(new)
    BY <1>3 DEF WellFormed
  <2>2. Effect({x}, obj, new)
    BY <1>1, <1>4, <1>5, <2>1 DEF Effect, Quiet
  <2> QED
    BY <2>2 DEF new

(* A path that goes on from another one, step by step.                     *)
LEMMA ConcatAppend ==
  ASSUME NEW X, NEW f \in Seq(X), NEW l \in X, NEW r \in Seq(X)
  PROVE  /\ <<l>> \o r \in Seq(X) /\ <<l>> \o r # <<>> /\ (<<l>> \o r)[1] = l
         /\ f \o (<<l>> \o r) = Append(f, l) \o r
<1>1. <<l>> \in Seq(X) /\ Append(f, l) = f \o <<l>> /\ Len(<<l>>) = 1 /\ <<l>>[1] = l
  BY AppendEffect
<1>2. /\ <<l>> \o r \in Seq(X) /\ Len(<<l>> \o r) = 1 + Len(r)
      /\ (<<l>> \o r)[1] = l
  <2>1. 1 \in 1 .. Len(<<l>>)
    BY <1>1
  <2> QED
    BY <1>1, <2>1, ConcatPrefix
<1>3. <<l>> \o r # <<>>
  BY <1>2
<1>4. f \o (<<l>> \o r) = (f \o <<l>>) \o r
  BY <1>1, ConcatAssociative
<1> QED
  BY <1>1, <1>2, <1>3, <1>4

LEMMA GetFirst ==
  ASSUME NEW X, NEW k \in X, NEW s \in Seq(X), NEW obj
  PROVE  Get(obj, <<k>> \o s) = Get(Step(obj, k), s)
<1> DEFINE one == <<k>>
<1>1. one \in Seq(X) /\ <<>> \in Seq(X) /\ Append(<<>>, k) = one
  OBVIOUS
<1> HIDE DEF one
<1>2. Get(obj, one) = Step(obj, k)
  <2>1. Get(obj, Append(<<>>, k)) = Step(Get(obj, <<>>), k)
    BY ONLY <1>1, GetAppend, k \in X
  <2> QED
    BY <1>1, <2>1, GetEmpty
<1>3. Get(obj, one \o s) = Get(Get(obj, one), s)
  BY <1>1, GetConcat
<1> QED
  BY <1>2, <1>3 DEF one

LEMMA FirstStep ==
  ASSUME NEW X, NEW r \in Seq(X), r # <<>>
  PROVE  r[1] \in X /\ \E s \in Seq(X) : r = <<r[1]>> \o s
<1>1. 1 \in 1 .. Len(r) /\ 1 \in 0 .. Len(r) /\ Len(r) \in Nat
  OBVIOUS
<1>2. r[1] \in X
  BY <1>1
<1>3. PICK s \in Seq(X) : r = SubSeq(r, 1, 1) \o s
  BY <1>1, SplitAt
<1>4. SubSeq(r, 1, 1) = <<r[1]>>
  <2> DEFINE k == r[1]
  <2>1. /\ SubSeq(r, 1, 1) \in Seq(X) /\ Len(SubSeq(r, 1, 1)) = 1
        /\ \A i \in 1 .. 1 : SubSeq(r, 1, 1)[i] = r[i]
    BY <1>1, PrefixEffect
  <2>2. SubSeq(r, 1, 1)[1] = k /\ k \in X
    BY <1>2, <2>1
  <2> HIDE DEF k
  <2>3. <<k>> \in Seq(X) /\ Len(<<k>>) = 1 /\ <<k>>[1] = k
    BY <2>2
  <2>4. \A i \in 1 .. 1 : i = 1
    OBVIOUS
  <2>5. SubSeq(r, 1, 1) = <<k>>
    BY <2>1, <2>2, <2>3, <2>4, SeqEqual
  <2> QED
    BY <2>5 DEF k
<1> QED
  BY <1>2, <1>3, <1>4

LEMMA EffectOfRemoval ==
  ASSUME NEW x, PatchOK(x), x.type = "remove", NEW obj, WellFormed(obj)
  PROVE  Effect({x}, obj, Del(obj, x.path))
<1> DEFINE p == x.path
           f == Front(p)
           l == Last(p)
           par == Get(obj, f)
           new == Del(obj, p)
<1>0. /\ p \in Seq(AllSteps) /\ p # <<>> /\ f \in Seq(AllSteps) /\ l \in AllSteps /\ p = Append(f, l)
      /\ x.value = Missing /\ Formed(par) /\ IsPrefix(f, p)
  <2>1. p \in Seq(AllSteps) /\ p # <<>> /\ x.value = Missing
    BY DEF PatchOK
  <2>2. f \in Seq(AllSteps) /\ l \in AllSteps /\ p = Append(f, l)
    BY <2>1, FrontLast
  <2>3. IsPrefix(f, p)
    <3> HIDE DEF f, l, p
    <3> QED
      BY <2>2, AppendPrefix
  <2> QED
    BY <2>1, <2>2, <2>3 DEF WellFormed
<1>1. \A q \in Seq(AllSteps), k \in AllSteps : p = Append(q, k) <=> q = f /\ k = l
  <2>1. \A q \in Seq(AllSteps), k \in AllSteps : Front(Append(q, k)) = q /\ Last(Append(q, k)) = k
    BY AppendEffect
  <2> QED
    BY <1>0, <2>1
<1>2. \A r \in Seq(AllSteps) : Get(x.value, r) = Missing
  BY <1>0, GetOfMissing
<1>3. CASE l \notin Steps(par) \/ ~IsContainer(par)
  <2>1. new = obj
    BY <1>3 DEF Del
  <2>2. l \notin Steps(par)
    BY <1>3, NoSteps
  <2>3. Get(obj, p) = Missing
    BY <1>0, <2>2, GetAppend DEF Step
  <2>4. \A r \in Seq(AllSteps) : Get(obj, p \o r) = Missing
    BY <1>0, <2>3, GetConcat, GetOfMissing
  <2> HIDE DEF f, l, new
  <2>5. Effect({x}, obj, obj)
    BY <1>1, <1>2, <2>2, <2>4 DEF Effect, OneShape
  <2> QED
    BY <2>1, <2>5 DEF new
<1>4. CASE l \in Steps(par) /\ IsContainer(par)
  <2> DEFINE g == [k \in Steps(par) \ {l} |-> Children(par)[k]]
             D == WithChildren(par, g)
  <2>1. new = Set(obj, f, D)
    BY <1>4 DEF Del
  <2>2. /\ IsContainer(D) /\ OneShape(D, par) /\ Steps(D) = Steps(par) \ {l} /\ Formed(D)
        /\ \A k : k # l => Step(D, k) = Step(par, k)
    <3>1. DOMAIN g = Steps(par) \ {l} /\ g = [k \in DOMAIN g |-> g[k]]
      OBVIOUS
    <3>2. \A k \in Steps(par) \ {l} : g[k] = Children(par)[k]
      OBVIOUS
    <3>3. Steps(par) \subseteq AllSteps
      BY <1>0, <1>4 DEF Formed
    <3> HIDE DEF g
    <3>4. /\ IsList(D) <=> IsList(par)
          /\ IsDict(D) <=> ~IsList(par)
          /\ Children(D) = g /\ Steps(D) = DOMAIN g
      BY WithChildrenEffect
    <3>5. Formed(D)
      BY <3>1, <3>3, WithChildrenFormed
    <3>6. IsDict(par) <=> ~IsList(par)
      BY <1>4 DEF IsContainer, IsDict, IsList
    <3> HIDE DEF D
    <3>7. \A k : k # l => Step(D, k) = Step(par, k)
      BY <3>1, <3>2, <3>4 DEF Step
    <3> QED
      BY <3>1, <3>4, <3>5, <3>6, <3>7 DEF IsContainer, OneShape
  <2>3. par # Missing /\ Get(obj, f) = par
    BY <1>4 DEF IsContainer, IsDict, IsList, Missing
  <2>4. OnContainers(obj, f)
    BY <1>0, <2>3, FoundOnContainers
  <2> HIDE DEF D, par, f, l, new, p
  <2>5. ASSUME NEW r \in Seq(AllSteps)
        PROVE  Get(new, f \o r) = Get(D, r)
    BY <1>0, <2>1, <2>4, SetOnContainersBelow
  <2>6. ASSUME NEW r \in Seq(AllSteps), r # <<>>
        PROVE  Get(D, r) = IF r[1] = l THEN Missing ELSE Get(par, r)
    <3>1. r[1] \in AllSteps /\ \E s \in Seq(AllSteps) : r = <<r[1]>> \o s
      BY <2>6, FirstStep
    <3> DEFINE k == r[1]
    <3>2. PICK s \in Seq(AllSteps) : r = <<k>> \o s
      BY <3>1
    <3>3. k \in AllSteps
      BY <3>1
    <3> HIDE DEF k
    <3>4. Get(D, r) = Get(Step(D, k), s) /\ Get(par, r) = Get(Step(par, k), s)
      BY <3>2, <3>3, GetFirst
    <3>5. CASE k = l
      <4>1. Step(D, k) = Missing
        BY <2>2, <3>5 DEF Step
      <4> QED
        BY <3>4, <3>5, <4>1, GetOfMissing DEF k
    <3>6. CASE k # l
      BY <2>2, <3>4, <3>6 DEF k
    <3> QED
      BY <3>5, <3>6
  <2>7. \A r \in Seq(AllSteps) : Get(new, p \o r) = Missing
    <3> SUFFICES ASSUME NEW r \in Seq(AllSteps) PROVE Get(new, p \o r) = Missing
      OBVIOUS
    <3> DEFINE s == <<l>> \o r
    <3>1. s \in Seq(AllSteps) /\ s # <<>> /\ s[1] = l /\ f \o s = p \o r
      BY <1>0, ConcatAppend
    <3> HIDE DEF s
    <3> QED
      BY <2>5, <2>6, <3>1
  <2>8. ASSUME NEW q \in Seq(AllSteps), ~IsPrefix(p, q), q # f
        PROVE  \/ Get(new, q) = Get(obj, q)
               \/ /\ IsPrefix(q, p) /\ IsContainer(Get(obj, q)) /\ OneShape(Get(new, q), Get(obj, q)) /\ Formed(Get(new, q))
                  /\ Steps(Get(new, q)) = Steps(Get(obj, q))
    <3>1. CASE \E r \in Seq(AllSteps) : q = f \o r
      <4>1. PICK r \in Seq(AllSteps) : q = f \o r
        BY <3>1
      <4>2. r # <<>>
        BY <1>0, <2>8, <4>1
      <4>3. r[1] # l
        <5> SUFFICES ASSUME r[1] = l PROVE FALSE
          OBVIOUS
        <5>1. PICK s \in Seq(AllSteps) : r = <<l>> \o s
          BY <4>2, FirstStep
        <5>2. f \o (<<l>> \o s) = Append(f, l) \o s
          BY <1>0, ConcatAppend
        <5>3. q = p \o s
          BY <1>0, <4>1, <5>1, <5>2
        <5> QED
          BY <1>0, <2>8, <5>3, ConcatPrefix
      <4>4. Get(new, q) = Get(par, r)
        BY <2>5, <2>6, <4>1, <4>2, <4>3
      <4>5. Get(obj, q) = Get(par, r)
        BY <1>0, <2>3, <4>1, GetConcat
      <4> QED
        BY <4>4, <4>5
    <3>2. CASE IsPrefix(q, f) /\ f # q
      <4>1. IsPrefix(q, p)
        BY <1>0, <3>2, PrefixTrans
      <4>2. /\ IsContainer(Get(obj, q)) /\ OneShape(Get(new, q), Get(obj, q)) /\ Formed(Get(new, q))
            /\ Steps(Get(new, q)) = Steps(Get(obj, q)) \cup {f[Len(q) + 1]}
        BY <1>0, <2>1, <2>4, <3>2, SetOnContainersAbove
      <4>3. f[Len(q) + 1] \in Steps(Get(obj, q))
        <5> DEFINE n == Len(q)
        <5>1. n \in Nat /\ n < Len(f) /\ SubSeq(f, 1, n) = q
          BY <1>0, <3>2, PrefixProper
        <5> HIDE DEF n
        <5>2. f[n + 1] \in Steps(Get(obj, SubSeq(f, 1, n)))
          BY <1>0, <2>3, <5>1, FoundOn
        <5> QED
          BY <5>1, <5>2 DEF n
      <4> QED
        BY <4>1, <4>2, <4>3
    <3>3. CASE Beside(f, q)
      BY <1>0, <2>1, <2>4, <3>3, SetOnContainersBeside
    <3> QED
      BY <1>0, <3>1, <3>2, <3>3, ThreeWays
  <2>9. Get(new, f) = D
    <3>1. <<>> \in Seq(AllSteps) /\ f \o <<>> = f
      BY <1>0
    <3> QED
      BY <2>5, <3>1, GetEmpty
  <2>10. WellFormed(new)
    <3> SUFFICES ASSUME NEW q \in Seq(AllSteps) PROVE Formed(Get(new, q))
      BY DEF WellFormed
    <3>1. CASE IsPrefix(p, q)
      <4>1. PICK r \in Seq(AllSteps) : q = p \o r
        BY <1>0, <3>1, PrefixIs
      <4> QED
        BY <2>7, <4>1 DEF Formed, Missing, IsContainer, IsDict, IsList
    <3>2. CASE ~IsPrefix(p, q)
      BY <2>2, <2>8, <2>9, <3>2 DEF WellFormed
    <3> QED
      BY <3>1, <3>2
  <2>11. ASSUME NEW q \in Seq(AllSteps), Beside(p, q)
         PROVE  Get(new, q) = Get(obj, q)
    BY <1>0, <2>8, <2>11 DEF Beside
  <2>12. ASSUME NEW q \in Seq(AllSteps), ~IsPrefix(p, q)
         PROVE  /\ OneShape(Get(new, q), Get(obj, q))
                /\ ~IsContainer(Get(obj, q)) => Get(new, q) = Get(obj, q)
                /\ \A k \in AllSteps :
                     k \in Steps(Get(new, q)) <=>
                       IF p = Append(q, k) THEN FALSE ELSE k \in Steps(Get(obj, q))
    <3>1. CASE q = f
      BY <1>0, <1>1, <1>4, <2>2, <2>3, <2>9, <3>1
    <3>2. CASE q # f
      BY <1>1, <2>8, <2>12, <3>2 DEF OneShape
    <3> QED
      BY <3>1, <3>2
  <2>13. Effect({x}, obj, new)
    <3>1. \A q \in Seq(AllSteps) : ~Quiet(x, obj, q) \/ Beside(p, q)
      BY <1>4 DEF Quiet, Absent, p, par, f, l
    <3> QED
      BY <1>2, <2>7, <2>10, <2>11, <2>12, <3>1 DEF Effect, p
  <2> QED
    BY <2>13 DEF new, p
<1> QED
  BY <1>3, <1>4

LEMMA BesideBelow ==
  ASSUME NEW X, NEW p \in Seq(X), NEW q \in Seq(X), Beside(p, q), NEW r \in Seq(X)
  PROVE  Beside(p, q \o r)
<1> DEFINE s == q \o r
<1>1. s \in Seq(X) /\ IsPrefix(q, s)
  BY ConcatPrefix
<1> HIDE DEF s
<1>2. ~IsPrefix(p, s)
  BY <1>1, PrefixesCompare DEF Beside
<1>3. ~IsPrefix(s, p)
  BY <1>1, PrefixTrans DEF Beside
<1> QED
  BY <1>2, <1>3 DEF Beside, s

(* A patch beside another does not lead to its parent.                     *)
LEMMA BesideParent ==
  ASSUME NEW X, NEW p \in Seq(X), NEW q \in Seq(X), Beside(p, q)
  PROVE  /\ p # q /\ q # <<>> /\ Front(q) \in Seq(X) /\ Last(q) \in X /\ q = Append(Front(q), Last(q))
         /\ IsPrefix(Front(q), q) /\ ~IsPrefix(p, Front(q))
<1>1. p # q /\ q # <<>>
  <2>1. \A s \in Seq(X) : IsPrefix(s, s) /\ IsPrefix(<<>>, s)
    <3> SUFFICES ASSUME NEW s \in Seq(X) PROVE IsPrefix(s, s) /\ IsPrefix(<<>>, s)
      OBVIOUS
    <3>1. <<>> \in Seq(X) /\ Len(<<>>) = 0 /\ SubSeq(s, 1, 0) = <<>> /\ SubSeq(s, 1, Len(s)) = s
          /\ Len(s) \in Nat
      BY PrefixEnds
    <3> QED
      BY <3>1, PrefixIs
  <2> QED
    BY <2>1 DEF Beside
<1> DEFINE f == Front(q)
           l == Last(q)
<1>2. f \in Seq(X) /\ l \in X /\ q = Append(f, l)
  BY <1>1, FrontLast
<1> HIDE DEF f, l
<1>3. IsPrefix(f, q)
  BY <1>2, AppendPrefix
<1>4. ~IsPrefix(p, f)
  BY <1>2, <1>3, PrefixTrans DEF Beside
<1> QED
  BY <1>1, <1>2, <1>3, <1>4 DEF f, l

LEMMA EffectCompose ==
  ASSUME NEW A, NEW B, NEW obj, NEW mid, NEW new,
         Effect(A, obj, mid), Effect(B, mid, new),
         \A x \in A \cup B : x.path \in Seq(AllSteps) /\ x.path # <<>>,
         \A x \in A, y \in B : Beside(x.path, y.path)
  PROVE  Effect(A \cup B, obj, new)
<1>1. WellFormed(new)
  BY DEF Effect
<1>2. ASSUME NEW x \in A \cup B, NEW r \in Seq(AllSteps)
      PROVE  Get(new, x.path \o r) = Get(x.value, r)
  <2>1. CASE x \in B
    BY <2>1 DEF Effect
  <2>2. CASE x \in A
    <3> DEFINE q == x.path \o r
    <3>1. q \in Seq(AllSteps)
      BY ConcatPrefix
    <3>2. \A y \in B : Beside(y.path, q)
      <4> SUFFICES ASSUME NEW y \in B PROVE Beside(y.path, q)
        OBVIOUS
      <4>1. y.path \in Seq(AllSteps) /\ x.path \in Seq(AllSteps) /\ Beside(y.path, x.path) /\ r \in Seq(AllSteps)
        BY <2>2 DEF Beside
      <4> QED
        BY ONLY <4>1, BesideBelow
    <3>3. Get(mid, q) = Get(x.value, r)
      BY <2>2 DEF Effect
    <3> HIDE DEF q
    <3>4. Get(new, q) = Get(mid, q)
      BY <3>1, <3>2 DEF Effect, Quiet
    <3> QED
      BY <3>3, <3>4 DEF q
  <2> QED
    BY <2>1, <2>2
<1>3. ASSUME NEW x \in A, NEW y \in B
      PROVE  /\ x.path # y.path
             /\ Front(y.path) \in Seq(AllSteps) /\ Last(y.path) \in AllSteps /\ y.path = Append(Front(y.path), Last(y.path))
             /\ ~IsPrefix(x.path, Front(y.path))
  <2> DEFINE p == x.path
             q == y.path
  <2>1. p \in Seq(AllSteps) /\ q \in Seq(AllSteps) /\ Beside(p, q)
    OBVIOUS
  <2> HIDE DEF p, q
  <2> QED
    BY ONLY <2>1, BesideParent DEF p, q
<1>4. ASSUME NEW q \in Seq(AllSteps), \A x \in A \cup B : Quiet(x, obj, q)
      PROVE  Get(new, q) = Get(obj, q)
  <2>1. Get(mid, q) = Get(obj, q)
    BY <1>4 DEF Effect
  <2>2. ASSUME NEW y \in B
        PROVE  Quiet(y, mid, q)
    <3> DEFINE f == Front(y.path)
               l == Last(y.path)
    <3>1. f \in Seq(AllSteps) /\ l \in AllSteps /\ y.path = Append(f, l)
      BY FrontLast
    <3>2. \A x \in A : x.path # y.path /\ ~IsPrefix(x.path, f)
      BY <1>3
    <3> HIDE DEF f, l
    <3>3. l \in Steps(Get(mid, f)) <=> l \in Steps(Get(obj, f))
      BY <3>1, <3>2 DEF Effect
    <3> QED
      BY <1>4, <3>3 DEF Quiet, Absent, f, l
  <2>3. Get(new, q) = Get(mid, q)
    BY <2>2 DEF Effect
  <2> QED
    BY <2>1, <2>3
<1>5. ASSUME NEW q \in Seq(AllSteps), \A x \in A \cup B : ~IsPrefix(x.path, q)
      PROVE  /\ OneShape(Get(new, q), Get(obj, q))
             /\ ~IsContainer(Get(obj, q)) => Get(new, q) = Get(obj, q)
  BY <1>5 DEF Effect, OneShape, IsContainer
<1>6. ASSUME NEW q \in Seq(AllSteps), \A x \in A \cup B : ~IsPrefix(x.path, q), NEW k \in AllSteps
      PROVE  k \in Steps(Get(new, q)) <=>
               IF \E x \in A \cup B : x.path = Append(q, k)
               THEN IsContainer(Get(obj, q)) /\ \E x \in A \cup B : x.path = Append(q, k) /\ x.type # "remove"
               ELSE k \in Steps(Get(obj, q))
  <2> DEFINE At(P) == \E x \in P : x.path = Append(q, k)
             In(P) == \E x \in P : x.path = Append(q, k) /\ x.type # "remove"
  <2>1. k \in Steps(Get(mid, q)) <=> IF At(A) THEN IsContainer(Get(obj, q)) /\ In(A) ELSE k \in Steps(Get(obj, q))
    BY <1>6 DEF Effect
  <2>2. k \in Steps(Get(new, q)) <=> IF At(B) THEN IsContainer(Get(mid, q)) /\ In(B) ELSE k \in Steps(Get(mid, q))
    BY <1>6 DEF Effect
  <2>3. IsContainer(Get(mid, q)) <=> IsContainer(Get(obj, q))
    BY <1>6 DEF Effect, OneShape, IsContainer
  <2>4. ~(At(A) /\ At(B))
    BY <1>3
  <2>5. (At(A \cup B) <=> At(A) \/ At(B)) /\ (In(A \cup B) <=> In(A) \/ In(B))
    OBVIOUS
  <2>6. (In(A) => At(A)) /\ (In(B) => At(B))
    OBVIOUS
  <2>7. k \in Steps(Get(new, q)) <=>
          IF At(A \cup B) THEN IsContainer(Get(obj, q)) /\ In(A \cup B) ELSE k \in Steps(Get(obj, q))
    <3> HIDE DEF At, In
    <3> QED
      BY <2>1, <2>2, <2>3, <2>4, <2>5, <2>6
  <2> QED
    BY <2>7
<1>7. ASSUME NEW q \in Seq(AllSteps)
      PROVE  /\ (\A x \in A \cup B : Quiet(x, obj, q)) => Get(new, q) = Get(obj, q)
             /\ (\A x \in A \cup B : ~IsPrefix(x.path, q)) =>
                  /\ OneShape(Get(new, q), Get(obj, q))
                  /\ ~IsContainer(Get(obj, q)) => Get(new, q) = Get(obj, q)
                  /\ \A k \in AllSteps :
                       k \in Steps(Get(new, q)) <=>
                         IF \E x \in A \cup B : x.path = Append(q, k)
                         THEN IsContainer(Get(obj, q)) /\ \E x \in A \cup B : x.path = Append(q, k) /\ x.type # "remove"
                         ELSE k \in Steps(Get(obj, q))
  BY <1>4, <1>5, <1>6
<1> DEFINE C == A \cup B
<1> HIDE DEF C
<1> QED
  BY <1>1, <1>2, <1>7 DEF Effect

(* Every patch that sets a value finds a container to set it in.           *)
Applicable(patches, obj) ==
  \A x \in patches : x.type # "remove" => IsContainer(Get(obj, Front(x.path)))

LEMMA EffectOfOneMore ==
  ASSUME NEW t, NEW x, PatchesOK(t \cup {x}), x \notin t, NEW obj, NEW mid, Effect(t, obj, mid),
         Applicable({x}, obj)
  PROVE  Effect(t \cup {x}, obj, Apply(x, mid))
<1>1. PatchOK(x) /\ WellFormed(mid)
  BY DEF PatchesOK, Effect
<1>2. CASE x.type = "remove"
  <2>1. Effect({x}, mid, Apply(x, mid))
    BY <1>1, <1>2, EffectOfRemoval DEF Apply
  <2> QED
    BY <2>1, EffectCompose DEF PatchesOK, PatchOK
<1>3. CASE x.type # "remove"
  <2> DEFINE f == Front(x.path)
  <2>1. f \in Seq(AllSteps) /\ \A y \in t : ~IsPrefix(y.path, f)
    <3>1. f \in Seq(AllSteps)
      BY <1>1, FrontLast DEF PatchOK
    <3>2. ASSUME NEW y \in t PROVE ~IsPrefix(y.path, f)
      <4> DEFINE p == y.path
                 q == x.path
      <4>1. p \in Seq(AllSteps) /\ q \in Seq(AllSteps) /\ Beside(p, q)
        BY DEF PatchesOK, PatchOK
      <4> HIDE DEF p, q
      <4> QED
        BY ONLY <4>1, BesideParent DEF p, q, f
    <3> QED
      BY <3>1, <3>2
  <2>2. IsContainer(Get(mid, f)) <=> IsContainer(Get(obj, f))
    <3> HIDE DEF f
    <3> QED
      BY <2>1 DEF Effect, OneShape, IsContainer
  <2>3. IsContainer(Get(mid, f))
    BY <1>3, <2>2 DEF Applicable
  <2>4. Effect({x}, mid, Apply(x, mid))
    BY <1>1, <1>3, <2>3, EffectOfSetting DEF Apply
  <2> QED
    BY <2>4, EffectCompose DEF PatchesOK, PatchOK
<1> QED
  BY <1>2, <1>3

LEMMA EffectOfAll ==
  ASSUME NEW patches, IsFiniteSet(patches), PatchesOK(patches), NEW obj, WellFormed(obj),
         Applicable(patches, obj)
  PROVE  Effect(patches, obj, Applied(patches, obj))
<1>1. PICK f : AppliedUpTo(f, patches, obj, patches) /\ Applied(patches, obj) = f[patches]
  BY AppliedExists, AppliedMeans
<1> DEFINE Bad == {s \in SUBSET patches : ~Effect(s, obj, f[s])}
           Sizes == {Cardinality(s) : s \in Bad}
<1>2. \A s \in SUBSET patches : IsFiniteSet(s) /\ Cardinality(s) \in Nat
  BY FS_Subset, FS_CardinalityType
<1>3. Bad = {}
  <2> SUFFICES ASSUME Bad # {} PROVE FALSE
    OBVIOUS
  <2>1. Sizes \in SUBSET Nat /\ Sizes # {}
    BY <1>2
  <2>2. PICK n \in Sizes : \A m \in Sizes : n <= m
    <3> HIDE DEF Sizes
    <3> QED
      BY <2>1, Least
  <2>3. PICK s \in Bad : \A t \in Bad : Cardinality(s) <= Cardinality(t)
    BY <2>2
  <2>4. s \in SUBSET patches /\ ~Effect(s, obj, f[s])
    BY <2>3
  <2>5. s # {}
    <3>1. f[{}] = obj
      BY <1>1 DEF AppliedUpTo
    <3> QED
      BY <2>4, <3>1, EffectOfNone
  <2> DEFINE x == CHOOSE y \in s : TRUE
             t == s \ {x}
  <2>6. x \in s /\ t \in SUBSET patches /\ t \cup {x} = s /\ x \notin t
    BY <2>4, <2>5
  <2>7. f[s] = Apply(x, f[t])
    BY <1>1, <2>4, <2>5 DEF AppliedUpTo
  <2>8. Cardinality(t) = Cardinality(s) - 1 /\ Cardinality(s) \in Nat
    BY <1>2, <2>4, <2>6, FS_RemoveElement
  <2> HIDE DEF x, t, Sizes
  <2>9. t \notin Bad
    <3> HIDE DEF Bad
    <3>1. ~(Cardinality(s) <= Cardinality(t))
      BY <2>8
    <3> QED
      BY <2>3, <3>1
  <2>10. Effect(t, obj, f[t])
    BY <2>6, <2>9
  <2>11. PatchesOK(t \cup {x}) /\ Applicable({x}, obj)
    BY <2>4, <2>6 DEF PatchesOK, Applicable
  <2>12. Effect(t \cup {x}, obj, Apply(x, f[t]))
    BY <2>6, <2>10, <2>11, EffectOfOneMore
  <2> QED
    BY <2>4, <2>6, <2>7, <2>12
<1>4. Effect(patches, obj, f[patches])
  BY <1>3
<1> QED
  BY <1>1, <1>4

LEMMA EffectOfApplyPatches ==
  ASSUME NEW patches, IsFiniteSet(patches), PatchesOK(patches), NEW obj, WellFormed(obj),
         Applicable(patches, obj)
  PROVE  Effect(patches, obj, ApplyPatches(obj, patches))
<1> DEFINE removals == {p \in patches : p.type = "remove"}
           rest == patches \ removals
           mid == Applied(removals, obj)
           new == Applied(rest, mid)
<1>1. ApplyPatches(obj, patches) = new
  BY DEF ApplyPatches
<1>2. removals \cup rest = patches /\ IsFiniteSet(removals) /\ IsFiniteSet(rest)
  BY FS_Subset
<1>3. PatchesOK(removals) /\ PatchesOK(rest) /\ Applicable(removals, obj)
  BY DEF PatchesOK, Applicable
<1>4. \A x \in removals, y \in rest : x # y /\ Beside(x.path, y.path)
  BY DEF PatchesOK
<1>5. \A x \in removals \cup rest : x.path \in Seq(AllSteps) /\ x.path # <<>>
  BY DEF PatchesOK, PatchOK
<1> HIDE DEF removals, rest
<1>6. Effect(removals, obj, mid)
  BY <1>2, <1>3, EffectOfAll
<1> HIDE DEF mid
<1>7. Applicable(rest, mid)
  <2> SUFFICES ASSUME NEW y \in rest, y.type # "remove" PROVE IsContainer(Get(mid, Front(y.path)))
    BY DEF Applicable
  <2> DEFINE f == Front(y.path)
  <2>1. f \in Seq(AllSteps)
    BY <1>5, FrontLast
  <2>2. ASSUME NEW x \in removals PROVE ~IsPrefix(x.path, f)
    <3> DEFINE p == x.path
               q == y.path
    <3>1. p \in Seq(AllSteps) /\ q \in Seq(AllSteps) /\ Beside(p, q)
      BY <1>4, <1>5
    <3> HIDE DEF p, q
    <3> QED
      BY ONLY <3>1, BesideParent DEF p, q, f
  <2>3. IsContainer(Get(obj, f))
    BY <1>2 DEF Applicable
  <2> HIDE DEF f
  <2>4. IsContainer(Get(mid, f))
    BY <1>6, <2>1, <2>2, <2>3 DEF Effect, OneShape, IsContainer
  <2> QED
    BY <2>4 DEF f
<1>8. WellFormed(mid)
  BY <1>6 DEF Effect
<1>9. Effect(rest, mid, new)
  BY <1>2, <1>3, <1>7, <1>8, EffectOfAll
<1> HIDE DEF new
<1>10. Effect(removals \cup rest, obj, new)
  BY <1>4, <1>5, <1>6, <1>9, EffectCompose
<1> QED
  BY <1>1, <1>2, <1>10

---------------------------------------------------------------------------
(* The paths into a value.                                                 *)

Into(obj, p) == \A n \in Nat : n < Len(p) => p[n + 1] \in Steps(Get(obj, SubSeq(p, 1, n)))

LEMMA IntoAppend ==
  ASSUME NEW X, NEW p \in Seq(X), NEW k \in X, NEW obj
  PROVE  Into(obj, Append(p, k)) <=> Into(obj, p) /\ k \in Steps(Get(obj, p))
<1> DEFINE q == Append(p, k)
           m == Len(p)
<1>1. /\ q \in Seq(X) /\ Len(q) = m + 1 /\ m \in Nat
      /\ \A i \in 1 .. m : q[i] = p[i]
      /\ q[m + 1] = k /\ Front(q) = p
  BY AppendEffect
<1>2. SubSeq(q, 1, m) = p
  <2>1. m + 1 - 1 = m
    BY <1>1
  <2> HIDE DEF q, m
  <2> QED
    BY <1>1, <2>1 DEF Front
<1> HIDE DEF q
<1>3. ASSUME NEW n \in Nat, n < m
      PROVE  SubSeq(q, 1, n) = SubSeq(p, 1, n) /\ q[n + 1] = p[n + 1]
  <2>1. m \in 0 .. Len(q) /\ n \in 0 .. m /\ n + 1 \in 1 .. m
    BY <1>1, <1>3
  <2> QED
    BY <1>1, <1>2, <2>1, PrefixOfPrefix
<1>4. ASSUME Into(obj, q) PROVE Into(obj, p) /\ k \in Steps(Get(obj, p))
  <2>1. \A n \in Nat : n < m => n < Len(q)
    BY <1>1
  <2>2. Into(obj, p)
    BY <1>3, <1>4, <2>1 DEF Into
  <2>3. m \in Nat /\ m < Len(q)
    BY <1>1
  <2> QED
    BY <1>1, <1>2, <1>4, <2>2, <2>3 DEF Into
<1>5. ASSUME Into(obj, p), k \in Steps(Get(obj, p)) PROVE Into(obj, q)
  <2> SUFFICES ASSUME NEW n \in Nat, n < Len(q) PROVE q[n + 1] \in Steps(Get(obj, SubSeq(q, 1, n)))
    BY DEF Into
  <2>1. n < m \/ n = m
    BY <1>1
  <2>2. CASE n < m
    <3>1. p[n + 1] \in Steps(Get(obj, SubSeq(p, 1, n)))
      BY <1>5, <2>2 DEF Into
    <3> QED
      BY <1>3, <2>2, <3>1
  <2>3. CASE n = m
    BY <1>1, <1>2, <1>5, <2>3
  <2> QED
    BY <2>1, <2>2, <2>3
<1> QED
  BY <1>4, <1>5 DEF q

LevelsUpTo(f, obj, n) ==
  f = [i \in 0 .. n |-> IF i = 0 THEN {<<>>}
                        ELSE UNION {{Append(p, k) : k \in Steps(Get(obj, p))} : p \in f[i - 1]}]

LEMMA LevelsExist ==
  ASSUME NEW obj, NEW n \in Nat
  PROVE  \E f : LevelsUpTo(f, obj, n)
<1> DEFINE X == {m \in Nat : ~\E f : LevelsUpTo(f, obj, m)}
           Grown(s) == UNION {{Append(p, k) : k \in Steps(Get(obj, p))} : p \in s}
<1> HIDE DEF Grown
<1>0. \A f, m : LevelsUpTo(f, obj, m) <=> f = [i \in 0 .. m |-> IF i = 0 THEN {<<>>} ELSE Grown(f[i - 1])]
  BY DEF LevelsUpTo, Grown
<1>1. X = {}
  <2> SUFFICES ASSUME X # {} PROVE FALSE
    OBVIOUS
  <2>1. PICK m \in X : \A j \in X : m <= j
    BY Least
  <2>2. m \in Nat /\ ~\E f : LevelsUpTo(f, obj, m)
    BY <2>1
  <2>3. m # 0
    <3> DEFINE f == [i \in 0 .. 0 |-> {<<>>}]
    <3>1. f = [i \in 0 .. 0 |-> IF i = 0 THEN {<<>>} ELSE Grown(f[i - 1])]
      OBVIOUS
    <3> HIDE DEF f
    <3>2. LevelsUpTo(f, obj, 0)
      BY <1>0, <3>1
    <3> QED
      BY <2>2, <3>2
  <2>4. m - 1 \in Nat /\ ~(m <= m - 1)
    BY <2>2, <2>3
  <2>5. m - 1 \notin X
    <3> HIDE DEF X
    <3> QED
      BY <2>1, <2>4
  <2>6. PICK f : LevelsUpTo(f, obj, m - 1)
    BY <2>4, <2>5
  <2>7. f = [i \in 0 .. m - 1 |-> IF i = 0 THEN {<<>>} ELSE Grown(f[i - 1])]
    BY <1>0, <2>6
  <2> DEFINE g == [i \in 0 .. m |-> IF i = 0 THEN {<<>>} ELSE Grown(f[i - 1])]
  <2>8. \A i \in 0 .. m - 1 : g[i] = f[i]
    <3> SUFFICES ASSUME NEW i \in 0 .. m - 1 PROVE g[i] = f[i]
      OBVIOUS
    <3>1. i \in 0 .. m
      BY <2>2
    <3>2. g[i] = IF i = 0 THEN {<<>>} ELSE Grown(f[i - 1])
      BY <3>1
    <3>3. f[i] = IF i = 0 THEN {<<>>} ELSE Grown(f[i - 1])
      BY <2>7
    <3> QED
      BY <3>2, <3>3
  <2>9. ASSUME NEW i \in 0 .. m, i # 0
        PROVE  Grown(f[i - 1]) = Grown(g[i - 1])
    <3>1. i - 1 \in 0 .. m - 1
      BY <2>2, <2>9
    <3> HIDE DEF g
    <3> QED
      BY <2>8, <3>1
  <2>10. g = [i \in 0 .. m |-> IF i = 0 THEN {<<>>} ELSE Grown(g[i - 1])]
    BY <2>9
  <2> HIDE DEF g
  <2>11. LevelsUpTo(g, obj, m)
    BY <1>0, <2>10
  <2> QED
    BY <2>2, <2>11
<1> QED
  BY <1>1

LEMMA PathsOfMeans ==
  ASSUME NEW obj
  PROVE  \E f : LevelsUpTo(f, obj, MaxDepth) /\ PathsOf(obj) = UNION {f[n] : n \in 0 .. MaxDepth}
<1> DEFINE F == CHOOSE f : LevelsUpTo(f, obj, MaxDepth)
<1>1. PathsOf(obj) = UNION {F[n] : n \in 0 .. MaxDepth}
  BY DEF PathsOf, LevelsUpTo
<1>2. LevelsUpTo(F, obj, MaxDepth)
  BY LevelsExist, DepthAssumption
<1> QED
  BY <1>1, <1>2

LEMMA LevelIs ==
  ASSUME NEW obj, NEW m \in Nat, NEW f, LevelsUpTo(f, obj, m), NEW n \in 0 .. m
  PROVE  /\ \A p \in f[n] : (\E X : p \in Seq(X)) /\ Len(p) = n
         /\ \A p \in Seq(AllSteps) : p \in f[n] <=> Len(p) = n /\ Into(obj, p)
<1> DEFINE Sequences(i) == \A p \in f[i] : (\E X : p \in Seq(X)) /\ Len(p) = i
           Reach(i) == \A p \in Seq(AllSteps) : p \in f[i] <=> Len(p) = i /\ Into(obj, p)
           Y == {i \in 0 .. m : ~(Sequences(i) /\ Reach(i))}
<1>1. Y = {}
  <2> SUFFICES ASSUME Y # {} PROVE FALSE
    OBVIOUS
  <2>1. PICK i \in Y : \A j \in Y : i <= j
    <3>1. Y \in SUBSET Nat
      OBVIOUS
    <3> HIDE DEF Y
    <3> QED
      BY <3>1, Least
  <2>2. i \in 0 .. m /\ ~(Sequences(i) /\ Reach(i))
    BY <2>1
  <2>3. CASE i = 0
    <3>1. f[0] = {<<>>}
      BY DEF LevelsUpTo
    <3>2. Sequences(0)
      <4>1. <<>> \in Seq({}) /\ Len(<<>>) = 0
        OBVIOUS
      <4> QED
        BY <3>1, <4>1
    <3>3. Reach(0)
      <4> SUFFICES ASSUME NEW p \in Seq(AllSteps) PROVE p \in f[0] <=> Len(p) = 0 /\ Into(obj, p)
        OBVIOUS
      <4>1. Len(p) = 0 => p = <<>> /\ Into(obj, p)
        BY EmptySeq DEF Into
      <4>2. Len(<<>>) = 0
        OBVIOUS
      <4> QED
        BY <3>1, <4>1, <4>2
    <3> QED
      BY <2>2, <2>3, <3>2, <3>3
  <2>4. CASE i # 0
    <3> DEFINE h == i - 1
    <3>1. h \in 0 .. m /\ h \in Nat /\ ~(i <= h) /\ h + 1 = i
      BY <2>2, <2>4
    <3> HIDE DEF h
    <3>2. Sequences(h) /\ Reach(h)
      <4>1. h \notin Y
        <5> HIDE DEF Y
        <5> QED
          BY <2>1, <3>1
      <4> QED
        BY <3>1, <4>1
    <3>3. f[i] = UNION {{Append(p, k) : k \in Steps(Get(obj, p))} : p \in f[h]}
      <4>1. i - 1 = h
        BY <3>1
      <4> QED
        BY <2>2, <2>4, <4>1 DEF LevelsUpTo
    <3>4. \A q : q \in f[i] <=> \E p \in f[h] : \E k \in Steps(Get(obj, p)) : q = Append(p, k)
      BY <3>3
    <3>5. Sequences(i)
      <4> SUFFICES ASSUME NEW q \in f[i] PROVE (\E X : q \in Seq(X)) /\ Len(q) = i
        OBVIOUS
      <4>0. PICK p \in f[h] : \E k \in Steps(Get(obj, p)) : q = Append(p, k)
        BY <3>4
      <4>1. PICK k \in Steps(Get(obj, p)) : q = Append(p, k)
        BY <4>0
      <4>2. PICK X : p \in Seq(X)
        BY <3>2
      <4> DEFINE Z == X \cup {k}
      <4>3. p \in Seq(Z) /\ k \in Z
        BY <4>2
      <4> HIDE DEF Z
      <4>4. q \in Seq(Z) /\ Len(q) = Len(p) + 1
        BY <4>1, <4>3
      <4>5. Len(p) = h
        BY <3>2
      <4> QED
        BY <3>1, <4>4, <4>5
    <3>6. Reach(i)
      <4> SUFFICES ASSUME NEW q \in Seq(AllSteps) PROVE q \in f[i] <=> Len(q) = i /\ Into(obj, q)
        OBVIOUS
      <4>1. ASSUME q \in f[i] PROVE Len(q) = i /\ Into(obj, q)
        <5>0. PICK p \in f[h] : \E k \in Steps(Get(obj, p)) : q = Append(p, k)
          BY <3>4, <4>1
        <5>1. PICK k \in Steps(Get(obj, p)) : q = Append(p, k)
          BY <5>0
        <5>2. PICK X : p \in Seq(X)
          BY <3>2
        <5> DEFINE Z == X \cup {k}
        <5>3. p \in Seq(Z) /\ k \in Z
          BY <5>2
        <5> HIDE DEF Z
        <5>4. Front(q) = p /\ Last(q) = k /\ q # <<>>
          BY <5>1, <5>3, AppendEffect
        <5>5. p \in Seq(AllSteps) /\ k \in AllSteps
          BY <5>4, FrontLast
        <5>6. Into(obj, p)
          BY <3>2, <5>5
        <5>7. Into(obj, q)
          BY <5>1, <5>5, <5>6, IntoAppend
        <5> QED
          BY <3>5, <4>1, <5>7
      <4>2. ASSUME Len(q) = i, Into(obj, q) PROVE q \in f[i]
        <5> DEFINE p == Front(q)
                   k == Last(q)
        <5>1. q # <<>>
          BY <2>4, <4>2
        <5>2. p \in Seq(AllSteps) /\ k \in AllSteps /\ q = Append(p, k) /\ Len(p) = i - 1
          BY <4>2, <5>1, FrontLast
        <5> HIDE DEF p, k
        <5>3. Into(obj, p) /\ k \in Steps(Get(obj, p))
          BY <4>2, <5>2, IntoAppend
        <5>4. Len(p) = h
          BY <3>1, <5>2
        <5>5. p \in f[h]
          BY <3>2, <5>2, <5>3, <5>4
        <5> QED
          BY <3>4, <5>2, <5>3, <5>5
      <4> QED
        BY <4>1, <4>2
    <3> QED
      BY <2>2, <3>5, <3>6
  <2> QED
    BY <2>3, <2>4
<1>2. Sequences(n) /\ Reach(n)
  BY <1>1
<1> QED
  BY <1>2

LEMMA KeyPathsOf ==
  ASSUME NEW obj, NEW p \in Seq(AllSteps)
  PROVE  p \in PathsOf(obj) <=> Len(p) <= MaxDepth /\ Into(obj, p)
<1>1. PICK f : LevelsUpTo(f, obj, MaxDepth) /\ PathsOf(obj) = UNION {f[n] : n \in 0 .. MaxDepth}
  BY PathsOfMeans
<1>2. \A n \in 0 .. MaxDepth : p \in f[n] <=> Len(p) = n /\ Into(obj, p)
  BY <1>1, LevelIs, DepthAssumption
<1>3. Len(p) \in Nat /\ (Len(p) <= MaxDepth <=> Len(p) \in 0 .. MaxDepth)
  BY DepthAssumption
<1> QED
  BY <1>1, <1>2, <1>3

LEMMA IntoPrefix ==
  ASSUME NEW X, NEW q \in Seq(X), NEW obj, Into(obj, q), NEW m \in 0 .. Len(q)
  PROVE  Into(obj, SubSeq(q, 1, m))
<1> DEFINE p == SubSeq(q, 1, m)
<1>1. p \in Seq(X) /\ Len(p) = m /\ \A i \in 1 .. m : p[i] = q[i]
  BY PrefixEffect
<1> SUFFICES ASSUME NEW n \in Nat, n < Len(p) PROVE p[n + 1] \in Steps(Get(obj, SubSeq(p, 1, n)))
  BY DEF Into
<1>2. n \in 0 .. m /\ n + 1 \in 1 .. m /\ n < Len(q)
  BY <1>1
<1>3. SubSeq(p, 1, n) = SubSeq(q, 1, n)
  BY <1>2, PrefixOfPrefix
<1> QED
  BY <1>1, <1>2, <1>3 DEF Into

(* Every path there is into a value is one of steps.                       *)
LEMMA PathsAreSteps ==
  ASSUME NEW obj, WellFormed(obj)
  PROVE  PathsOf(obj) \subseteq Seq(AllSteps)
<1>1. PICK f : LevelsUpTo(f, obj, MaxDepth) /\ PathsOf(obj) = UNION {f[n] : n \in 0 .. MaxDepth}
  BY PathsOfMeans
<1> DEFINE Y == {n \in 0 .. MaxDepth : ~(f[n] \subseteq Seq(AllSteps))}
<1>2. Y = {}
  <2> SUFFICES ASSUME Y # {} PROVE FALSE
    OBVIOUS
  <2>1. PICK n \in Y : \A m \in Y : n <= m
    <3>1. Y \in SUBSET Nat
      BY DepthAssumption
    <3> HIDE DEF Y
    <3> QED
      BY <3>1, Least
  <2>2. n \in 0 .. MaxDepth /\ ~(f[n] \subseteq Seq(AllSteps))
    BY <2>1
  <2>3. n # 0
    <3>1. f[0] = {<<>>}
      BY <1>1, DepthAssumption DEF LevelsUpTo
    <3>2. <<>> \in Seq(AllSteps)
      OBVIOUS
    <3> QED
      BY <2>2, <3>1, <3>2
  <2> DEFINE m == n - 1
  <2>4. m \in 0 .. MaxDepth /\ ~(n <= m)
    BY <2>2, <2>3, DepthAssumption
  <2>5. f[n] = UNION {{Append(p, k) : k \in Steps(Get(obj, p))} : p \in f[m]}
    BY <1>1, <2>2, <2>3 DEF LevelsUpTo
  <2> HIDE DEF m
  <2>6. f[m] \subseteq Seq(AllSteps)
    <3>1. m \notin Y
      <4> HIDE DEF Y
      <4> QED
        BY <2>1, <2>4
    <3> QED
      BY <2>4, <3>1
  <2>7. PICK q \in f[n] : q \notin Seq(AllSteps)
    BY <2>2
  <2>8. PICK p \in f[m] : q \in {Append(p, k) : k \in Steps(Get(obj, p))}
    BY <2>5, <2>7
  <2>9. PICK k \in Steps(Get(obj, p)) : q = Append(p, k)
    BY <2>8
  <2>10. p \in Seq(AllSteps)
    BY <2>6
  <2>11. k \in AllSteps
    <3>1. Formed(Get(obj, p))
      BY <2>10 DEF WellFormed
    <3> QED
      BY <2>9, <3>1, NoSteps DEF Formed
  <2> QED
    BY <2>7, <2>9, <2>10, <2>11, AppendEffect
<1> QED
  BY <1>1, <1>2

(* What a JSON value is to the paths into it.                              *)
Fits(v) == (IsDict(v) => Steps(v) \subseteq Keys) /\ (IsList(v) => Steps(v) \subseteq Nat)

Fitting(obj) == \A q \in Seq(AllSteps) : Fits(Get(obj, q))

Solid(obj) ==
  \A q \in Seq(AllSteps), k \in AllSteps : k \in Steps(Get(obj, q)) => Get(obj, Append(q, k)) # Missing

Shallow(obj) ==
  \A q \in Seq(AllSteps), k \in AllSteps : k \in Steps(Get(obj, q)) => Len(q) < MaxDepth

Tree(obj) ==
  WellFormed(obj) /\ Fitting(obj) /\ Solid(obj) /\ Shallow(obj) /\ IsFiniteSet(PathsOf(obj))

LEMMA FoundInto ==
  ASSUME NEW obj, NEW p \in Seq(AllSteps), Get(obj, p) # Missing
  PROVE  Into(obj, p)
BY FoundOn DEF Into

LEMMA PathsGrow ==
  ASSUME NEW obj, IsJson(obj), NEW p \in PathsOf(obj)
  PROVE  /\ (\E X : p \in Seq(X)) /\ Len(p) \in 0 .. MaxDepth
         /\ \A k \in Steps(Get(obj, p)) : Append(p, k) \in PathsOf(obj)
<1>1. PICK f : LevelsUpTo(f, obj, MaxDepth) /\ PathsOf(obj) = UNION {f[n] : n \in 0 .. MaxDepth}
  BY PathsOfMeans
<1>2. PICK n \in 0 .. MaxDepth : p \in f[n]
  BY <1>1
<1>3. (\E X : p \in Seq(X)) /\ Len(p) = n
  BY <1>1, <1>2, LevelIs, DepthAssumption
<1>4. ASSUME NEW k \in Steps(Get(obj, p))
      PROVE  Append(p, k) \in PathsOf(obj)
  <2>1. Len(p) # MaxDepth
    BY <1>4 DEF IsJson
  <2>2. n + 1 \in 0 .. MaxDepth /\ n + 1 # 0 /\ (n + 1) - 1 = n
    BY <1>2, <1>3, <2>1, DepthAssumption
  <2>3. f[n + 1] = UNION {{Append(q, j) : j \in Steps(Get(obj, q))} : q \in f[n]}
    BY <1>1, <2>2 DEF LevelsUpTo
  <2>4. Append(p, k) \in f[n + 1]
    BY <1>2, <2>3
  <2> QED
    BY <1>1, <2>2, <2>4
<1> QED
  BY <1>2, <1>3, <1>4

LEMMA PathsInto ==
  ASSUME NEW obj, IsJson(obj), NEW p \in PathsOf(obj), NEW q \in Seq(AllSteps), Into(Get(obj, p), q)
  PROVE  p \o q \in PathsOf(obj)
<1> DEFINE Y == {n \in 0 .. Len(q) : p \o SubSeq(q, 1, n) \notin PathsOf(obj)}
<1>0. PICK X0 : p \in Seq(X0)
  BY PathsGrow
<1> DEFINE X == X0 \cup AllSteps
<1>1. p \in Seq(X) /\ q \in Seq(X) /\ Len(q) \in Nat
  BY <1>0
<1> HIDE DEF X
<1>2. Y = {}
  <2> SUFFICES ASSUME Y # {} PROVE FALSE
    OBVIOUS
  <2>1. PICK n \in Y : \A j \in Y : n <= j
    <3>1. Y \in SUBSET Nat
      OBVIOUS
    <3> HIDE DEF Y
    <3> QED
      BY <3>1, Least
  <2>2. n \in 0 .. Len(q) /\ p \o SubSeq(q, 1, n) \notin PathsOf(obj)
    BY <2>1
  <2>3. CASE n = 0
    <3>1. SubSeq(q, 1, 0) = <<>>
      BY PrefixEnds
    <3>2. p \o <<>> = p
      BY <1>1
    <3> QED
      BY <2>2, <2>3, <3>1, <3>2
  <2>4. CASE n # 0
    <3> DEFINE m == n - 1
    <3>1. m \in 0 .. Len(q) /\ m \in Nat /\ m < Len(q) /\ ~(n <= m) /\ m + 1 = n
      BY <1>1, <2>2, <2>4
    <3> HIDE DEF m
    <3> DEFINE s == SubSeq(q, 1, m)
               k == q[m + 1]
    <3>2. s \in Seq(X) /\ k \in X /\ SubSeq(q, 1, n) = Append(s, k)
      BY <1>1, <3>1, PrefixNext
    <3>3. k \in Steps(Get(Get(obj, p), s))
      BY <3>1 DEF Into
    <3>4. p \o s \in PathsOf(obj)
      <4>1. m \notin Y
        <5> HIDE DEF Y
        <5> QED
          BY <2>1, <3>1
      <4> QED
        BY <3>1, <4>1
    <3> HIDE DEF s, k
    <3>5. Get(obj, p \o s) = Get(Get(obj, p), s)
      BY <1>1, <3>2, GetConcat
    <3>6. Append(p \o s, k) \in PathsOf(obj)
      BY <3>3, <3>4, <3>5, PathsGrow
    <3>7. p \o Append(s, k) = Append(p \o s, k)
      <4>1. p \in Seq(X) /\ s \in Seq(X) /\ k \in X
        BY <1>1, <3>2
      <4> QED
        BY ONLY <4>1
    <3> QED
      BY <2>2, <3>2, <3>6, <3>7
  <2> QED
    BY <2>3, <2>4
<1>3. p \o SubSeq(q, 1, Len(q)) \in PathsOf(obj)
  BY <1>1, <1>2
<1> QED
  BY <1>3, PrefixEnds

LEMMA ConcatSame ==
  ASSUME NEW X, NEW p \in Seq(X), NEW q \in Seq(X), NEW r \in Seq(X), p \o q = p \o r
  PROVE  q = r
<1>1. /\ Len(p \o q) = Len(p) + Len(q) /\ Len(p \o r) = Len(p) + Len(r)
      /\ \A i \in 1 .. Len(q) : (p \o q)[Len(p) + i] = q[i]
      /\ \A i \in 1 .. Len(r) : (p \o r)[Len(p) + i] = r[i]
  BY ConcatPrefix
<1>2. Len(p) \in Nat /\ Len(q) \in Nat /\ Len(r) \in Nat
  OBVIOUS
<1>3. Len(q) = Len(r)
  BY <1>1, <1>2
<1>4. \A i \in 1 .. Len(q) : q[i] = r[i]
  BY <1>1, <1>3
<1> QED
  BY <1>3, <1>4, SeqEqual

(* Whatever is in a JSON value is a tree.                                  *)
LEMMA JsonBelow ==
  ASSUME NEW obj, IsJson(obj), NEW path \in PathsOf(obj)
  PROVE  Tree(Get(obj, path)) /\ Get(obj, path) # Missing /\ Get(obj, path) # NOTHING
<1> DEFINE V   == {Get(obj, p) : p \in PathsOf(obj)}
           val == Get(obj, path)
<1>1. /\ IsFiniteSet(PathsOf(obj))
      /\ \A v \in V :
          /\ v = Null \/ v.kind \in {"base", "dict", "list"}
          /\ Range(Children(v)) \subseteq V
          /\ IsDict(v) => Steps(v) \subseteq Keys /\ v = Dict([k \in Steps(v) |-> v.at[k]])
          /\ IsList(v) => v.elems \in Seq(V) /\ v = List(v.elems)
  BY DEF IsJson
<1>0. NOTHING \notin V /\ Missing \notin V
  <2>1. NOTHING.kind = "nothing" /\ Missing.kind = "missing" /\ Null.kind = "null"
    BY DEF NOTHING, Missing, Null
  <2> HIDE DEF V
  <2> QED
    BY <1>1, <2>1
<1>01. val \in V
  OBVIOUS
<1> HIDE DEF V
<1>2. \A v \in V : \A k \in Steps(v) : Children(v)[k] \in V
  BY <1>1 DEF Steps, Range
<1>02. PICK X0 : path \in Seq(X0)
  BY PathsGrow
<1> DEFINE X == X0 \cup AllSteps
<1>03. path \in Seq(X) /\ Seq(AllSteps) \subseteq Seq(X)
  BY <1>02
<1>04. \A q \in Seq(AllSteps) : Into(val, q) => path \o q \in PathsOf(obj)
  BY PathsInto
<1> HIDE DEF X, val
<1>3. \A q \in Seq(AllSteps) : Get(val, q) \in V \cup {Missing}
  BY <1>01, <1>2, GetClosed
<1>4. Steps(Missing) = {} /\ Formed(Missing) /\ Fits(Missing)
  BY DEF Steps, Children, Formed, Fits, Missing, IsContainer, IsDict, IsList
<1>5. ASSUME NEW v \in V PROVE Formed(v) /\ Fits(v)
  <2>1. CASE IsList(v)
    <3>1. v.elems \in Seq(V) /\ v = List(v.elems) /\ ~IsDict(v)
      BY <1>1, <2>1 DEF IsList, IsDict
    <3>2. Children(v) = v.elems /\ Steps(v) = DOMAIN v.elems
      BY <2>1, <3>1 DEF Steps, Children
    <3>3. DOMAIN v.elems \subseteq Nat /\ v.elems = [k \in DOMAIN v.elems |-> v.elems[k]]
      BY <3>1
    <3>4. [k \in Steps(v) |-> Children(v)[k]] = v.elems
      BY <3>2, <3>3
    <3>5. WithChildren(v, v.elems) = v
      BY <2>1, <3>1 DEF WithChildren
    <3> QED
      BY <3>1, <3>2, <3>3, <3>4, <3>5, KeysAreSteps DEF Formed, Fits
  <2>2. CASE IsDict(v)
    <3>1. Steps(v) \subseteq Keys /\ v = Dict([k \in Steps(v) |-> v.at[k]]) /\ ~IsList(v)
      BY <1>1, <2>2 DEF IsList, IsDict
    <3>2. Children(v) = v.at
      BY <2>2 DEF Children
    <3>3. WithChildren(v, [k \in Steps(v) |-> Children(v)[k]]) = v
      BY <3>1, <3>2 DEF WithChildren
    <3> QED
      BY <3>1, <3>3, KeysAreSteps DEF Formed, Fits
  <2> QED
    BY <2>1, <2>2 DEF Formed, Fits, IsContainer
<1>6. WellFormed(val) /\ Fitting(val)
  BY <1>3, <1>4, <1>5 DEF WellFormed, Fitting
<1>7. ASSUME NEW q \in Seq(AllSteps), NEW k \in AllSteps, k \in Steps(Get(val, q))
      PROVE  Get(val, Append(q, k)) # Missing /\ Get(val, q) # Missing
  <2>1. Get(val, q) \in V
    BY <1>3, <1>4, <1>7
  <2>2. Get(val, Append(q, k)) = Children(Get(val, q))[k]
    BY <1>7, GetAppend DEF Step
  <2> QED
    BY <1>0, <1>1, <1>2, <1>7, <2>1, <2>2
<1>8. Solid(val)
  BY <1>7 DEF Solid
<1>9. ASSUME NEW q \in Seq(AllSteps), NEW k \in AllSteps, k \in Steps(Get(val, q))
      PROVE  Len(q) < MaxDepth
  <2>1. Into(val, q)
    BY <1>7, <1>9, FoundInto
  <2>2. Into(val, Append(q, k)) /\ Append(q, k) \in Seq(AllSteps) /\ Len(Append(q, k)) = Len(q) + 1
    BY <1>9, <2>1, IntoAppend, AppendEffect
  <2>3. Len(path \o Append(q, k)) \in 0 .. MaxDepth
    BY <1>04, <2>2, PathsGrow
  <2>4. Len(path \o Append(q, k)) = Len(path) + (Len(q) + 1)
    <3>1. Append(q, k) \in Seq(X)
      BY <1>03, <2>2
    <3> QED
      BY <1>03, <2>2, <3>1, ConcatProperties
  <2>5. Len(path) \in Nat /\ Len(q) \in Nat
    BY <1>03
  <2> QED
    BY <2>3, <2>4, <2>5, DepthAssumption
<1>10. Shallow(val)
  BY <1>9 DEF Shallow
<1>11. IsFiniteSet(PathsOf(val))
  <2> DEFINE T == PathsOf(val)
             g == [q \in T |-> path \o q]
  <2>1. \A q \in T : q \in Seq(AllSteps) /\ Into(val, q)
    BY <1>6, PathsAreSteps, KeyPathsOf
  <2>2. g \in [T -> PathsOf(obj)]
    BY <1>04, <2>1
  <2>3. ASSUME NEW q \in T, NEW r \in T, path \o q = path \o r PROVE q = r
    <3>1. path \in Seq(X) /\ q \in Seq(X) /\ r \in Seq(X)
      BY <1>03, <2>1
    <3> QED
      BY ONLY <2>3, <3>1, ConcatSame
  <2>4. g \in Injection(T, PathsOf(obj))
    BY <2>2, <2>3 DEF Injection, IsInjective
  <2> HIDE DEF T, g
  <2>5. IsFiniteSet(T)
    BY <1>1, <2>4, FS_Injection
  <2> QED
    BY <2>5 DEF T
<1>12. Tree(val) /\ val # Missing /\ val # NOTHING
  BY <1>0, <1>01, <1>6, <1>8, <1>10, <1>11 DEF Tree
<1> QED
  BY <1>12 DEF val

LEMMA JsonTree ==
  ASSUME NEW obj, IsJson(obj)
  PROVE  Tree(obj) /\ obj # Missing /\ obj # NOTHING
<1>1. PICK p \in PathsOf(obj) : obj = Get(obj, p)
  BY DEF IsJson
<1> QED
  BY <1>1, JsonBelow

LEMMA EmptyTree == Tree(EmptyDict) /\ IsDict(EmptyDict)
<1> DEFINE e == EmptyDict
<1>1. IsDict(e) /\ ~IsList(e) /\ Steps(e) = {} /\ Children(e) = <<>>
  <2>1. e.kind = "dict" /\ e.at = <<>>
    BY DEF EmptyDict, Dict
  <2>2. DOMAIN <<>> = {}
    OBVIOUS
  <2> HIDE DEF e
  <2> QED
    BY <2>1, <2>2 DEF IsDict, IsList, Steps, Children
<1>2. e = WithChildren(e, [k \in Steps(e) |-> Children(e)[k]])
  <2>1. \A f : f = [k \in {} |-> f[k]] => f = [k \in {} |-> Children(e)[k]]
    OBVIOUS
  <2>2. <<>> = [k \in {} |-> <<>>[k]]
    OBVIOUS
  <2>3. <<>> = [k \in {} |-> Children(e)[k]]
    BY <2>1, <2>2
  <2>4. e = Dict(<<>>)
    BY DEF EmptyDict
  <2> HIDE DEF e
  <2> QED
    BY <1>1, <2>3, <2>4 DEF WithChildren
<1>3. Formed(e) /\ Fits(e)
  BY <1>1, <1>2 DEF Formed, Fits
<1> HIDE DEF e
<1>4. \A v \in {Missing} : \A k \in Steps(v) : Children(v)[k] \in {Missing}
  BY DEF Steps, Children, Missing, IsDict, IsList
<1>5. \A v \in {e, Missing} : \A k \in Steps(v) : Children(v)[k] \in {e, Missing}
  BY <1>1, <1>4
<1>6. \A q \in Seq(AllSteps) : Get(e, q) \in {e, Missing}
  <2>1. e \in {e, Missing}
    OBVIOUS
  <2> QED
    BY <1>5, <2>1, GetClosed
<1>7. Steps(Missing) = {} /\ Formed(Missing) /\ Fits(Missing)
  BY DEF Steps, Children, Formed, Fits, Missing, IsContainer, IsDict, IsList
<1>8. WellFormed(e) /\ Fitting(e)
  BY <1>3, <1>6, <1>7 DEF WellFormed, Fitting
<1>9. \A q \in Seq(AllSteps) : Steps(Get(e, q)) = {}
  BY <1>1, <1>6, <1>7
<1>10. Solid(e) /\ Shallow(e)
  BY <1>9 DEF Solid, Shallow
<1>11. PathsOf(e) \subseteq {<<>>}
  <2> SUFFICES ASSUME NEW p \in PathsOf(e), p # <<>> PROVE FALSE
    OBVIOUS
  <2>1. p \in Seq(AllSteps) /\ Into(e, p)
    BY <1>8, PathsAreSteps, KeyPathsOf
  <2>2. 0 \in Nat /\ 0 < Len(p) /\ SubSeq(p, 1, 0) \in Seq(AllSteps)
    BY <2>1
  <2>3. p[0 + 1] \in Steps(Get(e, SubSeq(p, 1, 0)))
    BY <2>1, <2>2 DEF Into
  <2> QED
    BY <1>9, <2>2, <2>3
<1>12. IsFiniteSet(PathsOf(e))
  BY <1>11, FS_Subset, FS_Singleton
<1>13. Tree(e)
  BY <1>8, <1>10, <1>12 DEF Tree
<1> QED
  BY <1>1, <1>13 DEF e

---------------------------------------------------------------------------
(* Lists cut out of a value.                                               *)

LEMMA FiniteImage ==
  ASSUME NEW S, IsFiniteSet(S), NEW T, NEW f, f \in [S -> T], \A t \in T : \E s \in S : f[s] = t
  PROVE  IsFiniteSet(T)
<1>1. f \in Surjection(S, T)
  BY DEF Surjection
<1> QED
  BY <1>1, FS_Surjection

Apart(L) ==
  /\ IsFiniteSet(L) /\ \A p \in L : p \in Seq(Keys) /\ p # <<>>
  /\ \A p, q \in L : p # q => Beside(p, q)

LEMMA SkippedApart ==
  ASSUME NEW head, NEW update, NEW key_path, Tree(head), IsDict(head)
  PROVE  /\ Apart(SkippedLists(head, update, key_path))
         /\ \A p \in SkippedLists(head, update, key_path) : IsList(Get(head, p)) /\ IsList(Get(update, p))
<1> DEFINE L == SkippedLists(head, update, key_path)
<1>1. ASSUME NEW p \in L
      PROVE  p \in PathsOf(head) /\ p \in Seq(Keys) /\ IsList(Get(head, p)) /\ IsList(Get(update, p))
  BY DEF SkippedLists, ListFields
<1>2. IsFiniteSet(L)
  BY <1>1, FS_Subset DEF Tree
<1> HIDE DEF L
<1>3. \A p \in L : p # <<>>
  BY <1>1, GetEmpty DEF IsList, IsDict
<1>4. ASSUME NEW p \in L, NEW q \in L, p # q
      PROVE  ~IsPrefix(p, q)
  <2> SUFFICES ASSUME IsPrefix(p, q) PROVE FALSE
    OBVIOUS
  <2>1. p \in Seq(Keys) /\ q \in Seq(Keys) /\ IsPrefix(p, q) /\ p # q
    BY <1>1, <1>4
  <2>2. Len(p) \in Nat /\ Len(p) < Len(q) /\ SubSeq(q, 1, Len(p)) = p
    BY ONLY <2>1, PrefixProper
  <2>3. Get(head, q) # Missing
    BY <1>1 DEF IsList, Missing
  <2>4. q[Len(p) + 1] \in Steps(Get(head, p)) /\ q[Len(p) + 1] \in Keys
    BY <2>1, <2>2, <2>3, FoundOn, PrefixNext
  <2>5. Steps(Get(head, p)) \subseteq Nat
    BY <1>1, <2>1, KeysAreSteps DEF Tree, Fitting, Fits
  <2> QED
    BY <2>4, <2>5, KeysAssumption
<1> QED
  BY <1>1, <1>2, <1>3, <1>4 DEF Apart, Beside, L

Cut(L, obj, cut) ==
  /\ WellFormed(cut)
  /\ \A p \in L, r \in Seq(AllSteps) : Get(cut, p \o r) = Missing
  /\ \A q \in Seq(AllSteps) :
       /\ (\A p \in L : Beside(p, q) \/ Absent(obj, p)) => Get(cut, q) = Get(obj, q)
       /\ (\A p \in L : ~IsPrefix(p, q)) =>
            /\ OneShape(Get(cut, q), Get(obj, q))
            /\ ~IsContainer(Get(obj, q)) => Get(cut, q) = Get(obj, q)
            /\ \A k \in AllSteps : k \in Steps(Get(cut, q)) <=> Append(q, k) \notin L /\ k \in Steps(Get(obj, q))

LEMMA CutEffect ==
  ASSUME NEW L, Apart(L), NEW obj, WellFormed(obj)
  PROVE  Cut(L, obj, CutLists(obj, L))
<1> DEFINE patches == {Removal(p) : p \in L}
           cut == CutLists(obj, L)
<1>1. \A p \in L : /\ Removal(p).path = p /\ Removal(p).type = "remove" /\ Removal(p).value = Missing
                   /\ p \in Seq(AllSteps) /\ p # <<>>
  BY KeysAreSteps DEF Removal, Apart
<1>2. IsFiniteSet(patches)
  <2> DEFINE f == [p \in L |-> Removal(p)]
  <2>1. f \in [L -> patches] /\ \A t \in patches : \E p \in L : f[p] = t
    OBVIOUS
  <2> HIDE DEF f, patches
  <2> QED
    BY <2>1, FiniteImage DEF Apart
<1>3. PatchesOK(patches)
  <2>1. \A x \in patches : PatchOK(x)
    BY <1>1, MissingTree DEF PatchOK
  <2>2. \A x, y \in patches : x # y => Beside(x.path, y.path)
    BY <1>1 DEF Apart
  <2> QED
    BY <2>1, <2>2 DEF PatchesOK
<1>4. Applicable(patches, obj)
  BY <1>1 DEF Applicable
<1>5. cut = Applied(patches, obj)
  BY DEF CutLists
<1>6. (\A x \in patches : x.type = "remove" /\ x.value = Missing /\ x.path \in L) /\ (\A p \in L : \E x \in patches : x.path = p)
  BY <1>1
<1> HIDE DEF patches, cut
<1>7. Effect(patches, obj, cut)
  BY <1>2, <1>3, <1>4, <1>5, EffectOfAll
<1>8. ASSUME NEW p \in L, NEW r \in Seq(AllSteps)
      PROVE  Get(cut, p \o r) = Missing
  <2>1. PICK x \in patches : x.path = p
    BY <1>6
  <2>2. Get(cut, x.path \o r) = Get(Missing, r)
    BY <1>6, <1>7 DEF Effect
  <2> QED
    BY <2>1, <2>2, GetOfMissing
<1>9. ASSUME NEW q \in Seq(AllSteps), \A p \in L : Beside(p, q) \/ Absent(obj, p)
      PROVE  Get(cut, q) = Get(obj, q)
  <2>1. \A x \in patches : Quiet(x, obj, q)
    BY <1>6, <1>9 DEF Quiet
  <2> QED
    BY <1>7, <2>1 DEF Effect
<1>10. ASSUME NEW q \in Seq(AllSteps), \A p \in L : ~IsPrefix(p, q)
       PROVE  /\ OneShape(Get(cut, q), Get(obj, q))
              /\ ~IsContainer(Get(obj, q)) => Get(cut, q) = Get(obj, q)
              /\ \A k \in AllSteps : k \in Steps(Get(cut, q)) <=> Append(q, k) \notin L /\ k \in Steps(Get(obj, q))
  <2>1. \A x \in patches : ~IsPrefix(x.path, q)
    BY <1>6, <1>10
  <2>2. /\ OneShape(Get(cut, q), Get(obj, q))
        /\ ~IsContainer(Get(obj, q)) => Get(cut, q) = Get(obj, q)
    BY <1>7, <2>1 DEF Effect
  <2>3. ASSUME NEW k \in AllSteps
        PROVE  k \in Steps(Get(cut, q)) <=> Append(q, k) \notin L /\ k \in Steps(Get(obj, q))
    <3>1. (\E x \in patches : x.path = Append(q, k)) <=> Append(q, k) \in L
      BY <1>6
    <3>2. ~\E x \in patches : x.path = Append(q, k) /\ x.type # "remove"
      BY <1>6
    <3>3. k \in Steps(Get(cut, q)) <=>
            IF \E x \in patches : x.path = Append(q, k)
            THEN IsContainer(Get(obj, q)) /\ \E x \in patches : x.path = Append(q, k) /\ x.type # "remove"
            ELSE k \in Steps(Get(obj, q))
      BY <1>7, <2>1 DEF Effect
    <3> QED
      BY <3>1, <3>2, <3>3
  <2> QED
    BY <2>2, <2>3
<1>11. WellFormed(cut)
  BY <1>7 DEF Effect
<1>12. Cut(L, obj, cut)
  BY <1>8, <1>9, <1>10, <1>11 DEF Cut
<1> QED
  BY <1>12 DEF cut

LEMMA StepFound ==
  ASSUME NEW obj, Tree(obj), NEW q \in Seq(AllSteps), NEW k \in AllSteps
  PROVE  /\ k \in Steps(Get(obj, q)) <=> Get(obj, Append(q, k)) # Missing
         /\ Get(obj, Append(q, k)) # Missing => Append(q, k) \in PathsOf(obj)
<1> DEFINE p == Append(q, k)
<1>1. p \in Seq(AllSteps) /\ Len(p) = Len(q) + 1 /\ Len(q) \in Nat
  BY AppendEffect
<1>2. Get(obj, p) = Step(Get(obj, q), k)
  BY GetAppend
<1>3. k \in Steps(Get(obj, q)) <=> Get(obj, p) # Missing
  BY <1>2 DEF Tree, Solid, Step
<1>4. ASSUME Get(obj, p) # Missing PROVE p \in PathsOf(obj)
  <2>1. Len(q) < MaxDepth
    BY <1>3, <1>4 DEF Tree, Shallow
  <2>2. Len(p) <= MaxDepth
    BY <1>1, <2>1, DepthAssumption
  <2> HIDE DEF p
  <2>3. Into(obj, p)
    BY <1>1, <1>4, FoundInto
  <2> QED
    BY <1>1, <2>2, <2>3, KeyPathsOf
<1> QED
  BY <1>3, <1>4

LEMMA CutTree ==
  ASSUME NEW L, Apart(L), NEW obj, Tree(obj), IsDict(obj), NEW cut, Cut(L, obj, cut)
  PROVE  /\ Tree(cut) /\ IsDict(cut)
         /\ \A p \in L : Get(cut, p) = Missing /\ Absent(cut, p)
<1>1. ASSUME NEW q \in Seq(AllSteps), NEW p \in L, IsPrefix(p, q)
      PROVE  Get(cut, q) = Missing
  <2>1. p \in Seq(AllSteps)
    BY KeysAreSteps DEF Apart
  <2>2. PICK r \in Seq(AllSteps) : q = p \o r
    BY <1>1, <2>1, PrefixIs
  <2> QED
    BY <2>2 DEF Cut
<1>2. Steps(Missing) = {}
  BY DEF Steps, Children, Missing, IsDict, IsList
<1>3. ASSUME NEW q \in Seq(AllSteps), NEW k \in AllSteps, k \in Steps(Get(cut, q))
      PROVE  /\ k \in Steps(Get(obj, q))
             /\ Get(cut, Append(q, k)) # Missing
  <2>1. \A p \in L : ~IsPrefix(p, q)
    BY <1>1, <1>2, <1>3
  <2>2. Append(q, k) \notin L /\ k \in Steps(Get(obj, q))
    BY <1>3, <2>1 DEF Cut
  <2>3. ASSUME NEW p \in L PROVE ~IsPrefix(p, Append(q, k))
    <3>1. p \in Seq(AllSteps)
      BY KeysAreSteps DEF Apart
    <3> QED
      BY <2>1, <2>2, <3>1, AppendPrefix
  <2> DEFINE s == Append(q, k)
  <2>4. s \in Seq(AllSteps) /\ Get(obj, s) # Missing
    BY <2>2, AppendEffect DEF Tree, Solid
  <2>5. \A p \in L : ~IsPrefix(p, s)
    BY <2>3
  <2> HIDE DEF s
  <2>6. Get(cut, s) # Missing
    BY <2>4, <2>5 DEF Cut, OneShape, IsContainer, IsDict, IsList, Missing
  <2> QED
    BY <2>2, <2>6 DEF s
<1>4. WellFormed(cut) /\ Solid(cut) /\ Shallow(cut)
  BY <1>3 DEF Cut, Solid, Shallow, Tree
<1>9. Fitting(cut)
  <2> SUFFICES ASSUME NEW q \in Seq(AllSteps) PROVE Fits(Get(cut, q))
    BY DEF Fitting
  <2>1. CASE \E p \in L : IsPrefix(p, q)
    BY <1>1, <2>1 DEF Fits, Missing, IsDict, IsList
  <2>2. CASE \A p \in L : ~IsPrefix(p, q)
    <3>1. OneShape(Get(cut, q), Get(obj, q))
      BY <2>2 DEF Cut
    <3>2. Formed(Get(cut, q)) /\ Fits(Get(obj, q))
      BY <1>4 DEF WellFormed, Tree, Fitting
    <3>3. IsContainer(Get(cut, q)) => Steps(Get(cut, q)) \subseteq Steps(Get(obj, q))
      BY <1>3, <3>2 DEF Formed
    <3> QED
      BY <3>1, <3>2, <3>3 DEF OneShape, Fits, IsContainer
  <2> QED
    BY <2>1, <2>2
<1>5. PathsOf(cut) \subseteq PathsOf(obj)
  <2> SUFFICES ASSUME NEW p \in PathsOf(cut) PROVE p \in PathsOf(obj)
    OBVIOUS
  <2>1. p \in Seq(AllSteps) /\ Len(p) <= MaxDepth /\ Into(cut, p)
    BY <1>4, PathsAreSteps, KeyPathsOf
  <2>2. Into(obj, p)
    <3> SUFFICES ASSUME NEW n \in Nat, n < Len(p) PROVE p[n + 1] \in Steps(Get(obj, SubSeq(p, 1, n)))
      BY DEF Into
    <3>1. SubSeq(p, 1, n) \in Seq(AllSteps) /\ p[n + 1] \in AllSteps
      BY <2>1, PrefixNext
    <3>2. p[n + 1] \in Steps(Get(cut, SubSeq(p, 1, n)))
      BY <2>1 DEF Into
    <3> QED
      BY <1>3, <3>1, <3>2
  <2> QED
    BY <2>1, <2>2, KeyPathsOf
<1>6. Tree(cut)
  BY <1>4, <1>5, <1>9, FS_Subset DEF Tree
<1>7. ASSUME NEW p \in L
      PROVE  Get(cut, p) = Missing /\ Absent(cut, p)
  <2> DEFINE f == Front(p)
             l == Last(p)
  <2>1. p \in Seq(AllSteps) /\ f \in Seq(AllSteps) /\ l \in AllSteps /\ p = Append(f, l)
    BY FrontLast, KeysAreSteps DEF Apart
  <2>2. IsPrefix(p, p)
    BY <2>1, PrefixEnds DEF IsPrefix
  <2>3. Get(cut, p) = Missing
    BY <1>1, <2>1, <2>2
  <2> HIDE DEF f, l
  <2>4. l \notin Steps(Get(cut, f))
    BY <1>3, <2>1, <2>3
  <2> QED
    BY <2>3, <2>4 DEF Absent, f, l
<1>8. IsDict(cut)
  <2>1. <<>> \in Seq(AllSteps) /\ Get(cut, <<>>) = cut /\ Get(obj, <<>>) = obj
    BY GetEmpty
  <2>2. ASSUME NEW p \in L PROVE ~IsPrefix(p, <<>>)
    <3>1. p \in Seq(AllSteps) /\ p # <<>>
      BY KeysAreSteps DEF Apart
    <3> QED
      BY <2>1, <3>1, PrefixProper
  <2> QED
    BY <2>1, <2>2 DEF Cut, OneShape
<1> QED
  BY <1>6, <1>7, <1>8

---------------------------------------------------------------------------
(* The differences of two values.                                          *)

(* What two values have in common at a path where they do not differ.      *)
Same(a, b, q) ==
  OneShape(Get(a, q), Get(b, q)) /\ (~IsContainer(Get(a, q)) => Get(a, q) = Get(b, q))

LEMMA SameKindIs ==
  ASSUME NEW v, NEW w
  PROVE  SameKind(v, w) <=> IsContainer(v) /\ IsContainer(w) /\ OneShape(v, w)
BY DEF SameKind, OneShape, IsContainer, IsDict, IsList

LEMMA NeverMissing == ~IsContainer(Missing) /\ Steps(Missing) = {}
BY DEF IsContainer, IsDict, IsList, Missing, Steps, Children

(* Above a path that two values share, they are of one kind.               *)
LEMMA OneKindAbove ==
  ASSUME NEW a, NEW b, NEW q \in Seq(AllSteps), q # <<>>,
         SameKind(Get(a, Front(q)), Get(b, Front(q))),
         NEW p \in Seq(AllSteps), IsPrefix(p, q), p # q, Fits(Get(a, p)), Fits(Get(b, p))
  PROVE  SameKind(Get(a, p), Get(b, p))
<1> DEFINE f == Front(q)
           n == Len(p)
<1>1. n \in Nat /\ n < Len(q) /\ SubSeq(q, 1, n) = p /\ IsPrefix(p, f) /\ f \in Seq(AllSteps)
  BY PrefixProper, FrontLast
<1>2. SameKind(Get(a, f), Get(b, f))
  OBVIOUS
<1> HIDE DEF f
<1>3. CASE p = f
  BY <1>2, <1>3
<1>4. CASE p # f
  <2>1. n < Len(f) /\ SubSeq(f, 1, n) = p
    BY <1>1, <1>4, PrefixProper
  <2>2. Get(a, f) # Missing /\ Get(b, f) # Missing
    BY <1>2, SameKindIs, NeverMissing
  <2> HIDE DEF n
  <2>3. f[n + 1] \in Steps(Get(a, p)) /\ f[n + 1] \in Steps(Get(b, p))
    BY <1>1, <2>1, <2>2, FoundOn
  <2>4. IsContainer(Get(a, p)) /\ IsContainer(Get(b, p))
    BY <2>3, NoSteps
  <2>5. ~(IsDict(Get(a, p)) /\ IsList(Get(b, p))) /\ ~(IsList(Get(a, p)) /\ IsDict(Get(b, p)))
    BY <2>3, KeysAssumption DEF Fits
  <2> QED
    BY <2>4, <2>5 DEF SameKind, IsContainer, IsDict, IsList
<1> QED
  BY <1>3, <1>4

LEMMA SameBelow ==
  ASSUME NEW a, Tree(a), NEW b, Tree(b), NEW q \in Seq(AllSteps), NEW k \in AllSteps,
         Same(a, b, q), Append(q, k) \notin Differing(a, b)
  PROVE  Same(a, b, Append(q, k)) /\ (k \in Steps(Get(a, q)) <=> k \in Steps(Get(b, q)))
<1> DEFINE p == Append(q, k)
<1>1. p \in Seq(AllSteps) /\ p # <<>> /\ Front(p) = q
  BY AppendEffect
<1>2. CASE ~IsContainer(Get(a, q))
  <2>1. Get(a, q) = Get(b, q)
    BY <1>2 DEF Same
  <2>2. Get(a, p) = Get(b, p)
    BY <2>1, GetAppend
  <2> QED
    BY <2>1, <2>2 DEF Same, OneShape
<1>3. CASE IsContainer(Get(a, q))
  <2>1. SameKind(Get(a, q), Get(b, q))
    BY <1>3, SameKindIs DEF Same, OneShape, IsContainer
  <2>2. /\ k \in Steps(Get(a, q)) <=> Get(a, p) # Missing
        /\ k \in Steps(Get(b, q)) <=> Get(b, p) # Missing
        /\ Get(a, p) # Missing => p \in PathsOf(a)
        /\ Get(b, p) # Missing => p \in PathsOf(b)
    BY StepFound
  <2>3. p \notin Differing(a, b)
    OBVIOUS
  <2> HIDE DEF p
  <2>4. \/ Get(a, p) = Get(b, p)
        \/ SameKind(Get(a, p), Get(b, p))
    BY <1>1, <2>1, <2>2, <2>3 DEF Differing
  <2>5. Same(a, b, p) /\ (Get(a, p) = Missing <=> Get(b, p) = Missing)
    BY <2>4, SameKindIs, NeverMissing DEF Same, OneShape
  <2> QED
    BY <2>2, <2>5 DEF p
<1> QED
  BY <1>2, <1>3

LEMMA SameUnlessDiffering ==
  ASSUME NEW a, Tree(a), IsDict(a), NEW b, Tree(b), IsDict(b), NEW q \in Seq(AllSteps),
         \A x \in Differing(a, b) : ~IsPrefix(x, q)
  PROVE  Same(a, b, q)
<1> DEFINE Y == {n \in Nat : n <= Len(q) /\ ~Same(a, b, SubSeq(q, 1, n))}
<1>1. Y = {}
  <2> SUFFICES ASSUME Y # {} PROVE FALSE
    OBVIOUS
  <2>1. PICK n \in Y : \A m \in Y : n <= m
    <3>1. Y \in SUBSET Nat
      OBVIOUS
    <3> HIDE DEF Y
    <3> QED
      BY <3>1, Least
  <2>2. n \in Nat /\ n <= Len(q) /\ ~Same(a, b, SubSeq(q, 1, n)) /\ Len(q) \in Nat
    BY <2>1
  <2>3. n # 0
    BY <2>2, PrefixEnds, GetEmpty DEF Same, OneShape, IsContainer, IsDict, IsList
  <2> DEFINE m == n - 1
             p == SubSeq(q, 1, m)
             k == q[m + 1]
  <2>4. m \in Nat /\ m < Len(q) /\ m + 1 = n /\ ~(n <= m) /\ m <= Len(q)
    BY <2>2, <2>3
  <2> HIDE DEF m
  <2>5. Same(a, b, p)
    <3>1. m \notin Y
      <4> HIDE DEF Y
      <4> QED
        BY <2>1, <2>4
    <3> QED
      BY <2>4, <3>1
  <2>6. p \in Seq(AllSteps) /\ k \in AllSteps /\ SubSeq(q, 1, n) = Append(p, k)
    BY <2>4, PrefixNext
  <2>7. Append(p, k) \notin Differing(a, b)
    <3>1. n \in 0 .. Len(q)
      BY <2>2
    <3>2. SubSeq(q, 1, n) \in Seq(AllSteps) /\ Len(SubSeq(q, 1, n)) = n
      BY <3>1, PrefixEffect
    <3>3. IsPrefix(SubSeq(q, 1, n), q)
      BY <2>2, <3>2, PrefixIs
    <3> QED
      BY <2>6, <3>3
  <2> HIDE DEF p, k
  <2> QED
    BY <2>2, <2>5, <2>6, <2>7, SameBelow
<1>2. Len(q) \in Nat /\ Len(q) <= Len(q) /\ SubSeq(q, 1, Len(q)) = q
  BY PrefixEnds
<1> QED
  BY <1>1, <1>2

LEMMA DiffIs ==
  ASSUME NEW a, Tree(a), NEW b, Tree(b), NEW x \in Diff(a, b)
  PROVE  /\ x.path \in Differing(a, b) /\ x = Patch(a, b, x.path) /\ x.value = Get(b, x.path)
         /\ PatchOK(x) /\ (x.type # "remove" => x.value # Missing)
         /\ SameKind(Get(a, Front(x.path)), Get(b, Front(x.path))) /\ IsContainer(Get(a, Front(x.path)))
         /\ Get(a, x.path) # Get(b, x.path)
         /\ ~SameKind(Get(a, x.path), Get(b, x.path))
<1>1. PICK p \in Differing(a, b) : x = Patch(a, b, p)
  BY DEF Diff
<1>2. x.path = p /\ x.value = Get(b, p) /\ (x.type = "remove" <=> ~Has(b, p))
  BY <1>1 DEF Patch
<1>3. /\ p \in Seq(AllSteps) /\ p # <<>>
      /\ SameKind(Get(a, Front(p)), Get(b, Front(p)))
      /\ Get(a, p) # Get(b, p)
      /\ ~SameKind(Get(a, p), Get(b, p))
  BY PathsAreSteps DEF Differing, Tree
<1>4. WellFormed(x.value)
  BY <1>2, <1>3, WellFormedBelow DEF Tree
<1>5. PatchOK(x)
  BY <1>2, <1>3, <1>4 DEF PatchOK, Has
<1> QED
  BY <1>1, <1>2, <1>3, <1>5 DEF Has, SameKind

LEMMA DiffFinite ==
  ASSUME NEW a, Tree(a), NEW b, Tree(b)
  PROVE  IsFiniteSet(Diff(a, b))
<1>1. Differing(a, b) \subseteq PathsOf(a) \cup PathsOf(b)
  BY DEF Differing
<1>2. IsFiniteSet(PathsOf(a) \cup PathsOf(b))
  BY FS_Union DEF Tree
<1>3. IsFiniteSet(Differing(a, b))
  BY <1>1, <1>2, FS_Subset
<1> DEFINE S == Differing(a, b)
           T == Diff(a, b)
           f == [p \in S |-> Patch(a, b, p)]
<1>4. f \in [S -> T] /\ \A t \in T : \E p \in S : f[p] = t
  BY DEF Diff
<1> HIDE DEF S, T, f
<1>5. IsFiniteSet(S)
  BY <1>3 DEF S
<1>6. IsFiniteSet(T)
  BY <1>4, <1>5, FiniteImage
<1> QED
  BY <1>6 DEF T

LEMMA DiffApart ==
  ASSUME NEW a, Tree(a), NEW b, Tree(b), NEW x \in Diff(a, b), NEW y \in Diff(a, b), x # y
  PROVE  Beside(x.path, y.path)
<1>1. ASSUME NEW v \in Diff(a, b), NEW w \in Diff(a, b), v # w
      PROVE  ~IsPrefix(v.path, w.path)
  <2> SUFFICES ASSUME IsPrefix(v.path, w.path) PROVE FALSE
    OBVIOUS
  <2> DEFINE p == v.path
             q == w.path
  <2>1. /\ p \in Seq(AllSteps) /\ q \in Seq(AllSteps) /\ q # <<>> /\ IsPrefix(p, q)
        /\ SameKind(Get(a, Front(q)), Get(b, Front(q)))
        /\ ~SameKind(Get(a, p), Get(b, p))
    BY DiffIs DEF PatchOK
  <2>2. p # q
    BY <1>1, DiffIs
  <2> HIDE DEF p, q
  <2>3. Fits(Get(a, p)) /\ Fits(Get(b, p))
    BY <2>1 DEF Tree, Fitting
  <2> QED
    BY <2>1, <2>2, <2>3, OneKindAbove
<1> QED
  BY <1>1 DEF Beside

---------------------------------------------------------------------------
(* The patches that are applied.                                           *)

ConflictsOf(a, h, u) == Conflicting(Diff(a, h), Diff(a, u))

Lost(a, h, u, key_path, x, n) ==
  \E c \in ConflictsOf(a, h, u) : c[n] = x /\ Dropped(c, Strategy(c, h, u, key_path)) = x

Solved(a, h, u, key_path) ==
  {x \in Diff(a, h) : ~Lost(a, h, u, key_path, x, 1)} \cup {x \in Diff(a, u) : ~Lost(a, h, u, key_path, x, 2)}

LEMMA ConflictIs ==
  ASSUME NEW first, NEW second
  PROVE  /\ \A x \in first, y \in second :
              x # y /\ (IsPrefix(x.path, y.path) \/ IsPrefix(y.path, x.path)) =>
                <<x, y>> \in Conflicting(first, second)
         /\ \A c \in Conflicting(first, second) :
              /\ c = <<c[1], c[2]>> /\ c[1] \in first /\ c[2] \in second /\ c[1] # c[2]
              /\ IsPrefix(c[1].path, c[2].path) \/ IsPrefix(c[2].path, c[1].path)
<1>1. ASSUME NEW x \in first, NEW y \in second, x # y,
             IsPrefix(x.path, y.path) \/ IsPrefix(y.path, x.path)
      PROVE  <<x, y>> \in Conflicting(first, second)
  <2> DEFINE c == <<x, y>>
  <2>1. c \in first \X second /\ c[1] = x /\ c[2] = y
    OBVIOUS
  <2> HIDE DEF c
  <2>2. c \in Conflicting(first, second)
    BY <1>1, <2>1 DEF Conflicting
  <2> QED
    BY <2>2 DEF c
<1>2. ASSUME NEW c \in Conflicting(first, second)
      PROVE  /\ c = <<c[1], c[2]>> /\ c[1] \in first /\ c[2] \in second /\ c[1] # c[2]
             /\ IsPrefix(c[1].path, c[2].path) \/ IsPrefix(c[2].path, c[1].path)
  <2>1. c \in first \X second
    BY DEF Conflicting
  <2>2. c[1] # c[2] /\ (IsPrefix(c[1].path, c[2].path) \/ IsPrefix(c[2].path, c[1].path))
    BY DEF Conflicting
  <2>3. c = <<c[1], c[2]>> /\ c[1] \in first /\ c[2] \in second
    BY <2>1
  <2> QED
    BY <2>2, <2>3
<1> QED
  BY <1>1, <1>2

LEMMA DroppedIs ==
  ASSUME NEW x, NEW y, NEW s
  PROVE  Dropped(<<x, y>>, s) = IF s = "f" THEN y ELSE x
BY DEF Dropped

LEMMA UnifiedOK ==
  ASSUME NEW a, Tree(a), NEW h, Tree(h), NEW u, Tree(u), NEW key_path
  PROVE  /\ Solved(a, h, u, key_path) \subseteq Diff(a, h) \cup Diff(a, u)
         /\ IsFiniteSet(Solved(a, h, u, key_path))
         /\ PatchesOK(Solved(a, h, u, key_path)) /\ Applicable(Solved(a, h, u, key_path), a)
<1> DEFINE U == Solved(a, h, u, key_path)
           F == Diff(a, h)
           G == Diff(a, u)
<1>1. U \subseteq F \cup G
  BY DEF Solved
<1>2. IsFiniteSet(U)
  BY <1>1, DiffFinite, FS_Union, FS_Subset
<1>3. \A x \in F \cup G : PatchOK(x) /\ IsContainer(Get(a, Front(x.path)))
  BY DiffIs
<1>4. ASSUME NEW x \in U, x \in F, x \notin G, NEW y \in U, y \in G, y \notin F
      PROVE  Beside(x.path, y.path)
  <2> SUFFICES ASSUME IsPrefix(x.path, y.path) \/ IsPrefix(y.path, x.path) PROVE FALSE
    BY DEF Beside
  <2> DEFINE c == <<x, y>>
  <2>1. c \in ConflictsOf(a, h, u) /\ c[1] = x /\ c[2] = y
    BY <1>4, ConflictIs DEF ConflictsOf
  <2>2. Dropped(c, Strategy(c, h, u, key_path)) \in {x, y}
    BY DroppedIs
  <2> HIDE DEF c
  <2>3. Lost(a, h, u, key_path, x, 1) \/ Lost(a, h, u, key_path, y, 2)
    BY <2>1, <2>2 DEF Lost
  <2> QED
    BY <1>4, <2>3 DEF Solved
<1>5. \A x, y \in F \cup G : Beside(x.path, y.path) <=> Beside(y.path, x.path)
  BY DEF Beside
<1> HIDE DEF U, F, G
<1>6. \A x, y \in F : x # y => Beside(x.path, y.path)
  BY DiffApart DEF F
<1>7. \A x, y \in G : x # y => Beside(x.path, y.path)
  BY DiffApart DEF G
<1>8. PatchesOK(U)
  BY <1>1, <1>3, <1>4, <1>5, <1>6, <1>7 DEF PatchesOK
<1>9. Applicable(U, a)
  BY <1>1, <1>3 DEF Applicable
<1> QED
  BY <1>1, <1>2, <1>8, <1>9 DEF U, F, G

(* Where both sides differ from root at a path, one of the two is applied. *)
LEMMA OneIsApplied ==
  ASSUME NEW a, Tree(a), NEW h, Tree(h), NEW u, Tree(u), NEW key_path,
         NEW x \in Diff(a, h), NEW y \in Diff(a, u), x.path = y.path
  PROVE  {x, y} \cap Solved(a, h, u, key_path) # {}
<1> SUFFICES ASSUME Lost(a, h, u, key_path, x, 1), Lost(a, h, u, key_path, y, 2) PROVE FALSE
  BY DEF Solved
<1>1. PICK c \in ConflictsOf(a, h, u) : c[1] = x /\ Dropped(c, Strategy(c, h, u, key_path)) = x
  BY DEF Lost
<1>2. PICK d \in ConflictsOf(a, h, u) : d[2] = y /\ Dropped(d, Strategy(d, h, u, key_path)) = y
  BY DEF Lost
<1>3. /\ c = <<x, c[2]>> /\ c[2] \in Diff(a, u) /\ x # c[2]
      /\ IsPrefix(x.path, c[2].path) \/ IsPrefix(c[2].path, x.path)
  BY <1>1, ConflictIs DEF ConflictsOf
<1>4. /\ d = <<d[1], y>> /\ d[1] \in Diff(a, h) /\ d[1] # y
      /\ IsPrefix(d[1].path, y.path) \/ IsPrefix(y.path, d[1].path)
  BY <1>2, ConflictIs DEF ConflictsOf
<1>5. c[2] = y
  <2> DEFINE z == c[2]
  <2>1. z \in Diff(a, u) /\ ~Beside(z.path, y.path)
    BY <1>3 DEF Beside
  <2> HIDE DEF z
  <2>2. z = y
    BY <2>1, DiffApart
  <2> QED
    BY <2>2 DEF z
<1>6. d[1] = x
  <2> DEFINE z == d[1]
  <2>1. z \in Diff(a, h) /\ ~Beside(z.path, x.path)
    BY <1>4 DEF Beside
  <2> HIDE DEF z
  <2>2. z = x
    BY <2>1, DiffApart
  <2> QED
    BY <2>2 DEF z
<1>7. c = d
  BY <1>3, <1>4, <1>5, <1>6
<1> QED
  BY <1>1, <1>2, <1>3, <1>5, <1>7

---------------------------------------------------------------------------
(* The lists put back into root.                                           *)

(* What is put back: neither absent nor null in root.                      *)
Regained(root, p) == ~IsNone(Get(root, p))

Restored(L, root, cut, mid) ==
  /\ WellFormed(mid)
  /\ \A p \in L : Regained(root, p) => \A r \in Seq(AllSteps) : Get(mid, p \o r) = Get(root, p \o r)
  /\ \A q \in Seq(AllSteps) :
       /\ (\A p \in L : Regained(root, p) => Beside(p, q)) => Get(mid, q) = Get(cut, q)
       /\ (\A p \in L : ~IsPrefix(p, q)) =>
            /\ OneShape(Get(mid, q), Get(cut, q))
            /\ ~IsContainer(Get(cut, q)) => Get(mid, q) = Get(cut, q)
            /\ \A k \in AllSteps : ~(Append(q, k) \in L /\ Regained(root, Append(q, k))) =>
                 (k \in Steps(Get(mid, q)) <=> k \in Steps(Get(cut, q)))

LEMMA ParentOfList ==
  ASSUME NEW L, Apart(L), NEW p \in L
  PROVE  /\ p \in Seq(Keys) /\ p # <<>> /\ Front(p) \in Seq(Keys) /\ Last(p) \in Keys
         /\ p \in Seq(AllSteps) /\ Front(p) \in Seq(AllSteps) /\ Last(p) \in AllSteps
         /\ p = Append(Front(p), Last(p)) /\ IsPrefix(Front(p), p) /\ \A q \in L : ~IsPrefix(q, Front(p))
<1>1. p \in Seq(Keys) /\ p # <<>>
  BY DEF Apart
<1> DEFINE f == Front(p)
           l == Last(p)
<1>2. f \in Seq(Keys) /\ l \in Keys /\ p = Append(f, l)
  BY <1>1, FrontLast
<1> HIDE DEF f, l
<1>3. IsPrefix(f, p) /\ ~IsPrefix(p, f)
  BY <1>2, AppendPrefix
<1>4. ASSUME NEW q \in L, q # p PROVE ~IsPrefix(q, f)
  <2>1. q \in Seq(Keys) /\ ~IsPrefix(q, p)
    BY <1>4 DEF Apart, Beside
  <2> QED
    BY <1>1, <1>2, <1>3, <2>1, PrefixTrans
<1> QED
  BY <1>1, <1>2, <1>3, <1>4, KeysAreSteps DEF f, l

LEMMA RestoreEffect ==
  ASSUME NEW L, Apart(L), NEW root, Tree(root), NEW cut, Cut(L, root, cut)
  PROVE  Restored(L, root, cut, RestoreLists(cut, root, L))
<1> DEFINE M == {l \in L : Regained(root, l)}
           patches == {Setting(p, Get(root, p)) : p \in M}
           mid == RestoreLists(cut, root, L)
<1>1. \A p \in M : LET x == Setting(p, Get(root, p))
                   IN /\ x.path = p /\ x.type # "remove" /\ x.value = Get(root, p)
                      /\ p \in Seq(AllSteps) /\ p # <<>> /\ p \in L /\ Get(root, p) # Missing
  BY KeysAreSteps DEF Setting, Apart, Regained, IsNone
<1>2. IsFiniteSet(patches)
  <2> DEFINE f == [p \in M |-> Setting(p, Get(root, p))]
  <2>1. f \in [M -> patches] /\ \A t \in patches : \E p \in M : f[p] = t
    OBVIOUS
  <2>2. IsFiniteSet(M)
    BY FS_Subset DEF Apart
  <2> HIDE DEF f, patches, M
  <2> QED
    BY <2>1, <2>2, FiniteImage
<1>3. PatchesOK(patches)
  <2>1. \A p \in M : WellFormed(Get(root, p))
    BY <1>1, WellFormedBelow DEF Tree
  <2>2. \A x \in patches : PatchOK(x)
    BY <1>1, <2>1 DEF PatchOK
  <2>3. \A x, y \in patches : x # y => Beside(x.path, y.path)
    BY <1>1 DEF Apart
  <2> QED
    BY <2>2, <2>3 DEF PatchesOK
<1>4. Applicable(patches, cut)
  <2> SUFFICES ASSUME NEW p \in M PROVE IsContainer(Get(cut, Front(p)))
    BY <1>1 DEF Applicable
  <2>1. /\ Front(p) \in Seq(AllSteps) /\ p \in Seq(AllSteps) /\ p = Append(Front(p), Last(p))
        /\ Last(p) \in AllSteps /\ \A q \in L : ~IsPrefix(q, Front(p))
    BY ParentOfList
  <2> DEFINE f == Front(p)
             l == Last(p)
  <2>2. Get(root, Append(f, l)) = Step(Get(root, f), l)
    BY <2>1, GetAppend
  <2>3. Step(Get(root, f), l) # Missing
    BY <1>1, <2>1, <2>2
  <2> HIDE DEF f, l
  <2>4. IsContainer(Get(root, f))
    BY <2>3, NoSteps
  <2>5. IsContainer(Get(cut, f))
    BY <2>1, <2>4 DEF Cut, OneShape, IsContainer, f
  <2> QED
    BY <2>5 DEF f
<1>5. mid = Applied(patches, cut)
  BY DEF RestoreLists, Regained
<1>6. /\ \A x \in patches : x.type # "remove" /\ x.path \in M /\ x.value = Get(root, x.path)
      /\ \A p \in M : \E x \in patches : x.path = p
  BY <1>1
<1>7. WellFormed(cut)
  BY DEF Cut
<1> HIDE DEF patches, mid, M
<1>8. Effect(patches, cut, mid)
  BY <1>2, <1>3, <1>4, <1>5, <1>7, EffectOfAll
<1>9. ASSUME NEW p \in M, NEW r \in Seq(AllSteps)
      PROVE  Get(mid, p \o r) = Get(root, p \o r)
  <2>1. PICK x \in patches : x.path = p
    BY <1>6
  <2>2. Get(mid, x.path \o r) = Get(x.value, r)
    BY <1>8 DEF Effect
  <2>3. x.value = Get(root, p)
    BY <1>6, <2>1
  <2>4. p \in Seq(AllSteps)
    BY <1>1 DEF M
  <2>5. Get(root, p \o r) = Get(Get(root, p), r)
    BY <2>4, GetConcat
  <2> QED
    BY <2>1, <2>2, <2>3, <2>5
<1>10. ASSUME NEW q \in Seq(AllSteps), \A p \in M : Beside(p, q)
       PROVE  Get(mid, q) = Get(cut, q)
  <2>1. \A x \in patches : Quiet(x, cut, q)
    BY <1>6, <1>10 DEF Quiet
  <2> QED
    BY <1>8, <2>1 DEF Effect
<1>11. ASSUME NEW q \in Seq(AllSteps), \A p \in L : ~IsPrefix(p, q)
       PROVE  /\ OneShape(Get(mid, q), Get(cut, q))
              /\ ~IsContainer(Get(cut, q)) => Get(mid, q) = Get(cut, q)
              /\ \A k \in AllSteps : ~(Append(q, k) \in L /\ Regained(root, Append(q, k))) =>
                   (k \in Steps(Get(mid, q)) <=> k \in Steps(Get(cut, q)))
  <2>0. \A x \in patches : x.path \in L /\ Regained(root, x.path)
    BY <1>6 DEF M
  <2>1. \A x \in patches : ~IsPrefix(x.path, q)
    BY <1>11, <2>0
  <2>2. /\ OneShape(Get(mid, q), Get(cut, q))
        /\ ~IsContainer(Get(cut, q)) => Get(mid, q) = Get(cut, q)
    BY <1>8, <2>1 DEF Effect
  <2>3. ASSUME NEW k \in AllSteps, ~(Append(q, k) \in L /\ Regained(root, Append(q, k)))
        PROVE  k \in Steps(Get(mid, q)) <=> k \in Steps(Get(cut, q))
    <3>1. ~\E x \in patches : x.path = Append(q, k)
      BY <2>0, <2>3
    <3> QED
      BY <1>8, <2>1, <3>1 DEF Effect
  <2> QED
    BY <2>2, <2>3
<1>12. WellFormed(mid)
  BY <1>8 DEF Effect
<1>13. Restored(L, root, cut, mid)
  <2>1. \A p : p \in M <=> p \in L /\ Regained(root, p)
    BY DEF M
  <2>2. \A p \in L : Regained(root, p) => \A r \in Seq(AllSteps) : Get(mid, p \o r) = Get(root, p \o r)
    BY <1>9, <2>1
  <2>3. ASSUME NEW q \in Seq(AllSteps), \A p \in L : Regained(root, p) => Beside(p, q)
        PROVE  Get(mid, q) = Get(cut, q)
    BY <1>10, <2>1, <2>3
  <2> QED
    BY <1>11, <1>12, <2>2, <2>3 DEF Restored
<1> QED
  BY <1>13 DEF mid

---------------------------------------------------------------------------
(* One merge, with everything that MergeDicts computes on its way.         *)

MergeOf(m) ==
  /\ Tree(m.oldroot) /\ IsDict(m.oldroot)
  /\ Tree(m.oldhead) /\ IsDict(m.oldhead)
  /\ Tree(m.oldupdate) /\ IsDict(m.oldupdate)
  /\ Apart(m.lists)
  /\ \A p \in m.lists : IsList(Get(m.oldhead, p)) /\ IsList(Get(m.oldupdate, p))
  /\ Cut(m.lists, m.oldroot, m.cut) /\ Cut(m.lists, m.oldhead, m.head) /\ Cut(m.lists, m.oldupdate, m.update)
  /\ Restored(m.lists, m.oldroot, m.cut, m.mid)
  /\ m.unified = Solved(m.cut, m.head, m.update, m.key_path)
  /\ Effect(m.unified, m.mid, m.merged)
  /\ Cut(m.lists, m.merged, m.seen)

(* Above a key there is a dictionary.                                      *)
LEMMA KeysOnDicts ==
  ASSUME NEW obj, Tree(obj), NEW p \in Seq(Keys), Get(obj, p) # Missing, NEW n \in Nat, n < Len(p)
  PROVE  IsDict(Get(obj, SubSeq(p, 1, n)))
<1> DEFINE v == Get(obj, SubSeq(p, 1, n))
<1>1. p[n + 1] \in Steps(v)
  BY FoundOn
<1>2. p[n + 1] \in Keys /\ SubSeq(p, 1, n) \in Seq(AllSteps)
  BY PrefixNext, KeysAreSteps
<1>3. Fits(v)
  BY <1>2 DEF Tree, Fitting
<1> HIDE DEF v
<1>4. IsDict(v)
  BY <1>1, <1>2, <1>3, NoSteps, KeysAssumption DEF Fits, IsContainer
<1> QED
  BY <1>4 DEF v

(* Above a list that a side has, its value is a dictionary.                *)
LEMMA AboveList ==
  ASSUME NEW L, Apart(L), NEW p \in L, NEW old, Tree(old), IsList(Get(old, p)) \/ Has(old, p),
         NEW obj, Cut(L, old, obj), NEW q \in Seq(AllSteps), IsPrefix(q, p), q # p
  PROVE  IsDict(Get(old, q)) /\ IsDict(Get(obj, q)) /\ IsPrefix(q, Front(p))
<1>1. /\ p \in Seq(Keys) /\ p \in Seq(AllSteps) /\ Front(p) \in Seq(AllSteps)
      /\ \A r \in L : ~IsPrefix(r, Front(p))
  BY ParentOfList
<1>2. Len(q) \in Nat /\ Len(q) < Len(p) /\ SubSeq(p, 1, Len(q)) = q /\ IsPrefix(q, Front(p))
  BY <1>1, PrefixProper
<1>3. Get(old, p) # Missing
  BY DEF IsList, Missing, Has
<1>4. IsDict(Get(old, SubSeq(p, 1, Len(q))))
  BY <1>1, <1>2, <1>3, KeysOnDicts
<1>5. IsDict(Get(old, q))
  BY <1>2, <1>4
<1>6. ASSUME NEW r \in L PROVE ~IsPrefix(r, q)
  <2>1. r \in Seq(AllSteps) /\ ~IsPrefix(r, Front(p))
    BY <1>1, KeysAreSteps DEF Apart
  <2> QED
    BY <1>1, <1>2, <2>1, PrefixTrans
<1> QED
  BY <1>2, <1>5, <1>6 DEF Cut, OneShape

(* A change of a side is not at or below a list; above one, root has none. *)
LEMMA ChangeAndList ==
  ASSUME NEW L, Apart(L), NEW p \in L,
         NEW root, Tree(root), NEW a, Cut(L, root, a), Tree(a),
         NEW old, Tree(old), IsList(Get(old, p)), NEW b, Cut(L, old, b), Tree(b),
         NEW x \in Diff(a, b)
  PROVE  ~IsPrefix(p, x.path) /\ (IsPrefix(x.path, p) => ~Has(root, p))
<1>1. /\ x.path \in Seq(AllSteps) /\ Get(a, x.path) # Get(b, x.path)
      /\ ~SameKind(Get(a, x.path), Get(b, x.path))
  BY DiffIs DEF PatchOK
<1>2. p \in Seq(AllSteps)
  BY KeysAreSteps DEF Apart
<1>3. ~IsPrefix(p, x.path)
  <2> SUFFICES ASSUME IsPrefix(p, x.path) PROVE FALSE
    OBVIOUS
  <2>1. PICK r \in Seq(AllSteps) : x.path = p \o r
    BY <1>1, <1>2, PrefixIs
  <2>2. Get(a, p \o r) = Missing /\ Get(b, p \o r) = Missing
    BY DEF Cut
  <2> QED
    BY <1>1, <2>1, <2>2
<1>4. ASSUME IsPrefix(x.path, p), Has(root, p) PROVE FALSE
  <2> DEFINE q == x.path
  <2>1. q # p
    <3>1. IsPrefix(p, p)
      BY <1>2, PrefixEnds DEF IsPrefix
    <3> QED
      BY <1>3, <3>1
  <2>2. q \in Seq(AllSteps) /\ IsPrefix(q, p)
    BY <1>1, <1>4
  <2> HIDE DEF q
  <2>3. IsDict(Get(b, q))
    BY <2>1, <2>2, AboveList
  <2>4. IsDict(Get(a, q))
    BY <1>4, <2>1, <2>2, AboveList
  <2>5. SameKind(Get(a, q), Get(b, q))
    BY <2>3, <2>4 DEF SameKind, IsContainer, IsDict
  <2> QED
    BY <1>1, <2>5 DEF q
<1> QED
  BY <1>3, <1>4

(* What the trees of a merge are, once.                                    *)
LEMMA MergeTrees ==
  ASSUME NEW m, MergeOf(m)
  PROVE  /\ Tree(m.cut) /\ IsDict(m.cut) /\ Tree(m.head) /\ IsDict(m.head) /\ Tree(m.update) /\ IsDict(m.update)
         /\ \A p \in m.lists : /\ Absent(m.cut, p) /\ Absent(m.head, p) /\ Absent(m.update, p)
                               /\ Get(m.cut, p) = Missing /\ Get(m.head, p) = Missing
                               /\ Get(m.update, p) = Missing
         /\ m.unified \subseteq Diff(m.cut, m.head) \cup Diff(m.cut, m.update)
         /\ IsFiniteSet(m.unified) /\ PatchesOK(m.unified) /\ Applicable(m.unified, m.cut)
<1> DEFINE L == m.lists
<1>1. /\ Apart(L) /\ Cut(L, m.oldroot, m.cut) /\ Tree(m.oldroot) /\ IsDict(m.oldroot)
      /\ Cut(L, m.oldhead, m.head) /\ Tree(m.oldhead) /\ IsDict(m.oldhead)
      /\ Cut(L, m.oldupdate, m.update) /\ Tree(m.oldupdate) /\ IsDict(m.oldupdate)
      /\ m.unified = Solved(m.cut, m.head, m.update, m.key_path)
  BY DEF MergeOf
<1> HIDE DEF L
<1>2. Tree(m.cut) /\ IsDict(m.cut) /\ \A p \in L : Get(m.cut, p) = Missing /\ Absent(m.cut, p)
  BY <1>1, CutTree
<1>3. Tree(m.head) /\ IsDict(m.head) /\ \A p \in L : Get(m.head, p) = Missing /\ Absent(m.head, p)
  BY <1>1, CutTree
<1>4. Tree(m.update) /\ IsDict(m.update) /\ \A p \in L : Get(m.update, p) = Missing /\ Absent(m.update, p)
  BY <1>1, CutTree
<1>5. /\ m.unified \subseteq Diff(m.cut, m.head) \cup Diff(m.cut, m.update)
      /\ IsFiniteSet(m.unified) /\ PatchesOK(m.unified) /\ Applicable(m.unified, m.cut)
  BY <1>1, <1>2, <1>3, <1>4, UnifiedOK
<1> QED
  BY <1>2, <1>3, <1>4, <1>5 DEF L

(* A patch applied is the change of a side: what the side has there.       *)
LEMMA AppliedFrom ==
  ASSUME NEW m, MergeOf(m), NEW x \in m.unified
  PROVE  /\ x.path \in Seq(AllSteps) /\ x.path # <<>>
         /\ \E b \in {m.head, m.update} :
              x \in Diff(m.cut, b) /\ \A r \in Seq(AllSteps) : Get(x.value, r) = Get(b, x.path \o r)
         /\ \A p \in m.lists : ~IsPrefix(p, x.path) /\ (IsPrefix(x.path, p) => ~Has(m.oldroot, p))
<1>1. x \in Diff(m.cut, m.head) \cup Diff(m.cut, m.update)
  BY MergeTrees
<1>2. ASSUME NEW old, Tree(old), NEW b, Tree(b), Cut(m.lists, old, b), x \in Diff(m.cut, b),
             \A p \in m.lists : IsList(Get(old, p))
      PROVE  /\ x.path \in Seq(AllSteps) /\ x.path # <<>>
             /\ \A r \in Seq(AllSteps) : Get(x.value, r) = Get(b, x.path \o r)
             /\ \A p \in m.lists : ~IsPrefix(p, x.path) /\ (IsPrefix(x.path, p) => ~Has(m.oldroot, p))
  <2>1. Tree(m.cut)
    BY MergeTrees
  <2>2. x.value = Get(b, x.path) /\ x.path \in Seq(AllSteps) /\ x.path # <<>>
    BY <1>2, <2>1, DiffIs DEF PatchOK
  <2>3. \A r \in Seq(AllSteps) : Get(x.value, r) = Get(b, x.path \o r)
    BY <2>2, GetConcat
  <2>4. ASSUME NEW p \in m.lists
        PROVE  ~IsPrefix(p, x.path) /\ (IsPrefix(x.path, p) => ~Has(m.oldroot, p))
    <3> DEFINE L == m.lists
               root == m.oldroot
               a == m.cut
    <3>1. /\ Apart(L) /\ p \in L /\ Tree(root) /\ Cut(L, root, a) /\ Tree(a)
          /\ Tree(old) /\ IsList(Get(old, p)) /\ Cut(L, old, b) /\ Tree(b) /\ x \in Diff(a, b)
      BY <1>2, <2>1 DEF MergeOf
    <3> HIDE DEF L, root, a
    <3>2. ~IsPrefix(p, x.path) /\ (IsPrefix(x.path, p) => ~Has(root, p))
      BY ONLY <3>1, ChangeAndList
    <3> QED
      BY <3>2 DEF root
  <2> QED
    BY <2>2, <2>3, <2>4
<1>3. /\ Tree(m.oldhead) /\ Tree(m.head) /\ Cut(m.lists, m.oldhead, m.head)
      /\ Tree(m.oldupdate) /\ Tree(m.update) /\ Cut(m.lists, m.oldupdate, m.update)
      /\ \A p \in m.lists : IsList(Get(m.oldhead, p)) /\ IsList(Get(m.oldupdate, p))
  BY MergeTrees DEF MergeOf
<1>4. CASE x \in Diff(m.cut, m.head)
  BY <1>2, <1>3, <1>4
<1>5. CASE x \in Diff(m.cut, m.update)
  BY <1>2, <1>3, <1>5
<1> QED
  BY <1>1, <1>4, <1>5

(* A patch that does not lead to a list is beside it.                      *)
LEMMA PatchAndList ==
  ASSUME NEW m, MergeOf(m), NEW x \in m.unified, NEW p \in m.lists
  PROVE  /\ p \in Seq(AllSteps) /\ x.path \in Seq(AllSteps) /\ x.path # p /\ ~IsPrefix(p, x.path)
         /\ IsPrefix(x.path, p) => ~Has(m.oldroot, p) /\ IsPrefix(x.path, Front(p))
         /\ ~IsPrefix(x.path, Front(p)) => Beside(x.path, p)
<1>1. p \in Seq(AllSteps) /\ IsPrefix(p, p)
  <2>1. p \in Seq(AllSteps)
    BY KeysAreSteps DEF MergeOf, Apart
  <2> QED
    BY <2>1, PrefixEnds DEF IsPrefix
<1>2. /\ x.path \in Seq(AllSteps) /\ ~IsPrefix(p, x.path)
      /\ (IsPrefix(x.path, p) => ~Has(m.oldroot, p))
  BY AppliedFrom
<1>3. x.path # p
  BY <1>1, <1>2
<1>4. IsPrefix(x.path, p) => IsPrefix(x.path, Front(p))
  BY <1>1, <1>2, <1>3, PrefixProper
<1> QED
  BY <1>1, <1>2, <1>3, <1>4 DEF Beside

(* The lists are in the merged value what they are in root, a null is no   *)
(* longer there.                                                           *)
LEMMA ListsRestored ==
  ASSUME NEW m, MergeOf(m), NEW p \in m.lists
  PROVE  /\ Get(m.merged, p) = IF Get(m.oldroot, p) = Null THEN Missing ELSE Get(m.oldroot, p)
         /\ ~Regained(m.oldroot, p) => Absent(m.merged, p)
<1> DEFINE L == m.lists
           U == m.unified
           f == Front(p)
           l == Last(p)
<1>1. /\ p \in Seq(AllSteps) /\ f \in Seq(AllSteps) /\ l \in AllSteps /\ p = Append(f, l)
      /\ \A q \in L : ~IsPrefix(q, f)
  <2>1. Apart(L)
    BY DEF MergeOf
  <2> HIDE DEF L
  <2>2. p \in L
    BY DEF L
  <2> QED
    BY <2>1, <2>2, ParentOfList
<1>2. Restored(L, m.oldroot, m.cut, m.mid) /\ Effect(U, m.mid, m.merged)
  BY DEF MergeOf
<1>3. Get(m.cut, p) = Missing /\ Absent(m.cut, p)
  BY MergeTrees
<1>4. \A x \in U : x.path # p /\ (~IsPrefix(x.path, f) => Beside(x.path, p))
  BY PatchAndList
<1> HIDE DEF f, l
<1>5. CASE \E x \in U : IsPrefix(x.path, f)
  <2>1. PICK x \in U : IsPrefix(x.path, f)
    BY <1>5
  <2>2. PICK b \in {m.head, m.update} : \A r \in Seq(AllSteps) : Get(x.value, r) = Get(b, x.path \o r)
    BY AppliedFrom
  <2>3. x.path \in Seq(AllSteps)
    BY AppliedFrom
  <2> DEFINE s == x.path
  <2>9. s \in Seq(AllSteps) /\ IsPrefix(s, f) /\ f \in Seq(AllSteps)
    BY <1>1, <2>1, <2>3
  <2> HIDE DEF s
  <2>10. \E r \in Seq(AllSteps) : f = s \o r
    BY ONLY <2>9, PrefixIs
  <2>4. PICK r \in Seq(AllSteps) : f = x.path \o r
    BY <2>10 DEF s
  <2>5. Get(m.merged, f) = Get(b, f)
    <3>1. Get(m.merged, x.path \o r) = Get(x.value, r)
      BY <1>2 DEF Effect
    <3> QED
      BY <2>2, <2>4, <3>1
  <2>6. Absent(b, p) /\ Get(b, p) = Missing
    BY MergeTrees
  <2>7. Get(m.merged, p) = Step(Get(m.merged, f), l) /\ Get(b, p) = Step(Get(b, f), l)
    <3>1. \A o : Get(o, Append(f, l)) = Step(Get(o, f), l)
      BY <1>1, GetAppend
    <3> QED
      BY <1>1, <3>1
  <2>8. ~Has(m.oldroot, p)
    <3>1. IsPrefix(x.path, p)
      <4>1. IsPrefix(f, p)
        BY <1>1, AppendPrefix
      <4> QED
        BY <1>1, <2>1, <2>3, <4>1, PrefixTrans
    <3> QED
      BY <3>1, PatchAndList
  <2> QED
    BY <2>5, <2>6, <2>7, <2>8 DEF Absent, Has, Null, Missing, f, l
<1>6. CASE ~\E x \in U : IsPrefix(x.path, f)
  <2>1. \A x \in U : Quiet(x, m.mid, p)
    BY <1>4, <1>6 DEF Quiet
  <2>2. Get(m.merged, p) = Get(m.mid, p)
    BY <1>1, <1>2, <2>1 DEF Effect
  <2>3. CASE Regained(m.oldroot, p)
    <3>1. <<>> \in Seq(AllSteps) /\ p \o <<>> = p
      BY <1>1
    <3>2. Get(m.mid, p) = Get(m.oldroot, p)
      BY <1>2, <2>3, <3>1 DEF Restored
    <3> QED
      BY <2>2, <2>3, <3>2 DEF Regained, IsNone
  <2>4. CASE ~Regained(m.oldroot, p)
    <3>1. \A q \in L : Regained(m.oldroot, q) => Beside(q, p)
      BY <2>4 DEF MergeOf, Apart
    <3>2. Get(m.mid, p) = Get(m.cut, p)
      BY <1>1, <1>2, <3>1 DEF Restored
    <3>3. l \notin Steps(Get(m.cut, f))
      BY <1>3 DEF Absent, f, l
    <3>4. l \notin Steps(Get(m.mid, f))
      <4>1. ~(Append(f, l) \in L /\ Regained(m.oldroot, Append(f, l)))
        BY <1>1, <2>4
      <4> HIDE DEF L
      <4>2. l \in Steps(Get(m.mid, f)) <=> l \in Steps(Get(m.cut, f))
        BY <1>1, <1>2, <4>1 DEF Restored
      <4> QED
        BY <3>3, <4>2
    <3>5. l \notin Steps(Get(m.merged, f))
      <4>1. ~\E x \in U : x.path = Append(f, l)
        BY <1>1, <1>4
      <4> HIDE DEF U
      <4> QED
        BY <1>1, <1>2, <1>6, <3>4, <4>1 DEF Effect
    <3> QED
      BY <1>3, <2>2, <2>4, <3>2, <3>5 DEF Regained, IsNone, Absent, f, l
  <2> QED
    BY <2>3, <2>4
<1> QED
  BY <1>5, <1>6

(* A patch that is applied is there when the lists are left out.           *)
LEMMA PatchSeen ==
  ASSUME NEW m, MergeOf(m), NEW x \in m.unified, NEW r \in Seq(AllSteps)
  PROVE  Get(m.seen, x.path \o r) = Get(x.value, r)
<1> DEFINE q == x.path \o r
<1>1. x.path \in Seq(AllSteps)
  BY AppliedFrom
<1>2. q \in Seq(AllSteps)
  BY <1>1, ConcatPrefix
<1>3. ASSUME NEW p \in m.lists
      PROVE  Beside(p, q) \/ Absent(m.merged, p)
  <2>1. CASE IsPrefix(x.path, p)
    BY <2>1, PatchAndList, ListsRestored DEF Has, Regained, IsNone
  <2>2. CASE ~IsPrefix(x.path, p)
    <3> DEFINE s == x.path
    <3>1. p \in Seq(AllSteps) /\ s \in Seq(AllSteps) /\ Beside(p, s)
      BY <2>2, PatchAndList DEF Beside
    <3> HIDE DEF s
    <3>2. Beside(p, s \o r)
      BY <3>1, BesideBelow
    <3> QED
      BY <3>2 DEF s
  <2> QED
    BY <2>1, <2>2
<1>4. Get(m.merged, q) = Get(x.value, r)
  BY DEF MergeOf, Effect
<1> HIDE DEF q
<1>5. Get(m.seen, q) = Get(m.merged, q)
  BY <1>2, <1>3 DEF MergeOf, Cut
<1> QED
  BY <1>4, <1>5 DEF q

(* Elsewhere the merged value is as root is.                               *)
LEMMA NothingElse ==
  ASSUME NEW m, MergeOf(m), NEW q \in Seq(AllSteps), \A x \in m.unified : ~IsPrefix(x.path, q)
  PROVE  /\ Same(m.cut, m.seen, q)
         /\ \A k \in AllSteps :
              k \in Steps(Get(m.seen, q)) <=>
                IF \E x \in m.unified : x.path = Append(q, k)
                THEN IsContainer(Get(m.cut, q)) /\ \E x \in m.unified : x.path = Append(q, k) /\ x.type # "remove"
                ELSE k \in Steps(Get(m.cut, q))
<1> DEFINE L == m.lists
           U == m.unified
<1>1. /\ Cut(L, m.oldroot, m.cut) /\ Restored(L, m.oldroot, m.cut, m.mid)
      /\ Effect(U, m.mid, m.merged) /\ Cut(L, m.merged, m.seen)
      /\ \A p \in L : p \in Seq(AllSteps)
  BY KeysAreSteps DEF MergeOf, Apart
<1>2. \A x \in U, p \in L : x.path # p /\ ~IsPrefix(p, x.path) /\ x.path \in Seq(AllSteps)
  BY PatchAndList
<1> HIDE DEF L, U
<1>3. \A x \in U : ~IsPrefix(x.path, q)
  BY DEF U
<1>4. CASE \E p \in L : IsPrefix(p, q)
  <2>1. PICK p \in L : IsPrefix(p, q)
    BY <1>4
  <2>2. PICK r \in Seq(AllSteps) : q = p \o r
    <3>1. p \in Seq(AllSteps) /\ q \in Seq(AllSteps) /\ IsPrefix(p, q)
      BY <1>1, <2>1
    <3> QED
      BY ONLY <3>1, PrefixIs
  <2>3. Get(m.cut, q) = Missing /\ Get(m.seen, q) = Missing
    <3>1. Get(m.cut, p \o r) = Missing /\ Get(m.seen, p \o r) = Missing
      BY <1>1 DEF Cut
    <3> QED
      BY <2>2, <3>1
  <2> QED
    BY <2>3, NeverMissing DEF Same, OneShape
<1>5. CASE \A p \in L : ~IsPrefix(p, q)
  <2>1. /\ OneShape(Get(m.mid, q), Get(m.cut, q))
        /\ ~IsContainer(Get(m.cut, q)) => Get(m.mid, q) = Get(m.cut, q)
        /\ \A k \in AllSteps : Append(q, k) \notin L => (k \in Steps(Get(m.mid, q)) <=> k \in Steps(Get(m.cut, q)))
    BY <1>1, <1>5 DEF Restored
  <2>2. /\ OneShape(Get(m.merged, q), Get(m.mid, q))
        /\ ~IsContainer(Get(m.mid, q)) => Get(m.merged, q) = Get(m.mid, q)
    BY <1>1, <1>3 DEF Effect
  <2>3. /\ OneShape(Get(m.seen, q), Get(m.merged, q))
        /\ ~IsContainer(Get(m.merged, q)) => Get(m.seen, q) = Get(m.merged, q)
        /\ \A k \in AllSteps : k \in Steps(Get(m.seen, q)) <=> Append(q, k) \notin L /\ k \in Steps(Get(m.merged, q))
    BY <1>1, <1>5 DEF Cut
  <2>4. Same(m.cut, m.seen, q)
    BY <2>1, <2>2, <2>3 DEF Same, OneShape, IsContainer
  <2>5. ASSUME NEW k \in AllSteps
        PROVE  k \in Steps(Get(m.seen, q)) <=>
                 IF \E x \in U : x.path = Append(q, k)
                 THEN IsContainer(Get(m.cut, q)) /\ \E x \in U : x.path = Append(q, k) /\ x.type # "remove"
                 ELSE k \in Steps(Get(m.cut, q))
    <3>1. k \in Steps(Get(m.merged, q)) <=>
            IF \E x \in U : x.path = Append(q, k)
            THEN IsContainer(Get(m.mid, q)) /\ \E x \in U : x.path = Append(q, k) /\ x.type # "remove"
            ELSE k \in Steps(Get(m.mid, q))
      BY <1>1, <1>3 DEF Effect
    <3>2. CASE Append(q, k) \in L
      <4>1. ~\E x \in U : x.path = Append(q, k)
        BY <1>2, <3>2
      <4>2. k \notin Steps(Get(m.seen, q))
        BY <2>3, <3>2
      <4>3. k \notin Steps(Get(m.cut, q))
        BY <1>1, <1>5, <3>2 DEF Cut
      <4> QED
        BY <4>1, <4>2, <4>3
    <3>3. CASE Append(q, k) \notin L
      BY <2>1, <2>3, <3>1, <3>3 DEF OneShape, IsContainer
    <3> QED
      BY <3>2, <3>3
  <2> QED
    BY <2>4, <2>5 DEF U
<1> QED
  BY <1>4, <1>5

(* The place of a list that is unified later is a dictionary in the merged *)
(* value.                                                                  *)
LEMMA ParentMerged ==
  ASSUME NEW m, MergeOf(m), NEW p \in m.lists
  PROVE  IsDict(Get(m.merged, Front(p)))
<1> DEFINE L == m.lists
           U == m.unified
           f == Front(p)
           a == m.cut
           h == m.head
           u == m.update
<1>1. /\ Apart(L) /\ p \in L /\ Restored(L, m.oldroot, a, m.mid) /\ Effect(U, m.mid, m.merged)
      /\ U = Solved(a, h, u, m.key_path)
      /\ Tree(m.oldhead) /\ IsList(Get(m.oldhead, p)) /\ Cut(L, m.oldhead, h)
      /\ Tree(m.oldupdate) /\ IsList(Get(m.oldupdate, p)) /\ Cut(L, m.oldupdate, u)
  BY DEF MergeOf
<1>2. Tree(a) /\ IsDict(a) /\ Tree(h) /\ IsDict(h) /\ Tree(u) /\ IsDict(u)
  BY MergeTrees
<1>3. p \in Seq(AllSteps) /\ f \in Seq(AllSteps) /\ f \in Seq(Keys) /\ IsPrefix(f, p) /\ f # p /\ \A q \in L : ~IsPrefix(q, f)
  <2>1. /\ p \in Seq(AllSteps) /\ f \in Seq(AllSteps) /\ f \in Seq(Keys) /\ IsPrefix(f, p) /\ \A q \in L : ~IsPrefix(q, f)
    BY <1>1, ParentOfList
  <2>2. IsPrefix(p, p)
    BY <2>1, PrefixEnds DEF IsPrefix
  <2> QED
    BY <1>1, <2>1, <2>2
<1>4. ASSUME NEW b \in {h, u}, NEW q \in Seq(AllSteps), IsPrefix(q, f)
      PROVE  IsDict(Get(b, q))
  <2>1. PICK old : Tree(old) /\ IsList(Get(old, p)) /\ Cut(L, old, b)
    BY <1>1
  <2>2. IsPrefix(q, p)
    BY <1>3, <1>4, PrefixTrans
  <2>3. q # p
    <3>1. ~IsPrefix(p, f)
      BY <1>1, <1>3
    <3> QED
      BY <1>4, <3>1
  <2> HIDE DEF L
  <2>4. /\ Apart(L) /\ p \in L /\ Tree(old) /\ IsList(Get(old, p)) /\ Cut(L, old, b)
        /\ q \in Seq(AllSteps) /\ IsPrefix(q, p) /\ q # p
    BY <1>1, <2>1, <2>2, <2>3
  <2> QED
    BY ONLY <2>4, AboveList
<1>5. \A x \in U : x.path \in Seq(AllSteps) /\ \E b \in {h, u} : \A r \in Seq(AllSteps) : Get(x.value, r) = Get(b, x.path \o r)
  BY AppliedFrom
<1> HIDE DEF L, U, f, a, h, u
<1>6. CASE \E x \in U : IsPrefix(x.path, f)
  <2>1. PICK x \in U : IsPrefix(x.path, f)
    BY <1>6
  <2> DEFINE s == x.path
  <2>2. s \in Seq(AllSteps) /\ IsPrefix(s, f) /\ f \in Seq(AllSteps)
    BY <1>3, <1>5, <2>1
  <2> HIDE DEF s
  <2>3. \E r \in Seq(AllSteps) : f = s \o r
    BY ONLY <2>2, PrefixIs
  <2>4. PICK r \in Seq(AllSteps) : f = x.path \o r
    BY <2>3 DEF s
  <2>5. Get(m.merged, x.path \o r) = Get(x.value, r)
    BY <1>1 DEF Effect
  <2>6. PICK b \in {h, u} : Get(x.value, r) = Get(b, x.path \o r)
    BY <1>5
  <2>7. IsPrefix(f, f)
    BY <1>3, PrefixEnds DEF IsPrefix
  <2>8. IsDict(Get(b, f))
    BY <1>3, <1>4, <2>7
  <2> QED
    BY <2>4, <2>5, <2>6, <2>8 DEF f
<1>7. CASE \A x \in U : ~IsPrefix(x.path, f)
  <2>1. OneShape(Get(m.merged, f), Get(a, f))
    BY <1>1, <1>3, <1>7 DEF Effect, Restored, OneShape
  <2>2. IsDict(Get(a, f))
    <3> SUFFICES ASSUME ~IsDict(Get(a, f)) PROVE FALSE
      OBVIOUS
    <3>1. ASSUME NEW b \in {h, u}
          PROVE  \E q \in Differing(a, b) : IsPrefix(q, f)
      <4>1. IsPrefix(f, f)
        BY <1>3, PrefixEnds DEF IsPrefix
      <4>2. IsDict(Get(b, f))
        BY <1>3, <1>4, <4>1
      <4>3. ~Same(a, b, f)
        BY <4>2 DEF Same, OneShape
      <4>4. Tree(b) /\ IsDict(b)
        BY <1>2
      <4> QED
        BY <1>2, <1>3, <4>3, <4>4, SameUnlessDiffering
    <3>2. PICK v \in Differing(a, h) : IsPrefix(v, f)
      BY <3>1
    <3>3. PICK w \in Differing(a, u) : IsPrefix(w, f)
      BY <3>1
    <3>4. ASSUME NEW b \in {h, u}, NEW s \in Differing(a, b), IsPrefix(s, f)
          PROVE  /\ s \in Seq(AllSteps) /\ s # <<>> /\ ~IsDict(Get(a, s))
                 /\ \A q \in Seq(AllSteps) : IsPrefix(q, s) /\ q # s => IsDict(Get(a, q))
      <4>1. /\ s \in Seq(AllSteps) /\ s # <<>> /\ SameKind(Get(a, Front(s)), Get(b, Front(s)))
            /\ ~SameKind(Get(a, s), Get(b, s))
        BY <1>2, PathsAreSteps DEF Differing, Tree
      <4>2. \A q \in Seq(AllSteps) : IsPrefix(q, f) => IsDict(Get(b, q))
        BY <1>4
      <4>3. ~IsDict(Get(a, s))
        BY <3>4, <4>1, <4>2 DEF SameKind, IsContainer, IsDict
      <4>4. ASSUME NEW q \in Seq(AllSteps), IsPrefix(q, s), q # s
            PROVE  IsDict(Get(a, q))
        <5>1. IsPrefix(q, f)
          BY <1>3, <3>4, <4>1, <4>4, PrefixTrans
        <5>2. Fits(Get(a, q)) /\ Fits(Get(b, q))
          BY <1>2 DEF Tree, Fitting
        <5>3. SameKind(Get(a, q), Get(b, q))
          BY <4>1, <4>4, <5>2, OneKindAbove
        <5>4. IsDict(Get(b, q))
          BY <4>2, <5>1
        <5> QED
          BY <5>3, <5>4 DEF SameKind, IsDict
      <4> QED
        BY <4>1, <4>3, <4>4
    <3>5. /\ v \in Seq(AllSteps) /\ ~IsDict(Get(a, v))
          /\ \A q \in Seq(AllSteps) : IsPrefix(q, v) /\ q # v => IsDict(Get(a, q))
          /\ w \in Seq(AllSteps) /\ ~IsDict(Get(a, w))
          /\ \A q \in Seq(AllSteps) : IsPrefix(q, w) /\ q # w => IsDict(Get(a, q))
      BY <3>2, <3>3, <3>4
    <3>7. v = w
      <4>1. IsPrefix(v, w) \/ IsPrefix(w, v)
        BY <1>3, <3>2, <3>3, <3>5, PrefixesCompare
      <4> QED
        BY <3>5, <4>1
    <3> DEFINE x == Patch(a, h, v)
               y == Patch(a, u, v)
    <3>8. x \in Diff(a, h) /\ y \in Diff(a, u) /\ x.path = v /\ y.path = v
      BY <3>7 DEF Diff, Patch
    <3> HIDE DEF x, y
    <3>9. {x, y} \cap U # {}
      BY <1>1, <1>2, <3>8, OneIsApplied
    <3> QED
      BY <1>7, <3>2, <3>8, <3>9
  <2> QED
    BY <2>1, <2>2 DEF OneShape, f
<1> QED
  BY <1>6, <1>7

OldRootOf(root) == IF IsDict(root) THEN root ELSE EmptyDict

TheMerge(root, head, update, key_path) ==
  LET old     == OldRootOf(root)
      lists   == SkippedLists(head, update, key_path)
      cut     == CutLists(old, lists)
      h       == CutLists(head, lists)
      u       == CutLists(update, lists)
      unified == Solved(cut, h, u, key_path)
      mid     == RestoreLists(cut, old, lists)
      merged  == ApplyPatches(mid, unified)
  IN [oldroot |-> old, oldhead |-> head, oldupdate |-> update, key_path |-> key_path, lists |-> lists,
      cut |-> cut, head |-> h, update |-> u, unified |-> unified, mid |-> mid, merged |-> merged,
      seen |-> CutLists(merged, lists)]

ShownBy(m) ==
  {PatchConflict(Reported(c, Strategy(c, m.head, m.update, m.key_path))) : c \in ConflictsOf(m.cut, m.head, m.update)}

LEMMA MergeDictsMeans ==
  ASSUME NEW root, NEW head, NEW update, NEW key_path
  PROVE  LET m == TheMerge(root, head, update, key_path)
         IN MergeDicts(root, head, update, key_path) =
              IF Shifting(m.unified, Diff(m.cut, m.head) \cap Diff(m.cut, m.update))
              THEN Outcome(NOTHING, {}, {}, TRUE)
              ELSE Outcome(m.merged, ShownBy(m), m.lists, FALSE)
<1> DEFINE old     == OldRootOf(root)
           lists   == SkippedLists(head, update, key_path)
           cut     == CutLists(old, lists)
           h       == CutLists(head, lists)
           u       == CutLists(update, lists)
           first   == Diff(cut, h)
           second  == Diff(cut, u)
           C       == Conflicting(first, second)
           Kept(x, n) == \A c \in C : c[n] = x => Dropped(c, Strategy(c, h, u, key_path)) # x
           kept    == {x \in first : Kept(x, 1)} \cup {x \in second : Kept(x, 2)}
           mid     == RestoreLists(cut, old, lists)
           shown   == {PatchConflict(Reported(c, Strategy(c, h, u, key_path))) : c \in C}
           m       == TheMerge(root, head, update, key_path)
<1>1. MergeDicts(root, head, update, key_path) =
        IF Shifting(kept, first \cap second) THEN Outcome(NOTHING, {}, {}, TRUE)
        ELSE Outcome(ApplyPatches(mid, kept), shown, lists, FALSE)
  BY DEF MergeDicts, OldRootOf
<1>2. kept = Solved(cut, h, u, key_path)
  <2>1. \A x : (x \in first /\ Kept(x, 1)) <=> (x \in first /\ ~Lost(cut, h, u, key_path, x, 1))
    BY DEF Lost, ConflictsOf
  <2>2. \A x : (x \in second /\ Kept(x, 2)) <=> (x \in second /\ ~Lost(cut, h, u, key_path, x, 2))
    BY DEF Lost, ConflictsOf
  <2> HIDE DEF Kept, first, second, C
  <2>3. \A x : x \in kept <=> x \in {y \in first : ~Lost(cut, h, u, key_path, y, 1)} \cup {y \in second : ~Lost(cut, h, u, key_path, y, 2)}
    BY <2>1, <2>2
  <2>4. kept = {y \in first : ~Lost(cut, h, u, key_path, y, 1)} \cup {y \in second : ~Lost(cut, h, u, key_path, y, 2)}
    <3> HIDE DEF kept
    <3> QED
      BY <2>3
  <2> QED
    BY <2>4 DEF Solved, first, second
<1>3. /\ m.merged = ApplyPatches(mid, Solved(cut, h, u, key_path)) /\ m.lists = lists /\ m.key_path = key_path
      /\ m.cut = cut /\ m.head = h /\ m.update = u /\ m.unified = Solved(cut, h, u, key_path)
  BY DEF TheMerge
<1>4. ShownBy(m) = shown
  BY <1>3 DEF ShownBy, ConflictsOf
<1> HIDE DEF m, mid, kept, shown, lists
<1>5. MergeDicts(root, head, update, key_path) =
        IF Shifting(m.unified, Diff(m.cut, m.head) \cap Diff(m.cut, m.update))
        THEN Outcome(NOTHING, {}, {}, TRUE)
        ELSE Outcome(m.merged, ShownBy(m), m.lists, FALSE)
  BY <1>1, <1>2, <1>3, <1>4
<1> QED
  BY <1>5 DEF m

LEMMA TheMergeIs ==
  ASSUME NEW root, IsDict(root) => Tree(root),
         NEW head, Tree(head), IsDict(head), NEW update, Tree(update), IsDict(update), NEW key_path
  PROVE  MergeOf(TheMerge(root, head, update, key_path))
<1> DEFINE m       == TheMerge(root, head, update, key_path)
           old     == OldRootOf(root)
           lists   == SkippedLists(head, update, key_path)
           cut     == CutLists(old, lists)
           h       == CutLists(head, lists)
           u       == CutLists(update, lists)
           U       == Solved(cut, h, u, key_path)
           mid     == RestoreLists(cut, old, lists)
           merged  == ApplyPatches(mid, U)
           seen    == CutLists(merged, lists)
<1>1. /\ m.oldroot = old /\ m.oldhead = head /\ m.oldupdate = update /\ m.key_path = key_path
      /\ m.lists = lists /\ m.cut = cut /\ m.head = h /\ m.update = u /\ m.unified = U /\ m.mid = mid
      /\ m.merged = merged /\ m.seen = seen
  BY DEF TheMerge
<1>2. Tree(old) /\ IsDict(old)
  BY EmptyTree DEF OldRootOf
<1> HIDE DEF old
<1>3. Apart(lists) /\ \A p \in lists : IsList(Get(head, p)) /\ IsList(Get(update, p))
  BY SkippedApart
<1> HIDE DEF lists
<1>4. Cut(lists, old, cut) /\ Cut(lists, head, h) /\ Cut(lists, update, u)
  BY <1>2, <1>3, CutEffect DEF Tree
<1> HIDE DEF cut, h, u
<1>5. Restored(lists, old, cut, mid)
  BY <1>2, <1>3, <1>4, RestoreEffect
<1>6. Tree(cut) /\ IsDict(cut)
  BY <1>2, <1>3, <1>4, CutTree
<1>7. Tree(h) /\ Tree(u)
  BY <1>3, <1>4, CutTree
<1>8. /\ U \subseteq Diff(cut, h) \cup Diff(cut, u) /\ IsFiniteSet(U) /\ PatchesOK(U) /\ Applicable(U, cut)
  BY <1>6, <1>7, UnifiedOK
<1> HIDE DEF U, mid
<1>9. Applicable(U, mid)
  <2> SUFFICES ASSUME NEW x \in U, x.type # "remove" PROVE IsContainer(Get(mid, Front(x.path)))
    BY DEF Applicable
  <2> DEFINE f == Front(x.path)
  <2>1. IsContainer(Get(cut, f))
    BY <1>8 DEF Applicable
  <2>2. f \in Seq(AllSteps)
    BY <1>8, FrontLast DEF PatchesOK, PatchOK
  <2> HIDE DEF f
  <2>3. \A p \in lists : ~IsPrefix(p, f)
    <3> SUFFICES ASSUME NEW p \in lists, IsPrefix(p, f) PROVE FALSE
      OBVIOUS
    <3>1. p \in Seq(AllSteps) /\ f \in Seq(AllSteps) /\ IsPrefix(p, f)
      BY <1>3, <2>2, KeysAreSteps DEF Apart
    <3>2. PICK r \in Seq(AllSteps) : f = p \o r
      BY ONLY <3>1, PrefixIs
    <3>3. Get(cut, p \o r) = Missing
      BY <1>4 DEF Cut
    <3> QED
      BY <2>1, <3>2, <3>3, NeverMissing
  <2>4. IsContainer(Get(mid, f))
    BY <1>5, <2>1, <2>2, <2>3 DEF Restored, OneShape, IsContainer
  <2> QED
    BY <2>4 DEF f
<1>10. WellFormed(mid)
  BY <1>5 DEF Restored
<1>11. Effect(U, mid, merged)
  BY <1>8, <1>9, <1>10, EffectOfApplyPatches
<1> HIDE DEF merged
<1>12. Cut(lists, merged, seen)
  BY <1>3, <1>11, CutEffect DEF Effect
<1> HIDE DEF m, seen
<1>13. MergeOf(m)
  BY <1>1, <1>2, <1>3, <1>4, <1>5, <1>11, <1>12 DEF MergeOf, U
<1> QED
  BY <1>13 DEF m

---------------------------------------------------------------------------
(* What a merge promises.                                                  *)

LEMMA PatchThere ==
  ASSUME NEW m, MergeOf(m), NEW x \in m.unified
  PROVE  Get(m.seen, x.path) = x.value
<1>1. x.path \in Seq(AllSteps) /\ <<>> \in Seq(AllSteps)
  BY AppliedFrom
<1>2. x.path \o <<>> = x.path
  BY <1>1
<1>3. Get(m.seen, x.path \o <<>>) = Get(x.value, <<>>)
  BY <1>1, PatchSeen
<1> QED
  BY <1>2, <1>3, GetEmpty

LEMMA LostIsShown ==
  ASSUME NEW m, NEW x, NEW n, Lost(m.cut, m.head, m.update, m.key_path, x, n)
  PROVE  PatchConflict(x) \in ShownBy(m)
<1>1. PICK c \in ConflictsOf(m.cut, m.head, m.update) :
           Dropped(c, Strategy(c, m.head, m.update, m.key_path)) = x
  BY DEF Lost
<1>2. Reported(c, Strategy(c, m.head, m.update, m.key_path)) = x
  BY <1>1 DEF Dropped, Reported
<1> QED
  BY <1>1, <1>2 DEF ShownBy

LEMMA KeptOrShown ==
  ASSUME NEW m, MergeOf(m), NEW x \in Diff(m.cut, m.head) \cup Diff(m.cut, m.update)
  PROVE  Get(m.seen, x.path) = x.value \/ PatchConflict(x) \in ShownBy(m)
<1>1. CASE x \in m.unified
  BY <1>1, PatchThere
<1>2. CASE x \notin m.unified
  <2>1. \E n \in {1, 2} : Lost(m.cut, m.head, m.update, m.key_path, x, n)
    BY <1>2 DEF MergeOf, Solved
  <2> QED
    BY <2>1, LostIsShown
<1> QED
  BY <1>1, <1>2

LEMMA OnlyTheirChanges ==
  ASSUME NEW m, MergeOf(m), NEW z \in Diff(m.cut, m.seen)
  PROVE  z \in Diff(m.cut, m.head) \cup Diff(m.cut, m.update)
<1>1. PICK q \in Differing(m.cut, m.seen) : z = Patch(m.cut, m.seen, q)
  BY DEF Diff
<1>2. /\ q \in Seq(AllSteps) /\ q # <<>>
      /\ SameKind(Get(m.cut, Front(q)), Get(m.seen, Front(q)))
      /\ Get(m.cut, q) # Get(m.seen, q)
      /\ ~SameKind(Get(m.cut, q), Get(m.seen, q))
  <2>1. WellFormed(m.cut) /\ WellFormed(m.seen)
    BY MergeTrees DEF MergeOf, Cut, Tree
  <2> QED
    BY <2>1, PathsAreSteps DEF Differing
<1>3. PICK x \in m.unified : IsPrefix(x.path, q)
  <2>1. ~Same(m.cut, m.seen, q)
    BY <1>2, SameKindIs DEF Same, OneShape, IsContainer
  <2> QED
    BY <1>2, <2>1, NothingElse
<1>4. PICK b \in {m.head, m.update} : x \in Diff(m.cut, b)
  BY AppliedFrom
<1>5. Tree(m.cut) /\ Tree(b)
  BY MergeTrees
<1>6. /\ x.path \in Seq(AllSteps) /\ x.value = Get(b, x.path) /\ x = Patch(m.cut, b, x.path)
      /\ ~SameKind(Get(m.cut, x.path), Get(b, x.path))
  BY <1>4, <1>5, DiffIs DEF PatchOK
<1>7. Get(m.seen, x.path) = Get(b, x.path)
  BY <1>6, PatchThere
<1>8. x.path = q
  <2> SUFFICES ASSUME x.path # q PROVE FALSE
    OBVIOUS
  <2> DEFINE p == x.path
  <2>1. p \in Seq(AllSteps) /\ IsPrefix(p, q) /\ p # q
    BY <1>3, <1>6
  <2>2. Fits(Get(m.cut, p)) /\ Fits(Get(m.seen, p))
    BY <1>5, <1>6, <1>7 DEF Tree, Fitting
  <2> HIDE DEF p
  <2>3. SameKind(Get(m.cut, p), Get(m.seen, p))
    BY <1>2, <2>1, <2>2, OneKindAbove
  <2> QED
    BY <1>6, <1>7, <2>3 DEF p
<1>9. z = x
  BY <1>1, <1>6, <1>7, <1>8 DEF Patch, Has
<1> QED
  BY <1>4, <1>9

(* The rule of a conflict names the side that is applied, unless that      *)
(* side's change has another conflict with another rule.                   *)
LEMMA RuleNamesSide ==
  ASSUME NEW m, MergeOf(m), NEW c \in ConflictsOf(m.cut, m.head, m.update),
         NEW n \in {1, 2},
         \A d \in ConflictsOf(m.cut, m.head, m.update) :
           d[n] = c[n] => (Strategy(d, m.head, m.update, m.key_path) = "f" <=> n = 1)
  PROVE  Get(m.seen, c[n].path) = c[n].value
<1> DEFINE C == ConflictsOf(m.cut, m.head, m.update)
           StrategyOf(d) == Strategy(d, m.head, m.update, m.key_path)
<1>1. c[1] \in Diff(m.cut, m.head) /\ c[2] \in Diff(m.cut, m.update)
  BY ConflictIs DEF ConflictsOf
<1>2. \A d \in C : d[1] # d[2]
  BY ConflictIs DEF ConflictsOf
<1> HIDE DEF C, StrategyOf
<1>3. \A d \in C : d[n] = c[n] => Dropped(d, StrategyOf(d)) # c[n]
  <2> SUFFICES ASSUME NEW d \in C, d[n] = c[n] PROVE Dropped(d, StrategyOf(d)) # c[n]
    OBVIOUS
  <2>1. StrategyOf(d) = "f" <=> n = 1
    BY DEF C, StrategyOf
  <2>2. Dropped(d, StrategyOf(d)) = IF n = 1 THEN d[2] ELSE d[1]
    BY <2>1 DEF Dropped
  <2> QED
    BY <1>2, <2>2
<1>4. ~Lost(m.cut, m.head, m.update, m.key_path, c[n], n)
  BY <1>3 DEF Lost, C, StrategyOf
<1>5. c[n] \in m.unified
  BY <1>1, <1>4 DEF MergeOf, Solved
<1> QED
  BY <1>5, PatchThere

---------------------------------------------------------------------------
(* Values that are alike at every path are equal.                          *)
Alike(a, b) ==
  \A q \in Seq(AllSteps) :
    Same(a, b, q) /\ \A k \in AllSteps : k \in Steps(Get(a, q)) <=> k \in Steps(Get(b, q))

LEMMA AlikeAt ==
  ASSUME NEW a, WellFormed(a), NEW b, WellFormed(b), Alike(a, b), NEW q \in Seq(AllSteps),
         \A k \in AllSteps : k \in Steps(Get(a, q)) => Get(a, Append(q, k)) = Get(b, Append(q, k))
  PROVE  Get(a, q) = Get(b, q)
<1> DEFINE v == Get(a, q)
           w == Get(b, q)
<1>1. Same(a, b, q) /\ \A k \in AllSteps : k \in Steps(v) <=> k \in Steps(w)
  BY DEF Alike
<1>2. CASE ~IsContainer(v)
  BY <1>1, <1>2 DEF Same
<1>3. CASE IsContainer(v)
  <2>1. OneShape(v, w) /\ IsContainer(w)
    BY <1>1, <1>3 DEF Same, OneShape, IsContainer
  <2>2. /\ v = WithChildren(v, [k \in Steps(v) |-> Children(v)[k]]) /\ Steps(v) \subseteq AllSteps
        /\ w = WithChildren(w, [k \in Steps(w) |-> Children(w)[k]]) /\ Steps(w) \subseteq AllSteps
    BY <1>3, <2>1 DEF WellFormed, Formed
  <2>3. Steps(v) = Steps(w)
    BY <1>1, <2>2
  <2>4. ASSUME NEW k \in Steps(v) PROVE Children(v)[k] = Children(w)[k]
    <3>1. Step(v, k) = Children(v)[k] /\ Step(w, k) = Children(w)[k]
      BY <2>3 DEF Step
    <3>2. Get(a, Append(q, k)) = Step(v, k) /\ Get(b, Append(q, k)) = Step(w, k)
      BY <2>2, GetAppend
    <3> QED
      BY <2>2, <3>1, <3>2
  <2> DEFINE S == Steps(v)
             f == [k \in S |-> Children(v)[k]]
             g == [k \in S |-> Children(w)[k]]
  <2>5. v = WithChildren(v, f) /\ w = WithChildren(w, g)
    BY <2>2, <2>3
  <2>6. f = g
    BY <2>4
  <2> HIDE DEF S, v, w, f, g
  <2>7. WithChildren(v, f) = WithChildren(w, f)
    BY <2>1 DEF OneShape, WithChildren
  <2> QED
    BY <2>5, <2>6, <2>7 DEF v, w
<1> QED
  BY <1>2, <1>3

LEMMA AlikeEqual ==
  ASSUME NEW a, WellFormed(a), Shallow(a), NEW b, WellFormed(b), Alike(a, b)
  PROVE  a = b
<1> DEFINE Unequal == {n \in Nat : \E q \in Seq(AllSteps) : n + Len(q) = MaxDepth + 1 /\ Get(a, q) # Get(b, q)}
<1>1. ASSUME NEW q \in Seq(AllSteps), Len(q) > MaxDepth
      PROVE  Get(a, q) = Get(b, q)
  <2>1. \A k \in AllSteps : k \notin Steps(Get(a, q))
    BY <1>1, DepthAssumption DEF Shallow
  <2> QED
    BY <2>1, AlikeAt
<1>2. ASSUME Unequal # {} PROVE FALSE
  <2>1. PICK n \in Unequal : \A j \in Unequal : n <= j
    <3>1. Unequal \in SUBSET Nat
      OBVIOUS
    <3> HIDE DEF Unequal
    <3> QED
      BY <1>2, <3>1, Least
  <2>2. PICK q \in Seq(AllSteps) : n + Len(q) = MaxDepth + 1 /\ Get(a, q) # Get(b, q)
    BY <2>1
  <2>3. n \in Nat /\ Len(q) \in Nat /\ MaxDepth \in Nat
    BY <2>1, DepthAssumption
  <2>4. n # 0
    BY <1>1, <2>2, <2>3
  <2>5. ASSUME NEW k \in AllSteps PROVE Get(a, Append(q, k)) = Get(b, Append(q, k))
    <3>1. Append(q, k) \in Seq(AllSteps) /\ Len(Append(q, k)) = Len(q) + 1
      BY AppendEffect
    <3>2. n - 1 \in Nat /\ (n - 1) + (Len(q) + 1) = MaxDepth + 1 /\ ~(n <= n - 1)
      BY <2>2, <2>3, <2>4
    <3>3. n - 1 \notin Unequal
      BY <2>1, <3>2
    <3> QED
      BY <3>1, <3>2, <3>3
  <2> QED
    BY <2>2, <2>5, AlikeAt
<1>3. ASSUME NEW q \in Seq(AllSteps), Len(q) <= MaxDepth
      PROVE  Get(a, q) = Get(b, q)
  <2>1. (MaxDepth + 1) - Len(q) \in Nat /\ ((MaxDepth + 1) - Len(q)) + Len(q) = MaxDepth + 1
    BY <1>3, DepthAssumption
  <2> QED
    BY <1>2, <2>1
<1>4. <<>> \in Seq(AllSteps) /\ Len(<<>>) = 0
  OBVIOUS
<1>5. Get(a, <<>>) = Get(b, <<>>)
  <2> DEFINE e == <<>>
  <2>1. e \in Seq(AllSteps) /\ Len(e) <= MaxDepth
    BY <1>4, DepthAssumption
  <2> HIDE DEF e
  <2>2. Get(a, e) = Get(b, e)
    BY <1>3, <2>1
  <2> QED
    BY <2>2 DEF e
<1> QED
  BY <1>5, GetEmpty

(* Where only the changes of one side are applied, the merged value is     *)
(* that side.                                                              *)
LEMMA OneSideApplied ==
  ASSUME NEW m, MergeOf(m), NEW b, Tree(b), IsDict(b), m.unified = Diff(m.cut, b)
  PROVE  m.seen = b
<1>1. Tree(m.cut) /\ IsDict(m.cut) /\ WellFormed(m.seen)
  BY MergeTrees DEF MergeOf, Cut
<1>2. ASSUME NEW x \in m.unified
      PROVE  /\ x.path \in Differing(m.cut, b) /\ x.path \in Seq(AllSteps) /\ x = Patch(m.cut, b, x.path)
             /\ x.value = Get(b, x.path) /\ IsContainer(Get(m.cut, Front(x.path)))
             /\ x.type # "remove" <=> Get(b, x.path) # Missing
  <2>1. /\ x.path \in Differing(m.cut, b) /\ PatchOK(x) /\ x = Patch(m.cut, b, x.path)
        /\ x.value = Get(b, x.path) /\ IsContainer(Get(m.cut, Front(x.path)))
    BY <1>1, DiffIs
  <2>2. x.path \in Seq(AllSteps)
    BY <2>1 DEF PatchOK
  <2>3. x.type # "remove" <=> Get(b, x.path) # Missing
    BY <2>1 DEF Patch, Has
  <2> QED
    BY <2>1, <2>2, <2>3
<1>3. ASSUME NEW p \in Differing(m.cut, b)
      PROVE  \E x \in m.unified : x.path = p
  <2>1. Patch(m.cut, b, p) \in m.unified /\ Patch(m.cut, b, p).path = p
    BY DEF Diff, Patch
  <2> QED
    BY <2>1
<1>4. ASSUME NEW q \in Seq(AllSteps), NEW x \in m.unified, IsPrefix(x.path, q)
      PROVE  Get(m.seen, q) = Get(b, q)
  <2> DEFINE p == x.path
  <2>1. p \in Seq(AllSteps) /\ IsPrefix(p, q)
    BY <1>2, <1>4
  <2>2. \A r \in Seq(AllSteps) : Get(m.seen, p \o r) = Get(Get(b, p), r)
    BY <1>2, PatchSeen
  <2> HIDE DEF p
  <2>3. PICK r \in Seq(AllSteps) : q = p \o r
    BY <2>1, PrefixIs
  <2> QED
    BY <2>1, <2>2, <2>3, GetConcat
<1>5. ASSUME NEW q \in Seq(AllSteps), \A x \in m.unified : ~IsPrefix(x.path, q)
      PROVE  /\ Same(b, m.seen, q)
             /\ \A k \in AllSteps : k \in Steps(Get(b, q)) <=> k \in Steps(Get(m.seen, q))
  <2>1. Same(m.cut, m.seen, q)
    BY <1>5, NothingElse
  <2>2. Same(m.cut, b, q)
    <3>1. \A p \in Differing(m.cut, b) : ~IsPrefix(p, q)
      BY <1>3, <1>5
    <3> QED
      BY <1>1, <3>1, SameUnlessDiffering
  <2>3. Same(b, m.seen, q)
    BY <2>1, <2>2 DEF Same, OneShape, IsContainer
  <2>4. ASSUME NEW k \in AllSteps
        PROVE  k \in Steps(Get(b, q)) <=> k \in Steps(Get(m.seen, q))
    <3> DEFINE p == Append(q, k)
    <3>1. k \in Steps(Get(m.seen, q)) <=>
            IF \E x \in m.unified : x.path = p
            THEN IsContainer(Get(m.cut, q)) /\ \E x \in m.unified : x.path = p /\ x.type # "remove"
            ELSE k \in Steps(Get(m.cut, q))
      BY <1>5, NothingElse
    <3>2. Front(p) = q
      BY AppendEffect
    <3>3. k \in Steps(Get(b, q)) <=> Get(b, p) # Missing
      BY StepFound
    <3>4. CASE p \in Differing(m.cut, b)
      <4>1. PICK x \in m.unified : x.path = p
        BY <1>3, <3>4
      <4> HIDE DEF p
      <4>2. IsContainer(Get(m.cut, q))
        BY <1>2, <3>2, <4>1
      <4>3. \A y \in m.unified : y.path = p => (y.type # "remove" <=> Get(b, p) # Missing)
        BY <1>2
      <4> QED
        BY <3>1, <3>3, <4>1, <4>2, <4>3
    <3>5. CASE p \notin Differing(m.cut, b)
      <4>1. ~\E x \in m.unified : x.path = p
        BY <1>2, <3>5
      <4>2. k \in Steps(Get(m.cut, q)) <=> k \in Steps(Get(b, q))
        BY <1>1, <2>2, <3>5, SameBelow
      <4> QED
        BY <3>1, <4>1, <4>2
    <3> QED
      BY <3>4, <3>5
  <2> QED
    BY <2>3, <2>4
<1>6. Alike(b, m.seen)
  <2> SUFFICES ASSUME NEW q \in Seq(AllSteps)
               PROVE  Same(b, m.seen, q) /\ \A k \in AllSteps : k \in Steps(Get(b, q)) <=> k \in Steps(Get(m.seen, q))
    BY DEF Alike
  <2>1. CASE \E x \in m.unified : IsPrefix(x.path, q)
    <3>1. Get(m.seen, q) = Get(b, q)
      BY <1>4, <2>1
    <3> QED
      BY <3>1 DEF Same, OneShape
  <2> QED
    BY <1>5, <2>1
<1> QED
  BY <1>1, <1>6, AlikeEqual DEF Tree

(* Without a conflict every change is applied and none is shown.           *)
LEMMA NoConflicts ==
  ASSUME NEW m, MergeOf(m), ConflictsOf(m.cut, m.head, m.update) = {}
  PROVE  ShownBy(m) = {} /\ m.unified = Diff(m.cut, m.head) \cup Diff(m.cut, m.update)
BY DEF MergeOf, Solved, Lost, ShownBy

LEMMA NoDifference ==
  ASSUME NEW a
  PROVE  Diff(a, a) = {}
BY DEF Diff, Differing

LEMMA OneSidedMerge ==
  ASSUME NEW m, MergeOf(m)
  PROVE  /\ m.cut = m.head => ShownBy(m) = {} /\ m.seen = m.update
         /\ m.cut = m.update => ShownBy(m) = {} /\ m.seen = m.head
         /\ m.head = m.update => ShownBy(m) = {} /\ m.seen = m.head
<1>1. /\ Tree(m.cut) /\ Tree(m.head) /\ IsDict(m.head) /\ Tree(m.update) /\ IsDict(m.update)
  BY MergeTrees
<1> DEFINE C == ConflictsOf(m.cut, m.head, m.update)
<1>2. \A c \in C : /\ c[1] \in Diff(m.cut, m.head) /\ c[2] \in Diff(m.cut, m.update) /\ c[1] # c[2]
                   /\ IsPrefix(c[1].path, c[2].path) \/ IsPrefix(c[2].path, c[1].path)
  BY ConflictIs DEF ConflictsOf
<1>3. ASSUME m.cut = m.head PROVE ShownBy(m) = {} /\ m.seen = m.update
  <2>1. Diff(m.cut, m.head) = {}
    BY <1>3, NoDifference
  <2>2. C = {}
    BY <1>2, <2>1
  <2> QED
    BY <1>1, <2>1, <2>2, NoConflicts, OneSideApplied
<1>4. ASSUME m.cut = m.update PROVE ShownBy(m) = {} /\ m.seen = m.head
  <2>1. Diff(m.cut, m.update) = {}
    BY <1>4, NoDifference
  <2>2. C = {}
    BY <1>2, <2>1
  <2> QED
    BY <1>1, <2>1, <2>2, NoConflicts, OneSideApplied
<1>5. ASSUME m.head = m.update PROVE ShownBy(m) = {} /\ m.seen = m.head
  <2>1. \A c \in C : Beside(c[1].path, c[2].path)
    BY <1>1, <1>2, <1>5, DiffApart
  <2>2. C = {}
    BY <1>2, <2>1 DEF Beside
  <2> QED
    BY <1>1, <1>5, <2>2, NoConflicts, OneSideApplied
<1> QED
  BY <1>3, <1>4, <1>5

(* Where both sides changed the same path, neither change conflicts with   *)
(* another.                                                                *)
LEMMA SamePathConflict ==
  ASSUME NEW a, Tree(a), NEW h, Tree(h), NEW u, Tree(u),
         NEW c \in ConflictsOf(a, h, u), c[1].path = c[2].path, NEW d \in ConflictsOf(a, h, u),
         c[1] = d[1] \/ c[2] = d[2]
  PROVE  d = c
<1>1. /\ c = <<c[1], c[2]>> /\ c[1] \in Diff(a, h) /\ c[2] \in Diff(a, u)
      /\ d = <<d[1], d[2]>> /\ d[1] \in Diff(a, h) /\ d[2] \in Diff(a, u)
      /\ IsPrefix(d[1].path, d[2].path) \/ IsPrefix(d[2].path, d[1].path)
  BY ConflictIs DEF ConflictsOf
<1> DEFINE x == c[1]
           y == c[2]
           z == d[1]
           w == d[2]
<1>2. /\ x \in Diff(a, h) /\ z \in Diff(a, h) /\ y \in Diff(a, u) /\ w \in Diff(a, u)
      /\ x.path = y.path /\ ~Beside(z.path, w.path) /\ ~Beside(w.path, z.path)
      /\ c = <<x, y>> /\ d = <<z, w>> /\ (x = z \/ y = w)
  BY <1>1 DEF Beside
<1> HIDE DEF x, y, z, w
<1>3. CASE x = z
  <2>1. ~Beside(w.path, y.path)
    BY <1>2, <1>3
  <2>2. w = y
    BY <1>2, <2>1, DiffApart
  <2> QED
    BY <1>2, <1>3, <2>2
<1>4. CASE y = w
  <2>1. ~Beside(z.path, x.path)
    BY <1>2, <1>4
  <2>2. z = x
    BY <1>2, <2>1, DiffApart
  <2> QED
    BY <1>2, <1>4, <2>2
<1> QED
  BY <1>2, <1>3, <1>4

LEMMA SamePathDecided ==
  ASSUME NEW m, MergeOf(m), NEW c \in ConflictsOf(m.cut, m.head, m.update), c[1].path = c[2].path
  PROVE  /\ c[1].path \in Seq(AllSteps) /\ c[1].value # c[2].value
         /\ c[1].value = Get(m.head, c[1].path) /\ c[2].value = Get(m.update, c[1].path)
         /\ Get(m.seen, c[1].path) =
              IF Strategy(c, m.head, m.update, m.key_path) = "f" THEN c[1].value ELSE c[2].value
<1>1. Tree(m.cut) /\ Tree(m.head) /\ Tree(m.update)
  BY MergeTrees
<1>2. c[1] \in Diff(m.cut, m.head) /\ c[2] \in Diff(m.cut, m.update) /\ c[1] # c[2]
  BY ConflictIs DEF ConflictsOf
<1> DEFINE x == c[1]
           y == c[2]
           s == Strategy(c, m.head, m.update, m.key_path)
<1>3. x \in Diff(m.cut, m.head) /\ y \in Diff(m.cut, m.update) /\ x # y /\ x.path = y.path
  BY <1>2
<1>4. ASSUME NEW n \in {1, 2}, s = "f" <=> n = 1
      PROVE  Get(m.seen, c[n].path) = c[n].value
  <2>1. \A d \in ConflictsOf(m.cut, m.head, m.update) : d[n] = c[n] => d = c
    BY <1>1, SamePathConflict
  <2>2. \A d \in ConflictsOf(m.cut, m.head, m.update) :
           d[n] = c[n] => (Strategy(d, m.head, m.update, m.key_path) = "f" <=> n = 1)
    BY <1>4, <2>1
  <2> QED
    BY <2>2, RuleNamesSide
<1>5. s = "f" => Get(m.seen, x.path) = x.value
  BY <1>4
<1>6. s # "f" => Get(m.seen, y.path) = y.value
  BY <1>4
<1> HIDE DEF x, y, s
<1>7. /\ x = Patch(m.cut, m.head, x.path) /\ x.value = Get(m.head, x.path) /\ x.path \in Seq(AllSteps)
      /\ y = Patch(m.cut, m.update, y.path) /\ y.value = Get(m.update, y.path)
  BY <1>1, <1>3, DiffIs DEF PatchOK
<1>8. x.value # y.value
  BY <1>3, <1>7 DEF Patch, Has
<1> QED
  BY <1>3, <1>5, <1>6, <1>7, <1>8 DEF x, y, s

(* The steps into a container in a tree are finite.                        *)
LEMMA FiniteSteps ==
  ASSUME NEW obj, Tree(obj), NEW p \in Seq(AllSteps), IsContainer(Get(obj, p))
  PROVE  IsFiniteSet(Steps(Get(obj, p)))
<1> DEFINE T == Steps(Get(obj, p))
           S == {s \in PathsOf(obj) : \E k \in T : s = Append(p, k)}
           f == [s \in S |-> Last(s)]
<1>1. T \subseteq AllSteps
  BY DEF Tree, WellFormed, Formed
<1>2. IsFiniteSet(S)
  BY FS_Subset DEF Tree
<1>3. \A k \in T : Append(p, k) \in S /\ Last(Append(p, k)) = k
  BY <1>1, StepFound, AppendEffect
<1>4. f \in [S -> T]
  BY <1>3
<1>5. \A t \in T : \E s \in S : f[s] = t
  BY <1>3
<1> HIDE DEF S, T, f
<1>6. IsFiniteSet(T)
  BY <1>2, <1>4, <1>5, FiniteImage
<1> QED
  BY <1>6 DEF T

(* What is not cut out of a value is there as it was, but for the lists    *)
(* cut out below it.                                                       *)
LEMMA CutField ==
  ASSUME NEW L, Apart(L), NEW obj, Tree(obj), NEW cut, Cut(L, obj, cut), NEW p \in Seq(AllSteps), p # <<>>,
         Get(cut, p) # Missing
  PROVE  /\ p \in PathsOf(obj) /\ OneShape(Get(cut, p), Get(obj, p))
         /\ ~IsContainer(Get(obj, p)) => Get(cut, p) = Get(obj, p)
         /\ \A k \in AllSteps : k \in Steps(Get(cut, p)) <=> Append(p, k) \notin L /\ k \in Steps(Get(obj, p))
<1>1. \A l \in L : ~IsPrefix(l, p)
  <2> SUFFICES ASSUME NEW l \in L, IsPrefix(l, p) PROVE FALSE
    OBVIOUS
  <2>1. l \in Seq(AllSteps)
    BY KeysAreSteps DEF Apart
  <2>2. PICK r \in Seq(AllSteps) : p = l \o r
    BY <2>1, PrefixIs
  <2> QED
    BY <2>2 DEF Cut
<1>2. /\ OneShape(Get(cut, p), Get(obj, p))
      /\ ~IsContainer(Get(obj, p)) => Get(cut, p) = Get(obj, p)
      /\ \A k \in AllSteps : k \in Steps(Get(cut, p)) <=> Append(p, k) \notin L /\ k \in Steps(Get(obj, p))
  BY <1>1 DEF Cut
<1>3. Get(obj, p) # Missing
  BY <1>2, NeverMissing
<1>4. Front(p) \in Seq(AllSteps) /\ Last(p) \in AllSteps /\ p = Append(Front(p), Last(p))
  BY FrontLast
<1>5. p \in PathsOf(obj)
  BY <1>3, <1>4, StepFound
<1> QED
  BY <1>2, <1>5

(* A list that is not cut out keeps its length.                            *)
LEMMA CutList ==
  ASSUME NEW L, Apart(L), NEW obj, Tree(obj), NEW cut, WellFormed(cut), Cut(L, obj, cut),
         NEW p \in Seq(AllSteps), p # <<>>, IsList(Get(cut, p)), NEW n \in Nat, Steps(Get(obj, p)) = 1 .. n
  PROVE  Len(Get(cut, p).elems) = n
<1> DEFINE v == Get(cut, p)
<1>1. v # Missing /\ IsContainer(v)
  BY NeverMissing DEF IsContainer
<1>2. OneShape(v, Get(obj, p)) /\ \A k \in AllSteps : k \in Steps(v) <=> Append(p, k) \notin L /\ k \in Steps(Get(obj, p))
  BY <1>1, CutField
<1>3. \A k \in Nat : k \in AllSteps /\ Append(p, k) \notin L
  <2> SUFFICES ASSUME NEW k \in Nat, Append(p, k) \in L PROVE FALSE
    BY KeysAreSteps
  <2>1. k \in AllSteps
    BY KeysAreSteps
  <2>2. Append(p, k) \in Seq(Keys) /\ Append(p, k) # <<>>
    BY DEF Apart
  <2>3. Last(Append(p, k)) = k
    BY <2>1, AppendEffect
  <2>4. Last(Append(p, k)) \in Keys
    BY <2>2, FrontLast
  <2> QED
    BY <2>3, <2>4, KeysAssumption
<1>4. Formed(v)
  BY DEF WellFormed
<1> HIDE DEF v
<1>5. Steps(v) \subseteq AllSteps /\ v = WithChildren(v, [k \in Steps(v) |-> Children(v)[k]])
  BY <1>1, <1>4 DEF Formed
<1>6. Steps(v) = 1 .. n
  BY <1>2, <1>3, <1>5
<1> DEFINE f == [k \in 1 .. n |-> Children(v)[k]]
<1>7. Len(f) = n
  OBVIOUS
<1>8. v = WithChildren(v, f)
  BY <1>5, <1>6
<1> HIDE DEF f
<1>9. IsList(v)
  BY DEF v
<1>10. v = List(f)
  BY <1>8, <1>9 DEF WithChildren
<1>11. v.elems = f
  BY <1>10 DEF List
<1> QED
  BY <1>7, <1>11 DEF v
=============================================================================
