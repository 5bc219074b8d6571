-------------------------- MODULE Serializer_proofs --------------------------
(***************************************************************************)
(* Theorems about Serializer, for every scheme, any files and objects, and *)
(* any sequence of decoding, conversion, defaulting and encoding.          *)
(***************************************************************************)
EXTENDS Serializer, WellFoundedInduction, FiniteSetTheorems, SequenceTheorems, TLAPS

-----------------------------------------------------------------------------
(***************************************************************************)
(* FlattenSeq: where the elements of the result come from.                 *)
(***************************************************************************)
LEMMA LeastNatural ==
  ASSUME NEW S \in SUBSET Nat, S # {}
  PROVE  \E n \in S : \A m \in S : n <= m
<1> DEFINE R == OpToRel(<, Nat)
<1>1. IsWellFoundedOn(R, Nat)
  BY NatLessThanWellFounded
<1> HIDE DEF R
<1>2. PICK n \in S : \A m \in S : ~(<<m, n>> \in R)
  BY <1>1, WFMin
<1>3. \A m \in S : m < n => <<m, n>> \in R
  BY DEF R, OpToRel
<1>4. ASSUME NEW m \in S PROVE n <= m
  <2>1. n \in Nat /\ m \in Nat /\ ~(m < n)
    BY <1>2, <1>3
  <2> QED BY <2>1
<1> QED BY <1>4

\* What FlattenSeq builds, an entry for every sequence.
Flattens(f, seqs) ==
  f = [i \in 1..Len(seqs) |-> IF i = 1 THEN seqs[i] ELSE f[i - 1] \o seqs[i]]

LEMMA FlattensExists ==
  ASSUME NEW seqs, Len(seqs) \in Nat
  PROVE  \E f : Flattens(f, seqs)
<1> DEFINE P(n) == \E f : f = [i \in 1..n |-> IF i = 1 THEN seqs[i] ELSE f[i - 1] \o seqs[i]]
           Fails == {n \in Nat : ~P(n)}
<1>1. P(0)
  <2>1. <<>> = [i \in 1..0 |-> IF i = 1 THEN seqs[i] ELSE <<>>[i - 1] \o seqs[i]]
    OBVIOUS
  <2> QED BY <2>1
<1>2. ASSUME NEW n \in Nat, P(n) PROVE P(n + 1)
  <2>1. PICK f : f = [i \in 1..n |-> IF i = 1 THEN seqs[i] ELSE f[i - 1] \o seqs[i]]
    BY <1>2
  <2> DEFINE last == IF n = 0 THEN seqs[1] ELSE f[n] \o seqs[n + 1]
             g == [i \in 1..(n + 1) |-> IF i <= n THEN f[i] ELSE last]
  <2>2. ASSUME NEW i \in 1..(n + 1)
        PROVE  g[i] = IF i = 1 THEN seqs[i] ELSE g[i - 1] \o seqs[i]
    <3>1. CASE i <= n
      <4> DEFINE h == [k \in 1..n |-> IF k = 1 THEN seqs[k] ELSE f[k - 1] \o seqs[k]]
      <4>1. f[i] = IF i = 1 THEN seqs[i] ELSE f[i - 1] \o seqs[i]
        <5>1. h[i] = IF i = 1 THEN seqs[i] ELSE f[i - 1] \o seqs[i]
          BY <3>1
        <5>2. f = h
          BY <2>1
        <5> HIDE DEF h
        <5> QED BY <5>1, <5>2
      <4>2. g[i] = f[i] /\ (i # 1 => g[i - 1] = f[i - 1])
        BY <3>1
      <4> QED BY <4>1, <4>2
    <3>2. CASE i = n + 1
      <4>1. g[i] = last /\ (n # 0 => g[n] = f[n])
        BY <3>2
      <4> QED BY <3>2, <4>1
    <3> QED BY <3>1, <3>2
  <2>3. g = [i \in 1..(n + 1) |-> IF i = 1 THEN seqs[i] ELSE g[i - 1] \o seqs[i]]
    BY <2>2
  <2> HIDE DEF g
  <2> QED BY <2>3
<1> HIDE DEF P
<1>3. CASE Fails = {}
  <2>1. P(Len(seqs))
    BY <1>3
  <2> QED BY <2>1 DEF P, Flattens
<1>4. CASE Fails # {}
  <2>1. PICK n \in Fails : \A m \in Fails : n <= m
    BY <1>4, LeastNatural
  <2>2. n # 0
    BY <1>1, <2>1
  <2>3. n - 1 \in Nat /\ n - 1 \notin Fails
    BY <2>1, <2>2
  <2>4. P((n - 1) + 1)
    BY <1>2, <2>3
  <2> QED BY <2>1, <2>4
<1> QED BY <1>3, <1>4

LEMMA FlattenIsLast ==
  ASSUME NEW seqs, Len(seqs) \in Nat \ {0}
  PROVE  \E f : Flattens(f, seqs) /\ FlattenSeq(seqs) = f[Len(seqs)]
<1> DEFINE f == CHOOSE f : Flattens(f, seqs)
<1>1. Flattens(f, seqs)
  BY FlattensExists
<1>2. FlattenSeq(seqs) = f[Len(seqs)]
  BY DEF FlattenSeq, Flattens
<1> QED BY <1>1, <1>2

LEMMA FlattenStep ==
  ASSUME NEW f, NEW seqs, Flattens(f, seqs), NEW n \in 1..Len(seqs), Len(seqs) \in Nat
  PROVE  f[n] = IF n = 1 THEN seqs[n] ELSE f[n - 1] \o seqs[n]
<1>1. f = [i \in 1..Len(seqs) |-> IF i = 1 THEN seqs[i] ELSE f[i - 1] \o seqs[i]]
  BY DEF Flattens
<1>2. [i \in 1..Len(seqs) |-> IF i = 1 THEN seqs[i] ELSE f[i - 1] \o seqs[i]][n]
        = IF n = 1 THEN seqs[n] ELSE f[n - 1] \o seqs[n]
  OBVIOUS
<1> QED BY <1>1, <1>2

\* Of sequences of as many sequences of the same lengths, the flattened ones have
\* the elements of the same place at the same place, and all of them.
SameShape(a, b) == Len(a) = Len(b) /\ \A i \in 1..Len(a) : Len(a[i]) = Len(b[i])

FlatUpTo(f, g, a, b, n) ==
  /\ Len(f) = Len(g)
  /\ \A k \in 1..Len(f) :
       \E i \in 1..n : \E j \in 1..Len(a[i]) : f[k] = a[i][j] /\ g[k] = b[i][j]
  /\ \A i \in 1..n : \A j \in 1..Len(a[i]) : \E k \in 1..Len(f) : f[k] = a[i][j]
  /\ (\A i \in 1..n : Len(a[i]) = 1) => Len(f) = n /\ \A k \in 1..n : f[k] = a[k][1]

LEMMA FlatOne ==
  ASSUME NEW S, NEW T, NEW a \in Seq(Seq(S)), NEW b \in Seq(Seq(T)), SameShape(a, b), Len(a) >= 1
  PROVE  FlatUpTo(a[1], b[1], a, b, 1)
<1>1. 1 \in 1..Len(a) /\ a[1] \in Seq(S) /\ b[1] \in Seq(T) /\ Len(a[1]) = Len(b[1])
  BY DEF SameShape
<1> QED BY <1>1 DEF FlatUpTo

LEMMA ConcatParts ==
  ASSUME NEW S, NEW s \in Seq(S), NEW t \in Seq(S)
  PROVE  /\ Len(s \o t) = Len(s) + Len(t)
         /\ \A k \in 1..Len(s) : (s \o t)[k] = s[k]
         /\ \A k \in 1..Len(t) : (s \o t)[Len(s) + k] = t[k]
<1>1. Len(s) \in Nat /\ Len(t) \in Nat
  OBVIOUS
<1>2. /\ Len(s \o t) = Len(s) + Len(t)
      /\ \A k \in 1..Len(s) + Len(t) : (s \o t)[k] = IF k <= Len(s) THEN s[k] ELSE t[k - Len(s)]
  BY ConcatProperties, Zenon
<1> DEFINE u == s \o t
<1> HIDE DEF u
<1>3. ASSUME NEW k \in 1..Len(s) PROVE u[k] = s[k]
  BY <1>1, <1>2 DEF u
<1>4. ASSUME NEW k \in 1..Len(t) PROVE u[Len(s) + k] = t[k]
  <2>1. /\ Len(s) + k \in 1..Len(s) + Len(t) /\ ~(Len(s) + k <= Len(s))
        /\ (Len(s) + k) - Len(s) = k
    BY <1>1
  <2>2. u[Len(s) + k] = IF Len(s) + k <= Len(s) THEN s[Len(s) + k] ELSE t[(Len(s) + k) - Len(s)]
    BY <1>2, <2>1 DEF u
  <2> QED BY <2>1, <2>2
<1> QED BY <1>2, <1>3, <1>4 DEF u

LEMMA FlatMore ==
  ASSUME NEW S, NEW T, NEW a \in Seq(Seq(S)), NEW b \in Seq(Seq(T)), SameShape(a, b),
         NEW n \in 1..Len(a), NEW m \in 1..Len(a), m = n + 1,
         NEW f \in Seq(S), NEW g \in Seq(T), FlatUpTo(f, g, a, b, n)
  PROVE  FlatUpTo(f \o a[m], g \o b[m], a, b, m)
<1> DEFINE ff == f \o a[m]
           gg == g \o b[m]
<1>1. /\ n \in Nat /\ m \in Nat /\ m \in 1..m /\ \A i \in 1..m : i \in 1..n \/ i = m
      /\ a[m] \in Seq(S) /\ b[m] \in Seq(T) /\ Len(a[m]) = Len(b[m])
      /\ Len(f) \in Nat /\ Len(f) = Len(g) /\ Len(a[m]) \in Nat
  BY DEF SameShape, FlatUpTo
<1>2. /\ Len(ff) = Len(f) + Len(a[m]) /\ Len(gg) = Len(f) + Len(a[m])
      /\ \A k \in 1..Len(f) : ff[k] = f[k] /\ gg[k] = g[k]
      /\ \A j \in 1..Len(a[m]) : ff[Len(f) + j] = a[m][j] /\ gg[Len(f) + j] = b[m][j]
  <2>1. /\ Len(ff) = Len(f) + Len(a[m])
        /\ \A k \in 1..Len(f) : ff[k] = f[k]
        /\ \A k \in 1..Len(a[m]) : ff[Len(f) + k] = a[m][k]
    <3>1. ASSUME NEW s \in Seq(S), NEW t \in Seq(S)
          PROVE  /\ Len(s \o t) = Len(s) + Len(t)
                 /\ \A k \in 1..Len(s) : (s \o t)[k] = s[k]
                 /\ \A k \in 1..Len(t) : (s \o t)[Len(s) + k] = t[k]
      BY ConcatParts
    <3> QED BY <1>1, <3>1
  <2>2. /\ Len(gg) = Len(g) + Len(b[m])
        /\ \A k \in 1..Len(g) : gg[k] = g[k]
        /\ \A k \in 1..Len(b[m]) : gg[Len(g) + k] = b[m][k]
    <3>1. ASSUME NEW s \in Seq(T), NEW t \in Seq(T)
          PROVE  /\ Len(s \o t) = Len(s) + Len(t)
                 /\ \A k \in 1..Len(s) : (s \o t)[k] = s[k]
                 /\ \A k \in 1..Len(t) : (s \o t)[Len(s) + k] = t[k]
      BY ConcatParts
    <3> QED BY <1>1, <3>1
  <2> HIDE DEF ff, gg
  <2> QED BY <1>1, <2>1, <2>2
<1> HIDE DEF ff, gg
<1>3. ASSUME NEW k \in 1..Len(ff)
      PROVE  \E i \in 1..m : \E j \in 1..Len(a[i]) : ff[k] = a[i][j] /\ gg[k] = b[i][j]
  <2>1. CASE k <= Len(f)
    <3>1. PICK i \in 1..n : \E j \in 1..Len(a[i]) : f[k] = a[i][j] /\ g[k] = b[i][j]
      <4>1. k \in 1..Len(f)
        BY <1>1, <1>2, <2>1
      <4> QED BY <4>1 DEF FlatUpTo
    <3>2. ff[k] = f[k] /\ gg[k] = g[k] /\ i \in 1..m
      BY <1>1, <1>2, <2>1
    <3> QED BY <3>1, <3>2
  <2>2. CASE k > Len(f)
    <3> DEFINE j == k - Len(f)
    <3>1. j \in 1..Len(a[m]) /\ k = Len(f) + j
      BY <1>1, <1>2, <2>2
    <3> HIDE DEF j
    <3>2. ff[k] = a[m][j] /\ gg[k] = b[m][j]
      BY <1>2, <3>1
    <3> QED BY <1>1, <3>1, <3>2
  <2> QED BY <1>1, <1>2, <2>1, <2>2
<1>4. ASSUME NEW i \in 1..m, NEW j \in 1..Len(a[i]) PROVE \E k \in 1..Len(ff) : ff[k] = a[i][j]
  <2>1. CASE i \in 1..n
    <3>1. PICK k \in 1..Len(f) : f[k] = a[i][j]
      BY <2>1 DEF FlatUpTo
    <3>2. k \in 1..Len(ff) /\ ff[k] = f[k]
      BY <1>1, <1>2
    <3> QED BY <3>1, <3>2
  <2>2. CASE i = m
    <3>1. j \in 1..Len(a[m])
      BY <2>2
    <3>2. Len(f) + j \in 1..Len(ff)
      <4>1. /\ Len(f) \in Nat /\ Len(a[m]) \in Nat /\ j \in Nat /\ 1 <= j /\ j <= Len(a[m])
            /\ Len(ff) = Len(f) + Len(a[m])
        BY <1>1, <1>2, <3>1
      <4> QED BY ONLY <4>1
    <3>3. ff[Len(f) + j] = a[m][j]
      BY <1>2, <3>1
    <3> QED BY <2>2, <3>2, <3>3
  <2> QED BY <1>1, <2>1, <2>2
<1>5. ASSUME \A i \in 1..m : Len(a[i]) = 1
      PROVE  Len(ff) = m /\ \A k \in 1..m : ff[k] = a[k][1]
  <2>1. Len(f) = n /\ (\A k \in 1..n : f[k] = a[k][1]) /\ Len(a[m]) = 1
    BY <1>1, <1>5 DEF FlatUpTo
  <2>2. Len(ff) = m /\ ff[m] = a[m][1] /\ \A k \in 1..n : ff[k] = f[k]
    BY <1>1, <1>2, <2>1
  <2> QED BY <1>1, <2>1, <2>2
<1> QED BY <1>2, <1>3, <1>4, <1>5 DEF FlatUpTo, ff, gg

LEMMA FlattenSame ==
  ASSUME NEW S, NEW T, NEW a \in Seq(Seq(S)), NEW b \in Seq(Seq(T)), SameShape(a, b)
  PROVE  /\ FlattenSeq(a) \in Seq(S) /\ FlattenSeq(b) \in Seq(T)
         /\ FlatUpTo(FlattenSeq(a), FlattenSeq(b), a, b, Len(a))
<1>1. Len(a) \in Nat /\ Len(b) = Len(a)
  BY DEF SameShape
<1>2. CASE Len(a) = 0
  <2>1. FlattenSeq(a) = <<>> /\ FlattenSeq(b) = <<>>
    BY <1>1, <1>2 DEF FlattenSeq
  <2> QED BY <1>1, <1>2, <2>1 DEF FlatUpTo
<1>3. CASE Len(a) # 0
  <2>1. PICK f : Flattens(f, a) /\ FlattenSeq(a) = f[Len(a)]
    BY <1>1, <1>3, FlattenIsLast
  <2>2. PICK g : Flattens(g, b) /\ FlattenSeq(b) = g[Len(a)]
    BY <1>1, <1>3, FlattenIsLast
  <2> DEFINE P(n) == f[n] \in Seq(S) /\ g[n] \in Seq(T) /\ FlatUpTo(f[n], g[n], a, b, n)
             Fails == {n \in 1..Len(a) : ~P(n)}
  <2>3. P(1)
    <3>1. f[1] = a[1] /\ g[1] = b[1]
      BY <1>1, <1>3, <2>1, <2>2, FlattenStep
    <3>2. a[1] \in Seq(S) /\ b[1] \in Seq(T)
      BY <1>1, <1>3
    <3> QED BY <1>1, <1>3, <3>1, <3>2, FlatOne
  <2>4. ASSUME NEW n \in 1..Len(a), NEW m \in 1..Len(a), m = n + 1, P(n) PROVE P(m)
    <3>1. m # 1 /\ m - 1 = n /\ m \in 1..Len(b)
      BY <1>1, <2>4
    <3>2. f[m] = f[n] \o a[m]
      BY <1>1, <2>1, <3>1, FlattenStep
    <3>3. g[m] = g[n] \o b[m]
      BY <1>1, <2>2, <3>1, FlattenStep
    <3>4. a[m] \in Seq(S) /\ b[m] \in Seq(T)
      BY <1>1, <3>1
    <3>5. FlatUpTo(f[n] \o a[m], g[n] \o b[m], a, b, m)
      BY <2>4, FlatMore
    <3>6. f[n] \o a[m] \in Seq(S) /\ g[n] \o b[m] \in Seq(T)
      BY <2>4, <3>4, ConcatProperties
    <3> QED BY <3>2, <3>3, <3>5, <3>6
  <2> HIDE DEF P
  <2>5. CASE Fails = {}
    <3>1. \A n \in 1..Len(a) : P(n)
      BY <2>5
    <3>2. P(Len(a))
      BY <1>1, <1>3, <3>1
    <3> QED BY <2>1, <2>2, <3>2 DEF P
  <2>6. CASE Fails # {}
    <3>1. Fails \in SUBSET Nat
      BY <1>1
    <3>2. PICK n \in Fails : \A m \in Fails : n <= m
      BY <2>6, <3>1, LeastNatural
    <3>3. n # 1
      BY <2>3, <3>2
    <3>4. n - 1 \in 1..Len(a) /\ n - 1 \notin Fails /\ n = (n - 1) + 1
      BY <1>1, <3>2, <3>3
    <3>5. P(n)
      BY <2>4, <3>4
    <3> QED BY <3>2, <3>5
  <2> QED BY <2>5, <2>6
<1> QED BY <1>2, <1>3

-----------------------------------------------------------------------------
(***************************************************************************)
(* Documents, objects and results.                                         *)
(***************************************************************************)
IsRecord(o) == DOMAIN o = {"type", "meta", "data", "items"}

IsDoc(d) == IsGVK(d.gvk) /\ IsDocument(d) /\ d.items \in Seq(Documents)

IsObject(o) ==
  /\ IsRecord(o) /\ IsDocument(o) /\ o.items \in Seq(Documents)
  /\ o.type \in Types \cup {"List", "Unknown"}
  /\ o.type = "Unknown" => IsGVK(o.meta)
  /\ o.type # "Unknown" /\ o.meta # None => o.meta \in KindsOf(o.type)
  /\ o.type \in Types => DOMAIN o.data \subseteq Fields[o.type]

\* What a call of the serializer returns: an object, or an error.
IsError(r) == Failed(r) /\ r.error \in Causes
IsResult(r) == IsError(r) \/ IsObject(r)

LEMMA ErrIsError ==
  ASSUME NEW c \in Causes PROVE IsError(Err(c)) /\ Err(c).error = c
  BY DEF IsError, Err, Failed, Causes

LEMMA RecordNotFailed == ASSUME NEW o, IsRecord(o) PROVE ~Failed(o)
  BY DEF IsRecord, Failed

LEMMA GVKNotFailed == ASSUME NEW k, IsGVK(k) PROVE ~Failed(k)
<1>1. DOMAIN k = {"group", "version", "kind"}
  BY DEF IsGVK, GVK
<1> QED BY <1>1 DEF Failed

LEMMA GVKParts ==
  ASSUME NEW g, NEW v, NEW kind
  PROVE  LET k == GVK(g, v, kind) IN
           IsGVK(k) /\ k.group = g /\ k.version = v /\ k.kind = kind
  BY DEF IsGVK, GVK

LEMMA SameGVK ==
  ASSUME NEW k, IsGVK(k), NEW l, IsGVK(l), SameKind(k, l), k.version = l.version
  PROVE  k = l
  BY DEF IsGVK, SameKind

-----------------------------------------------------------------------------
(***************************************************************************)
(* The scheme.                                                             *)
(***************************************************************************)
LEMMA RegisteredParts ==
  ASSUME NEW k \in Registered
  PROVE  /\ \E type \in Types : k \in Kinds[type]
         /\ IsGVK(k) /\ k.group # None /\ ~SameKind(k, listGVK)
         /\ ~NoVersion(k.group) => Preferred[k.group] # Internal
  BY KindsAssumption DEF Registered, NoVersion

LEMMA KindsOfType ==
  ASSUME NEW type \in Types
  PROVE  /\ KindsOf(type) = Kinds[type] /\ KindsOf(type) \subseteq Registered
         /\ KindsOf(type) # {} /\ IsFiniteSet(KindsOf(type))
         /\ \A k, l \in KindsOf(type) : SameKind(k, l) /\ (k.version = Internal => l.version = Internal)
  BY KindsAssumption DEF KindsOf, Registered

LEMMA KindsOfOthers == KindsOf("List") = {listGVK} /\ KindsOf("Unknown") = {}
  BY KindsAssumption DEF KindsOf

LEMMA ListGVK == IsGVK(listGVK) /\ listGVK \notin Registered /\ listGVK.version # Internal
<1>1. IsGVK(listGVK) /\ listGVK.version = "v1"
  <2>1. \A g : IsGVK(GVK(g, "v1", "List")) /\ GVK(g, "v1", "List").version = "v1"
    BY GVKParts
  <2> QED BY <2>1, Zenon DEF listGVK
<1>2. SameKind(listGVK, listGVK)
  BY DEF SameKind
<1> QED BY <1>1, <1>2, RegisteredParts DEF Internal

\* New finds the one type that is registered as gvk.
LEMMA NewOfType ==
  ASSUME NEW type \in Types, NEW gvk \in Kinds[type]
  PROVE  New(gvk) = [type |-> type, meta |-> None, data |-> <<>>, items |-> <<>>]
<1>1. gvk \in Registered /\ gvk # listGVK
  BY ListGVK DEF Registered
<1>2. (CHOOSE t \in Types : gvk \in Kinds[t]) = type
  BY KindsAssumption
<1> QED BY <1>1, <1>2 DEF New

LEMMA EmptyObject ==
  ASSUME NEW type \in Types,
         NEW o, o = [type |-> type, meta |-> None, data |-> <<>>, items |-> <<>>]
  PROVE  IsObject(o) /\ o.type = type /\ o.meta = None /\ DOMAIN o.data = {}
<1>1. o.type = type /\ o.meta = None /\ o.data = <<>> /\ o.items = <<>> /\ IsRecord(o)
  BY DEF IsRecord
<1>2. DOMAIN o.data = {} /\ o.items \in Seq(Documents) /\ type # "Unknown"
  BY <1>1, KindsAssumption
<1> QED BY <1>1, <1>2 DEF IsObject, IsDocument

LEMMA NewParts ==
  ASSUME NEW gvk \in Registered
  PROVE  LET o == New(gvk) IN
           /\ IsObject(o) /\ o.type \in Types /\ gvk \in KindsOf(o.type)
           /\ o.meta = None /\ DOMAIN o.data = {}
<1>1. PICK type \in Types : gvk \in Kinds[type]
  BY RegisteredParts
<1>2. LET o == New(gvk) IN IsObject(o) /\ o.type = type /\ o.meta = None /\ DOMAIN o.data = {}
  BY <1>1, NewOfType, EmptyObject
<1> QED BY <1>1, <1>2, KindsOfType

LEMMA GVKForObjectParts ==
  ASSUME NEW o, IsObject(o)
  PROVE  LET k == GVKForObject(o) IN
           \/ k = Err("kinds")
           \/ IsGVK(k) /\ (o.meta # None => k = o.meta) /\ (o.type # "Unknown" => k \in KindsOf(o.type))
<1> DEFINE k == GVKForObject(o)
<1>1. \A l \in KindsOf(o.type) : IsGVK(l)
  <2>1. o.type \in Types => \A l \in KindsOf(o.type) : IsGVK(l)
    BY KindsOfType, RegisteredParts
  <2> QED BY <2>1, KindsOfOthers, ListGVK DEF IsObject
<1>2. CASE o.meta # None
  <2>1. k = o.meta
    BY <1>2 DEF GVKForObject
  <2>2. IsGVK(k) /\ (o.type # "Unknown" => k \in KindsOf(o.type))
    BY <1>1, <1>2, <2>1 DEF IsObject
  <2> QED BY <2>1, <2>2
<1>3. CASE o.meta = None /\ Cardinality(KindsOf(o.type)) = 1
  <2>1. k = CHOOSE l \in KindsOf(o.type) : TRUE
    BY <1>3 DEF GVKForObject
  <2>2. KindsOf(o.type) # {}
    BY <1>3, FS_EmptySet
  <2>3. k \in KindsOf(o.type)
    BY <2>1, <2>2
  <2> QED BY <1>1, <1>3, <2>3
<1>4. CASE o.meta = None /\ Cardinality(KindsOf(o.type)) # 1
  BY <1>4 DEF GVKForObject
<1> QED BY <1>2, <1>3, <1>4

-----------------------------------------------------------------------------
(***************************************************************************)
(* Conversion: what is returned has its type's kind, and the data of what  *)
(* was given, but for the fields that its type does not have.              *)
(***************************************************************************)
DataKept(o, r) == (r.type = o.type /\ r.data = o.data) \/ r.data = Keep(o.data, r.type)

ViaScheme(in, out) ==
  \E k \in KindsOf(in.type), l \in KindsOf(out.type) :
    SameKind(k, l) /\ (k.version = Internal \/ l.version = Internal)

LEMMA ObjectOfType ==
  ASSUME NEW p, IsRecord(p), IsDocument(p), p.items \in Seq(Documents), p.type \in Types,
         DOMAIN p.data \subseteq Fields[p.type], p.meta # None => p.meta \in KindsOf(p.type)
  PROVE  IsObject(p)
  BY KindsAssumption DEF IsObject

LEMMA KeepDocument ==
  ASSUME NEW o, IsDocument(o), NEW type, NEW p, p.data = Keep(o.data, type)
  PROVE  IsDocument(p) /\ DOMAIN p.data \subseteq Fields[type]
<1> DEFINE d == Keep(o.data, type)
<1>1. DOMAIN d = DOMAIN o.data \cap Fields[type] /\ \A f \in DOMAIN d : d[f] = o.data[f]
  BY DEF Keep
<1> HIDE DEF d
<1>2. p.data = d
  BY DEF d
<1> QED BY <1>1, <1>2 DEF IsDocument

\* An empty object that is given the data of another one.
LEMMA FillParts ==
  ASSUME NEW in, IsObject(in), NEW out, IsObject(out), out.type \in Types,
         NEW p, IsRecord(p), p.type = out.type, p.items = out.items,
         p.data = Keep(in.data, out.type), p.meta # None => p.meta \in KindsOf(out.type)
  PROVE  IsObject(p)
<1>1. IsDocument(p) /\ DOMAIN p.data \subseteq Fields[p.type]
  BY KeepDocument DEF IsObject
<1>2. p.items \in Seq(Documents)
  BY DEF IsObject
<1> QED BY <1>1, <1>2, ObjectOfType

LEMMA SchemeConvertParts ==
  ASSUME NEW in, IsObject(in), NEW out, IsObject(out), out.type \in Types
  PROVE  LET r == SchemeConvert(in, out) IN
           \/ IsError(r) /\ r.error = "conversion"
           \/ /\ IsObject(r) /\ r.type = out.type /\ r.meta = out.meta
              /\ r.data = Keep(in.data, out.type) /\ ViaScheme(in, out)
<1> DEFINE d == Keep(in.data, out.type)
           r == [out EXCEPT !.data = d]
<1>1. \/ SchemeConvert(in, out) = Err("conversion")
      \/ SchemeConvert(in, out) = r /\ ViaScheme(in, out)
  BY DEF SchemeConvert, ViaScheme, SameKind
<1>2. IsRecord(out)
  BY DEF IsObject
<1> HIDE DEF d
<1>3. IsRecord(r) /\ r.type = out.type /\ r.meta = out.meta /\ r.data = d /\ r.items = out.items
  BY <1>2 DEF IsRecord
<1> HIDE DEF r
<1>4. out.meta # None => out.meta \in KindsOf(out.type)
  BY KindsAssumption DEF IsObject
<1>5. IsObject(r)
  BY <1>3, <1>4, FillParts DEF d
<1>6. IsError(Err("conversion")) /\ Err("conversion").error = "conversion"
  BY DEF IsError, Err, Failed, Causes
<1> QED BY <1>1, <1>3, <1>5, <1>6 DEF d

LEMMA KindOfNew ==
  ASSUME NEW o, IsObject(o), o.type \in Types, o.meta = None, NEW k, k = GVKForObject(o), ~Failed(k)
  PROVE  KindsOf(o.type) = {k}
<1>1. Cardinality(KindsOf(o.type)) = 1 /\ k = CHOOSE l \in KindsOf(o.type) : TRUE
  <2>1. Failed(Err("kinds"))
    BY DEF Err, Failed
  <2> QED BY <2>1 DEF GVKForObject
<1>2. \E l : KindsOf(o.type) = {l}
  BY <1>1, KindsOfType, FS_Singleton
<1> QED BY <1>1, <1>2

LEMMA populateGVKParts ==
  ASSUME NEW o, IsObject(o), o.type \in Types, o.meta = None
  PROVE  LET r == populateGVK(o) IN
           \/ IsError(r) /\ r.error = "kinds"
           \/ /\ IsObject(r) /\ r.type = o.type /\ r.data = o.data
              /\ r.meta \in KindsOf(o.type) /\ KindsOf(o.type) = {r.meta}
<1> DEFINE k == GVKForObject(o)
           r == [o EXCEPT !.meta = k]
<1>1. k = Err("kinds") \/ (IsGVK(k) /\ k \in KindsOf(o.type))
  BY GVKForObjectParts, KindsAssumption
<1> HIDE DEF k
<1>2. CASE k = Err("kinds")
  <2>1. IsError(k) /\ k.error = "kinds"
    BY <1>2 DEF IsError, Err, Failed, Causes
  <2>2. populateGVK(o) = k
    BY <2>1 DEF populateGVK, IsError, k
  <2> QED BY <2>1, <2>2
<1>3. CASE IsGVK(k) /\ k \in KindsOf(o.type)
  <2>1. ~Failed(k)
    BY <1>3, GVKNotFailed
  <2>2. populateGVK(o) = r
    BY <2>1 DEF populateGVK, k
  <2>3. KindsOf(o.type) = {k}
    BY <2>1, KindOfNew DEF k
  <2>4. IsRecord(o)
    BY DEF IsObject
  <2>5. IsRecord(r) /\ r.type = o.type /\ r.meta = k /\ r.data = o.data /\ r.items = o.items
    BY <2>4 DEF IsRecord
  <2> HIDE DEF r
  <2>6. IsObject(r)
    <3>1. IsDocument(r) /\ r.items \in Seq(Documents) /\ DOMAIN r.data \subseteq Fields[r.type]
      BY <2>5 DEF IsObject, IsDocument
    <3> QED BY <1>3, <2>5, <3>1, ObjectOfType
  <2> QED BY <1>3, <2>2, <2>3, <2>5, <2>6
<1> QED BY <1>1, <1>2, <1>3

LEMMA validateConvertibleParts ==
  ASSUME NEW o, IsObject(o), o.type \in Types
  PROVE  LET k == validateConvertible(o) IN
           \/ IsError(k) /\ k.error # "notRegistered"
           \/ ~Failed(k) /\ IsGVK(k) /\ k \in KindsOf(o.type) /\ (o.meta # None => k = o.meta)
<1> DEFINE k == GVKForObject(o)
<1>1. k = Err("kinds") \/ (IsGVK(k) /\ k \in KindsOf(o.type) /\ (o.meta # None => k = o.meta))
  BY GVKForObjectParts, KindsAssumption
<1>2. validateConvertible(o) = k \/ validateConvertible(o) = Err("schemeSetup")
  BY DEF validateConvertible
<1> HIDE DEF k
<1>3. /\ IsError(Err("kinds")) /\ Err("kinds").error = "kinds"
      /\ IsError(Err("schemeSetup")) /\ Err("schemeSetup").error = "schemeSetup"
  BY DEF IsError, Err, Failed, Causes
<1> QED BY <1>1, <1>2, <1>3, GVKNotFailed

LEMMA ConvertCRDParts ==
  ASSUME NEW in, IsObject(in), NEW out, IsObject(out), out.type \in Types, out.meta = None,
         NEW spoke, IsObject(spoke), spoke.type \in Types
  PROVE  LET r == ConvertCRD(in, out, spoke) IN
           \/ IsError(r)
           \/ /\ IsObject(r) /\ r.type = out.type /\ r.data = Keep(in.data, out.type)
              /\ r.meta \in KindsOf(out.type) /\ KindsOf(out.type) = {r.meta}
<1> DEFINE d == Keep(in.data, out.type)
           p == [out EXCEPT !.data = d]
           k == validateConvertible(spoke)
<1>1. IsError(k) \/ ~Failed(k)
  BY validateConvertibleParts
<1>2. ConvertCRD(in, out, spoke) = IF Failed(k) THEN k ELSE populateGVK(p)
  BY DEF ConvertCRD
<1>3. IsRecord(out)
  BY DEF IsObject
<1> HIDE DEF d, k
<1>4. IsRecord(p) /\ p.type = out.type /\ p.meta = out.meta /\ p.data = d /\ p.items = out.items
  BY <1>3 DEF IsRecord
<1> HIDE DEF p
<1>5. IsObject(p)
  BY <1>4, FillParts DEF d
<1>6. LET r == populateGVK(p) IN
        \/ IsError(r)
        \/ /\ IsObject(r) /\ r.type = p.type /\ r.data = p.data
           /\ r.meta \in KindsOf(p.type) /\ KindsOf(p.type) = {r.meta}
  BY <1>4, <1>5, populateGVKParts
<1> QED BY <1>1, <1>2, <1>4, <1>6 DEF d

LEMMA ConvertParts ==
  ASSUME NEW in, IsObject(in), NEW out, IsObject(out), out.type \in Types, out.meta = None
  PROVE  LET r == Convert(in, out) IN
           \/ IsError(r)
           \/ /\ IsObject(r) /\ r.type = out.type /\ r.data = Keep(in.data, out.type)
              /\ \/ r.meta \in KindsOf(out.type) /\ KindsOf(out.type) = {r.meta}
                 \/ r.meta = None /\ in.type \notin Spokes /\ ViaScheme(in, out)
<1>1. \/ Convert(in, out) = Err("invalidArgs")
      \/ in.type \in Spokes /\ Convert(in, out) = ConvertCRD(in, out, in)
      \/ Convert(in, out) = ConvertCRD(in, out, out)
      \/ in.type \notin Spokes /\ Convert(in, out) = SchemeConvert(in, out)
  BY DEF Convert
<1>2. IsError(Err("invalidArgs"))
  BY DEF IsError, Err, Failed, Causes
<1>3. in.type \in Spokes => in.type \in Types
  BY KindsAssumption
<1> DEFINE Kept(r) == /\ IsObject(r) /\ r.type = out.type /\ r.data = Keep(in.data, out.type)
                      /\ r.meta \in KindsOf(out.type) /\ KindsOf(out.type) = {r.meta}
<1>4. /\ LET r == ConvertCRD(in, out, out) IN IsError(r) \/ Kept(r)
      /\ in.type \in Types => LET r == ConvertCRD(in, out, in) IN IsError(r) \/ Kept(r)
  BY ConvertCRDParts
<1>5. LET r == SchemeConvert(in, out) IN
        \/ IsError(r)
        \/ /\ IsObject(r) /\ r.type = out.type /\ r.meta = out.meta
           /\ r.data = Keep(in.data, out.type) /\ ViaScheme(in, out)
  BY SchemeConvertParts
<1> QED BY <1>1, <1>2, <1>3, <1>4, <1>5

\* An object whose TypeMeta is set to a kind of its type, or to nothing.
LEMMA MetaParts ==
  ASSUME NEW o, IsObject(o), o.type # "Unknown",
         NEW m, m # None => m \in KindsOf(o.type), NEW r, r = [o EXCEPT !.meta = m]
  PROVE  IsObject(r) /\ r.type = o.type /\ r.data = o.data /\ r.items = o.items /\ r.meta = m
<1>1. /\ IsRecord(r) /\ r.type = o.type /\ r.data = o.data /\ r.items = o.items /\ r.meta = m
  BY DEF IsObject, IsRecord
<1> QED BY <1>1 DEF IsObject, IsDocument

\* The kind that an object gets that was asked for in target, or in the hub's version.
LEMMA SchemeConvertToVersionParts ==
  ASSUME NEW o, IsObject(o), NEW target, target # None
  PROVE  LET r == SchemeConvertToVersion(o, target) IN
           \/ IsError(r)
           \/ /\ IsObject(r) /\ (o.type \in Types => r.type \in Types) /\ DataKept(o, r)
              /\ o.type = "List" => r.type = "List" /\ r.items = o.items
              /\ \E k \in KindsOf(o.type) :
                   LET g == GVK(k.group, target.version, k.kind) IN
                   /\ g \in KindsOf(r.type) /\ target.group \in {None, k.group}
                   /\ r.meta = IF g.version = Internal THEN None ELSE g
<1> DEFINE k == CHOOSE k \in KindsOf(o.type) : TRUE
           g == GVK(k.group, target.version, k.kind)
           r == SchemeConvertToVersion(o, target)
<1>1. IsError(Err("notRegistered"))
  BY DEF IsError, Err, Failed, Causes
<1>2. \/ r = Err("notRegistered")
      \/ /\ KindsOf(o.type) # {} /\ target.group \in {None, k.group}
         /\ \/ g \in KindsOf(o.type) /\ r = SetTargetKind(o, g)
            \/ /\ g \notin KindsOf(o.type) /\ g \in Registered
               /\ LET out == SchemeConvert(o, New(g)) IN
                    r = IF Failed(out) THEN out ELSE SetTargetKind(out, g)
  BY DEF SchemeConvertToVersion
<1>3. KindsOf(o.type) # {} => k \in KindsOf(o.type) /\ o.type # "Unknown"
  BY KindsOfOthers
<1>4. g.version = target.version /\ g.group = k.group /\ g.kind = k.kind
  BY GVKParts
<1> HIDE DEF k, r
<1>5. ASSUME NEW p, IsObject(p), p.type # "Unknown", g \in KindsOf(p.type)
      PROVE  LET q == SetTargetKind(p, g) IN
               /\ IsObject(q) /\ q.type = p.type /\ q.data = p.data /\ q.items = p.items
               /\ q.meta = IF g.version = Internal THEN None ELSE g
  <2> DEFINE m == IF g.version = Internal THEN None ELSE g
             q == [p EXCEPT !.meta = m]
  <2>1. q = SetTargetKind(p, g)
    BY DEF SetTargetKind
  <2>2. m # None => m \in KindsOf(p.type)
    BY <1>5
  <2> HIDE DEF m
  <2>3. IsObject(q) /\ q.type = p.type /\ q.data = p.data /\ q.items = p.items /\ q.meta = m
    BY <1>5, <2>2, MetaParts
  <2> QED BY <2>1, <2>3 DEF m
<1>6. CASE /\ KindsOf(o.type) # {} /\ target.group \in {None, k.group}
           /\ g \in KindsOf(o.type) /\ r = SetTargetKind(o, g)
  <2>1. /\ IsObject(r) /\ r.type = o.type /\ r.data = o.data /\ r.items = o.items
        /\ r.meta = IF g.version = Internal THEN None ELSE g
    BY <1>3, <1>5, <1>6
  <2> HIDE DEF g
  <2> QED BY <1>3, <1>6, <2>1 DEF DataKept, g, r
<1>7. CASE /\ KindsOf(o.type) # {} /\ target.group \in {None, k.group}
           /\ g \notin KindsOf(o.type) /\ g \in Registered
           /\ LET out == SchemeConvert(o, New(g)) IN
                r = IF Failed(out) THEN out ELSE SetTargetKind(out, g)
  <2> HIDE DEF g
  <2> DEFINE n == New(g)
             out == SchemeConvert(o, n)
  <2>1. IsObject(n) /\ n.type \in Types /\ g \in KindsOf(n.type)
    BY <1>7, NewParts
  <2> HIDE DEF n
  <2>2. \/ IsError(out)
        \/ IsObject(out) /\ out.type = n.type /\ out.data = Keep(o.data, n.type)
    BY <2>1, SchemeConvertParts
  <2> HIDE DEF out
  <2>3. r = IF Failed(out) THEN out ELSE SetTargetKind(out, g)
    BY <1>7 DEF out, n
  <2>4. CASE IsError(out)
    BY <2>3, <2>4 DEF IsError, r
  <2>5. CASE IsObject(out) /\ out.type = n.type /\ out.data = Keep(o.data, n.type)
    <3>1. ~Failed(out) /\ out.type # "Unknown" /\ n.type # "Unknown"
      BY <2>1, <2>5, RecordNotFailed, KindsAssumption DEF IsObject
    <3>2. /\ IsObject(r) /\ r.type = n.type /\ r.data = Keep(o.data, n.type)
          /\ r.meta = IF g.version = Internal THEN None ELSE g
      BY <1>5, <2>1, <2>3, <2>5, <3>1 DEF g
    <3>3. o.type # "List"
      <4>1. SUFFICES ASSUME o.type = "List" PROVE FALSE
        OBVIOUS
      <4>2. k = listGVK
        BY <1>3, <1>7, <4>1, KindsOfOthers
      <4>3. SameKind(g, listGVK)
        BY <1>4, <4>2 DEF SameKind, g
      <4> QED BY <1>7, <4>3, RegisteredParts
    <3> QED BY <1>3, <1>7, <2>1, <3>2, <3>3 DEF DataKept, g, r
  <2> QED BY <2>2, <2>4, <2>5
<1> QED BY <1>1, <1>2, <1>6, <1>7 DEF r

LEMMA ToGroupVersionParts ==
  ASSUME NEW o, IsObject(o), o.type \in Hubs \cup Spokes, NEW gv, gv # None => gv.version # Internal
  PROVE  LET r == ToGroupVersion(o, gv) IN
           \/ IsError(r)
           \/ /\ IsObject(r) /\ r.type \in Types /\ DataKept(o, r) /\ r.meta \in KindsOf(r.type)
              /\ gv # None
              /\ \E k \in KindsOf(o.type) : r.meta = GVK(gv.group, gv.version, k.kind)
<1> DEFINE k == GVKForObject(o)
           g == GVK(gv.group, gv.version, k.kind)
           r == ToGroupVersion(o, gv)
<1>1. IsError(Err("notRegistered")) /\ IsError(Err("groupVersioner")) /\ IsError(Err("kinds"))
  BY DEF IsError, Err, Failed, Causes
<1>2. o.type \in Types /\ o.type # "Unknown"
  BY KindsAssumption
<1>3. k = Err("kinds") \/ (IsGVK(k) /\ k \in KindsOf(o.type) /\ ~Failed(k))
  BY <1>2, GVKForObjectParts, GVKNotFailed
<1>4. \/ r = Err("groupVersioner") \/ r = Err("notRegistered")
      \/ Failed(k) /\ r = k
      \/ gv # None /\ ~Failed(k) /\ k.group = gv.group /\ k.version = gv.version /\ r = [o EXCEPT !.meta = k]
      \/ gv # None /\ ~Failed(k) /\ g \in Registered /\ r = Convert(o, New(g))
  BY DEF ToGroupVersion
<1>5. IsGVK(g) /\ g.group = gv.group /\ g.version = gv.version /\ g.kind = k.kind
  BY GVKParts
<1> HIDE DEF k, r
<1>6. CASE gv # None /\ ~Failed(k) /\ k.group = gv.group /\ k.version = gv.version /\ r = [o EXCEPT !.meta = k]
  <2>1. k \in KindsOf(o.type) /\ IsGVK(k)
    BY <1>1, <1>3, <1>6 DEF IsError
  <2>2. IsObject(r) /\ r.type = o.type /\ r.data = o.data /\ r.meta = k
    BY <1>2, <1>6, <2>1, MetaParts
  <2>3. k = g
    BY <1>5, <1>6, <2>1, SameGVK DEF SameKind
  <2> HIDE DEF g
  <2> QED BY <1>2, <1>6, <2>1, <2>2, <2>3 DEF DataKept, g, r
<1>7. CASE gv # None /\ ~Failed(k) /\ g \in Registered /\ r = Convert(o, New(g))
  <2> HIDE DEF g
  <2> DEFINE n == New(g)
  <2>1. k \in KindsOf(o.type)
    BY <1>1, <1>3, <1>7 DEF IsError
  <2>2. IsObject(n) /\ n.type \in Types /\ g \in KindsOf(n.type) /\ n.meta = None
    BY <1>7, NewParts
  <2> HIDE DEF n
  <2>3. \/ IsError(r)
        \/ /\ IsObject(r) /\ r.type = n.type /\ r.data = Keep(o.data, n.type)
           /\ \/ r.meta \in KindsOf(n.type) /\ KindsOf(n.type) = {r.meta}
              \/ r.meta = None /\ o.type \notin Spokes /\ ViaScheme(o, n)
    <3>1. r = Convert(o, n)
      BY <1>7 DEF n
    <3> QED BY <2>2, <3>1, ConvertParts
  <2>4. ~(o.type \notin Spokes /\ ViaScheme(o, n))
    <3>1. SUFFICES ASSUME o.type \in Hubs, ViaScheme(o, n) PROVE FALSE
      OBVIOUS
    <3>2. PICK l \in Kinds[o.type], m \in Kinds[n.type] :
            SameKind(l, m) /\ (l.version = Internal \/ m.version = Internal)
      BY <1>2, <2>2, <3>1, KindsOfType DEF ViaScheme
    <3>3. IsExternal(n.type)
      BY <2>2, <3>1, <3>2, SchemeAssumption DEF SameKind
    <3>4. IsExternal(o.type)
      BY <1>2, <3>1, <3>2, SchemeAssumption DEF SameKind
    <3> QED BY <3>2, <3>3, <3>4 DEF IsExternal
  <2>5. CASE IsError(r)
    BY <2>5 DEF r
  <2>6. CASE IsObject(r) /\ r.type = n.type /\ r.data = Keep(o.data, n.type)
             /\ r.meta \in KindsOf(n.type) /\ KindsOf(n.type) = {r.meta}
    <3>1. r.meta = g
      BY <2>2, <2>6
    <3> QED BY <1>7, <2>1, <2>2, <2>6, <3>1 DEF DataKept, g, r
  <2> QED BY <2>3, <2>4, <2>5, <2>6
<1> QED BY <1>1, <1>3, <1>4, <1>6, <1>7 DEF r

LEMMA convertToHubParts ==
  ASSUME NEW in, IsObject(in), in.type \in Types
  PROVE  LET r == convertToHub(in) IN
           \/ IsError(r) /\ r.error # "notRegistered"
           \/ /\ IsObject(r) /\ r.type \in Hubs /\ r.data = Keep(in.data, r.type)
              /\ \E k \in KindsOf(in.type) :
                   /\ (in.meta # None => k = in.meta)
                   /\ r.meta \in KindsOf(r.type) /\ SameKind(r.meta, k)
<1> DEFINE k == validateConvertible(in)
           hub == CHOOSE l \in findHubType(k) : TRUE
           n == New(hub)
           d == Keep(in.data, n.type)
           p == [n EXCEPT !.data = d, !.meta = hub]
           r == convertToHub(in)
<1>1. \/ IsError(k) /\ k.error # "notRegistered"
      \/ ~Failed(k) /\ IsGVK(k) /\ k \in KindsOf(in.type) /\ (in.meta # None => k = in.meta)
  BY validateConvertibleParts
<1>2. IsError(Err("schemeSetup")) /\ Err("schemeSetup").error = "schemeSetup"
  BY DEF IsError, Err, Failed, Causes
<1>3. \/ Failed(k) /\ r = k
      \/ r = Err("schemeSetup")
      \/ ~Failed(k) /\ findHubType(k) # {} /\ r = p
  BY DEF convertToHub
<1> HIDE DEF k, r
<1>4. CASE ~Failed(k) /\ findHubType(k) # {} /\ r = p
  <2>1. hub \in findHubType(k)
    BY <1>4
  <2> HIDE DEF hub
  <2>2. hub \in Registered /\ n.type \in Hubs /\ SameKind(hub, k)
    BY <2>1 DEF findHubType, SameKind
  <2>3. IsObject(n) /\ n.type \in Types /\ hub \in KindsOf(n.type)
    BY <2>2, NewParts
  <2> HIDE DEF n, d
  <2>4. IsRecord(p) /\ p.type = n.type /\ p.data = d /\ p.meta = hub /\ p.items = n.items
    BY <2>3 DEF IsObject, IsRecord
  <2> HIDE DEF p
  <2>5. IsObject(p)
    BY <2>3, <2>4, FillParts DEF d
  <2> QED BY <1>1, <1>4, <2>2, <2>3, <2>4, <2>5 DEF d, r, IsError
<1> QED BY <1>1, <1>2, <1>3, <1>4 DEF r, IsError

-----------------------------------------------------------------------------
(***************************************************************************)
(* Defaulting.                                                             *)
(***************************************************************************)
LEMMA AuthoredKeep ==
  ASSUME NEW o, NEW p, NEW type, p.data = Keep(o.data, type)
  PROVE  Authored(p) = Authored(o) \cap Fields[type]
<1> DEFINE d == Keep(o.data, type)
<1>1. DOMAIN d = DOMAIN o.data \cap Fields[type] /\ \A f \in DOMAIN d : d[f] = o.data[f]
  BY DEF Keep
<1> HIDE DEF d
<1>2. p.data = d
  BY DEF d
<1> QED BY <1>1, <1>2 DEF Authored

LEMMA DefaultParts ==
  ASSUME NEW o, IsObject(o)
  PROVE  LET r == Default(o) IN
           /\ IsObject(r) /\ r.type = o.type /\ r.meta = o.meta /\ r.items = o.items
           /\ Authored(r) = Authored(o)
<1>1. CASE o.type \notin Types
  BY <1>1 DEF Default
<1>2. CASE o.type \in Types
  <2> DEFINE d == [f \in DOMAIN o.data \cup Defaults[o.type] |->
                     IF f \in DOMAIN o.data THEN o.data[f] ELSE "default"]
             r == [o EXCEPT !.data = d]
  <2>1. Default(o) = r
    BY <1>2 DEF Default
  <2>2. /\ DOMAIN d = DOMAIN o.data \cup Defaults[o.type]
        /\ \A f \in DOMAIN d : d[f] = IF f \in DOMAIN o.data THEN o.data[f] ELSE "default"
    OBVIOUS
  <2> HIDE DEF d
  <2>3. IsRecord(r) /\ r.type = o.type /\ r.meta = o.meta /\ r.items = o.items /\ r.data = d
    BY DEF IsObject, IsRecord
  <2> HIDE DEF r
  <2>4. Authored(r) = Authored(o)
    BY <2>2, <2>3 DEF Authored
  <2>5. IsDocument(r) /\ DOMAIN r.data \subseteq Fields[r.type]
    <3>1. DOMAIN o.data \cup Defaults[o.type] \subseteq Fields[o.type]
      BY <1>2, SchemeAssumption DEF IsObject
    <3>2. \A f \in DOMAIN o.data : o.data[f] \in {"author", "default"}
      BY DEF IsObject, IsDocument
    <3> QED BY <2>2, <2>3, <3>1, <3>2 DEF IsDocument
  <2>6. IsObject(r)
    <3>1. r.items \in Seq(Documents) /\ (r.meta # None => r.meta \in KindsOf(r.type))
      BY <1>2, <2>3, KindsAssumption DEF IsObject
    <3> QED BY <1>2, <2>3, <2>5, <3>1, ObjectOfType
  <2> QED BY <2>1, <2>3, <2>4, <2>6
<1> QED BY <1>1, <1>2

\* The defaults of the preferred version, in an internal object.
LEMMA InternalDefaultParts ==
  ASSUME NEW o, IsObject(o), o.type \in Types, NEW ext, IsObject(ext), ext.type \in Types,
         ext.data = Keep(o.data, ext.type), NEW r,
         r = [o EXCEPT !.data =
                LET d == Keep(Default(ext).data, o.type)
                IN [f \in DOMAIN d \cup DOMAIN @ |-> IF f \in DOMAIN d THEN d[f] ELSE @[f]]]
  PROVE  IsObject(r) /\ r.type = o.type /\ r.meta = o.meta /\ Authored(r) = Authored(o)
<1> DEFINE e == Default(ext)
           d == Keep(e.data, o.type)
           data == [f \in DOMAIN d \cup DOMAIN o.data |-> IF f \in DOMAIN d THEN d[f] ELSE o.data[f]]
<1>1. r = [o EXCEPT !.data = data]
  OBVIOUS
<1>2. /\ DOMAIN data = DOMAIN d \cup DOMAIN o.data
      /\ \A f \in DOMAIN data : data[f] = IF f \in DOMAIN d THEN d[f] ELSE o.data[f]
  OBVIOUS
<1> HIDE DEF data
<1>3. IsRecord(r) /\ r.type = o.type /\ r.meta = o.meta /\ r.items = o.items /\ r.data = data
  BY <1>1 DEF IsObject, IsRecord
<1>4. DOMAIN d = DOMAIN e.data \cap Fields[o.type] /\ \A f \in DOMAIN d : d[f] = e.data[f]
  BY DEF Keep
<1> HIDE DEF d
<1>5. IsObject(e) /\ e.type = ext.type /\ Authored(e) = Authored(ext)
  BY DefaultParts
\* What is defaulted is of the external type, and was not set.
<1>6. \A f \in DOMAIN e.data : f \in DOMAIN o.data => e.data[f] = o.data[f]
  <2>1. /\ DOMAIN ext.data = DOMAIN o.data \cap Fields[ext.type]
        /\ \A f \in DOMAIN ext.data : ext.data[f] = o.data[f]
    BY DEF Keep
  <2>2. /\ DOMAIN e.data \subseteq Fields[ext.type]
        /\ \A f \in DOMAIN ext.data : e.data[f] = ext.data[f]
    <3> DEFINE x == [f \in DOMAIN ext.data \cup Defaults[ext.type] |->
                       IF f \in DOMAIN ext.data THEN ext.data[f] ELSE "default"]
    <3>1. e = [ext EXCEPT !.data = x]
      BY DEF Default
    <3>2. \A f \in DOMAIN ext.data : x[f] = ext.data[f]
      OBVIOUS
    <3> HIDE DEF x, e
    <3>3. e.data = x
      BY <3>1 DEF IsObject, IsRecord
    <3>4. DOMAIN e.data \subseteq Fields[ext.type]
      BY <1>5 DEF IsObject
    <3> QED BY <3>2, <3>3, <3>4
  <2> QED BY <2>1, <2>2
<1> HIDE DEF e
<1>7. IsDocument(r) /\ DOMAIN r.data \subseteq Fields[r.type]
  <2>1. /\ \A f \in DOMAIN o.data : o.data[f] \in {"author", "default"}
        /\ \A f \in DOMAIN e.data : e.data[f] \in {"author", "default"}
        /\ DOMAIN o.data \subseteq Fields[o.type]
    BY <1>5 DEF IsObject, IsDocument
  <2>2. \A f \in DOMAIN data : data[f] \in {"author", "default"}
    BY <1>2, <1>4, <2>1
  <2>3. DOMAIN data \subseteq Fields[o.type]
    BY <1>2, <1>4, <2>1
  <2> QED BY <1>3, <2>2, <2>3 DEF IsDocument
<1>8. Authored(r) = Authored(o)
  <2>1. \A f \in DOMAIN d : f \in DOMAIN o.data => d[f] = o.data[f]
    BY <1>4, <1>6
  <2>2. \A f \in DOMAIN d : d[f] = "author" => f \in DOMAIN o.data
    <3>1. SUFFICES ASSUME NEW f \in DOMAIN d, d[f] = "author" PROVE f \in DOMAIN o.data
      OBVIOUS
    <3>2. f \in Authored(ext)
      BY <1>4, <1>5, <3>1 DEF Authored
    <3>3. Authored(ext) = Authored(o) \cap Fields[ext.type]
      BY AuthoredKeep
    <3> QED BY <3>2, <3>3 DEF Authored
  <2> QED BY <1>2, <1>3, <2>1, <2>2 DEF Authored
<1>9. IsObject(r)
  <2>1. r.items \in Seq(Documents) /\ (r.meta # None => r.meta \in KindsOf(r.type))
    BY <1>3, KindsAssumption DEF IsObject
  <2> QED BY <1>3, <1>7, <2>1, ObjectOfType
<1> QED BY <1>3, <1>8, <1>9

LEMMA runDefaultingParts ==
  ASSUME NEW o, IsObject(o)
  PROVE  LET r == runDefaulting(o) IN
           \/ IsError(r)
           \/ IsObject(r) /\ r.type = o.type /\ r.meta = o.meta /\ Authored(r) = Authored(o)
<1> DEFINE k == GVKForObject(o)
           target == GVK(k.group, Preferred[k.group], k.kind)
           ext == IF target \in Registered THEN SchemeConvert(o, New(target)) ELSE Err("notRegistered")
           p == [o EXCEPT !.data =
                   LET d == Keep(Default(ext).data, o.type)
                   IN [f \in DOMAIN d \cup DOMAIN @ |-> IF f \in DOMAIN d THEN d[f] ELSE @[f]]]
           r == runDefaulting(o)
<1>1. IsError(Err("notRegistered")) /\ IsError(Err("kinds")) /\ IsError(Err("noVersion"))
  BY DEF IsError, Err, Failed, Causes
<1>2. k = Err("kinds") \/ (IsGVK(k) /\ ~Failed(k))
  BY GVKForObjectParts, GVKNotFailed
<1>3. \/ Failed(k) /\ r = k
      \/ r = Err("noVersion")
      \/ r = Default(o)
      \/ ~Failed(k) /\ Failed(ext) /\ r = ext
      \/ ~Failed(k) /\ ~Failed(ext) /\ r = p
  BY DEF runDefaulting
<1> HIDE DEF k, r
<1>4. \/ IsError(ext)
      \/ /\ IsObject(ext) /\ ext.type \in Types /\ ext.data = Keep(o.data, ext.type)
         /\ o.type \in Types
  <2>1. CASE target \notin Registered
    BY <1>1, <2>1
  <2>2. CASE target \in Registered
    <3> HIDE DEF target
    <3> DEFINE n == New(target)
    <3>1. IsObject(n) /\ n.type \in Types
      BY <2>2, NewParts
    <3> HIDE DEF n
    <3>2. ext = SchemeConvert(o, n)
      BY <2>2 DEF n
    <3>3. \/ IsError(ext)
          \/ IsObject(ext) /\ ext.type = n.type /\ ext.data = Keep(o.data, n.type) /\ ViaScheme(o, n)
      BY <3>1, <3>2, SchemeConvertParts
    <3>4. ViaScheme(o, n) => o.type \in Types
      <4>1. SUFFICES ASSUME ViaScheme(o, n), o.type \notin Types PROVE FALSE
        OBVIOUS
      <4>2. KindsOf(o.type) \subseteq {listGVK}
        BY <4>1, KindsOfOthers DEF IsObject
      <4>3. \A l \in KindsOf(n.type) : ~SameKind(l, listGVK)
        BY <3>1, KindsOfType, RegisteredParts
      <4> QED BY <4>1, <4>2, <4>3 DEF ViaScheme, SameKind
    <3> QED BY <3>1, <3>3, <3>4
  <2> QED BY <2>1, <2>2
<1> HIDE DEF ext
<1>5. CASE r = Default(o)
  BY <1>5, DefaultParts DEF r
<1>6. CASE ~Failed(k) /\ Failed(ext) /\ r = ext
  BY <1>4, <1>6, RecordNotFailed DEF IsObject, r
<1>7. CASE ~Failed(k) /\ ~Failed(ext) /\ r = p
  <2>1. IsObject(ext) /\ ext.type \in Types /\ ext.data = Keep(o.data, ext.type) /\ o.type \in Types
    BY <1>4, <1>7 DEF IsError
  <2>2. IsObject(r) /\ r.type = o.type /\ r.meta = o.meta /\ Authored(r) = Authored(o)
    BY <1>7, <2>1, InternalDefaultParts
  <2> QED BY <2>2 DEF r
<1> QED BY <1>1, <1>2, <1>3, <1>5, <1>6, <1>7 DEF r

-----------------------------------------------------------------------------
(***************************************************************************)
(* Decoding.                                                               *)
(***************************************************************************)
LEMMA DataKeptAuthored ==
  ASSUME NEW o, IsObject(o), o.type \in Types, NEW r, DataKept(o, r)
  PROVE  Authored(r) = Authored(o) \cap Fields[r.type]
<1>1. CASE r.type = o.type /\ r.data = o.data
  BY <1>1 DEF Authored, IsObject
<1>2. CASE r.data = Keep(o.data, r.type)
  BY <1>2, AuthoredKeep
<1> QED BY <1>1, <1>2 DEF DataKept

LEMMA TypeOfKind ==
  ASSUME NEW type \in Types, NEW k \in KindsOf(type)
  PROVE  k \in Registered /\ New(k).type = type /\ TypeFields(k) = Fields[type]
<1>1. k \in Registered /\ k \in Kinds[type]
  BY KindsOfType
<1>2. New(k).type = type
  BY <1>1, NewOfType
<1> QED BY <1>1, <1>2 DEF TypeFields

LEMMA TargetKindRecord ==
  ASSUME NEW o, IsObject(o), NEW gvk
  PROVE  ~Failed(SetTargetKind(o, gvk))
<1> DEFINE m == IF gvk.version = Internal THEN None ELSE gvk
           p == [o EXCEPT !.meta = m]
<1>1. SetTargetKind(o, gvk) = p
  BY DEF SetTargetKind
<1> HIDE DEF m
<1>2. IsRecord(p)
  BY DEF IsObject, IsRecord
<1> QED BY <1>1, <1>2, RecordNotFailed

\* The scheme has not what is not registered in it.
LEMMA NotInScheme ==
  ASSUME NEW o, IsObject(o), o.type \in Types,
         SchemeConvertToVersion(o, InternalGroupVersioner) = Err("notRegistered")
  PROVE  \A k \in KindsOf(o.type) : GVK(k.group, Internal, k.kind) \notin Registered
<1> DEFINE target == InternalGroupVersioner
           k == CHOOSE k \in KindsOf(o.type) : TRUE
           g == GVK(k.group, target.version, k.kind)
           r == SchemeConvertToVersion(o, target)
<1>1. target # None /\ target.group = None /\ target.version = Internal
  BY NoneAssumption DEF InternalGroupVersioner
<1>2. KindsOf(o.type) # {} /\ k \in KindsOf(o.type)
  BY KindsOfType
<1>3. IsError(Err("notRegistered")) /\ Err("notRegistered").error = "notRegistered"
  BY DEF IsError, Err, Failed, Causes
<1>4. \/ g \notin Registered
      \/ g \in KindsOf(o.type) /\ r = SetTargetKind(o, g)
      \/ /\ g \in Registered
         /\ LET out == SchemeConvert(o, New(g)) IN
              r = IF Failed(out) THEN out ELSE SetTargetKind(out, g)
  BY <1>1, <1>2 DEF SchemeConvertToVersion
<1>5. ASSUME NEW p, IsObject(p), r = SetTargetKind(p, g) PROVE FALSE
  <2> HIDE DEF g, r
  <2> QED BY <1>3, <1>5, TargetKindRecord DEF IsError, r
<1>6. ASSUME g \in Registered, LET out == SchemeConvert(o, New(g)) IN
                                 r = IF Failed(out) THEN out ELSE SetTargetKind(out, g)
      PROVE  FALSE
  <2> HIDE DEF g
  <2> DEFINE n == New(g)
             out == SchemeConvert(o, n)
  <2>1. IsObject(n) /\ n.type \in Types
    BY <1>6, NewParts
  <2> HIDE DEF n
  <2>2. (IsError(out) /\ out.error = "conversion") \/ IsObject(out)
    BY <2>1, SchemeConvertParts
  <2> HIDE DEF out, r
  <2>3. r = IF Failed(out) THEN out ELSE SetTargetKind(out, g)
    BY <1>6 DEF out, n
  <2>4. r = Err("notRegistered")
    BY DEF r
  <2>5. Failed(out) \/ IsObject(out)
    BY <2>2 DEF IsError
  <2>6. ~IsObject(out) \/ Failed(out)
    BY <1>5, <2>3
  <2> QED BY <1>3, <2>2, <2>3, <2>4, <2>5, <2>6, RecordNotFailed DEF IsError, IsObject
<1>7. g \notin Registered
  BY <1>4, <1>5, <1>6
<1>8. ASSUME NEW l \in KindsOf(o.type) PROVE GVK(l.group, Internal, l.kind) \notin Registered
  <2>1. SameKind(k, l)
    BY <1>2, KindsOfType
  <2> HIDE DEF k
  <2>2. GVK(l.group, Internal, l.kind) = g
    BY <1>1, <2>1 DEF SameKind
  <2> QED BY <1>7, <2>2 DEF k
<1> QED BY <1>8

InHub(g, r) == KindsOf(r.type) \cap HubKinds(g) # {}

\* An object of kind g is converted to the hub of its kind, with all its data.
LEMMA ToHubParts ==
  ASSUME NEW o, IsObject(o), o.type \in Types, NEW g, g = o.meta, g \in KindsOf(o.type)
  PROVE  LET r == ConvertToVersion(o, InternalGroupVersioner) IN
           \/ IsError(r) /\ (r.error = "notRegistered" => HubKinds(g) = {})
           \/ IsObject(r) /\ r.type \in Types /\ InHub(g, r) /\ Authored(r) = Authored(o)
<1> DEFINE r == ConvertToVersion(o, InternalGroupVersioner)
<1>1. g \in Registered /\ New(g).type = o.type /\ g # None /\ IsGVK(g)
  BY TypeOfKind, NoneAssumption, RegisteredParts
<1>2. InternalGroupVersioner # None /\ InternalGroupVersioner.version = Internal
  BY NoneAssumption DEF InternalGroupVersioner
<1>3. IsError(Err("invalidArgs")) /\ Err("invalidArgs").error = "invalidArgs"
  BY DEF IsError, Err, Failed, Causes
<1>4. Authored(o) \subseteq Fields[o.type]
  BY DEF Authored, IsObject
\* The hub's type has the fields of the others.
<1>5. ASSUME NEW p, IsObject(p), p.type \in Types, DataKept(o, p), p.type \in Hubs \/ ~IsExternal(p.type),
             NEW k \in KindsOf(o.type), NEW l \in KindsOf(p.type), k.kind = l.kind
      PROVE  Authored(p) = Authored(o)
  <2>1. Fields[o.type] \subseteq Fields[p.type]
    BY <1>5, SchemeAssumption, KindsOfType
  <2> QED BY <1>4, <1>5, <2>1, DataKeptAuthored
<1>6. CASE o.type \notin Hubs \cup Spokes
  <2>1. r = SchemeConvertToVersion(o, InternalGroupVersioner)
    BY <1>6 DEF ConvertToVersion
  <2> HIDE DEF r
  <2>2. \/ IsError(r)
        \/ /\ IsObject(r) /\ r.type \in Types /\ DataKept(o, r)
           /\ \E k \in KindsOf(o.type) : GVK(k.group, Internal, k.kind) \in KindsOf(r.type)
    BY <1>2, <2>1, SchemeConvertToVersionParts
  <2>3. CASE IsError(r)
    <3>1. r.error = "notRegistered" => r = Err("notRegistered")
      <4>1. r \in {Err("notRegistered"), Err("panic")} \/ (IsError(r) /\ r.error = "conversion")
        <5> DEFINE k == CHOOSE k \in KindsOf(o.type) : TRUE
                   h == GVK(k.group, InternalGroupVersioner.version, k.kind)
        <5>1. \/ r \in {Err("notRegistered"), Err("panic")}
              \/ r = SetTargetKind(o, h)
              \/ /\ h \in Registered
                 /\ LET out == SchemeConvert(o, New(h)) IN
                      r = IF Failed(out) THEN out ELSE SetTargetKind(out, h)
          BY <2>1 DEF SchemeConvertToVersion
        <5>2. ASSUME NEW p, IsObject(p), r = SetTargetKind(p, h) PROVE FALSE
          <6> HIDE DEF h
          <6> QED BY <2>3, <5>2, TargetKindRecord DEF IsError
        <5>3. ASSUME h \in Registered, LET out == SchemeConvert(o, New(h)) IN
                                         r = IF Failed(out) THEN out ELSE SetTargetKind(out, h)
              PROVE  IsError(r) /\ r.error = "conversion"
          <6> HIDE DEF h
          <6> DEFINE n == New(h)
                     out == SchemeConvert(o, n)
          <6>1. IsObject(n) /\ n.type \in Types
            BY <5>3, NewParts
          <6> HIDE DEF n
          <6>2. (IsError(out) /\ out.error = "conversion") \/ IsObject(out)
            BY <6>1, SchemeConvertParts
          <6> HIDE DEF out
          <6>3. r = IF Failed(out) THEN out ELSE SetTargetKind(out, h)
            BY <5>3 DEF out, n
          <6>4. Failed(out) \/ IsObject(out)
            BY <6>2 DEF IsError
          <6>5. ~IsObject(out) \/ Failed(out)
            BY <5>2, <6>3
          <6>6. ~IsObject(out) \/ ~Failed(out)
            BY RecordNotFailed DEF IsObject
          <6> QED BY <6>2, <6>3, <6>4, <6>5, <6>6
        <5> QED BY <5>1, <5>2, <5>3
      <4>2. Err("panic").error = "panic"
        BY DEF Err
      <4> QED BY <4>1, <4>2
    <3>2. ASSUME r = Err("notRegistered") PROVE HubKinds(g) = {}
      <4>1. GVK(g.group, Internal, g.kind) \notin Registered
        BY <2>1, <3>2, NotInScheme
      <4>2. SUFFICES ASSUME NEW k \in HubKinds(g) PROVE FALSE
        OBVIOUS
      <4>3. k \in Registered /\ k.group = g.group /\ k.kind = g.kind /\ k.version = Internal
        BY <1>1, <1>6, <4>2 DEF HubKinds
      <4>4. k = GVK(g.group, Internal, g.kind)
        BY <4>3, RegisteredParts DEF IsGVK
      <4> QED BY <4>1, <4>3, <4>4
    <3> QED BY <2>3, <3>1, <3>2 DEF r
  <2>4. CASE /\ IsObject(r) /\ r.type \in Types /\ DataKept(o, r)
             /\ \E k \in KindsOf(o.type) : GVK(k.group, Internal, k.kind) \in KindsOf(r.type)
    <3>1. PICK k \in KindsOf(o.type) : GVK(k.group, Internal, k.kind) \in KindsOf(r.type)
      BY <2>4
    <3> DEFINE h == GVK(k.group, Internal, k.kind)
    <3>2. h.group = k.group /\ h.kind = k.kind /\ h.version = Internal /\ SameKind(k, g)
      BY GVKParts, KindsOfType
    <3>3. h \in KindsOf(r.type) /\ h \in Registered
      BY <2>4, <3>1, KindsOfType
    <3> HIDE DEF h
    <3>4. h \in HubKinds(g)
      BY <3>2, <3>3 DEF HubKinds, SameKind
    <3>5. ~IsExternal(r.type)
      BY <2>4, <3>2, <3>3, KindsOfType DEF IsExternal
    <3>6. Authored(r) = Authored(o)
      BY <1>5, <2>4, <3>2, <3>3, <3>5
    <3> QED BY <2>4, <3>3, <3>4, <3>6 DEF InHub, r
  <2> QED BY <2>2, <2>3, <2>4
<1>7. CASE o.type \in Hubs /\ o.type \in Spokes
  BY <1>3, <1>7 DEF ConvertToVersion
<1>8. CASE o.type \in Hubs /\ o.type \notin Spokes
  <2>1. r = o
    BY <1>8 DEF ConvertToVersion
  <2>2. g \in HubKinds(g)
    BY <1>1, <1>8 DEF HubKinds
  <2> HIDE DEF r
  <2> QED BY <2>1, <2>2 DEF InHub, r
<1>9. CASE o.type \in Spokes /\ o.type \notin Hubs
  <2>1. r = convertToHub(o)
    BY <1>9 DEF ConvertToVersion
  <2> HIDE DEF r
  <2>2. \/ IsError(r) /\ r.error # "notRegistered"
        \/ /\ IsObject(r) /\ r.type \in Hubs /\ r.data = Keep(o.data, r.type)
           /\ r.meta \in KindsOf(r.type) /\ SameKind(r.meta, g)
    BY <1>1, <2>1, convertToHubParts
  <2>3. CASE /\ IsObject(r) /\ r.type \in Hubs /\ r.data = Keep(o.data, r.type)
             /\ r.meta \in KindsOf(r.type) /\ SameKind(r.meta, g)
    <3>1. r.type \in Types
      BY <2>3, KindsAssumption
    <3>2. r.meta \in Registered /\ New(r.meta).type = r.type
      BY <2>3, <3>1, TypeOfKind
    <3>3. r.meta \in HubKinds(g)
      BY <1>1, <1>9, <2>3, <3>2 DEF HubKinds, SameKind
    <3>4. Authored(r) = Authored(o)
      BY <1>5, <2>3, <3>1 DEF DataKept, SameKind
    <3> QED BY <2>3, <3>1, <3>3, <3>4 DEF InHub, r
  <2> QED BY <2>2, <2>3 DEF r
<1> QED BY <1>6, <1>7, <1>8, <1>9

\* What the JSON serializer makes of a document.
LEMMA ParseParts ==
  ASSUME NEW doc, IsDoc(doc), NEW opts
  PROVE  LET r == Parse(doc, opts) IN
           \/ IsError(r) /\ (r.error = "notRegistered" => doc.gvk \notin InScheme(opts))
           \/ /\ IsObject(r) /\ r.meta = doc.gvk /\ doc.gvk \in InScheme(opts)
              /\ doc.gvk = listGVK => r.type = "List" /\ r.items = doc.items
              /\ doc.gvk # listGVK =>
                   /\ r.type \in Types /\ doc.gvk \in KindsOf(r.type)
                   /\ Authored(r) = Authored(doc) \cap TypeFields(doc.gvk)
<1> DEFINE n == New(doc.gvk)
           d == Keep(doc.data, n.type)
           p == [n EXCEPT !.meta = doc.gvk, !.data = d]
           list == [type |-> "List", meta |-> doc.gvk, data |-> <<>>, items |-> doc.items]
           r == Parse(doc, opts)
<1>1. /\ IsError(Err("notRegistered")) /\ IsError(Err("strict"))
      /\ Err("strict").error = "strict"
  BY DEF IsError, Err, Failed, Causes
<1>2. \/ doc.gvk \notin InScheme(opts) /\ r = Err("notRegistered")
      \/ doc.gvk \in InScheme(opts) /\ doc.gvk = listGVK /\ r = list
      \/ doc.gvk \in InScheme(opts) /\ doc.gvk # listGVK /\ r \in {Err("strict"), p}
  BY DEF Parse
<1> HIDE DEF r
<1>3. CASE doc.gvk \in InScheme(opts) /\ doc.gvk = listGVK /\ r = list
  <2>1. /\ IsRecord(r) /\ r.type = "List" /\ r.meta = listGVK /\ DOMAIN r.data = {}
        /\ r.items = doc.items
    BY <1>3 DEF IsRecord
  <2>2. IsObject(r)
    BY <2>1, KindsAssumption, KindsOfOthers DEF IsObject, IsDocument, IsDoc
  <2> QED BY <1>3, <2>1, <2>2 DEF r
<1>4. CASE doc.gvk \in InScheme(opts) /\ doc.gvk # listGVK /\ r = p
  <2>1. doc.gvk \in Registered
    BY <1>4 DEF InScheme
  <2>2. IsObject(n) /\ n.type \in Types /\ doc.gvk \in KindsOf(n.type)
    BY <2>1, NewParts
  <2>3. TypeFields(doc.gvk) = Fields[n.type]
    BY <2>1 DEF TypeFields
  <2> HIDE DEF n, d
  <2>4. IsRecord(p) /\ p.type = n.type /\ p.meta = doc.gvk /\ p.data = d /\ p.items = n.items
    BY <2>2 DEF IsObject, IsRecord
  <2> HIDE DEF p
  <2>5. IsDocument(p) /\ DOMAIN p.data \subseteq Fields[n.type]
    BY <2>4, KeepDocument DEF d, IsDoc
  <2>6. IsObject(p)
    BY <2>2, <2>4, <2>5, ObjectOfType DEF IsObject
  <2>7. Authored(p) = Authored(doc) \cap Fields[n.type]
    BY <2>4, AuthoredKeep DEF d
  <2> QED BY <1>4, <2>2, <2>3, <2>4, <2>6, <2>7 DEF r
<1> QED BY <1>1, <1>2, <1>3, <1>4 DEF r

\* An object decoded from a document: of the document's kind, or of its hub's.
DecodedAs(doc, opts, r) ==
  /\ ~NotKnown(doc.gvk, opts)
  /\ IF doc.gvk = listGVK THEN ~opts.hub /\ r.type = "List" /\ r.items = doc.items
     ELSE /\ r.type \in Types /\ Authored(r) = Authored(doc) \cap TypeFields(doc.gvk)
          /\ IF opts.hub THEN InHub(doc.gvk, r) ELSE doc.gvk \in KindsOf(r.type)

LEMMA ListHasNoHub == HubKinds(listGVK) = {}
  BY RegisteredParts DEF HubKinds, SameKind

LEMMA DecodedParts ==
  ASSUME NEW doc, IsDoc(doc), NEW opts
  PROVE  LET r == Decoded(Parse(doc, opts), None, opts) IN
           \/ IsError(r) /\ (r.error = "notRegistered" => NotKnown(doc.gvk, opts))
           \/ IsObject(r) /\ DecodedAs(doc, opts, r)
<1> DEFINE p == Parse(doc, opts)
           o == IF opts.default THEN Default(p) ELSE p
           r == Decoded(p, None, opts)
<1>1. \/ IsError(p) /\ (p.error = "notRegistered" => doc.gvk \notin InScheme(opts))
      \/ /\ IsObject(p) /\ p.meta = doc.gvk /\ doc.gvk \in InScheme(opts)
         /\ doc.gvk = listGVK => p.type = "List" /\ p.items = doc.items
         /\ doc.gvk # listGVK =>
              /\ p.type \in Types /\ doc.gvk \in KindsOf(p.type)
              /\ Authored(p) = Authored(doc) \cap TypeFields(doc.gvk)
  BY ParseParts
<1>2. r = IF Failed(p) THEN p
          ELSE IF opts.hub THEN ConvertToVersion(o, InternalGroupVersioner) ELSE o
  BY DEF Decoded, ConvertDecoded
<1> HIDE DEF p
<1>3. CASE IsError(p)
  BY <1>1, <1>2, <1>3, RecordNotFailed DEF IsError, IsObject, NotKnown, p
<1>4. CASE /\ IsObject(p) /\ p.meta = doc.gvk /\ doc.gvk \in InScheme(opts)
           /\ doc.gvk = listGVK => p.type = "List" /\ p.items = doc.items
           /\ doc.gvk # listGVK =>
                /\ p.type \in Types /\ doc.gvk \in KindsOf(p.type)
                /\ Authored(p) = Authored(doc) \cap TypeFields(doc.gvk)
  <2>1. IsObject(o) /\ o.type = p.type /\ o.meta = p.meta /\ o.items = p.items /\ Authored(o) = Authored(p)
    BY <1>4, DefaultParts
  <2>2. ~Failed(p)
    BY <1>4, RecordNotFailed DEF IsObject
  <2> HIDE DEF o, r
  <2>3. CASE ~opts.hub
    BY <1>2, <1>4, <2>1, <2>2, <2>3 DEF DecodedAs, NotKnown, r, p
  <2>4. CASE opts.hub /\ doc.gvk # listGVK
    <3>1. r = ConvertToVersion(o, InternalGroupVersioner)
      BY <1>2, <2>2, <2>4
    <3>2. \/ IsError(r) /\ (r.error = "notRegistered" => HubKinds(doc.gvk) = {})
          \/ IsObject(r) /\ r.type \in Types /\ InHub(doc.gvk, r) /\ Authored(r) = Authored(o)
      BY <1>4, <2>1, <2>4, <3>1, ToHubParts
    <3> QED BY <1>4, <2>1, <2>4, <3>2 DEF DecodedAs, NotKnown, InHub, r, p
  <2>5. CASE opts.hub /\ doc.gvk = listGVK
    <3>1. o.type \notin Hubs \cup Spokes /\ KindsOf(o.type) = {listGVK}
      BY <1>4, <2>1, <2>5, KindsAssumption, KindsOfOthers
    <3>2. r = SchemeConvertToVersion(o, InternalGroupVersioner)
      BY <1>2, <2>2, <2>5, <3>1 DEF ConvertToVersion
    <3>3. InternalGroupVersioner # None /\ InternalGroupVersioner.version = Internal
      BY NoneAssumption DEF InternalGroupVersioner
    <3> DEFINE g == GVK(listGVK.group, Internal, listGVK.kind)
    <3>4. IsError(r) \/ (IsObject(r) /\ g \in KindsOf(r.type))
      BY <2>1, <3>1, <3>2, <3>3, SchemeConvertToVersionParts
    <3>5. SameKind(g, listGVK) /\ g.version = Internal
      BY GVKParts DEF SameKind
    <3> HIDE DEF g
    <3>6. ASSUME IsObject(r), g \in KindsOf(r.type) PROVE FALSE
      <4>1. g \notin Registered
        BY <3>5, RegisteredParts
      <4>2. r.type \in {"List", "Unknown"}
        BY <3>6, <4>1, KindsOfType DEF IsObject
      <4> QED BY <3>5, <3>6, <4>2, KindsOfOthers, ListGVK
    <3> QED BY <2>5, <3>4, <3>6, ListHasNoHub DEF NotKnown, r, p
  <2> QED BY <2>3, <2>4, <2>5
<1> QED BY <1>1, <1>3, <1>4

\* An Unknown has all that its document had.
UnknownOf(doc, r) ==
  r.type = "Unknown" /\ r.meta = doc.gvk /\ r.data = doc.data /\ r.items = doc.items

LEMMA UnknownParts ==
  ASSUME NEW doc, IsDoc(doc)
  PROVE  LET r == decodeUnknown(doc) IN IsObject(r) /\ UnknownOf(doc, r)
<1> DEFINE r == decodeUnknown(doc)
<1>1. /\ IsRecord(r) /\ r.type = "Unknown" /\ r.meta = doc.gvk /\ r.data = doc.data
      /\ r.items = doc.items
  BY DEF decodeUnknown, IsRecord
<1> HIDE DEF r
<1>2. IsObject(r)
  BY <1>1, KindsAssumption DEF IsObject, IsDoc, IsDocument
<1> QED BY <1>1, <1>2 DEF r, UnknownOf

LEMMA DecodeErrorParts ==
  ASSUME NEW gvk, NEW opts, NEW cause \in Causes
  PROVE  IsError(handleDecodeError(gvk, opts, cause))
<1>1. \A c \in Causes : IsError(Err(c))
  BY ErrIsError
<1>2. \E c \in Causes : handleDecodeError(gvk, opts, cause) = Err(c)
  BY DEF handleDecodeError, Causes
<1> QED BY <1>1, <1>2

\* Decoding gives an object of the document, or an Unknown one of a document of
\* which the scheme has not the kind, or no hub that was asked for.
LEMMA DecodeParts ==
  ASSUME NEW doc, IsDoc(doc), NEW opts
  PROVE  LET r == decode(doc, None, opts) IN
           \/ IsError(r)
           \/ IsObject(r) /\ DecodedAs(doc, opts, r)
           \/ /\ IsObject(r) /\ UnknownOf(doc, r)
              /\ opts.unknown /\ NotKnown(doc.gvk, opts)
<1> DEFINE o == Decoded(Parse(doc, opts), None, opts)
           r == decode(doc, None, opts)
<1>1. \/ IsError(o) /\ (o.error = "notRegistered" => NotKnown(doc.gvk, opts))
      \/ IsObject(o) /\ DecodedAs(doc, opts, o)
  BY DecodedParts
<1>2. \/ ~Failed(o) /\ r = o
      \/ opts.unknown /\ o.error = "notRegistered" /\ Failed(o) /\ r = decodeUnknown(doc)
      \/ Failed(o) /\ r = handleDecodeError(doc.gvk, opts, o.error)
  BY DEF decode, HandleDecoded
<1> HIDE DEF o, r
<1>3. IsObject(o) => ~Failed(o)
  BY RecordNotFailed DEF IsObject
<1>4. CASE ~Failed(o) /\ r = o
  BY <1>1, <1>4 DEF r, IsError
<1>5. CASE opts.unknown /\ o.error = "notRegistered" /\ Failed(o) /\ r = decodeUnknown(doc)
  <2>1. IsObject(r) /\ UnknownOf(doc, r)
    BY <1>5, UnknownParts
  <2> QED BY <1>1, <1>3, <1>5, <2>1 DEF r
<1>6. CASE Failed(o) /\ r = handleDecodeError(doc.gvk, opts, o.error)
  <2>1. o.error \in Causes
    BY <1>1, <1>3, <1>6 DEF IsError
  <2>2. IsError(r)
    BY <1>6, <2>1, DecodeErrorParts
  <2> QED BY <2>2 DEF r
<1> QED BY <1>2, <1>4, <1>5, <1>6

LEMMA DecodeIntoParts ==
  ASSUME NEW doc, IsDoc(doc), NEW into, IsObject(into), into.type \in Types, into.meta = None,
         NEW opts
  PROVE  IsResult(decode(doc, into, opts))
<1> DEFINE p == Parse(doc, opts)
           o == IF opts.default THEN Default(p) ELSE p
           c == Decoded(p, into, opts)
           r == decode(doc, into, opts)
<1>1. CASE into = None
  BY <1>1, DecodeParts DEF IsResult
<1>2. CASE into # None
  <2>1. (IsError(p) /\ Failed(p)) \/ (IsObject(p) /\ ~Failed(p))
    BY ParseParts, RecordNotFailed DEF IsObject, IsError
  <2>2. c = IF Failed(p) THEN p ELSE IF into.type = o.type THEN o ELSE Convert(o, into)
    BY <1>2 DEF Decoded, ConvertDecoded
  <2>3. \/ r = c \/ (Failed(c) /\ r = handleDecodeError(doc.gvk, opts, c.error))
    BY <1>2 DEF decode, HandleDecoded
  <2> HIDE DEF p, c, r
  <2>4. IsObject(p) => IsObject(o)
    BY DefaultParts
  <2> HIDE DEF o
  <2>5. IsObject(o) => IsResult(Convert(o, into))
    BY ConvertParts DEF IsResult
  <2>6. IsResult(c)
    BY <2>1, <2>2, <2>4, <2>5 DEF IsResult
  <2>7. Failed(c) => c.error \in Causes
    BY <2>6, RecordNotFailed DEF IsResult, IsError, IsObject
  <2>8. Failed(c) => IsError(handleDecodeError(doc.gvk, opts, c.error))
    BY <2>7, DecodeErrorParts
  <2> QED BY <2>3, <2>6, <2>8 DEF r, IsResult
<1> QED BY <1>1, <1>2

-----------------------------------------------------------------------------
(***************************************************************************)
(* DecodeAll.                                                              *)
(***************************************************************************)
IsSeq(s) == s \in Seq(Range(s))

LEMMA SeqBuilt ==
  ASSUME NEW s, NEW n \in Nat, s = [i \in 1..n |-> s[i]]
  PROVE  IsSeq(s) /\ Len(s) = n
<1>1. \A i \in 1..n : s[i] \in Range(s)
  BY DEF Range
<1>2. s \in [1..n -> Range(s)]
  BY <1>1
<1>3. s \in Seq(Range(s))
  BY <1>2
<1>4. DOMAIN s = 1..Len(s) /\ Len(s) \in Nat
  BY <1>3, LenProperties
<1>5. Len(s) = n
  BY <1>4
<1> QED BY <1>3, <1>5 DEF IsSeq

LEMMA SeqParts ==
  ASSUME NEW s, IsSeq(s)
  PROVE  Len(s) \in Nat /\ DOMAIN s = 1..Len(s) /\ s = [i \in 1..Len(s) |-> s[i]]
BY DEF IsSeq

\* What the program holds and the file contains is well formed at any time.
SerInv ==
  /\ listKnown \in BOOLEAN
  /\ IsSeq(file) /\ \A i \in DOMAIN file : IsDoc(file[i])
  /\ IsSeq(objs) /\ \A i \in DOMAIN objs : IsObject(objs[i])

\* What the documents, and the items of lists, are decoded to.
Parts(opts) ==
  [i \in DOMAIN file |-> extractNestedObjects(decode(file[i], None, opts), opts)]

\* The documents, and the items of lists that are taken apart.
Items(opts) ==
  [i \in DOMAIN file |->
     IF file[i].gvk = listGVK /\ opts.lists /\ ~opts.hub THEN file[i].items ELSE <<file[i]>>]

LEMMA ItemsAreDocs ==
  ASSUME NEW docs \in Seq(Documents)
  PROVE  /\ Len(docs) \in Nat /\ DOMAIN docs = 1..Len(docs)
         /\ \A j \in 1..Len(docs) : IsDoc(docs[j])
BY InputAssumption DEF IsDoc

\* A part of the results is what its item is decoded to; a list that cannot be
\* decoded, or is Unknown, has one part.
LEMMA PartOf ==
  ASSUME SerInv, NEW opts, NEW i \in DOMAIN file
  PROVE  LET a == Parts(opts)[i]
             b == Items(opts)[i]
             o == decode(file[i], None, opts)
         IN /\ IsSeq(a) /\ IsSeq(b) /\ \A j \in 1..Len(b) : IsDoc(b[j])
            /\ \A j \in 1..Len(a) : IsResult(a[j])
            /\ \/ Len(a) = 1 /\ a[1] = o
               \/ o.type = "List" /\ file[i].gvk = listGVK
            /\ \/ Len(a) = Len(b) /\ \A j \in 1..Len(b) : a[j] = decode(b[j], None, opts)
               \/ Failed(o) /\ Len(a) = 1 /\ a[1] = o
<1> DEFINE doc == file[i]
           o == decode(doc, None, opts)
           a == Parts(opts)[i]
           b == Items(opts)[i]
           each == [j \in DOMAIN o.items |-> decode(o.items[j], None, opts)]
<1>1. IsDoc(doc)
  BY DEF SerInv
<1>2. \/ IsError(o)
      \/ IsObject(o) /\ DecodedAs(doc, opts, o)
      \/ IsObject(o) /\ UnknownOf(doc, o) /\ opts.unknown /\ NotKnown(doc.gvk, opts)
  BY <1>1, DecodeParts
<1>3. a = IF Failed(o) \/ ~opts.lists \/ o.type # "List" THEN <<o>> ELSE each
  BY DEF Parts, extractNestedObjects
<1>4. b = IF doc.gvk = listGVK /\ opts.lists /\ ~opts.hub THEN doc.items ELSE <<doc>>
  BY DEF Items
<1>5. \A x : IsSeq(<<x>>) /\ Len(<<x>>) = 1 /\ <<x>>[1] = x
  BY DEF IsSeq, Range
<1> DEFINE Goal == /\ IsSeq(a) /\ IsSeq(b) /\ \A j \in 1..Len(b) : IsDoc(b[j])
                   /\ \A j \in 1..Len(a) : IsResult(a[j])
                   /\ \/ Len(a) = 1 /\ a[1] = o
                      \/ o.type = "List" /\ doc.gvk = listGVK
                   /\ \/ Len(a) = Len(b) /\ \A j \in 1..Len(b) : a[j] = decode(b[j], None, opts)
                      \/ Failed(o) /\ Len(a) = 1 /\ a[1] = o
<1> SUFFICES Goal
  OBVIOUS
<1>6. IsSeq(b) /\ \A j \in 1..Len(b) : IsDoc(b[j])
  <2>1. doc.items \in Seq(Documents)
    BY <1>1 DEF IsDoc
  <2>2. /\ Len(doc.items) \in Nat /\ doc.items = [j \in 1..Len(doc.items) |-> doc.items[j]]
        /\ \A j \in 1..Len(doc.items) : IsDoc(doc.items[j])
    BY <2>1, ItemsAreDocs
  <2>3. IsSeq(doc.items)
    BY <2>2, SeqBuilt
  <2> HIDE DEF b
  <2> QED BY <1>1, <1>4, <1>5, <2>2, <2>3
<1>7. \A j \in 1..Len(b) : IsResult(decode(b[j], None, opts))
  BY <1>6, DecodeParts DEF IsResult
<1>8. o = decode(doc, None, opts)
  OBVIOUS
<1> HIDE DEF a, b, o
<1>9. ~Failed(o) =>
        \/ o.type = "List" /\ doc.gvk = listGVK /\ o.items = doc.items /\ ~opts.hub
        \/ o.type # "List" /\ (doc.gvk = listGVK => NotKnown(doc.gvk, opts))
  BY <1>2, KindsAssumption DEF IsError, DecodedAs, UnknownOf
<1>10. opts.lists /\ doc.gvk = listGVK /\ NotKnown(doc.gvk, opts) => opts.hub
  BY DEF NotKnown, InScheme
<1>11. CASE (Failed(o) \/ ~opts.lists \/ o.type # "List") /\ a = <<o>>
  <2>1. IsSeq(a) /\ Len(a) = 1 /\ a[1] = o /\ \A j \in 1..Len(a) : IsResult(a[j])
    BY <1>2, <1>5, <1>11 DEF IsResult
  <2>2. CASE b = <<doc>>
    <3>1. Len(b) = 1 /\ b[1] = doc
      BY <1>5, <2>2
    <3>2. \A j \in 1..Len(b) : a[j] = decode(b[j], None, opts)
      BY <1>8, <2>1, <3>1
    <3> QED BY <1>6, <2>1, <3>1, <3>2
  <2>3. CASE doc.gvk = listGVK /\ opts.lists /\ ~opts.hub /\ (Failed(o) \/ o.type # "List")
    BY <1>6, <1>9, <1>10, <2>1, <2>3
  <2> QED BY <1>4, <1>11, <2>2, <2>3
<1>12. CASE ~Failed(o) /\ opts.lists /\ o.type = "List" /\ a = each
  <2>1. doc.gvk = listGVK /\ o.items = doc.items /\ b = doc.items
    BY <1>4, <1>9, <1>12
  <2>2. doc.items \in Seq(Documents)
    BY <1>1 DEF IsDoc
  <2> DEFINE n == Len(b)
  <2>3. n \in Nat /\ DOMAIN b = 1..n
    BY <2>1, <2>2
  <2>4. a = [j \in 1..n |-> decode(b[j], None, opts)]
    BY <1>12, <2>1, <2>3
  <2> HIDE DEF n
  <2>5. \A j \in 1..n : a[j] = decode(b[j], None, opts)
    BY <2>4
  <2>6. a = [j \in 1..n |-> a[j]]
    BY <2>4, <2>5
  <2>7. IsSeq(a) /\ Len(a) = n
    BY <2>3, <2>6, SeqBuilt
  <2> QED BY <1>6, <1>7, <1>12, <2>1, <2>5, <2>7 DEF n
<1> QED BY <1>3, <1>11, <1>12

AllOf(seqs) == UNION {Range(seqs[i]) : i \in DOMAIN seqs}

LEMMA SeqOfSeqs ==
  ASSUME NEW seqs, IsSeq(seqs), \A i \in DOMAIN seqs : IsSeq(seqs[i])
  PROVE  seqs \in Seq(Seq(AllOf(seqs)))
<1>1. Len(seqs) \in Nat /\ DOMAIN seqs = 1..Len(seqs) /\ seqs = [i \in 1..Len(seqs) |-> seqs[i]]
  BY SeqParts
<1>2. ASSUME NEW i \in 1..Len(seqs) PROVE seqs[i] \in Seq(AllOf(seqs))
  <2> DEFINE s == seqs[i]
  <2>1. s \in Seq(Range(s)) /\ Range(s) \subseteq AllOf(seqs)
    BY <1>1, <1>2 DEF IsSeq, AllOf
  <2> HIDE DEF s
  <2>2. s \in Seq(AllOf(seqs))
    BY <2>1
  <2> QED BY <2>2 DEF s
<1> DEFINE T == Seq(AllOf(seqs))
<1> HIDE DEF T
<1>3. \A i \in 1..Len(seqs) : seqs[i] \in T
  BY <1>2 DEF T
<1>4. seqs \in Seq(T)
  BY <1>1, <1>3
<1> QED BY <1>4 DEF T

LEMMA PartsSeqs ==
  ASSUME SerInv, NEW opts
  PROVE  /\ IsSeq(Parts(opts)) /\ Len(Parts(opts)) = Len(file) /\ DOMAIN Parts(opts) = DOMAIN file
         /\ IsSeq(Items(opts)) /\ Len(Items(opts)) = Len(file) /\ DOMAIN Items(opts) = DOMAIN file
         /\ Len(file) \in Nat /\ DOMAIN file = 1..Len(file)
         /\ Parts(opts) \in Seq(Seq(AllOf(Parts(opts))))
         /\ Items(opts) \in Seq(Seq(AllOf(Items(opts))))
<1> DEFINE n == Len(file)
           a == Parts(opts)
           b == Items(opts)
<1>1. n \in Nat /\ DOMAIN file = 1..n
  BY SeqParts DEF SerInv
<1>2. DOMAIN a = 1..n /\ a = [i \in 1..n |-> a[i]]
  BY <1>1 DEF Parts
<1>3. DOMAIN b = 1..n /\ b = [i \in 1..n |-> b[i]]
  BY <1>1 DEF Items
<1>4. \A i \in 1..n : IsSeq(a[i]) /\ IsSeq(b[i])
  BY <1>1, PartOf
<1> HIDE DEF a, b, n
<1>5. IsSeq(a) /\ Len(a) = n /\ IsSeq(b) /\ Len(b) = n
  BY <1>1, <1>2, <1>3, SeqBuilt
<1>6. a \in Seq(Seq(AllOf(a))) /\ b \in Seq(Seq(AllOf(b)))
  BY <1>2, <1>3, <1>4, <1>5, SeqOfSeqs
<1> QED BY <1>1, <1>2, <1>3, <1>5, <1>6 DEF a, b, n

LEMMA EachPart ==
  ASSUME SerInv, NEW opts, NEW i \in DOMAIN file
  PROVE  LET a == Parts(opts) IN
           /\ Len(a[i]) \in Nat /\ \A j \in 1..Len(a[i]) : IsResult(a[i][j])
           /\ file[i].gvk # listGVK => Len(a[i]) = 1 /\ a[i][1] = decode(file[i], None, opts)
<1>1. Len(Parts(opts)[i]) \in Nat
  BY PartOf, SeqParts
<1> QED BY <1>1, PartOf

\* The results of DecodeAll, before the first failure is looked for.
LEMMA DecodeEachParts ==
  ASSUME SerInv, NEW opts
  PROVE  LET r == DecodeEach(opts) IN
           /\ IsSeq(r) /\ \A k \in DOMAIN r : IsResult(r[k])
           /\ \A i \in DOMAIN file : \A j \in 1..Len(Parts(opts)[i]) :
                \E k \in DOMAIN r : r[k] = Parts(opts)[i][j]
           /\ (\A i \in DOMAIN file : file[i].gvk # listGVK) =>
                /\ DOMAIN r = DOMAIN file
                /\ \A i \in DOMAIN file : r[i] = decode(file[i], None, opts)
<1> DEFINE a == Parts(opts)
           r == DecodeEach(opts)
           S == AllOf(a)
           n == Len(file)
<1>1. /\ a \in Seq(Seq(S)) /\ Len(a) = n /\ n \in Nat /\ DOMAIN file = 1..n
  BY PartsSeqs
<1>2. r = FlattenSeq(a)
  BY DEF DecodeEach, Parts
<1>3. \A i \in 1..n : /\ Len(a[i]) \in Nat /\ \A j \in 1..Len(a[i]) : IsResult(a[i][j])
                      /\ file[i].gvk # listGVK => Len(a[i]) = 1 /\ a[i][1] = decode(file[i], None, opts)
  BY <1>1, EachPart
<1> HIDE DEF a, r, S, n
<1>4. SameShape(a, a)
  BY DEF SameShape
<1>5. r \in Seq(S) /\ FlatUpTo(r, r, a, a, n)
  BY <1>1, <1>2, <1>4, FlattenSame
<1>6. Len(r) \in Nat /\ DOMAIN r = 1..Len(r) /\ IsSeq(r)
  BY <1>5 DEF IsSeq, Range
<1>7. \A k \in 1..Len(r) : IsResult(r[k])
  BY <1>3, <1>5 DEF FlatUpTo
<1>8. \A i \in 1..n : \A j \in 1..Len(a[i]) : \E k \in 1..Len(r) : r[k] = a[i][j]
  BY <1>5 DEF FlatUpTo
<1>9. (\A i \in 1..n : file[i].gvk # listGVK) =>
        Len(r) = n /\ \A i \in 1..n : r[i] = decode(file[i], None, opts)
  BY <1>3, <1>5 DEF FlatUpTo
<1> QED BY <1>1, <1>6, <1>7, <1>8, <1>9 DEF a, r, n

\* Where nothing fails the results are those of the documents and of the items of
\* lists, in their places.
LEMMA ItemByItem ==
  ASSUME SerInv, NEW opts, \A k \in DOMAIN DecodeEach(opts) : ~Failed(DecodeEach(opts)[k])
  PROVE  LET docs == Flat(file, opts)
             r == DecodeEach(opts)
         IN /\ Len(r) = Len(docs) /\ DOMAIN docs = 1..Len(docs) /\ DOMAIN r = 1..Len(docs)
            /\ \A k \in DOMAIN docs : IsDoc(docs[k]) /\ r[k] = decode(docs[k], None, opts)
<1> DEFINE a == Parts(opts)
           b == Items(opts)
           r == DecodeEach(opts)
           docs == Flat(file, opts)
           S == AllOf(a)
           T == AllOf(b)
           n == Len(file)
<1>1. /\ a \in Seq(Seq(S)) /\ Len(a) = n /\ n \in Nat /\ DOMAIN file = 1..n
      /\ b \in Seq(Seq(T)) /\ Len(b) = n
  BY PartsSeqs
<1>2. r = FlattenSeq(a) /\ docs = FlattenSeq(b)
  BY DEF DecodeEach, Parts, Flat, Items
<1>3. ASSUME NEW i \in 1..n
      PROVE  /\ Len(a[i]) = Len(b[i]) /\ \A j \in 1..Len(b[i]) : IsDoc(b[i][j])
             /\ \A j \in 1..Len(b[i]) : a[i][j] = decode(b[i][j], None, opts)
  <2> DEFINE o == decode(file[i], None, opts)
  <2>1. /\ \A j \in 1..Len(b[i]) : IsDoc(b[i][j])
        /\ \/ Len(a[i]) = Len(b[i]) /\ \A j \in 1..Len(b[i]) : a[i][j] = decode(b[i][j], None, opts)
           \/ Failed(o) /\ Len(a[i]) = 1 /\ a[i][1] = o
    BY <1>1, PartOf
  <2> HIDE DEF o
  <2>2. ~(Failed(o) /\ Len(a[i]) = 1 /\ a[i][1] = o)
    <3>1. SUFFICES ASSUME Failed(o), Len(a[i]) = 1, a[i][1] = o PROVE FALSE
      OBVIOUS
    <3>2. \A x \in DOMAIN file : \A j \in 1..Len(a[x]) : \E k \in DOMAIN r : r[k] = a[x][j]
      BY DecodeEachParts
    <3> HIDE DEF a, r, n
    <3>3. i \in DOMAIN file /\ 1 \in 1..Len(a[i])
      BY <1>1, <3>1
    <3>4. \E k \in DOMAIN r : r[k] = a[i][1]
      BY <3>2, <3>3, Zenon
    <3> QED BY <3>1, <3>4 DEF r
  <2> QED BY <1>1, <2>1, <2>2
<1> HIDE DEF a, b, r, docs, S, T, n
<1>4. SameShape(a, b)
  BY <1>1, <1>3 DEF SameShape
<1>5. r \in Seq(S) /\ docs \in Seq(T) /\ FlatUpTo(r, docs, a, b, n)
  BY <1>1, <1>2, <1>4, FlattenSame
<1>6. Len(r) = Len(docs) /\ DOMAIN docs = 1..Len(docs) /\ DOMAIN r = 1..Len(docs)
  BY <1>5 DEF FlatUpTo
<1>7. ASSUME NEW k \in 1..Len(docs) PROVE IsDoc(docs[k]) /\ r[k] = decode(docs[k], None, opts)
  <2>1. PICK i \in 1..n : \E j \in 1..Len(a[i]) : r[k] = a[i][j] /\ docs[k] = b[i][j]
    BY <1>5, <1>6, <1>7 DEF FlatUpTo
  <2>2. PICK j \in 1..Len(a[i]) : r[k] = a[i][j] /\ docs[k] = b[i][j]
    BY <2>1
  <2>3. j \in 1..Len(b[i])
    BY <1>3, <2>2
  <2> QED BY <1>3, <2>2, <2>3
<1> QED BY <1>6, <1>7 DEF r, docs

-----------------------------------------------------------------------------
(***************************************************************************)
(* Encoding.                                                               *)
(***************************************************************************)
LEMMA DocumentParts ==
  ASSUME NEW o, IsObject(o), IsGVK(o.meta)
  PROVE  LET d == Document(o) IN
           IsDoc(d) /\ ~Failed(d) /\ d.gvk = o.meta /\ Authored(d) = Authored(o)
<1> DEFINE d == Document(o)
<1>1. DOMAIN d = {"gvk", "data", "items"} /\ d.gvk = o.meta /\ d.data = o.data /\ d.items = o.items
  BY DEF Document
<1> HIDE DEF d
<1>2. IsDoc(d) /\ ~Failed(d) /\ Authored(d) = Authored(o)
  BY <1>1 DEF IsDoc, Failed, Authored, IsObject, IsDocument
<1> QED BY <1>1, <1>2 DEF d

\* The document of an object in the group and version gv.
Written(o, gv, d) ==
  /\ IsDoc(d) /\ ~Failed(d)
  /\ o.type \in Types =>
       /\ Authored(d) = Authored(o) \cap TypeFields(d.gvk)
       /\ \E k \in KindsOf(o.type) : d.gvk = GVK(gv.group, gv.version, k.kind)

LEMMA VersionedParts ==
  ASSUME NEW o, IsObject(o), o.type # "Unknown",
         NEW gv, gv.version # Internal, o.type \in Types => gv.group # None
  PROVE  LET r == ConvertToVersion(o, gv) IN
           \/ IsError(r)
           \/ /\ IsObject(r) /\ IsGVK(r.meta)
              /\ o.type \in Types =>
                   /\ Authored(r) = Authored(o) \cap TypeFields(r.meta)
                   /\ \E k \in KindsOf(o.type) : r.meta = GVK(gv.group, gv.version, k.kind)
<1> DEFINE r == ConvertToVersion(o, gv)
<1>1. /\ IsError(Err("invalidArgs")) /\ IsError(Err("notRegistered"))
      /\ IsError(Err("panic"))
  BY DEF IsError, Err, Failed, Causes
<1>2. gv # InternalGroupVersioner
  BY DEF InternalGroupVersioner
<1>3. CASE o.type \in Hubs \cup Spokes
  <2>1. o.type \in Types
    BY <1>3, KindsAssumption
  <2>2. r \in {Err("invalidArgs"), ToGroupVersion(o, gv)}
    BY <1>2, <1>3 DEF ConvertToVersion
  <2> HIDE DEF r
  <2>3. \/ IsError(r)
        \/ /\ IsObject(r) /\ r.type \in Types /\ DataKept(o, r) /\ r.meta \in KindsOf(r.type)
           /\ \E k \in KindsOf(o.type) : r.meta = GVK(gv.group, gv.version, k.kind)
    BY <1>1, <1>3, <2>2, ToGroupVersionParts
  <2>4. ASSUME IsObject(r), r.type \in Types, DataKept(o, r), r.meta \in KindsOf(r.type)
        PROVE  IsGVK(r.meta) /\ Authored(r) = Authored(o) \cap TypeFields(r.meta)
    <3>1. r.meta \in Registered /\ TypeFields(r.meta) = Fields[r.type]
      BY <2>4, TypeOfKind
    <3> QED BY <2>1, <2>4, <3>1, RegisteredParts, DataKeptAuthored
  <2> QED BY <2>3, <2>4 DEF r
<1>4. CASE o.type \notin Hubs \cup Spokes
  <2>1. r = SchemeConvertToVersion(o, gv)
    BY <1>4 DEF ConvertToVersion
  <2> HIDE DEF r
  <2>2. CASE gv = None
    BY <1>1, <2>1, <2>2 DEF SchemeConvertToVersion, r
  <2>3. CASE gv # None
    <3>1. \/ IsError(r)
          \/ /\ IsObject(r) /\ (o.type \in Types => r.type \in Types) /\ DataKept(o, r)
             /\ o.type = "List" => r.type = "List" /\ r.items = o.items
             /\ \E k \in KindsOf(o.type) :
                  LET g == GVK(k.group, gv.version, k.kind) IN
                  /\ g \in KindsOf(r.type) /\ gv.group \in {None, k.group}
                  /\ r.meta = IF g.version = Internal THEN None ELSE g
      BY <2>1, <2>3, SchemeConvertToVersionParts
    <3>2. ASSUME IsObject(r), o.type \in Types => r.type \in Types, DataKept(o, r),
                 o.type = "List" => r.type = "List",
                 NEW k \in KindsOf(o.type), NEW g, g = GVK(k.group, gv.version, k.kind),
                 g \in KindsOf(r.type), gv.group \in {None, k.group},
                 r.meta = IF g.version = Internal THEN None ELSE g
          PROVE  /\ IsGVK(r.meta)
                 /\ o.type \in Types =>
                      /\ Authored(r) = Authored(o) \cap TypeFields(r.meta)
                      /\ r.meta = GVK(gv.group, gv.version, k.kind)
      <4>1. g.version = gv.version /\ r.meta = g /\ IsGVK(g)
        BY <3>2, GVKParts
      <4>2. ASSUME o.type \in Types
            PROVE  /\ Authored(r) = Authored(o) \cap TypeFields(r.meta)
                   /\ r.meta = GVK(gv.group, gv.version, k.kind)
        <5>1. TypeFields(g) = Fields[r.type]
          BY <3>2, <4>2, TypeOfKind
        <5>2. Authored(r) = Authored(o) \cap Fields[r.type]
          BY <3>2, <4>2, DataKeptAuthored
        <5>3. k.group = gv.group
          BY <3>2, <4>2
        <5> QED BY <3>2, <4>1, <5>1, <5>2, <5>3
      <4> QED BY <4>1, <4>2
    <3> QED BY <3>1, <3>2 DEF r
  <2> QED BY <2>2, <2>3
<1> QED BY <1>3, <1>4

LEMMA WrittenParts ==
  ASSUME NEW o, IsObject(o), NEW gv, gv.version # Internal, o.type \in Types => gv.group # None
  PROVE  LET d == EncodeForGroupVersion(o, gv) IN IsError(d) \/ Written(o, gv, d)
<1> DEFINE out == ConvertToVersion(o, gv)
           d == EncodeForGroupVersion(o, gv)
<1>1. CASE o.type = "Unknown"
  <2>1. d = Document(o)
    BY <1>1 DEF EncodeForGroupVersion
  <2> HIDE DEF d
  <2>2. IsDoc(d) /\ ~Failed(d)
    BY <1>1, <2>1, DocumentParts DEF IsObject
  <2> QED BY <1>1, <2>2, KindsAssumption DEF Written, d
<1>2. CASE o.type # "Unknown"
  <2>1. d = IF Failed(out) THEN out ELSE Document(out)
    BY <1>2 DEF EncodeForGroupVersion
  <2>2. \/ IsError(out)
        \/ /\ IsObject(out) /\ IsGVK(out.meta)
           /\ o.type \in Types =>
                /\ Authored(out) = Authored(o) \cap TypeFields(out.meta)
                /\ \E k \in KindsOf(o.type) : out.meta = GVK(gv.group, gv.version, k.kind)
    BY <1>2, VersionedParts
  <2> HIDE DEF out, d
  <2>3. CASE IsError(out)
    BY <2>1, <2>3 DEF IsError, d
  <2>4. CASE /\ IsObject(out) /\ IsGVK(out.meta)
             /\ o.type \in Types =>
                  /\ Authored(out) = Authored(o) \cap TypeFields(out.meta)
                  /\ \E k \in KindsOf(o.type) : out.meta = GVK(gv.group, gv.version, k.kind)
    <3>1. d = Document(out)
      BY <2>1, <2>4, RecordNotFailed DEF IsObject
    <3>2. IsDoc(d) /\ ~Failed(d) /\ d.gvk = out.meta /\ Authored(d) = Authored(out)
      BY <2>4, <3>1, DocumentParts
    <3> QED BY <2>4, <3>2 DEF Written, d
  <2> QED BY <2>2, <2>3, <2>4
<1> QED BY <1>1, <1>2

\* An object is written in its own version, or the preferred one of its group.
LEMMA EncodeOneParts ==
  ASSUME NEW o, IsObject(o)
  PROVE  LET d == EncodeOne(o) IN
           \/ IsError(d)
           \/ /\ IsDoc(d) /\ ~Failed(d)
              /\ o.type \in Types =>
                   /\ Authored(d) = Authored(o) \cap TypeFields(d.gvk)
                   /\ IF IsExternal(o.type) THEN d.gvk \in KindsOf(o.type)
                      ELSE d.gvk.version = Preferred[d.gvk.group]
<1> DEFINE k == GVKForObject(o)
           gv == GVK(k.group, EncodeVersion(k), "")
           d == EncodeOne(o)
<1>1. \/ k = Err("kinds")
      \/ IsGVK(k) /\ (o.meta # None => k = o.meta) /\ (o.type # "Unknown" => k \in KindsOf(o.type))
  BY GVKForObjectParts
<1>2. IsError(Err("kinds")) /\ IsError(Err("noVersion"))
  BY DEF IsError, Err, Failed, Causes
<1>3. d = IF Failed(k) THEN k
          ELSE IF k.version = Internal /\ NoVersion(k.group) THEN Err("noVersion")
          ELSE EncodeForGroupVersion(o, gv)
  BY DEF EncodeOne
<1>4. gv.group = k.group /\ gv.version = EncodeVersion(k)
  <2>1. \A kind : LET g == GVK(k.group, EncodeVersion(k), kind) IN
                    g.group = k.group /\ g.version = EncodeVersion(k)
    BY GVKParts
  <2> QED BY <2>1, Zenon
<1> HIDE DEF k, gv, d
<1>5. CASE k = Err("kinds")
  BY <1>2, <1>3, <1>5 DEF IsError, d
<1>6. CASE IsGVK(k) /\ k.version = Internal /\ NoVersion(k.group)
  BY <1>2, <1>3, <1>6, GVKNotFailed DEF d
<1>7. CASE /\ IsGVK(k) /\ (o.type # "Unknown" => k \in KindsOf(o.type))
           /\ k.version = Internal => ~NoVersion(k.group)
  <2>1. d = EncodeForGroupVersion(o, gv)
    BY <1>3, <1>7, GVKNotFailed
  <2>2. CASE o.type = "Unknown"
    <3>1. d = Document(o)
      BY <2>1, <2>2 DEF EncodeForGroupVersion
    <3>2. IsDoc(d) /\ ~Failed(d)
      BY <2>2, <3>1, DocumentParts DEF IsObject
    <3> QED BY <2>2, <3>2, KindsAssumption DEF d
  <2>3. CASE o.type = "List"
    <3>1. k = listGVK
      BY <1>7, <2>3, KindsOfOthers
    <3>2. gv.version # Internal
      BY <1>4, <3>1, ListGVK DEF EncodeVersion
    <3>3. IsError(d) \/ Written(o, gv, d)
      BY <2>1, <2>3, <3>2, KindsAssumption, WrittenParts
    <3> QED BY <2>3, <3>3, KindsAssumption DEF Written, d
  <2>4. CASE o.type \in Types
    <3>1. k \in KindsOf(o.type) /\ k \in Registered
      BY <1>7, <2>4, KindsOfType, KindsAssumption
    <3>2. k.group # None /\ IsGVK(k) /\ (k.version = Internal => Preferred[k.group] # Internal)
      BY <1>7, <3>1, RegisteredParts
    <3>3. gv.version # Internal
      BY <1>4, <3>2 DEF EncodeVersion
    <3>4. IsError(d) \/ Written(o, gv, d)
      BY <1>4, <2>1, <3>2, <3>3, WrittenParts
    <3>5. ASSUME Written(o, gv, d)
          PROVE  IF IsExternal(o.type) THEN d.gvk \in KindsOf(o.type)
                 ELSE d.gvk.version = Preferred[d.gvk.group]
      <4>1. PICK l \in KindsOf(o.type) : d.gvk = GVK(gv.group, gv.version, l.kind)
        BY <2>4, <3>5 DEF Written
      <4>2. /\ d.gvk.group = k.group /\ d.gvk.version = EncodeVersion(k) /\ d.gvk.kind = l.kind
            /\ IsGVK(d.gvk)
        BY <1>4, <4>1, GVKParts
      <4>3. SameKind(l, k)
        BY <2>4, <3>1, <4>1, KindsOfType
      <4>4. CASE IsExternal(o.type)
        <5>1. k.version # Internal
          BY <2>4, <3>1, <4>4, KindsOfType DEF IsExternal
        <5>2. d.gvk = k
          BY <3>2, <4>2, <4>3, <5>1, SameGVK DEF EncodeVersion, SameKind
        <5> QED BY <3>1, <4>4, <5>2
      <4>5. CASE ~IsExternal(o.type)
        <5>1. k.version = Internal
          BY <2>4, <3>1, <4>5, KindsOfType DEF IsExternal
        <5> QED BY <4>2, <4>5, <5>1 DEF EncodeVersion
      <4> QED BY <4>4, <4>5
    <3> QED BY <2>4, <3>4, <3>5 DEF Written, d
  <2> QED BY <2>2, <2>3, <2>4 DEF IsObject
<1> QED BY <1>1, <1>5, <1>6, <1>7

-----------------------------------------------------------------------------
(***************************************************************************)
(* The steps.                                                              *)
(***************************************************************************)
\* The documents before the first failure.
LEMMA WritesParts ==
  ASSUME NEW docs, IsSeq(docs), Writes(docs),
         \A i \in DOMAIN docs : IsError(docs[i]) \/ (IsDoc(docs[i]) /\ ~Failed(docs[i]))
  PROVE  /\ IsSeq(file') /\ \A i \in DOMAIN file' : IsDoc(file'[i])
         /\ UNCHANGED <<listKnown, objs>>
         /\ error' = None => file' = docs /\ \A i \in DOMAIN docs : ~Failed(docs[i])
<1> DEFINE failing == {i \in DOMAIN docs : Failed(docs[i])}
           first == CHOOSE i \in failing : \A j \in failing : i <= j
           n == Len(docs)
<1>1. /\ file' = IF failing = {} THEN docs ELSE SubSeq(docs, 1, first - 1)
      /\ error' = IF failing = {} THEN None ELSE docs[first].error
      /\ UNCHANGED <<listKnown, objs>>
  BY DEF Writes
<1>2. n \in Nat /\ DOMAIN docs = 1..n /\ docs \in Seq(Range(docs))
  BY SeqParts DEF IsSeq
<1>3. CASE failing = {}
  <2>1. \A i \in DOMAIN docs : ~Failed(docs[i])
    BY <1>3
  <2> HIDE DEF failing, first
  <2>2. file' = docs /\ UNCHANGED <<listKnown, objs>>
    BY <1>1, <1>3
  <2>3. \A i \in DOMAIN docs : IsDoc(docs[i])
    BY <2>1 DEF IsError
  <2> QED BY <2>1, <2>2, <2>3
<1>4. CASE failing # {}
  <2>1. failing \in SUBSET Nat
    BY <1>2
  <2>2. \E i \in failing : \A j \in failing : i <= j
    BY <1>4, <2>1, LeastNatural
  <2>3. first \in failing /\ \A j \in failing : first <= j
    BY <2>2
  <2> HIDE DEF first
  <2>4. first \in 1..n /\ Failed(docs[first])
    BY <1>2, <2>3
  <2>5. error' \in Causes
    <3>1. IsError(docs[first])
      BY <1>2, <2>4
    <3> QED BY <1>1, <1>4, <3>1 DEF IsError
  <2> DEFINE m == first - 1
             s == SubSeq(docs, 1, m)
  <2>6. m \in 0..n /\ m \in Int
    BY <1>2, <2>4
  <2> HIDE DEF m, n
  <2>7. s = [i \in 1..m |-> docs[i]]
    <3>1. n \in Nat
      BY <1>2
    <3> QED BY <1>2, <2>6, <3>1 DEF n
  <2> HIDE DEF s
  <2>8. DOMAIN s = 1..m /\ \A i \in 1..m : s[i] = docs[i]
    BY <2>7
  <2>9. s = [i \in 1..m |-> s[i]] /\ m \in Nat
    BY <2>6, <2>7, <2>8, <1>2
  <2>10. IsSeq(s)
    BY <2>9, SeqBuilt
  <2>11. ASSUME NEW i \in 1..m PROVE IsDoc(docs[i])
    <3>1. i \in 1..n /\ i < first
      BY <1>2, <2>4, <2>6 DEF m
    <3>2. ~Failed(docs[i])
      BY <1>2, <2>3, <2>4, <3>1
    <3> QED BY <1>2, <3>1, <3>2 DEF IsError
  <2>12. error' # None
    BY <2>5, NoneAssumption
  <2>13. file' = s
    BY <1>1, <1>4 DEF s, m
  <2> QED BY <1>1, <2>8, <2>10, <2>11, <2>12, <2>13
<1> QED BY <1>3, <1>4

LEMMA ReturnsParts ==
  ASSUME SerInv, NEW r, IsResult(r), Returns(r)
  PROVE  IsSeq(objs') /\ \A i \in DOMAIN objs' : IsObject(objs'[i])
<1>1. CASE Failed(r)
  BY <1>1 DEF SerInv, Returns
<1>2. CASE ~Failed(r)
  <2>1. objs' = <<r>> /\ IsObject(r)
    BY <1>2 DEF Returns, IsResult, IsError
  <2> QED BY <2>1 DEF IsSeq, Range
<1> QED BY <1>1, <1>2

LEMMA ReturnsAllParts ==
  ASSUME NEW results, IsSeq(results), \A k \in DOMAIN results : IsResult(results[k]),
         ReturnsAll(results)
  PROVE  /\ IsSeq(objs') /\ \A i \in DOMAIN objs' : IsObject(objs'[i])
         /\ \/ error' # None /\ objs' = <<>>
            \/ error' = None /\ objs' = results /\ \A k \in DOMAIN results : ~Failed(results[k])
<1> DEFINE failing == {i \in DOMAIN results : Failed(results[i])}
           first == CHOOSE i \in failing : \A j \in failing : i <= j
<1>1. \/ failing = {} /\ objs' = results /\ error' = None
      \/ failing # {} /\ objs' = <<>> /\ error' = results[first].error
  BY DEF ReturnsAll
<1>2. CASE failing = {} /\ objs' = results /\ error' = None
  BY <1>2 DEF IsResult, IsError
<1>3. CASE failing # {} /\ objs' = <<>> /\ error' = results[first].error
  <2>1. failing \in SUBSET Nat
    BY SeqParts
  <2>2. \E i \in failing : \A j \in failing : i <= j
    BY <1>3, <2>1, LeastNatural
  <2>3. first \in failing
    BY <2>2
  <2> HIDE DEF first
  <2>4. IsError(results[first])
    BY <2>3, RecordNotFailed DEF IsResult, IsObject
  <2>5. error' # None
    BY <1>3, <2>4, NoneAssumption DEF IsError
  <2>6. IsSeq(<<>>) /\ DOMAIN <<>> = {}
    BY DEF IsSeq
  <2> QED BY <1>3, <2>5, <2>6
<1> QED BY <1>1, <1>2, <1>3

LEMMA SerInit == Init => SerInv
<1> SUFFICES ASSUME Init PROVE SerInv
  OBVIOUS
<1>1. file \in Seq(Documents) /\ objs = <<>> /\ listKnown = FALSE
  BY InputAssumption DEF Init
<1>2. DOMAIN file = 1..Len(file) /\ \A i \in DOMAIN file : IsDoc(file[i])
  BY <1>1, ItemsAreDocs
<1>3. IsSeq(file)
  <2>1. Len(file) \in Nat /\ file = [i \in 1..Len(file) |-> file[i]]
    BY <1>1
  <2> QED BY <2>1, SeqBuilt
<1>4. IsSeq(<<>>) /\ DOMAIN <<>> = {}
  BY DEF IsSeq
<1> QED BY <1>1, <1>2, <1>3, <1>4 DEF SerInv

\* Decoding leaves the file; it may register v1.List.
LEMMA DecodeAllStep ==
  ASSUME SerInv, NEW opts, DecodeAll(opts)
  PROVE  LET r == DecodeEach(opts) IN
           /\ SerInv' /\ call' = <<"DecodeAll", opts>> /\ file' = file
           /\ \/ error' # None /\ objs' = <<>>
              \/ error' = None /\ objs' = r /\ \A k \in DOMAIN r : ~Failed(r[k])
<1> DEFINE r == DecodeEach(opts)
<1>1. IsSeq(r) /\ \A k \in DOMAIN r : IsResult(r[k])
  BY DecodeEachParts
<1>2. /\ ReturnsAll(r) /\ call' = <<"DecodeAll", opts>> /\ file' = file
      /\ listKnown' = (listKnown \/ (opts.lists /\ file # <<>>))
  BY DEF DecodeAll, RegisterList
<1> HIDE DEF r
<1>3. /\ IsSeq(objs') /\ \A i \in DOMAIN objs' : IsObject(objs'[i])
      /\ \/ error' # None /\ objs' = <<>>
         \/ error' = None /\ objs' = r /\ \A k \in DOMAIN r : ~Failed(r[k])
  BY <1>1, <1>2, ReturnsAllParts
<1>4. listKnown' \in BOOLEAN
  BY <1>2, Zenon
<1>5. SerInv'
  BY <1>2, <1>3, <1>4 DEF SerInv
<1> QED BY <1>2, <1>3, <1>5 DEF r

LEMMA DecodeIntoStep ==
  ASSUME SerInv, NEW opts, NEW gvk \in Registered \cup {None}, file # <<>>, DecodeInto(gvk, opts)
  PROVE  SerInv' /\ call' = <<"DecodeInto">>
<1> DEFINE r == IF gvk = None THEN decodeUnknown(file[1]) ELSE decode(file[1], New(gvk), opts)
<1>1. IsDoc(file[1])
  <2>1. Len(file) \in Nat /\ DOMAIN file = 1..Len(file) /\ file = [i \in 1..Len(file) |-> file[i]]
    BY SeqParts DEF SerInv
  <2>2. Len(file) # 0
    <3>1. SUFFICES ASSUME Len(file) = 0 PROVE FALSE
      OBVIOUS
    <3>2. file \in Seq(Range(file))
      BY DEF SerInv, IsSeq
    <3> QED BY <3>1, <3>2, EmptySeq
  <2>3. 1 \in DOMAIN file
    BY <2>1, <2>2
  <2> QED BY <2>3 DEF SerInv
<1>2. IsResult(r)
  <2>1. CASE gvk = None
    BY <1>1, <2>1, UnknownParts DEF IsResult
  <2>2. CASE gvk # None
    <3> DEFINE n == New(gvk)
    <3>1. IsObject(n) /\ n.type \in Types /\ n.meta = None
      BY <2>2, NewParts
    <3> HIDE DEF n
    <3>2. IsResult(decode(file[1], n, opts))
      BY <1>1, <3>1, DecodeIntoParts
    <3> QED BY <2>2, <3>2 DEF n
  <2> QED BY <2>1, <2>2
<1>3. /\ Returns(r) /\ call' = <<"DecodeInto">> /\ file' = file
      /\ listKnown' = (listKnown \/ (opts.lists /\ file # <<>>))
  BY DEF DecodeInto, RegisterList
<1> HIDE DEF r
<1>4. IsSeq(objs') /\ \A i \in DOMAIN objs' : IsObject(objs'[i])
  BY <1>2, <1>3, ReturnsParts
<1>5. listKnown' \in BOOLEAN
  BY <1>3, Zenon
<1> QED BY <1>3, <1>4, <1>5 DEF SerInv

\* A call that gives an object, or an error, and leaves the file and the scheme.
LEMMA ResultStep ==
  ASSUME SerInv, NEW r, IsResult(r), Returns(r), UNCHANGED <<listKnown, file>>
  PROVE  SerInv'
  BY ReturnsParts DEF SerInv

LEMMA ConvertStep ==
  ASSUME SerInv, NEW i \in DOMAIN objs, NEW gvk, ConvertIntoNew(i, gvk)
  PROVE  SerInv' /\ call' = <<"ConvertIntoNew">>
<1> DEFINE r == IF gvk \in Registered THEN Convert(objs[i], New(gvk)) ELSE Err("notRegistered")
<1>1. IsResult(r)
  <2>1. CASE gvk \in Registered
    <3> DEFINE n == New(gvk)
    <3>1. IsObject(n) /\ n.type \in Types /\ n.meta = None /\ IsObject(objs[i])
      BY <2>1, NewParts DEF SerInv
    <3> HIDE DEF n
    <3>2. IsResult(Convert(objs[i], n))
      BY <3>1, ConvertParts DEF IsResult
    <3> QED BY <2>1, <3>2 DEF n
  <2>2. CASE gvk \notin Registered
    BY <2>2 DEF IsResult, IsError, Err, Failed, Causes
  <2> QED BY <2>1, <2>2
<1>2. Returns(r) /\ call' = <<"ConvertIntoNew">> /\ UNCHANGED <<listKnown, file>>
  BY DEF ConvertIntoNew
<1> HIDE DEF r
<1> QED BY <1>1, <1>2, ResultStep

LEMMA ConvertToHubStep ==
  ASSUME SerInv, NEW i \in DOMAIN objs, ConvertToHub(i)
  PROVE  SerInv' /\ call' = <<"ConvertToHub">>
<1> DEFINE o == objs[i]
           r == ConvertToVersion(o, None)
<1>1. IsObject(o)
  BY DEF SerInv
<1>2. Returns(r) /\ call' = <<"ConvertToHub">> /\ UNCHANGED <<listKnown, file>>
  BY DEF ConvertToHub
<1>3. IsError(Err("notRegistered")) /\ IsError(Err("panic")) /\ IsError(Err("invalidArgs"))
  BY DEF IsError, Err, Failed, Causes
<1> HIDE DEF o
\* No version is asked for, which every way of converting refuses.
<1>4. r \in {Err("invalidArgs"), Err("notRegistered"), Err("panic"), ToGroupVersion(o, None)}
  BY NoneAssumption DEF ConvertToVersion, SchemeConvertToVersion
<1>5. ToGroupVersion(o, None) = Err("groupVersioner")
  BY DEF ToGroupVersion
<1>6. IsError(Err("groupVersioner"))
  BY DEF IsError, Err, Failed, Causes
<1> HIDE DEF r
<1>7. IsResult(r)
  BY <1>3, <1>4, <1>5, <1>6 DEF IsResult
<1> QED BY <1>2, <1>7, ResultStep

LEMMA NewDefaultedStep ==
  ASSUME SerInv, NEW gvk \in Registered, NewDefaultedObject(gvk)
  PROVE  SerInv' /\ call' = <<"NewDefaultedObject">>
<1> DEFINE n == New(gvk)
           r == runDefaulting(n)
<1>1. IsObject(n)
  BY NewParts
<1>2. Returns(r) /\ call' = <<"NewDefaultedObject">> /\ UNCHANGED <<listKnown, file>>
  BY DEF NewDefaultedObject
<1> HIDE DEF n
<1>3. IsResult(r)
  BY <1>1, runDefaultingParts DEF IsResult
<1> HIDE DEF r
<1> QED BY <1>2, <1>3, ResultStep

LEMMA DefaultStep ==
  ASSUME SerInv, DefaultAll
  PROVE  /\ SerInv' /\ call' = <<"Default">>
         /\ \A i \in DOMAIN objs : Authored(objs'[i]) = Authored(objs[i])
<1> DEFINE n == Len(objs)
           results == [i \in DOMAIN objs |-> runDefaulting(objs[i])]
<1>1. n \in Nat /\ DOMAIN objs = 1..n /\ \A i \in 1..n : IsObject(objs[i])
  BY SeqParts DEF SerInv
<1>2. /\ objs' = [i \in 1..n |-> IF Failed(results[i]) THEN objs[i] ELSE results[i]]
      /\ call' = <<"Default">> /\ UNCHANGED <<listKnown, file>>
  BY <1>1 DEF DefaultAll
<1>3. ASSUME NEW i \in 1..n
      PROVE  \/ Failed(results[i])
             \/ IsObject(results[i]) /\ Authored(results[i]) = Authored(objs[i])
  <2>1. results[i] = runDefaulting(objs[i])
    BY <1>1
  <2> HIDE DEF results
  <2> QED BY <1>1, <2>1, runDefaultingParts DEF IsError
<1> HIDE DEF results, n
<1>4. /\ DOMAIN objs' = 1..n
      /\ \A i \in 1..n : objs'[i] = IF Failed(results[i]) THEN objs[i] ELSE results[i]
  BY <1>2
<1>5. \A i \in 1..n : IsObject(objs'[i]) /\ Authored(objs'[i]) = Authored(objs[i])
  BY <1>1, <1>3, <1>4
<1>6. objs' = [i \in 1..n |-> objs'[i]]
  BY <1>2, <1>4
<1>7. IsSeq(objs')
  BY <1>1, <1>6, SeqBuilt
<1>8. SerInv'
  BY <1>2, <1>4, <1>5, <1>7 DEF SerInv
<1> QED BY <1>1, <1>2, <1>5, <1>8

LEMMA EncodeStep ==
  ASSUME SerInv, Encode
  PROVE  /\ SerInv' /\ call' = <<"Encode">> /\ UNCHANGED objs
         /\ error' = None =>
              /\ Len(file') = Len(objs)
              /\ \A i \in DOMAIN objs : ~Failed(file'[i]) /\ file'[i] = EncodeOne(objs[i])
<1> DEFINE docs == [i \in DOMAIN objs |-> EncodeOne(objs[i])]
           n == Len(objs)
<1>1. n \in Nat /\ DOMAIN objs = 1..n /\ \A i \in 1..n : IsObject(objs[i])
  BY SeqParts DEF SerInv
<1>2. Writes(docs) /\ call' = <<"Encode">>
  BY DEF Encode
<1>3. DOMAIN docs = 1..n /\ \A i \in 1..n : docs[i] = EncodeOne(objs[i])
  BY <1>1
<1>4. docs = [i \in 1..n |-> docs[i]]
  BY <1>1, <1>3
<1> HIDE DEF docs, n
<1>5. IsSeq(docs) /\ Len(docs) = n
  BY <1>1, <1>4, SeqBuilt
<1>6. \A i \in DOMAIN docs : IsError(docs[i]) \/ (IsDoc(docs[i]) /\ ~Failed(docs[i]))
  BY <1>1, <1>3, EncodeOneParts
<1>7. /\ IsSeq(file') /\ \A i \in DOMAIN file' : IsDoc(file'[i])
      /\ UNCHANGED <<listKnown, objs>>
      /\ error' = None => file' = docs /\ \A i \in DOMAIN docs : ~Failed(docs[i])
  BY <1>2, <1>5, <1>6, WritesParts
<1>8. SerInv'
  BY <1>7 DEF SerInv
<1> QED BY <1>1, <1>2, <1>3, <1>5, <1>7, <1>8 DEF n

LEMMA EncodeForStep ==
  ASSUME SerInv, NEW i \in DOMAIN objs, NEW gv \in Versions, EncodeFor(i, gv)
  PROVE  /\ SerInv' /\ call' = <<"EncodeFor", i, gv>>
         /\ error' = None => Written(objs[i], gv, file'[1])
<1> DEFINE d == EncodeForGroupVersion(objs[i], gv)
           docs == <<d>>
<1>1. gv.version # Internal /\ gv.group # None
  BY RegisteredParts DEF Versions
<1>2. IsObject(objs[i])
  BY DEF SerInv
<1>3. IsError(d) \/ Written(objs[i], gv, d)
  BY <1>1, <1>2, WrittenParts
<1>4. Writes(docs) /\ call' = <<"EncodeFor", i, gv>>
  BY DEF EncodeFor
<1> HIDE DEF d
<1>5. IsSeq(docs) /\ DOMAIN docs = {1} /\ docs[1] = d
  BY DEF IsSeq, Range
<1> HIDE DEF docs
<1>6. \A j \in DOMAIN docs : IsError(docs[j]) \/ (IsDoc(docs[j]) /\ ~Failed(docs[j]))
  BY <1>3, <1>5 DEF Written
<1>7. /\ IsSeq(file') /\ \A j \in DOMAIN file' : IsDoc(file'[j])
      /\ UNCHANGED <<listKnown, objs>>
      /\ error' = None => file' = docs /\ \A j \in DOMAIN docs : ~Failed(docs[j])
  BY <1>4, <1>5, <1>6, WritesParts
<1>8. SerInv'
  BY <1>7 DEF SerInv
<1>9. error' = None => Written(objs[i], gv, file'[1])
  BY <1>3, <1>5, <1>7 DEF IsError
<1> QED BY <1>4, <1>8, <1>9

LEMMA SerNext ==
  ASSUME SerInv, [error # "panic" /\ Next]_vars
  PROVE  SerInv'
<1>1. ASSUME NEW opts \in Options, DecodeAll(opts) PROVE SerInv'
  BY <1>1, DecodeAllStep
<1>2. ASSUME NEW opts \in Options, file # <<>>,
             NEW gvk \in OfKind(file[1].gvk.kind) \cup {None}, DecodeInto(gvk, opts)
      PROVE  SerInv'
  BY <1>2, DecodeIntoStep DEF OfKind
<1>3. ASSUME NEW i \in DOMAIN objs, NEW gvk, ConvertIntoNew(i, gvk) PROVE SerInv'
  BY <1>3, ConvertStep
<1>4. ASSUME NEW i \in DOMAIN objs, NEW gv \in Versions, EncodeFor(i, gv) PROVE SerInv'
  BY <1>4, EncodeForStep
<1>5. ASSUME NEW gvk \in Registered, NewDefaultedObject(gvk) PROVE SerInv'
  BY <1>5, NewDefaultedStep
<1>6. CASE DefaultAll
  BY <1>6, DefaultStep
<1>7. CASE Encode
  BY <1>7, EncodeStep
<1>8. ASSUME NEW i \in DOMAIN objs, ConvertToHub(i) PROVE SerInv'
  BY <1>8, ConvertToHubStep
<1>9. CASE UNCHANGED vars
  BY <1>9 DEF SerInv, vars
<1> QED BY <1>1, <1>2, <1>3, <1>4, <1>5, <1>6, <1>7, <1>8, <1>9 DEF Next, Calls

\* Which step a call was.
LEMMA WhichCall ==
  ASSUME SerInv, Next
  PROVE  \/ call'[1] = "DecodeAll" /\ \E opts \in Options : DecodeAll(opts)
         \/ /\ call'[1] = "EncodeFor"
            /\ \E i \in DOMAIN objs : \E gv \in Versions : EncodeFor(i, gv)
         \/ call'[1] = "Encode" /\ Encode
         \/ call'[1] = "Default" /\ DefaultAll
         \/ call'[1] \in {"DecodeInto", "ConvertIntoNew", "NewDefaultedObject", "ConvertToHub"}
<1>1. ASSUME NEW opts \in Options, DecodeAll(opts) PROVE call'[1] = "DecodeAll"
  BY <1>1, DecodeAllStep
<1>2. ASSUME NEW opts \in Options, file # <<>>,
             NEW gvk \in OfKind(file[1].gvk.kind) \cup {None}, DecodeInto(gvk, opts)
      PROVE  call'[1] = "DecodeInto"
  BY <1>2, DecodeIntoStep DEF OfKind
<1>3. ASSUME NEW i \in DOMAIN objs, NEW gvk, ConvertIntoNew(i, gvk)
      PROVE  call'[1] = "ConvertIntoNew"
  BY <1>3, ConvertStep
<1>4. ASSUME NEW gvk \in Registered, NewDefaultedObject(gvk)
      PROVE  call'[1] = "NewDefaultedObject"
  BY <1>4, NewDefaultedStep
<1>5. ASSUME NEW i \in DOMAIN objs, NEW gv \in Versions, EncodeFor(i, gv)
      PROVE  call'[1] = "EncodeFor"
  BY <1>5, EncodeForStep
<1>6. DefaultAll => call'[1] = "Default"
  BY DefaultStep
<1>7. Encode => call'[1] = "Encode"
  BY EncodeStep
<1>8. ASSUME NEW i \in DOMAIN objs, ConvertToHub(i) PROVE call'[1] = "ConvertToHub"
  BY <1>8, ConvertToHubStep
<1> QED BY <1>1, <1>2, <1>3, <1>4, <1>5, <1>6, <1>7, <1>8 DEF Next, Calls
-----------------------------------------------------------------------------
\* The TypeMeta of every object is a kind that its Go type is registered as, and its
\* data are of that type, through any sequence of calls: GVKForObject may trust it.
THEOREM SerializerTypeCorrect == Spec => []TypeOK
<1>1. SerInv => TypeOK
  BY DEF SerInv, TypeOK, IsDoc, IsObject
<1> QED BY <1>1, SerInit, SerNext, PTL DEF Spec

\* DecodeAll loses, adds and moves nothing: the objects are those of the documents
\* and of the items of lists, in their places and in the version asked for, or there
\* is an error and no object.  Lists are taken apart if no hub is asked for; what has
\* no hub then, lists among it, and what the scheme has not is returned whole, as
\* Unknown, and nothing else is (decode and extractNestedObjects in decode.go).
THEOREM EveryDocumentDecoded == Spec => DecodesAll
<1> DEFINE Result(doc, opts, o) ==
             IF NotKnown(doc.gvk, opts)
             THEN /\ opts.unknown /\ o.type = "Unknown"
                  /\ o.meta = doc.gvk /\ o.data = doc.data /\ o.items = doc.items
             ELSE KindsOf(o.type) \cap (IF opts.hub THEN HubKinds(doc.gvk) ELSE {doc.gvk}) # {}
           All(opts) ==
             LET docs == Flat(file, opts)
             IN IF error' # None THEN objs' = <<>>
                ELSE /\ Len(objs') = Len(docs)
                     /\ \A i \in DOMAIN docs : Result(docs[i], opts, objs'[i])
<1>1. ASSUME SerInv, NEW opts \in Options, DecodeAll(opts) PROVE All(opts)
  <2> DEFINE r == DecodeEach(opts)
             docs == Flat(file, opts)
  <2>1. \/ error' # None /\ objs' = <<>>
        \/ error' = None /\ objs' = r /\ \A k \in DOMAIN r : ~Failed(r[k])
    BY <1>1, DecodeAllStep
  <2>2. CASE error' # None
    BY <2>1, <2>2
  <2>3. CASE error' = None
    <3>1. objs' = r /\ \A k \in DOMAIN r : ~Failed(r[k])
      BY <2>1, <2>3
    <3>2. /\ Len(r) = Len(docs) /\ DOMAIN docs = 1..Len(docs) /\ DOMAIN r = 1..Len(docs)
          /\ \A k \in DOMAIN docs : IsDoc(docs[k]) /\ r[k] = decode(docs[k], None, opts)
      BY <1>1, <3>1, ItemByItem
    <3> HIDE DEF r, docs
    <3>3. ASSUME NEW k \in DOMAIN docs PROVE Result(docs[k], opts, objs'[k])
      <4> DEFINE o == objs'[k]
                 doc == docs[k]
      <4>1. o = decode(doc, None, opts) /\ ~Failed(o) /\ IsDoc(doc)
        BY <3>1, <3>2
      <4>2. \/ DecodedAs(doc, opts, o)
            \/ UnknownOf(doc, o) /\ opts.unknown /\ NotKnown(doc.gvk, opts)
        BY <4>1, DecodeParts DEF IsError
      <4> HIDE DEF o, doc
      <4>3. CASE DecodedAs(doc, opts, o)
        <5>1. doc.gvk = listGVK => o.type = "List" /\ ~opts.hub
          BY <4>3 DEF DecodedAs
        <5>2. doc.gvk # listGVK => IF opts.hub THEN InHub(doc.gvk, o) ELSE doc.gvk \in KindsOf(o.type)
          BY <4>3 DEF DecodedAs
        <5>3. KindsOf(o.type) \cap (IF opts.hub THEN HubKinds(doc.gvk) ELSE {doc.gvk}) # {}
          BY <5>1, <5>2, KindsOfOthers DEF InHub
        <5> QED BY <4>3, <5>3 DEF DecodedAs, o, doc
      <4>4. CASE UnknownOf(doc, o) /\ opts.unknown /\ NotKnown(doc.gvk, opts)
        BY <4>4 DEF UnknownOf, o, doc
      <4> QED BY <4>2, <4>3, <4>4
    <3> QED BY <2>3, <3>1, <3>2, <3>3 DEF docs
  <2> QED BY <2>2, <2>3
<1> HIDE DEF All
<1>2. ASSUME SerInv, [error # "panic" /\ Next]_vars
      PROVE  [call' # <<>> /\ call'[1] = "DecodeAll" => All(call'[2])]_vars
  <2>1. SUFFICES ASSUME Next, call'[1] = "DecodeAll" PROVE All(call'[2])
    BY <1>2
  <2>2. PICK opts \in Options : DecodeAll(opts)
    BY <1>2, <2>1, WhichCall
  <2>3. call'[2] = opts
    BY <1>2, <2>2, DecodeAllStep
  <2> QED BY <1>1, <1>2, <2>2, <2>3
<1>3. DecodesAll <=> [][call' # <<>> /\ call'[1] = "DecodeAll" => All(call'[2])]_vars
  BY DEF DecodesAll, All
<1> QED BY <1>2, <1>3, SerInit, SerNext, PTL DEF Spec

\* No field that somebody has written is lost in a cycle of decoding, defaulting and
\* encoding, but for those that the version has not that is written (Keep is what
\* the conversion functions do; setDefaults fills in what is absent).
THEOREM AuthoredFieldsKept == Spec => FieldsKept
<1> DEFINE Kept ==
             CASE call'[1] = "Default" ->
                    \A i \in DOMAIN objs : Authored(objs'[i]) = Authored(objs[i])
               [] call'[1] = "Encode" ->
                    \A i \in DOMAIN objs : objs[i].type \in Types =>
                      Authored(file'[i]) = Authored(objs[i]) \cap TypeFields(file'[i].gvk)
               [] call'[1] = "DecodeAll" ->
                    (\A i \in DOMAIN file : file[i].gvk # listGVK) =>
                      \A i \in DOMAIN file : objs'[i].type \in Types =>
                        Authored(objs'[i]) = Authored(file[i]) \cap TypeFields(file[i].gvk)
               [] OTHER -> TRUE
<1>1. ASSUME SerInv, Encode, error' = None, NEW i \in DOMAIN objs, objs[i].type \in Types
      PROVE  Authored(file'[i]) = Authored(objs[i]) \cap TypeFields(file'[i].gvk)
  <2>1. file'[i] = EncodeOne(objs[i]) /\ ~Failed(file'[i])
    BY <1>1, EncodeStep
  <2>2. IsObject(objs[i])
    BY <1>1 DEF SerInv
  <2> QED BY <1>1, <2>1, <2>2, EncodeOneParts DEF IsError
<1>2. ASSUME SerInv, NEW opts, DecodeAll(opts), error' = None,
             \A i \in DOMAIN file : file[i].gvk # listGVK,
             NEW i \in DOMAIN file, objs'[i].type \in Types
      PROVE  Authored(objs'[i]) = Authored(file[i]) \cap TypeFields(file[i].gvk)
  <2> DEFINE r == DecodeEach(opts)
  <2>1. objs' = r /\ \A k \in DOMAIN r : ~Failed(r[k])
    BY <1>2, DecodeAllStep
  <2>2. DOMAIN r = DOMAIN file /\ r[i] = decode(file[i], None, opts)
    BY <1>2, DecodeEachParts
  <2>3. IsDoc(file[i])
    BY <1>2 DEF SerInv
  <2> HIDE DEF r
  <2>4. DecodedAs(file[i], opts, objs'[i])
    <3>1. objs'[i] = decode(file[i], None, opts) /\ ~Failed(objs'[i]) /\ objs'[i].type # "Unknown"
      BY <1>2, <2>1, <2>2, KindsAssumption
    <3> QED BY <2>3, <3>1, DecodeParts DEF IsError, UnknownOf
  <2> QED BY <1>2, <2>4 DEF DecodedAs
<1>3. ASSUME SerInv, [error # "panic" /\ Next]_vars PROVE [error' = None => Kept]_vars
  <2>1. SUFFICES ASSUME Next, error' = None PROVE Kept
    BY <1>3
  <2>2. CASE call'[1] = "DecodeAll" /\ \E opts \in Options : DecodeAll(opts)
    BY <1>2, <1>3, <2>1, <2>2
  <2>3. CASE call'[1] = "Encode" /\ Encode
    BY <1>1, <1>3, <2>1, <2>3
  <2>4. CASE call'[1] = "Default" /\ DefaultAll
    BY <1>3, <2>4, DefaultStep
  <2>5. CASE call'[1] \notin {"DecodeAll", "Encode", "Default"}
    BY <2>5
  <2> QED BY <1>3, <2>1, <2>2, <2>3, <2>4, <2>5, WhichCall
<1>4. FieldsKept <=> [][error' = None => Kept]_vars
  BY DEF FieldsKept, Kept
<1> QED BY <1>3, <1>4, SerInit, SerNext, PTL DEF Spec

\* A document is written in the version asked for, or else in its object's own one,
\* and for an internal object in the preferred one (Encode and EncodeForGroupVersion
\* in encode.go).
THEOREM WrittenInVersion == Spec => VersionAsked
<1> DEFINE Asked ==
             CASE call'[1] = "EncodeFor" /\ objs[call'[2]].type \in Types ->
                    \E k \in KindsOf(objs[call'[2]].type) :
                      file'[1].gvk = GVK(call'[3].group, call'[3].version, k.kind)
               [] call'[1] = "Encode" ->
                    /\ Len(file') = Len(objs)
                    /\ \A i \in DOMAIN objs : objs[i].type \in Types =>
                         IF IsExternal(objs[i].type) THEN file'[i].gvk \in KindsOf(objs[i].type)
                         ELSE file'[i].gvk.version = Preferred[file'[i].gvk.group]
               [] OTHER -> TRUE
<1>1. ASSUME SerInv, Encode, error' = None, NEW i \in DOMAIN objs, objs[i].type \in Types
      PROVE  IF IsExternal(objs[i].type) THEN file'[i].gvk \in KindsOf(objs[i].type)
             ELSE file'[i].gvk.version = Preferred[file'[i].gvk.group]
  <2>1. file'[i] = EncodeOne(objs[i]) /\ ~Failed(file'[i])
    BY <1>1, EncodeStep
  <2>2. IsObject(objs[i])
    BY <1>1 DEF SerInv
  <2> QED BY <1>1, <2>1, <2>2, EncodeOneParts DEF IsError
<1>2. ASSUME SerInv, [error # "panic" /\ Next]_vars PROVE [error' = None => Asked]_vars
  <2>1. SUFFICES ASSUME Next, error' = None PROVE Asked
    BY <1>2
  <2>2. CASE call'[1] = "EncodeFor" /\ \E i \in DOMAIN objs : \E gv \in Versions : EncodeFor(i, gv)
    <3>1. PICK i \in DOMAIN objs, gv \in Versions : EncodeFor(i, gv)
      BY <2>2
    <3>2. call'[2] = i /\ call'[3] = gv /\ Written(objs[i], gv, file'[1])
      BY <1>2, <2>1, <3>1, EncodeForStep
    <3> QED BY <2>2, <3>2 DEF Written
  <2>3. CASE call'[1] = "Encode" /\ Encode
    <3>1. Len(file') = Len(objs)
      BY <1>2, <2>1, <2>3, EncodeStep
    <3> QED BY <1>1, <1>2, <2>1, <2>3, <3>1
  <2>4. CASE call'[1] \notin {"EncodeFor", "Encode"}
    BY <2>4
  <2> QED BY <1>2, <2>1, <2>2, <2>3, <2>4, WhichCall
<1>3. VersionAsked <=> [][error' = None => Asked]_vars
  BY DEF VersionAsked, Asked
<1> QED BY <1>2, <1>3, SerInit, SerNext, PTL DEF Spec
=============================================================================
