------------------------- MODULE AgentConfigProofs --------------------------
(***************************************************************************)
(* What the agents write into the configuration of a harness.  For any     *)
(* keys, models, grants, edits, failures and ends of the daemon: the       *)
(* document the user means can be had back from the file, which has one    *)
(* whole block or none; each model of a grant has a profile file of its    *)
(* own, and no file of the user's is overwritten or deleted.               *)
(*                                                                         *)
(* Documents are sequences of any length.  First comes what Pick leaves of *)
(* one, then what Remove and Apply make of a sound one, then the edits of  *)
(* the user, and at the end the invariant and its steps.                   *)
(***************************************************************************)
EXTENDS AgentConfig, FiniteSetTheorems, TLAPS

-----------------------------------------------------------------------------
(* Documents and what is picked out of them. *)

\* A document has its lines at the numbers from 1 to its length.
LEMMA DocumentLines ==
    ASSUME NEW doc \in Document
    PROVE  /\ Len(doc) \in Nat /\ DOMAIN doc = 1 .. Len(doc)
           /\ \A i \in 1 .. Len(doc) :
                doc[i] \in Text /\ doc[i].kind \in Kinds /\ doc[i].key \in Nat
<1>1. Len(doc) \in Nat /\ DOMAIN doc = 1 .. Len(doc) /\ \A i \in 1 .. Len(doc) : doc[i] \in Text
  BY DEF Document
<1> QED BY <1>1 DEF Text

LEMMA IsDocument ==
    ASSUME NEW n \in Nat, NEW f \in [1 .. n -> Text]
    PROVE  f \in Document /\ Len(f) = n
BY DEF Document

LEMMA SameDocument ==
    ASSUME NEW c \in Document, NEW d \in Document, Len(c) = Len(d),
           \A i \in 1 .. Len(c) : c[i] = d[i]
    PROVE  c = d
BY DEF Document

\* A line is its kind and its key.
LEMMA SameLine ==
    ASSUME NEW x \in Text, NEW y \in Text, x.kind = y.kind, x.key = y.key
    PROVE  x = y
BY DEF Text

\* The places of a set, in order.
Enumerates(f, n, I) ==
    /\ f \in [1 .. n -> I]
    /\ \A i \in I : \E j \in 1 .. n : f[j] = i
    /\ \A j, k \in 1 .. n : j < k => f[j] < f[k]

\* The n-th place has n - 1 places before it.
LEMMA EnumerationCounts ==
    ASSUME NEW I \in SUBSET Nat, NEW n \in Nat, NEW f, Enumerates(f, n, I)
    PROVE  /\ Cardinality(I) = n
           /\ \A j \in 1 .. n : Cardinality({l \in I : l < f[j]}) = j - 1
<1>0. /\ \A j \in 1 .. n : f[j] \in I /\ f[j] \in Nat
      /\ \A i \in I : i \in Nat /\ \E j \in 1 .. n : f[j] = i
      /\ \A j, k \in 1 .. n : j < k => f[j] < f[k]
  BY DEF Enumerates
<1>i. \A j, k \in 1 .. n : f[j] < f[k] => j < k
  <2> SUFFICES ASSUME NEW j \in 1 .. n, NEW k \in 1 .. n, f[j] < f[k] PROVE j < k
    OBVIOUS
  <2>1. f[j] \in Nat /\ f[k] \in Nat
    BY <1>0
  <2>2. CASE k < j
    <3>1. f[k] < f[j]
      BY <1>0, <2>2
    <3> QED BY <2>1, <3>1
  <2>3. j # k
    BY <2>1
  <2> QED BY <2>2, <2>3
<1>1. ASSUME NEW m \in 0 .. n, NEW T, T \in SUBSET I,
             \A i \in I : i \in T <=> \E j \in 1 .. m : f[j] = i
      PROVE  Cardinality(T) = m
  <2> DEFINE g == [j \in 1 .. m |-> f[j]]
  <2>0. \A j \in 1 .. m : j \in 1 .. n
    OBVIOUS
  <2>1. g \in [1 .. m -> T]
    <3>1. \A j \in 1 .. m : f[j] \in T
      BY <1>0, <1>1, <2>0
    <3> QED BY <3>1
  <2>2. \A i \in T : \E j \in 1 .. m : g[j] = i
    BY <1>1
  <2>3. \A j, k \in 1 .. m : g[j] = g[k] => j = k
    <3>1. ASSUME NEW j \in 1 .. m, NEW k \in 1 .. m, j < k PROVE f[j] # f[k]
      <4>1. f[j] < f[k] /\ f[j] \in Nat /\ f[k] \in Nat
        BY <1>0, <2>0, <3>1
      <4> QED BY <4>1
    <3> QED BY <3>1
  <2> HIDE DEF g
  <2>4. g \in Bijection(1 .. m, T)
    BY <2>1, <2>2, <2>3 DEF Bijection, Injection, Surjection, IsInjective
  <2>5. ExistsBijection(1 .. m, T)
    BY <2>4 DEF ExistsBijection
  <2>6. IsFiniteSet(1 .. m) /\ Cardinality(1 .. m) = m
    <3>1. 1 \in Int /\ m \in Int
      OBVIOUS
    <3> QED BY <3>1, FS_Interval
  <2> QED BY <2>5, <2>6, FS_Bijection
<1>2. Cardinality(I) = n
  <2>1. n \in 0 .. n /\ I \in SUBSET I
    OBVIOUS
  <2> QED BY <1>0, <1>1, <2>1
<1>3. ASSUME NEW j \in 1 .. n PROVE Cardinality({l \in I : l < f[j]}) = j - 1
  <2>1. j - 1 \in 0 .. n /\ \A k \in 1 .. n : k < j <=> k \in 1 .. (j - 1)
    OBVIOUS
  <2>2. ASSUME NEW i \in I PROVE i < f[j] <=> \E k \in 1 .. (j - 1) : f[k] = i
    <3>1. PICK k \in 1 .. n : f[k] = i
      BY <1>0
    <3>2. i < f[j] => k \in 1 .. (j - 1)
      BY <1>i, <2>1, <3>1
    <3>3. ASSUME NEW l \in 1 .. (j - 1), f[l] = i PROVE i < f[j]
      <4>1. l \in 1 .. n /\ l < j
        OBVIOUS
      <4> QED BY <1>0, <3>3, <4>1
    <3> QED BY <3>1, <3>2, <3>3
  <2> DEFINE T == {l \in I : l < f[j]}
  <2>3. \A i \in I : i \in T <=> \E k \in 1 .. (j - 1) : f[k] = i
    BY <2>2
  <2>4. T \in SUBSET I
    OBVIOUS
  <2> HIDE DEF T
  <2>5. Cardinality(T) = j - 1
    BY <1>1, <2>1, <2>3, <2>4
  <2> QED BY <2>5 DEF T
<1> QED BY <1>2, <1>3

\* The lines of a document at some places.
Along(doc, f, n) == [j \in 1 .. n |-> doc[f[j]]]

\* What is picked at the places of a set is the lines there, in order.
LEMMA PickIs ==
    ASSUME NEW doc \in Document, NEW I \in SUBSET Nat, NEW n \in Nat, NEW f,
           Enumerates(f, n, I)
    PROVE  Pick[doc][I] = Along(doc, f, n)
<1>1. Cardinality(I) = n
  BY EnumerationCounts
<1>2. ASSUME NEW j \in 1 .. n
      PROVE  (CHOOSE i \in I : Cardinality({l \in I : l < i}) = j - 1) = f[j]
  <2> DEFINE P(i) == Cardinality({l \in I : l < i}) = j - 1
  <2>1. f[j] \in I /\ P(f[j])
    <3>1. \A k \in 1 .. n : Cardinality({l \in I : l < f[k]}) = k - 1
      BY EnumerationCounts
    <3> QED BY <3>1 DEF Enumerates
  <2>2. ASSUME NEW i \in I, P(i) PROVE i = f[j]
    <3>1. PICK k \in 1 .. n : f[k] = i
      BY DEF Enumerates
    <3>2. Cardinality({l \in I : l < f[k]}) = k - 1
      BY EnumerationCounts
    <3>3. k - 1 = j - 1
      BY <2>2, <3>1, <3>2
    <3> QED BY <3>1, <3>3
  <2> HIDE DEF P
  <2>3. \A i : i \in I /\ P(i) <=> i = f[j]
    BY <2>1, <2>2
  <2>4. (CHOOSE i : i \in I /\ P(i)) = f[j]
    BY <2>3
  <2> QED BY <2>4 DEF P
<1> DEFINE Nth(j) == CHOOSE i \in I : Cardinality({l \in I : l < i}) = j - 1
<1>3. Pick[doc][I] = [j \in 1 .. Cardinality(I) |-> doc[Nth(j)]]
  BY DEF Pick
<1>4. \A j \in 1 .. n : Nth(j) = f[j]
  BY <1>2
<1> HIDE DEF Nth
<1> QED BY <1>1, <1>3, <1>4 DEF Along

\* A number has fewer numbers of a set before it than a greater one.
LEMMA RanksDiffer ==
    ASSUME NEW S \in SUBSET Nat, IsFiniteSet(S), NEW i \in S, NEW k \in S, i < k
    PROVE  Cardinality({j \in S : j < i}) < Cardinality({j \in S : j < k})
<1> DEFINE below(x) == {j \in S : j < x}
<1>0. below(k) \in SUBSET S /\ below(i) \in SUBSET S
  OBVIOUS
<1>1. IsFiniteSet(below(k)) /\ below(i) \in SUBSET below(k)
  <2>1. IsFiniteSet(below(k))
    <3> HIDE DEF below
    <3> QED BY <1>0, FS_Subset
  <2>2. \A j \in S : j < i => j < k
    OBVIOUS
  <2> QED BY <2>1, <2>2
<1>2. i \in below(k) /\ i \notin below(i)
  OBVIOUS
<1> HIDE DEF below
<1>3. IsFiniteSet(below(i))
  BY <1>0, FS_Subset
<1>4. /\ Cardinality(below(i)) <= Cardinality(below(k))
      /\ Cardinality(below(k)) # Cardinality(below(i))
  BY <1>1, <1>2, FS_Subset
<1>5. Cardinality(below(i)) \in Nat /\ Cardinality(below(k)) \in Nat
  BY <1>1, <1>3, FS_CardinalityType
<1>6. Cardinality(below(i)) < Cardinality(below(k))
  BY <1>4, <1>5
<1> QED BY <1>6 DEF below

\* For every count below the size of a set there is an element with as many before it.
LEMMA RanksAreTaken ==
    ASSUME NEW S \in SUBSET Nat, IsFiniteSet(S), NEW c \in Nat, c < Cardinality(S)
    PROVE  \E i \in S : Cardinality({j \in S : j < i}) = c
<1> DEFINE n == Cardinality(S)
           rank == [i \in S |-> Cardinality({j \in S : j < i})]
           T == (0 .. (n - 1)) \ {c}
<1> SUFFICES ASSUME \A i \in S : rank[i] # c PROVE FALSE
  OBVIOUS
<1>1. n \in Nat /\ n > 0 /\ c \in 0 .. (n - 1)
  BY FS_CardinalityType
<1>2. IsFiniteSet(T) /\ Cardinality(T) < n
  <2>1. IsFiniteSet(0 .. (n - 1)) /\ Cardinality(0 .. (n - 1)) = n
    <3>1. 0 \in Int /\ n - 1 \in Int /\ ~ (0 > n - 1) /\ (n - 1) - 0 + 1 = n
      BY <1>1
    <3> QED BY <3>1, FS_Interval
  <2> DEFINE R == 0 .. (n - 1)
  <2> HIDE DEF n
  <2>2. IsFiniteSet(R \ {c}) /\ Cardinality(R \ {c}) = Cardinality(R) - 1
    <3> HIDE DEF R
    <3>1. c \in R
      BY <1>1 DEF R
    <3> QED BY <2>1, <3>1, FS_RemoveElement DEF R
  <2> QED BY <1>1, <2>1, <2>2
<1>3. rank \in [S -> T]
  <2> SUFFICES ASSUME NEW i \in S PROVE rank[i] \in 0 .. (n - 1)
    OBVIOUS
  <2> DEFINE below == {j \in S : j < i}
  <2>1. below \in SUBSET S /\ i \notin below
    OBVIOUS
  <2> HIDE DEF below
  <2>2. /\ IsFiniteSet(below) /\ Cardinality(below) <= n /\ Cardinality(below) # n
    BY <2>1, FS_Subset
  <2>3. Cardinality(below) \in 0 .. (n - 1)
    BY <1>1, <2>2, FS_CardinalityType
  <2> QED BY <2>3 DEF below
<1>4. PICK x, y \in S : x # y /\ rank[x] = rank[y]
  <2> HIDE DEF rank, T
  <2> QED BY <1>2, <1>3, FS_PigeonHole
<1>5. CASE x < y
  <2>1. rank[x] < rank[y]
    BY <1>5, RanksDiffer
  <2>2. rank[x] \in Nat
    BY <1>1, <1>3
  <2> QED BY <1>4, <2>1, <2>2
<1>6. CASE y < x
  <2>1. rank[y] < rank[x]
    BY <1>6, RanksDiffer
  <2>2. rank[x] \in Nat
    BY <1>1, <1>3
  <2> QED BY <1>4, <2>1, <2>2
<1> QED BY <1>4, <1>5, <1>6

\* An element has fewer elements before it than the set has.
LEMMA RankInRange ==
    ASSUME NEW S \in SUBSET Nat, IsFiniteSet(S), NEW i \in S
    PROVE  /\ Cardinality({j \in S : j < i}) \in Nat
           /\ Cardinality({j \in S : j < i}) < Cardinality(S)
<1> DEFINE below == {j \in S : j < i}
<1>1. below \in SUBSET S /\ i \notin below
  OBVIOUS
<1> HIDE DEF below
<1>2. /\ IsFiniteSet(below) /\ Cardinality(below) <= Cardinality(S)
      /\ Cardinality(below) # Cardinality(S)
  BY <1>1, FS_Subset
<1>3. Cardinality(below) \in Nat /\ Cardinality(below) < Cardinality(S)
  BY <1>2, FS_CardinalityType
<1> QED BY <1>3 DEF below

\* The places of every finite set can be put in order.
LEMMA PlacesInOrder ==
    ASSUME NEW I \in SUBSET Nat, IsFiniteSet(I)
    PROVE  \E n, f : n \in Nat /\ Enumerates(f, n, I)
<1> DEFINE n == Cardinality(I)
           rank == [i \in I |-> Cardinality({l \in I : l < i})]
           f == [j \in 1 .. n |-> CHOOSE i \in I : rank[i] = j - 1]
<1>1. n \in Nat
  BY FS_CardinalityType
<1>2. ASSUME NEW i \in I PROVE rank[i] \in Nat /\ rank[i] < n
  BY RankInRange
<1>3. \A i, k \in I : i < k => rank[i] < rank[k]
  BY RanksDiffer
<1>4. \A c \in Nat : c < n => \E i \in I : rank[i] = c
  BY RanksAreTaken
<1> HIDE DEF n, rank
<1>5. ASSUME NEW j \in 1 .. n PROVE f[j] \in I /\ rank[f[j]] = j - 1
  <2>1. j - 1 \in Nat /\ j - 1 < n
    BY <1>1
  <2> QED BY <1>4, <2>1
<1> HIDE DEF f
<1>6. f \in [1 .. n -> I]
  BY <1>5 DEF f
<1>7. ASSUME NEW i \in I PROVE \E j \in 1 .. n : f[j] = i
  <2>1. rank[i] + 1 \in 1 .. n
    BY <1>1, <1>2
  <2>2. f[rank[i] + 1] \in I /\ rank[f[rank[i] + 1]] = rank[i]
    BY <1>2, <1>5, <2>1
  <2>3. f[rank[i] + 1] = i
    <3> DEFINE k == f[rank[i] + 1]
    <3>1. k \in I /\ rank[k] = rank[i] /\ k \in Nat /\ i \in Nat /\ rank[i] \in Nat
      BY <1>2, <2>2
    <3>2. ~ (k < i) /\ ~ (i < k)
      BY <1>3, <3>1
    <3> HIDE DEF k
    <3>3. k = i
      BY <3>1, <3>2
    <3> QED BY <3>3 DEF k
  <2> QED BY <2>1, <2>3
<1>8. ASSUME NEW j \in 1 .. n, NEW k \in 1 .. n, j < k PROVE f[j] < f[k]
  <2>1. /\ f[j] \in I /\ f[k] \in I /\ rank[f[j]] = j - 1 /\ rank[f[k]] = k - 1
        /\ f[j] \in Nat /\ f[k] \in Nat
    BY <1>5
  <2>2. CASE f[k] < f[j]
    <3>1. rank[f[k]] < rank[f[j]]
      BY <1>3, <2>1, <2>2
    <3> QED BY <1>1, <1>8, <2>1, <3>1
  <2>3. CASE f[k] = f[j]
    BY <1>1, <1>8, <2>1, <2>3
  <2> QED BY <2>1, <2>2, <2>3
<1> QED BY <1>1, <1>6, <1>7, <1>8 DEF Enumerates

\* So whatever is picked is lines of the document, in order.
LEMMA Picked ==
    ASSUME NEW doc \in Document, NEW I \in SUBSET (1 .. Len(doc))
    PROVE  \E n, f :
              /\ n \in Nat
              /\ Enumerates(f, n, I)
              /\ Pick[doc][I] = Along(doc, f, n)
              /\ Pick[doc][I] \in Document /\ Len(Pick[doc][I]) = n
<1>1. Len(doc) \in Nat /\ \A i \in 1 .. Len(doc) : doc[i] \in Text
  BY DocumentLines
<1>2. I \in SUBSET Nat /\ IsFiniteSet(I)
  <2>1. 1 \in Int /\ Len(doc) \in Int
    BY <1>1
  <2>2. IsFiniteSet(1 .. Len(doc))
    BY <2>1, FS_Interval
  <2>3. IsFiniteSet(I)
    BY <2>2, FS_Subset
  <2> QED BY <2>3
<1>3. PICK n, f : n \in Nat /\ Enumerates(f, n, I)
  BY <1>2, PlacesInOrder
<1> n \in Nat
  BY <1>3
<1>4. Pick[doc][I] = Along(doc, f, n)
  BY <1>2, <1>3, PickIs
<1>5. Along(doc, f, n) \in [1 .. n -> Text]
  BY <1>1, <1>3 DEF Enumerates, Along
<1>6. Pick[doc][I] \in Document /\ Len(Pick[doc][I]) = n
  BY <1>4, <1>5, IsDocument
<1> QED BY <1>3, <1>4, <1>6

-----------------------------------------------------------------------------
(* The shape of a document. *)

Indented == {"entry", "ref", "saved", "begin", "end"}
Marks    == {"begin", "end", "saved"}
KindsOf  == IF IsDsh THEN {"version", "refs", "other"} \cup Indented
                     ELSE {"own", "provider", "begin", "end"}
KeyKind  == IF IsDsh THEN "ref" ELSE "provider"

\* There is one header of a section at most, and what is indented follows it or
\* another indented line.
Sections(doc) ==
    /\ \A g, h \in Lines(doc, "refs") : g = h
    /\ \A i \in DOMAIN doc : doc[i].kind \in Indented =>
         i - 1 \in DOMAIN doc /\ doc[i - 1].kind \in Indented \cup {"refs"}

\* A block that begins at b: a parked line or none, the key, the end; and nothing
\* of the kind elsewhere.
KeyAt(doc, b) == IF doc[b + 1].kind = "saved" THEN b + 2 ELSE b + 1
BlockAt(doc, b) ==
    /\ b \in DOMAIN doc /\ b + 2 \in DOMAIN doc /\ KeyAt(doc, b) + 1 \in DOMAIN doc
    /\ doc[b].kind = "begin" /\ doc[KeyAt(doc, b) + 1].kind = "end"
    /\ doc[KeyAt(doc, b)].kind = KeyKind /\ doc[KeyAt(doc, b)].key # 0
    /\ \A i \in DOMAIN doc : /\ doc[i].kind = "begin" => i = b
                             /\ doc[i].kind = "saved" => i = b + 1
                             /\ doc[i].kind = "end"   => i = KeyAt(doc, b) + 1

Plain(doc) == \A i \in DOMAIN doc : doc[i].kind \notin Marks

Typed(doc) ==
    /\ doc \in Document
    /\ \A i \in DOMAIN doc : /\ doc[i].kind \in KindsOf
                             /\ IsDsh /\ doc[i].kind \in {"ref", "saved"} => doc[i].key # 0

Sound(doc) ==
    /\ Typed(doc)
    /\ IsDsh => Sections(doc)
    /\ Plain(doc) \/ \E b \in DOMAIN doc : BlockAt(doc, b)

\* A document no sync was raced on: one key of the user's at most, which makes way
\* for the block, and no header with nothing under it.
Single(doc) == IsDsh =>
    /\ Plain(doc) =>
         /\ \A i, j \in Lines(doc, "ref") : i = j
         /\ Lines(doc, "refs") # {} => \E i \in DOMAIN doc : doc[i].kind \in Indented
    /\ \A b \in DOMAIN doc : BlockAt(doc, b) => Lines(doc, "ref") = {KeyAt(doc, b)}

HasBlock(doc) == Lines(doc, "begin") # {}

-----------------------------------------------------------------------------
(* What Remove gives back. *)

\* The document without the block at b, the parked line in its place; and without
\* the header, if nothing else was below it.
Cut(doc, b) ==
    [j \in 1 .. Len(doc) - 3 |->
       IF j < b THEN doc[j]
       ELSE IF j = b /\ doc[b + 1].kind = "saved" THEN Ref(doc[b + 1].key)
       ELSE doc[j + 3]]
Lone(doc, b) ==
    /\ IsDsh /\ doc[b - 1].kind = "refs" /\ doc[b + 1].kind # "saved"
    /\ b + 3 \in DOMAIN doc => doc[b + 3].kind \notin Indented
Less(doc, h) == [j \in 1 .. Len(doc) - 1 |-> IF j < h THEN doc[j] ELSE doc[j + 1]]

\* The numbers of Least and Greatest.
LEMMA LeastIs ==
    ASSUME NEW S \in SUBSET Nat, NEW m \in S, \A i \in S : m <= i
    PROVE  Least(S) = m
<1> DEFINE P(i) == \A j \in S : i <= j
<1>1. ASSUME NEW i \in S, P(i) PROVE i = m
  <2>1. i \in Nat /\ m \in Nat /\ i <= m /\ m <= i
    BY <1>1
  <2> QED BY <2>1
<1>2. \A i : i \in S /\ P(i) <=> i = m
  BY <1>1
<1> HIDE DEF P
<1>3. (CHOOSE i : i \in S /\ P(i)) = m
  BY <1>2
<1> QED BY <1>3 DEF P, Least

LEMMA GreatestIs ==
    ASSUME NEW S \in SUBSET Nat, NEW m \in S, \A i \in S : i <= m
    PROVE  Greatest(S) = m
<1> DEFINE P(i) == \A j \in S : j <= i
<1>1. ASSUME NEW i \in S, P(i) PROVE i = m
  <2>1. i \in Nat /\ m \in Nat /\ i <= m /\ m <= i
    BY <1>1
  <2> QED BY <2>1
<1>2. \A i : i \in S /\ P(i) <=> i = m
  BY <1>1
<1> HIDE DEF P
<1>3. (CHOOSE i : i \in S /\ P(i)) = m
  BY <1>2
<1> QED BY <1>3 DEF P, Greatest

\* A block goes from its begin to its end.
LEMMA BlockPlaces ==
    ASSUME NEW doc \in Document, NEW b, BlockAt(doc, b)
    PROVE  /\ b \in Nat \ {0} /\ Len(doc) \in Nat /\ DOMAIN doc = 1 .. Len(doc)
           /\ doc[b + 1].kind = "saved" => KeyAt(doc, b) = b + 2 /\ b + 3 <= Len(doc)
           /\ doc[b + 1].kind # "saved" => KeyAt(doc, b) = b + 1 /\ b + 2 <= Len(doc)
BY DocumentLines DEF BlockAt, KeyAt

LEMMA InBlockIs ==
    ASSUME NEW doc \in Document, NEW b, BlockAt(doc, b)
    PROVE  InBlock(doc) = b .. KeyAt(doc, b) + 1
<1> DEFINE e == KeyAt(doc, b) + 1
<1>1. b \in Nat /\ e \in Nat /\ b < e /\ 1 <= b /\ e <= Len(doc)
      /\ DOMAIN doc = 1 .. Len(doc) /\ Len(doc) \in Nat
  BY BlockPlaces
<1>2. Lines(doc, "begin") = {b} /\ Lines(doc, "end") = {e}
  BY DEF BlockAt, Lines
<1> HIDE DEF e
<1>3. InBlock(doc) = {i \in DOMAIN doc : b <= i /\ ~ (b < e /\ e < i)}
  BY <1>2 DEF InBlock
<1>4. InBlock(doc) = b .. e
  BY <1>1, <1>3
<1> QED BY <1>4 DEF e

LEMMA InBlockPlain ==
    ASSUME NEW doc, Plain(doc)
    PROVE  InBlock(doc) = {} /\ Lines(doc, "begin") = {} /\ Lines(doc, "saved") = {}
BY DEF Plain, InBlock, Lines, Marks

\* All lines; all but one.
LEMMA PickAll ==
    ASSUME NEW doc \in Document
    PROVE  Pick[doc][DOMAIN doc] = doc
<1> DEFINE f == [j \in 1 .. Len(doc) |-> j]
<1>1. Len(doc) \in Nat /\ DOMAIN doc = 1 .. Len(doc) /\ doc = [i \in 1 .. Len(doc) |-> doc[i]]
  BY DocumentLines DEF Document
<1>2. Enumerates(f, Len(doc), DOMAIN doc)
  BY <1>1 DEF Enumerates
<1>3. Along(doc, f, Len(doc)) = doc
  BY <1>1 DEF Along
<1>4. DOMAIN doc \in SUBSET Nat
  BY <1>1
<1> HIDE DEF f
<1> QED BY <1>1, <1>2, <1>3, <1>4, PickIs

LEMMA LessIs ==
    ASSUME NEW doc \in Document, NEW h \in DOMAIN doc
    PROVE  /\ Pick[doc][DOMAIN doc \ {h}] = Less(doc, h)
           /\ Less(doc, h) \in Document /\ Len(Less(doc, h)) = Len(doc) - 1
<1> DEFINE n == Len(doc)
           f == [j \in 1 .. (n - 1) |-> IF j < h THEN j ELSE j + 1]
<1>1. n \in Nat /\ DOMAIN doc = 1 .. n /\ h \in 1 .. n /\ \A i \in 1 .. n : doc[i] \in Text
  BY DocumentLines
<1> HIDE DEF n
<1>2. Enumerates(f, n - 1, DOMAIN doc \ {h})
  <2>1. f \in [1 .. (n - 1) -> DOMAIN doc \ {h}]
    BY <1>1
  <2>2. ASSUME NEW i \in DOMAIN doc \ {h} PROVE \E j \in 1 .. (n - 1) : f[j] = i
    <3>1. CASE i < h
      <4>1. i \in 1 .. (n - 1) /\ f[i] = i
        BY <1>1, <3>1
      <4> QED BY <4>1
    <3>2. CASE i > h
      <4>1. i - 1 \in 1 .. (n - 1) /\ f[i - 1] = i
        BY <1>1, <3>2
      <4> QED BY <4>1
    <3> QED BY <1>1, <3>1, <3>2
  <2>3. \A j, k \in 1 .. (n - 1) : j < k => f[j] < f[k]
    BY <1>1
  <2> HIDE DEF f
  <2> QED BY <2>1, <2>2, <2>3 DEF Enumerates
<1>3. Along(doc, f, n - 1) = Less(doc, h)
  BY <1>1 DEF Along, Less, n
<1>4. DOMAIN doc \ {h} \in SUBSET Nat /\ n - 1 \in Nat
  BY <1>1
<1>5. Less(doc, h) \in [1 .. (n - 1) -> Text]
  BY <1>1 DEF Less, n
<1> HIDE DEF f
<1>6. Less(doc, h) \in Document /\ Len(Less(doc, h)) = n - 1
  BY <1>4, <1>5, IsDocument
<1> QED BY <1>2, <1>3, <1>4, <1>6, PickIs DEF n

\* What is left of a document with a block.
LEMMA CutIs ==
    ASSUME NEW doc \in Document, NEW b, BlockAt(doc, b), NEW lines \in Document,
           NEW saved \in SUBSET {b + 1}, saved = {} <=> doc[b + 1].kind # "saved",
           lines = [i \in DOMAIN doc |-> IF i \in saved THEN Ref(doc[i].key) ELSE doc[i]]
    PROVE  /\ Pick[lines][(DOMAIN doc \ InBlock(doc)) \cup saved] = Cut(doc, b)
           /\ Cut(doc, b) \in Document /\ Len(Cut(doc, b)) = Len(doc) - 3
<1> DEFINE n == Len(doc)
           e == KeyAt(doc, b) + 1
           I == (DOMAIN doc \ InBlock(doc)) \cup saved
           f == [j \in 1 .. (n - 3) |->
                   IF j < b THEN j ELSE IF j = b /\ saved # {} THEN b + 1 ELSE j + 3]
<1>1. /\ b \in Nat \ {0} /\ n \in Nat /\ DOMAIN doc = 1 .. n
      /\ e = IF saved = {} THEN b + 2 ELSE b + 3
      /\ b + 2 <= n /\ e <= n
  BY BlockPlaces
<1>2. I = {i \in 1 .. n : i < b \/ i > e} \cup saved
  BY <1>1, InBlockIs
<1>3. \A i \in 1 .. n : doc[i] \in Text /\ lines[i] \in Text
  <2>1. DOMAIN lines = 1 .. n /\ Len(lines) = n
    BY <1>1, DocumentLines
  <2> QED BY <2>1, DocumentLines
<1> HIDE DEF n, e, I
<1>4. Enumerates(f, n - 3, I)
  <2>1. ASSUME NEW j \in 1 .. (n - 3) PROVE f[j] \in I
    <3>1. CASE j < b
      BY <1>1, <1>2, <3>1
    <3>2. CASE j = b /\ saved # {}
      BY <1>1, <1>2, <3>2
    <3>3. CASE j = b /\ saved = {}
      BY <1>1, <1>2, <3>3
    <3>4. CASE j > b
      BY <1>1, <1>2, <3>4
    <3> QED BY <1>1, <3>1, <3>2, <3>3, <3>4
  <2>2. ASSUME NEW i \in I PROVE \E j \in 1 .. (n - 3) : f[j] = i
    <3>1. CASE i < b
      <4>1. i \in 1 .. (n - 3) /\ f[i] = i
        BY <1>1, <1>2, <3>1
      <4> QED BY <4>1
    <3>2. CASE i = b + 1 /\ saved # {}
      <4>1. b \in 1 .. (n - 3) /\ f[b] = i
        BY <1>1, <3>2
      <4> QED BY <4>1
    <3>3. CASE i > e
      <4>1. i \in Nat /\ i <= n /\ i >= b + 3 /\ (saved # {} => i # b + 3)
        BY <1>1, <1>2, <3>3
      <4>2. i - 3 \in 1 .. (n - 3) /\ ~ (i - 3 < b) /\ ~ (i - 3 = b /\ saved # {})
        BY <1>1, <4>1
      <4>3. f[i - 3] = i
        BY <1>1, <4>1, <4>2
      <4> QED BY <4>2, <4>3
    <3> QED BY <1>1, <1>2, <3>1, <3>2, <3>3
  <2>3. \A j, k \in 1 .. (n - 3) : j < k => f[j] < f[k]
    BY <1>1
  <2>4. f \in [1 .. (n - 3) -> I]
    BY <2>1
  <2> HIDE DEF f
  <2> QED BY <2>2, <2>3, <2>4 DEF Enumerates
<1>5. Along(lines, f, n - 3) = Cut(doc, b)
  <2>1. ASSUME NEW j \in 1 .. (n - 3)
        PROVE  lines[f[j]] = IF j < b THEN doc[j]
                             ELSE IF j = b /\ doc[b + 1].kind = "saved" THEN Ref(doc[b + 1].key)
                             ELSE doc[j + 3]
    <3>1. CASE j < b
      <4>1. f[j] = j /\ j \in 1 .. n /\ j \notin saved
        BY <1>1, <3>1
      <4> QED BY <1>1, <3>1, <4>1
    <3>2. CASE j = b /\ saved # {}
      <4>1. f[j] = b + 1 /\ b + 1 \in 1 .. n /\ b + 1 \in saved
        BY <1>1, <3>2
      <4> QED BY <1>1, <3>2, <4>1
    <3>3. CASE j > b \/ (j = b /\ saved = {})
      <4>1. f[j] = j + 3 /\ j + 3 \in 1 .. n /\ j + 3 \notin saved /\ ~ (j < b)
            /\ ~ (j = b /\ doc[b + 1].kind = "saved")
        BY <1>1, <3>3
      <4> QED BY <1>1, <4>1
    <3> QED BY <1>1, <3>1, <3>2, <3>3
  <2> HIDE DEF f
  <2> QED BY <2>1 DEF Along, Cut, n
<1>6. Cut(doc, b) \in [1 .. (n - 3) -> Text]
  <2>1. \A j \in 1 .. (n - 3) : f[j] \in 1 .. n
    BY <1>1, <1>2, <1>4 DEF Enumerates
  <2>2. Along(lines, f, n - 3) \in [1 .. (n - 3) -> Text]
    BY <1>3, <2>1 DEF Along
  <2> QED BY <1>5, <2>2
<1>7. I \in SUBSET Nat /\ n - 3 \in Nat
  BY <1>1, <1>2
<1> HIDE DEF f
<1>8. Cut(doc, b) \in Document /\ Len(Cut(doc, b)) = n - 3
  BY <1>6, <1>7, IsDocument
<1>9. Pick[lines][I] = Along(lines, f, n - 3)
  BY <1>4, <1>7, PickIs
<1> QED BY <1>5, <1>8, <1>9 DEF n, I

\* A finite set of numbers has a least and a greatest.
LEMMA HasEnds ==
    ASSUME NEW S \in SUBSET Nat, IsFiniteSet(S), S # {}
    PROVE  /\ \E m \in S : \A i \in S : m <= i
           /\ \E m \in S : \A i \in S : i <= m
<1> DEFINE n == Cardinality(S)
           rank == [i \in S |-> Cardinality({l \in S : l < i})]
<1>1. n \in Nat /\ n # 0
  BY FS_CardinalityType, FS_EmptySet
<1>2. \A i \in S : rank[i] \in Nat /\ rank[i] < n
  BY RankInRange
<1>3. \A i, k \in S : i < k => rank[i] < rank[k]
  BY RanksDiffer
<1>4. \A c \in Nat : c < n => \E i \in S : rank[i] = c
  BY RanksAreTaken
<1> HIDE DEF n, rank
<1>5. PICK m \in S : rank[m] = 0
  BY <1>1, <1>4
<1>6. PICK k \in S : rank[k] = n - 1
  <2>1. n - 1 \in Nat /\ n - 1 < n
    BY <1>1
  <2> QED BY <1>4, <2>1
<1>7. ASSUME NEW i \in S PROVE m <= i /\ i <= k
  <2>1. ~ (rank[i] < rank[m]) /\ ~ (rank[k] < rank[i])
    BY <1>1, <1>2, <1>5, <1>6
  <2>2. ~ (i < m) /\ ~ (k < i)
    BY <1>3, <2>1
  <2> QED BY <2>2
<1> QED BY <1>7

\* The kinds of the lines of a document.
LEMMA TypedLines ==
    ASSUME NEW doc, Typed(doc)
    PROVE  /\ doc \in Document /\ Len(doc) \in Nat /\ DOMAIN doc = 1 .. Len(doc)
           /\ \A i \in 1 .. Len(doc) :
                /\ doc[i] \in Text /\ doc[i].key \in Nat
                /\ IsDsh => \/ doc[i].kind \in Indented
                            \/ doc[i].kind \in {"version", "refs", "other"}
                /\ ~ IsDsh => doc[i].kind \in {"own", "provider", "begin", "end"}
                /\ IsDsh /\ doc[i].kind \in {"ref", "saved"} => doc[i].key # 0
<1>1. doc \in Document
  BY DEF Typed
<1> QED BY <1>1, DocumentLines DEF Typed, KindsOf

\* What is indented is below a header, with nothing but indented lines between.
LEMMA SectionHead ==
    ASSUME NEW doc, Typed(doc), Sections(doc), NEW i \in DOMAIN doc, doc[i].kind \in Indented
    PROVE  \E h \in Lines(doc, "refs") : h < i /\ \A j \in h + 1 .. i : doc[j].kind \in Indented
<1> DEFINE n == Len(doc)
           In(j) == doc[j].kind \in Indented
           G == {j \in 1 .. i : ~ In(j)}
<1>1. /\ n \in Nat /\ DOMAIN doc = 1 .. n /\ i \in 1 .. n /\ In(i)
      /\ \A j \in 1 .. n : In(j) => j - 1 \in 1 .. n /\ (In(j - 1) \/ doc[j - 1].kind = "refs")
  BY TypedLines DEF Sections
<1> HIDE DEF n, In
<1>2. G \in SUBSET Nat /\ IsFiniteSet(G)
  <2>1. 1 \in Int /\ i \in Int
    BY <1>1
  <2>2. IsFiniteSet(1 .. i) /\ G \in SUBSET (1 .. i)
    BY <2>1, FS_Interval
  <2>3. G \in SUBSET Nat
    BY <1>1
  <2> HIDE DEF G
  <2> QED BY <2>2, <2>3, FS_Subset
<1>3. CASE G = {}
  <2>1. In(1) /\ 1 \in 1 .. n
    BY <1>1, <1>3
  <2>2. 1 - 1 \in 1 .. n
    BY <1>1, <2>1
  <2> QED BY <2>2
<1>4. CASE G # {}
  <2>1. PICK g \in G : \A j \in G : j <= g
    BY <1>2, <1>4, HasEnds
  <2>2. g \in 1 .. i /\ ~ In(g) /\ g # i
    BY <1>1, <2>1
  <2>3. \A j \in g + 1 .. i : In(j)
    <3> SUFFICES ASSUME NEW j \in g + 1 .. i, ~ In(j) PROVE FALSE
      OBVIOUS
    <3>1. j \in G /\ g < j
      BY <2>2
    <3> QED BY <2>1, <2>2, <3>1
  <2>4. In(g + 1) /\ g + 1 \in 1 .. n /\ (g + 1) - 1 = g
    BY <1>1, <2>2, <2>3
  <2>5. doc[g].kind = "refs" /\ g \in 1 .. n /\ g < i
    BY <1>1, <2>2, <2>4
  <2> QED BY <1>1, <2>3, <2>5 DEF Lines, In
<1> QED BY <1>3, <1>4

\* The section of keys is what is indented.
LEMMA SectionIs ==
    ASSUME NEW doc, Typed(doc), IsDsh, Sections(doc), NEW h \in Lines(doc, "refs")
    PROVE  /\ Head0(doc) = h
           /\ RefsBlock(doc) = {i \in DOMAIN doc : doc[i].kind \in Indented}
           /\ \A i \in RefsBlock(doc) : \A j \in h + 1 .. i : j \in RefsBlock(doc)
           /\ h \in DOMAIN doc /\ \A i \in RefsBlock(doc) : h < i
<1> DEFINE n == Len(doc)
           In(i) == doc[i].kind \in Indented
<1>1. /\ n \in Nat /\ DOMAIN doc = 1 .. n
      /\ \A i \in 1 .. n : In(i) \/ doc[i].kind \in {"version", "refs", "other"}
      /\ \A i \in 1 .. n : ~ (In(i) /\ doc[i].kind \in {"version", "refs", "other"})
  BY TypedLines DEF Indented
<1>2. Lines(doc, "refs") = {h} /\ h \in 1 .. n /\ doc[h].kind = "refs"
  BY <1>1 DEF Sections, Lines
<1>3. Head0(doc) = h
  <2>1. {h} \in SUBSET Nat /\ \A i \in {h} : h <= i
    BY <1>1, <1>2
  <2> QED BY <1>2, <2>1, LeastIs DEF Head0
<1> HIDE DEF n, In
<1>4. ASSUME NEW i \in 1 .. n, In(i) PROVE h < i /\ \A j \in h + 1 .. i : In(j)
  <2>1. PICK g \in Lines(doc, "refs") : g < i /\ \A j \in g + 1 .. i : In(j)
    BY <1>1, <1>4, SectionHead DEF In
  <2> QED BY <1>2, <2>1
<1>5. \A i \in 1 .. n : i \in RefsBlock(doc) <=> In(i)
  <2>1. ASSUME NEW i \in 1 .. n, i \in RefsBlock(doc) PROVE In(i)
    <3>1. h < i /\ \A j \in h + 1 .. i : doc[j].kind \notin {"version", "refs", "other"}
      BY <1>3, <2>1 DEF RefsBlock
    <3>2. i \in h + 1 .. i
      BY <1>1, <1>2, <3>1
    <3> QED BY <1>1, <3>1, <3>2
  <2>2. ASSUME NEW i \in 1 .. n, In(i) PROVE i \in RefsBlock(doc)
    <3>1. h < i /\ \A j \in h + 1 .. i : j \in 1 .. n /\ In(j)
      BY <1>1, <1>2, <1>4, <2>2
    <3> QED BY <1>1, <1>3, <3>1 DEF RefsBlock
  <2> QED BY <2>1, <2>2
<1>6. RefsBlock(doc) = {i \in DOMAIN doc : In(i)}
  <2>1. RefsBlock(doc) \in SUBSET (1 .. n)
    BY <1>1 DEF RefsBlock
  <2> QED BY <1>1, <1>5, <2>1
<1>7. \A i \in RefsBlock(doc) : h < i /\ \A j \in h + 1 .. i : j \in RefsBlock(doc)
  <2> SUFFICES ASSUME NEW i \in RefsBlock(doc)
               PROVE  h < i /\ \A j \in h + 1 .. i : j \in RefsBlock(doc)
    OBVIOUS
  <2>1. i \in 1 .. n /\ In(i)
    BY <1>1, <1>6
  <2>2. h < i /\ \A j \in h + 1 .. i : In(j) /\ j \in 1 .. n
    BY <1>1, <1>2, <1>4, <2>1
  <2> QED BY <1>5, <2>2
<1> QED BY <1>1, <1>2, <1>3, <1>6, <1>7 DEF In

\* Of a document without a block Remove leaves all.
LEMMA RemovedPlain ==
    ASSUME NEW doc, Typed(doc), Plain(doc)
    PROVE  Removed(doc) = doc
<1>1. doc \in Document
  BY DEF Typed
<1>2. InBlock(doc) = {} /\ Lines(doc, "begin") = {}
  BY InBlockPlain
<1>3. Pick[doc][DOMAIN doc \ InBlock(doc)] = doc
  BY <1>1, <1>2, PickAll
<1> QED BY <1>2, <1>3 DEF Removed, RefRemoved, BlockRemoved, StripManagedBlock

\* The text without the block.
LEMMA TextLeft ==
    ASSUME NEW doc, Typed(doc), NEW b, BlockAt(doc, b)
    PROVE  /\ Cut(doc, b) = IF IsDsh THEN RemoveBlock(doc) ELSE StripManagedBlock(doc)
           /\ Cut(doc, b) \in Document /\ Len(Cut(doc, b)) = Len(doc) - 3
<1> DEFINE e == KeyAt(doc, b) + 1
           saved == {i \in InBlock(doc) : doc[i].kind = "saved"}
           lines == [i \in DOMAIN doc |-> IF i \in saved THEN Ref(doc[i].key) ELSE doc[i]]
<1>1. /\ doc \in Document /\ Len(doc) \in Nat /\ DOMAIN doc = 1 .. Len(doc)
      /\ b \in Nat \ {0} /\ b + 2 <= Len(doc)
      /\ \A i \in 1 .. Len(doc) : doc[i] \in Text /\ doc[i].key \in Nat
  BY TypedLines, BlockPlaces
<1>2. InBlock(doc) = b .. e /\ e = IF doc[b + 1].kind = "saved" THEN b + 3 ELSE b + 2
  BY <1>1, InBlockIs, BlockPlaces
<1>3. \A i \in 1 .. Len(doc) : doc[i].kind = "saved" => i = b + 1
  BY <1>1 DEF BlockAt
<1>4. e <= Len(doc)
  BY <1>1, BlockPlaces
<1> HIDE DEF e
<1>5. saved \in SUBSET {b + 1} /\ (saved = {} <=> doc[b + 1].kind # "saved")
  <2>1. \A i \in saved : i \in 1 .. Len(doc) /\ i = b + 1
    BY <1>1, <1>2, <1>3, <1>4
  <2>2. b + 1 \in InBlock(doc)
    BY <1>1, <1>2
  <2> QED BY <2>1, <2>2
<1>6. lines \in Document
  <2>1. \A i \in 1 .. Len(doc) : Ref(doc[i].key) \in Text
    BY <1>1 DEF Ref, Text, Kinds
  <2>2. lines \in [1 .. Len(doc) -> Text]
    BY <1>1, <2>1
  <2> QED BY <1>1, <2>2, IsDocument
<1>7. RemoveBlock(doc) = Pick[lines][(DOMAIN doc \ InBlock(doc)) \cup saved]
  BY DEF RemoveBlock
<1>8. ~ IsDsh => saved = {} /\ lines = doc
  <2>1. ASSUME ~ IsDsh PROVE saved = {}
    <3>1. b + 1 \in 1 .. Len(doc)
      BY <1>1
    <3> QED BY <1>5, <2>1, <3>1, TypedLines
  <2>2. saved = {} => lines = doc
    <3>1. doc = [i \in DOMAIN doc |-> doc[i]]
      BY <1>1 DEF Document
    <3> QED BY <3>1
  <2> QED BY <2>1, <2>2
<1> HIDE DEF saved
<1>9. lines = [i \in DOMAIN doc |-> IF i \in saved THEN Ref(doc[i].key) ELSE doc[i]]
  OBVIOUS
<1> HIDE DEF lines
<1>10. /\ Pick[lines][(DOMAIN doc \ InBlock(doc)) \cup saved] = Cut(doc, b)
       /\ Cut(doc, b) \in Document /\ Len(Cut(doc, b)) = Len(doc) - 3
  BY <1>1, <1>5, <1>6, <1>9, CutIs
<1>11. ~ IsDsh => (DOMAIN doc \ InBlock(doc)) \cup saved = DOMAIN doc \ InBlock(doc)
  BY <1>8
<1> QED BY <1>7, <1>8, <1>10, <1>11 DEF StripManagedBlock

\* Its lines are lines of the document, but for the parked one.
LEMMA LinesLeft ==
    ASSUME NEW doc, Typed(doc), NEW b, BlockAt(doc, b)
    PROVE  /\ DOMAIN Cut(doc, b) = 1 .. Len(doc) - 3 /\ Len(doc) - 3 \in Nat
           /\ b \in 1 .. Len(doc) - 2
           /\ \A j \in 1 .. Len(doc) - 3 :
                /\ j < b => Cut(doc, b)[j] = doc[j]
                /\ j > b => Cut(doc, b)[j] = doc[j + 3]
                /\ j = b /\ doc[b + 1].kind # "saved" => Cut(doc, b)[j] = doc[b + 3]
                /\ j = b /\ doc[b + 1].kind = "saved" => Cut(doc, b)[j] = Ref(doc[b + 1].key)
           /\ doc[b + 1].kind = "saved" => b \in 1 .. Len(doc) - 3
           /\ \A i \in 1 .. Len(doc) : (i < b \/ i > b + 3 \/ (i = b + 3 /\ doc[b + 1].kind # "saved"))
                => doc[i].kind \notin Marks
<1>1. /\ b \in Nat \ {0} /\ Len(doc) \in Nat /\ DOMAIN doc = 1 .. Len(doc) /\ b + 2 <= Len(doc)
      /\ doc[b + 1].kind = "saved" => KeyAt(doc, b) = b + 2 /\ b + 3 <= Len(doc)
      /\ doc[b + 1].kind # "saved" => KeyAt(doc, b) = b + 1
  BY TypedLines, BlockPlaces
<1>2. \A i \in 1 .. Len(doc) : /\ doc[i].kind = "begin" => i = b
                               /\ doc[i].kind = "saved" => i = b + 1
                               /\ doc[i].kind = "end" => i = KeyAt(doc, b) + 1
  BY <1>1 DEF BlockAt
<1> DEFINE n == Len(doc)
<1> HIDE DEF n
<1>3. \A i \in 1 .. n : (i < b \/ i > b + 3 \/ (i = b + 3 /\ doc[b + 1].kind # "saved"))
        => doc[i].kind \notin Marks
  BY <1>1, <1>2 DEF Marks, n
<1> QED BY <1>1, <1>3 DEF Cut, n

\* The same of a document that is known to be the cut one.
Left(C, doc, b) ==
    /\ C \in Document /\ Len(C) = Len(doc) - 3
    /\ DOMAIN C = 1 .. Len(doc) - 3 /\ Len(doc) - 3 \in Nat
    /\ b \in 1 .. Len(doc) - 2
    /\ \A j \in 1 .. Len(doc) - 3 :
         /\ j < b => C[j] = doc[j]
         /\ j > b => C[j] = doc[j + 3]
         /\ j = b /\ doc[b + 1].kind # "saved" => C[j] = doc[b + 3]
         /\ j = b /\ doc[b + 1].kind = "saved" => C[j] = Ref(doc[b + 1].key)
    /\ doc[b + 1].kind = "saved" => b \in 1 .. Len(doc) - 3

LEMMA CutLeft ==
    ASSUME NEW doc, Typed(doc), NEW b, BlockAt(doc, b)
    PROVE  Left(Cut(doc, b), doc, b)
BY TextLeft, LinesLeft DEF Left

\* It has the types, sections and no block.
LEMMA SoundLeft ==
    ASSUME NEW doc, Sound(doc), NEW b, BlockAt(doc, b)
    PROVE  Sound(Cut(doc, b)) /\ Plain(Cut(doc, b))
<1> DEFINE D == Cut(doc, b)
           n == Len(doc)
<1>1. Typed(doc) /\ D \in Document
  BY TextLeft DEF Sound
<1>2. /\ DOMAIN D = 1 .. n - 3 /\ n - 3 \in Nat /\ b \in 1 .. n - 2
      /\ \A j \in 1 .. n - 3 :
           /\ j < b => D[j] = doc[j]
           /\ j > b => D[j] = doc[j + 3]
           /\ j = b /\ doc[b + 1].kind # "saved" => D[j] = doc[b + 3]
           /\ j = b /\ doc[b + 1].kind = "saved" => D[j] = Ref(doc[b + 1].key)
      /\ doc[b + 1].kind = "saved" => b \in 1 .. n - 3
      /\ \A i \in 1 .. n : (i < b \/ i > b + 3 \/ (i = b + 3 /\ doc[b + 1].kind # "saved"))
                => doc[i].kind \notin Marks
  BY <1>1, LinesLeft
<1>3. /\ n \in Nat /\ DOMAIN doc = 1 .. n
      /\ \A i \in 1 .. n :
           /\ doc[i].kind \in KindsOf
           /\ IsDsh /\ doc[i].kind \in {"ref", "saved"} => doc[i].key # 0
  BY <1>1, TypedLines DEF Typed
<1> HIDE DEF D, n
<1>4. \A k : Ref(k).kind = "ref" /\ Ref(k).key = k
  BY DEF Ref
<1>5. ~ IsDsh => doc[b + 1].kind # "saved"
  <2>1. b + 1 \in 1 .. n
    BY <1>2, <1>3
  <2> QED BY <1>3, <2>1 DEF KindsOf
<1>6. ASSUME NEW j \in 1 .. n - 3
      PROVE  /\ D[j].kind \in KindsOf /\ D[j].kind \notin Marks
             /\ IsDsh /\ D[j].kind \in {"ref", "saved"} => D[j].key # 0
  <2>1. CASE j = b /\ doc[b + 1].kind = "saved"
    <3>1. b + 1 \in 1 .. n
      BY <1>2, <1>3
    <3> QED BY <1>2, <1>3, <1>4, <1>5, <2>1, <3>1 DEF KindsOf, Marks, Indented
  <2>2. CASE ~ (j = b /\ doc[b + 1].kind = "saved")
    <3>1. PICK i \in 1 .. n : D[j] = doc[i] /\ (i < b \/ i > b + 3 \/ (i = b + 3 /\ doc[b + 1].kind # "saved"))
      <4>1. CASE j < b
        BY <1>2, <1>3, <4>1
      <4>2. CASE j > b
        <5>1. j + 3 \in 1 .. n /\ j + 3 > b + 3
          BY <1>2, <1>3, <4>2
        <5> QED BY <1>2, <4>2, <5>1
      <4>3. CASE j = b
        <5>1. b + 3 \in 1 .. n
          BY <1>2, <1>3, <4>3
        <5> QED BY <1>2, <2>2, <4>3, <5>1
      <4> QED BY <1>2, <4>1, <4>2, <4>3
    <3> QED BY <1>2, <1>3, <3>1
  <2> QED BY <2>1, <2>2
<1>7. Typed(D) /\ Plain(D)
  BY <1>1, <1>2, <1>6 DEF Typed, Plain
<1>8. ASSUME IsDsh PROVE Sections(D)
  <2>1. /\ \A g, h \in 1 .. n : doc[g].kind = "refs" /\ doc[h].kind = "refs" => g = h
        /\ \A i \in 1 .. n : doc[i].kind \in Indented =>
             i - 1 \in 1 .. n /\ doc[i - 1].kind \in Indented \cup {"refs"}
    BY <1>3, <1>8 DEF Sound, Sections, Lines
  <2>2. doc[b].kind \in Indented /\ b \in 1 .. n
    BY <1>3 DEF BlockAt, Indented
  <2>3. b - 1 \in 1 .. n /\ doc[b - 1].kind \in Indented \cup {"refs"}
    BY <2>1, <2>2
  <2>4. ASSUME NEW g \in 1 .. n - 3, NEW h \in 1 .. n - 3, D[g].kind = "refs", D[h].kind = "refs"
        PROVE  g = h
    <3>1. \A j \in 1 .. n - 3 : D[j].kind = "refs" =>
            \/ j < b /\ doc[j].kind = "refs" /\ j \in 1 .. n
            \/ j >= b /\ doc[j + 3].kind = "refs" /\ j + 3 \in 1 .. n
      BY <1>2, <1>3, <1>4
    <3>2. g \in Nat /\ h \in Nat /\ b \in Nat
      BY <1>2
    <3>3. CASE g < b /\ h < b
      BY <2>1, <2>4, <3>1, <3>2, <3>3
    <3>4. CASE g >= b /\ h >= b
      <4>1. g + 3 = h + 3
        BY <2>1, <2>4, <3>1, <3>2, <3>4
      <4> QED BY <3>2, <4>1
    <3>5. CASE g < b /\ h >= b
      <4>1. g = h + 3
        BY <2>1, <2>4, <3>1, <3>2, <3>5
      <4> QED BY <3>2, <3>5, <4>1
    <3>6. CASE g >= b /\ h < b
      <4>1. g + 3 = h
        BY <2>1, <2>4, <3>1, <3>2, <3>6
      <4> QED BY <3>2, <3>6, <4>1
    <3> QED BY <3>2, <3>3, <3>4, <3>5, <3>6
  <2>5. ASSUME NEW j \in 1 .. n - 3, D[j].kind \in Indented
        PROVE  j - 1 \in 1 .. n - 3 /\ D[j - 1].kind \in Indented \cup {"refs"}
    <3>1. CASE j < b
      <4>1. j - 1 \in 1 .. n /\ doc[j - 1].kind \in Indented \cup {"refs"}
        BY <1>2, <1>3, <2>1, <2>5, <3>1
      <4>2. j - 1 \in 1 .. n - 3 /\ D[j - 1] = doc[j - 1]
        BY <1>2, <1>3, <3>1, <4>1
      <4> QED BY <4>1, <4>2
    <3>2. CASE j = b
      <4>1. j - 1 \in 1 .. n - 3 /\ D[j - 1] = doc[j - 1]
        BY <1>2, <1>3, <2>3, <3>2
      <4> QED BY <2>3, <3>2, <4>1
    <3>3. CASE j > b
      <4>1. D[j] = doc[j + 3] /\ j + 3 \in 1 .. n /\ j - 1 \in 1 .. n - 3 /\ (j + 3) - 1 = j + 2
        BY <1>2, <1>3, <3>3
      <4>2. doc[j + 2].kind \in Indented \cup {"refs"}
        BY <2>1, <2>5, <4>1
      <4>3. CASE j - 1 = b /\ doc[b + 1].kind = "saved"
        BY <1>2, <1>4, <4>1, <4>3 DEF Indented
      <4>4. CASE ~ (j - 1 = b /\ doc[b + 1].kind = "saved")
        <5>1. D[j - 1] = doc[(j - 1) + 3] /\ (j - 1) + 3 = j + 2
          BY <1>2, <1>3, <3>3, <4>1, <4>4
        <5> QED BY <4>1, <4>2, <5>1
      <4> QED BY <4>3, <4>4
    <3> QED BY <1>2, <3>1, <3>2, <3>3
  <2> QED BY <1>2, <2>4, <2>5 DEF Sections, Lines
<1> QED BY <1>7, <1>8 DEF Sound, D

\* The header goes that has nothing under it.
LEMMA HeaderDropped ==
    ASSUME NEW doc, Sound(doc), Plain(doc), IsDsh, NEW h \in Lines(doc, "refs")
    PROVE  /\ (\A i \in DOMAIN doc : doc[i].kind \notin Indented) =>
                DropEmptyRefs[doc] = Less(doc, h) /\ Sound(Less(doc, h)) /\ Plain(Less(doc, h))
                  /\ Lines(Less(doc, h), "refs") = {}
           /\ (\E i \in DOMAIN doc : doc[i].kind \in Indented) => DropEmptyRefs[doc] = doc
<1>1. Typed(doc) /\ Sections(doc)
  BY DEF Sound
<1>2. /\ doc \in Document /\ Len(doc) \in Nat /\ DOMAIN doc = 1 .. Len(doc)
      /\ \A i \in 1 .. Len(doc) : /\ doc[i].kind \in KindsOf
                                  /\ doc[i].kind \in {"ref", "saved"} => doc[i].key # 0
  BY <1>1, TypedLines DEF Typed
<1>3. h \in DOMAIN doc /\ Head0(doc) = h
      /\ RefsBlock(doc) = {i \in DOMAIN doc : doc[i].kind \in Indented}
  BY <1>1, SectionIs
<1>4. DropEmptyRefs[doc] = IF Lines(doc, "refs") # {} /\ RefsBlock(doc) = {}
                           THEN Pick[doc][DOMAIN doc \ {Head0(doc)}] ELSE doc
  BY <1>2 DEF DropEmptyRefs
<1>5. ASSUME \A i \in DOMAIN doc : doc[i].kind \notin Indented
      PROVE  DropEmptyRefs[doc] = Less(doc, h) /\ Sound(Less(doc, h)) /\ Plain(Less(doc, h))
               /\ Lines(Less(doc, h), "refs") = {}
  <2> DEFINE D == Less(doc, h)
             n == Len(doc)
  <2>1. Pick[doc][DOMAIN doc \ {h}] = D /\ D \in Document /\ Len(D) = n - 1
    BY <1>2, <1>3, LessIs
  <2>2. DOMAIN D = 1 .. n - 1 /\ \A j \in 1 .. n - 1 : D[j] = IF j < h THEN doc[j] ELSE doc[j + 1]
    BY DEF Less
  <2>3. \A g \in 1 .. n : doc[g].kind = "refs" => g = h
    BY <1>1, <1>2 DEF Sections, Lines
  <2> HIDE DEF D, n
  <2>4. ASSUME NEW j \in 1 .. n - 1
        PROVE  \E i \in 1 .. n : i # h /\ D[j] = doc[i]
    <3>1. n \in Nat /\ h \in 1 .. n
      BY <1>2, <1>3 DEF n
    <3>2. CASE j < h
      <4>1. j \in 1 .. n /\ j # h
        BY <3>1, <3>2
      <4> QED BY <2>2, <3>2, <4>1
    <3>3. CASE ~ (j < h)
      <4>1. j + 1 \in 1 .. n /\ j + 1 # h
        BY <3>1, <3>3
      <4> QED BY <2>2, <3>3, <4>1
    <3> QED BY <3>2, <3>3
  <2>5. \A j \in 1 .. n - 1 :
          /\ D[j].kind \in KindsOf /\ D[j].kind \notin Indented /\ D[j].kind # "refs"
          /\ D[j].kind \notin Marks
          /\ D[j].kind \in {"ref", "saved"} => D[j].key # 0
    BY <1>2, <1>5, <2>3, <2>4 DEF n, Plain
  <2>6. Sound(D) /\ Plain(D) /\ Lines(D, "refs") = {}
    BY <2>1, <2>2, <2>5 DEF Sound, Typed, Sections, Plain, Lines
  <2>7. RefsBlock(doc) = {}
    BY <1>3, <1>5
  <2> QED BY <1>3, <1>4, <2>1, <2>6, <2>7 DEF D
<1>6. ASSUME \E i \in DOMAIN doc : doc[i].kind \in Indented PROVE DropEmptyRefs[doc] = doc
  BY <1>3, <1>4, <1>6
<1> QED BY <1>5, <1>6

LEMMA NoHeader ==
    ASSUME NEW doc \in Document, Lines(doc, "refs") = {}
    PROVE  DropEmptyRefs[doc] = doc
BY DEF DropEmptyRefs

\* What Remove gives back of a document with a block.
LEMMA RemovedIs ==
    ASSUME NEW doc, Sound(doc), NEW b, BlockAt(doc, b)
    PROVE  /\ Removed(doc) = IF Lone(doc, b) THEN Less(Cut(doc, b), b - 1) ELSE Cut(doc, b)
           /\ Sound(Removed(doc)) /\ Plain(Removed(doc))
           /\ Lone(doc, b) => Lines(Removed(doc), "refs") = {}
<1> DEFINE D == Cut(doc, b)
           n == Len(doc)
<1>1. /\ Typed(doc) /\ Sound(D) /\ Plain(D) /\ D \in Document
      /\ D = IF IsDsh THEN RemoveBlock(doc) ELSE StripManagedBlock(doc)
  BY SoundLeft, TextLeft DEF Sound
<1>2. Removed(doc) = IF IsDsh THEN DropEmptyRefs[D] ELSE D
  <2>1. b \in Lines(doc, "begin")
    BY DEF BlockAt, Lines
  <2> QED BY <1>1, <2>1 DEF Removed, RefRemoved, BlockRemoved
<1>3. CASE ~ IsDsh
  BY <1>1, <1>2, <1>3 DEF Lone
<1>4. ASSUME IsDsh
      PROVE  /\ DropEmptyRefs[D] = IF Lone(doc, b) THEN Less(D, b - 1) ELSE D
             /\ Sound(DropEmptyRefs[D]) /\ Plain(DropEmptyRefs[D])
             /\ Lone(doc, b) => Lines(DropEmptyRefs[D], "refs") = {}
  <2>1. /\ DOMAIN D = 1 .. n - 3 /\ n - 3 \in Nat /\ b \in 1 .. n - 2 /\ n \in Nat
        /\ \A j \in 1 .. n - 3 :
             /\ j < b => D[j] = doc[j]
             /\ j > b => D[j] = doc[j + 3]
             /\ j = b /\ doc[b + 1].kind # "saved" => D[j] = doc[b + 3]
             /\ j = b /\ doc[b + 1].kind = "saved" => D[j] = Ref(doc[b + 1].key)
        /\ doc[b + 1].kind = "saved" => b \in 1 .. n - 3
        /\ DOMAIN doc = 1 .. n
    BY <1>1, LinesLeft, TypedLines
  <2>2. /\ b - 1 \in 1 .. n /\ doc[b - 1].kind \in Indented \cup {"refs"}
        /\ Typed(D) /\ Sections(D)
    <3>1. doc[b].kind \in Indented /\ b \in DOMAIN doc
      BY DEF BlockAt, Indented
    <3>2. Sections(doc) /\ Sections(D) /\ Typed(D)
      BY <1>1, <1>4 DEF Sound
    <3> QED BY <2>1, <3>1, <3>2 DEF Sections
  <2>3. b - 1 \in 1 .. n - 3 /\ D[b - 1] = doc[b - 1]
    BY <2>1, <2>2
  <2> HIDE DEF D, n
  <2>4. CASE Lone(doc, b)
    <3>1. b - 1 \in Lines(D, "refs")
      BY <2>1, <2>3, <2>4 DEF Lone, Lines
    <3>2. /\ Head0(D) = b - 1 /\ \A i \in RefsBlock(D) : b - 1 < i /\ \A j \in (b - 1) + 1 .. i : j \in RefsBlock(D)
          /\ RefsBlock(D) = {i \in DOMAIN D : D[i].kind \in Indented}
      BY <1>4, <2>2, <3>1, SectionIs
    <3>3. b \notin RefsBlock(D)
      <4>1. ASSUME b \in 1 .. n - 3 PROVE D[b].kind \notin Indented
        <5>1. b + 3 \in DOMAIN doc /\ D[b] = doc[b + 3]
          BY <2>1, <2>4, <4>1 DEF Lone
        <5> QED BY <2>4, <5>1 DEF Lone
      <4> QED BY <2>1, <3>2, <4>1
    <3>4. RefsBlock(D) = {}
      <4> SUFFICES ASSUME NEW i \in RefsBlock(D) PROVE FALSE
        OBVIOUS
      <4>1. b - 1 < i /\ i \in Nat /\ b \in Nat
        BY <2>1, <3>2
      <4>2. b \in (b - 1) + 1 .. i
        BY <4>1
      <4> QED BY <3>2, <3>3, <4>2
    <3>5. \A i \in DOMAIN D : D[i].kind \notin Indented
      BY <3>2, <3>4
    <3> QED BY <1>1, <1>4, <2>4, <3>1, <3>5, HeaderDropped DEF D
  <2>5. CASE ~ Lone(doc, b)
    <3>1. DropEmptyRefs[D] = D
      <4>1. CASE Lines(D, "refs") = {}
        BY <1>1, <4>1, NoHeader DEF D
      <4>2. CASE Lines(D, "refs") # {}
        <5>1. PICK h \in Lines(D, "refs") : TRUE
          BY <4>2
        <5>2. \E i \in DOMAIN D : D[i].kind \in Indented
          <6>1. CASE doc[b - 1].kind # "refs"
            BY <2>1, <2>2, <2>3, <6>1
          <6>2. CASE doc[b + 1].kind = "saved"
            BY <2>1, <6>2 DEF Ref, Indented
          <6>3. CASE b + 3 \in DOMAIN doc /\ doc[b + 3].kind \in Indented /\ doc[b + 1].kind # "saved"
            <7>1. b \in 1 .. n - 3 /\ D[b] = doc[b + 3]
              BY <2>1, <6>3
            <7> QED BY <2>1, <6>3, <7>1
          <6> QED BY <1>4, <2>5, <6>1, <6>2, <6>3 DEF Lone
        <5> QED BY <1>1, <1>4, <5>1, <5>2, HeaderDropped DEF D
      <4> QED BY <4>1, <4>2
    <3> QED BY <1>1, <2>5, <3>1 DEF D
  <2> QED BY <2>4, <2>5 DEF D
<1> QED BY <1>2, <1>3, <1>4

\* Remove leaves a sound document, and no block.
LEMMA RemovedSound ==
    ASSUME NEW doc, Sound(doc)
    PROVE  Sound(Removed(doc)) /\ Plain(Removed(doc)) /\ Removed(Removed(doc)) = Removed(doc)
<1>1. Sound(Removed(doc)) /\ Plain(Removed(doc))
  <2>1. CASE Plain(doc)
    BY <2>1, RemovedPlain DEF Sound
  <2>2. CASE \E b \in DOMAIN doc : BlockAt(doc, b)
    BY <2>2, RemovedIs
  <2> QED BY <2>1, <2>2 DEF Sound
<1> HIDE DEF Removed
<1> QED BY <1>1, RemovedPlain DEF Sound

-----------------------------------------------------------------------------
(* What Apply writes. *)

\* Two documents in a row.
Join(c, d) == c \o d

LEMMA Joined ==
    ASSUME NEW c \in Document, NEW d \in Document
    PROVE  /\ Join(c, d) \in Document /\ Len(Join(c, d)) = Len(c) + Len(d)
           /\ \A i \in 1 .. Len(c) + Len(d) :
                Join(c, d)[i] = IF i <= Len(c) THEN c[i] ELSE d[i - Len(c)]
BY DEF Document, Join

LEMMA FewLines ==
    ASSUME NEW x \in Text, NEW y \in Text
    PROVE  /\ <<>> \in Document /\ Len(<<>>) = 0
           /\ <<x>> \in Document /\ Len(<<x>>) = 1 /\ <<x>>[1] = x
           /\ <<x, y>> \in Document /\ Len(<<x, y>>) = 2 /\ <<x, y>>[1] = x /\ <<x, y>>[2] = y
BY DEF Document

\* The lines of a block.
Width(s) == IF s = 0 THEN 3 ELSE 4
Key(k)   == [kind |-> KeyKind, key |-> k]
Block(k, s) ==
    <<Line("begin")>> \o (IF s = 0 THEN <<>> ELSE <<Saved(s)>>) \o <<Key(k), Line("end")>>

LEMMA BlockLines ==
    ASSUME NEW k \in Nat, NEW s \in Nat
    PROVE  /\ Block(k, s) \in Document /\ Len(Block(k, s)) = Width(s)
           /\ Block(k, s)[1] = Line("begin")
           /\ s # 0 => Block(k, s)[2] = Saved(s)
           /\ Block(k, s)[Width(s) - 1] = Key(k) /\ Block(k, s)[Width(s)] = Line("end")
<1> DEFINE b == <<Line("begin")>>
           S == IF s = 0 THEN <<>> ELSE <<Saved(s)>>
           E == <<Key(k), Line("end")>>
<1>1. Line("begin") \in Text /\ Line("end") \in Text /\ Saved(s) \in Text /\ Key(k) \in Text
  BY DEF Line, Saved, Key, KeyKind, Text, Kinds
<1>2. b \in Document /\ Len(b) = 1 /\ b[1] = Line("begin")
  BY <1>1, FewLines
<1>3. S \in Document /\ Len(S) = Width(s) - 3 /\ (s # 0 => S[1] = Saved(s))
  <2>1. CASE s = 0
    BY <1>1, <2>1 DEF Width, Document
  <2>2. CASE s # 0
    BY <1>1, <2>2 DEF Width, Document
  <2> QED BY <2>1, <2>2
<1>4. E \in Document /\ Len(E) = 2 /\ E[1] = Key(k) /\ E[2] = Line("end")
  BY <1>1, FewLines
<1>5. Block(k, s) = Join(Join(b, S), E)
  BY DEF Block, Join
<1>6. Width(s) \in {3, 4} /\ (s # 0 => Width(s) = 4)
  BY DEF Width
<1> HIDE DEF b, S, E
<1> DEFINE F == Join(b, S)
<1>7. /\ F \in Document /\ Len(F) = Width(s) - 2 /\ F[1] = Line("begin")
      /\ s # 0 => F[2] = Saved(s)
  <2>1. /\ F \in Document /\ Len(F) = 1 + (Width(s) - 3)
        /\ \A i \in 1 .. 1 + (Width(s) - 3) : F[i] = IF i <= 1 THEN b[i] ELSE S[i - 1]
    <3>1. /\ F \in Document /\ Len(F) = Len(b) + Len(S)
          /\ \A i \in 1 .. Len(b) + Len(S) : F[i] = IF i <= Len(b) THEN b[i] ELSE S[i - Len(b)]
      BY <1>2, <1>3, Joined
    <3> QED BY <1>2, <1>3, <3>1
  <2>2. F[1] = b[1]
    BY <1>6, <2>1
  <2>3. s # 0 => F[2] = S[1]
    BY <1>6, <2>1
  <2> HIDE DEF F
  <2> QED BY <1>2, <1>3, <1>6, <2>1, <2>2, <2>3
<1> HIDE DEF F
<1>8. /\ Join(F, E) \in Document /\ Len(Join(F, E)) = (Width(s) - 2) + 2
      /\ \A i \in 1 .. (Width(s) - 2) + 2 :
           Join(F, E)[i] = IF i <= Width(s) - 2 THEN F[i] ELSE E[i - (Width(s) - 2)]
  <2>1. /\ Join(F, E) \in Document /\ Len(Join(F, E)) = Len(F) + Len(E)
        /\ \A i \in 1 .. Len(F) + Len(E) :
             Join(F, E)[i] = IF i <= Len(F) THEN F[i] ELSE E[i - Len(F)]
    BY <1>4, <1>7, Joined
  <2> QED BY <1>4, <1>7, <2>1
<1> DEFINE G == Join(F, E)
<1>9. G = Block(k, s)
  BY <1>5 DEF F
<1> HIDE DEF G
<1>10. /\ \A i \in 1 .. (Width(s) - 2) + 2 :
           G[i] = IF i <= Width(s) - 2 THEN F[i] ELSE E[i - (Width(s) - 2)]
       /\ G \in Document /\ Len(G) = Width(s)
  BY <1>6, <1>8 DEF G
<1>11. G[1] = F[1] /\ (s # 0 => G[2] = F[2])
  BY <1>6, <1>10
<1>12. G[Width(s) - 1] = E[1] /\ G[Width(s)] = E[2]
  BY <1>6, <1>10
<1> QED BY <1>4, <1>7, <1>9, <1>10, <1>11, <1>12

\* A text with a block in it, at a line.
Blocked(doc, at, k, s) ==
    [j \in 1 .. Len(doc) + Width(s) |->
       IF j < at THEN doc[j]
       ELSE IF j = at THEN Line("begin")
       ELSE IF j = at + Width(s) - 2 THEN Key(k)
       ELSE IF j = at + Width(s) - 1 THEN Line("end")
       ELSE IF j < at + Width(s) THEN Saved(s)
       ELSE doc[j - Width(s)]]

\* The texts before and from a line.
Halves(doc, at, p, q) ==
    /\ at \in 1 .. Len(doc) + 1 /\ p \in Document /\ q \in Document
    /\ Len(p) = at - 1 /\ \A i \in 1 .. at - 1 : p[i] = doc[i]
    /\ Len(q) = Len(doc) - (at - 1)
    /\ \A i \in 1 .. Len(doc) - (at - 1) : q[i] = doc[at - 1 + i]

LEMMA BlockedIs ==
    ASSUME NEW doc \in Document, NEW at, NEW p, NEW q, Halves(doc, at, p, q),
           NEW k \in Nat, NEW s \in Nat
    PROVE  /\ Join(Join(p, Block(k, s)), q) = Blocked(doc, at, k, s)
           /\ Blocked(doc, at, k, s) \in Document
<1>0. /\ at \in 1 .. Len(doc) + 1 /\ p \in Document /\ q \in Document
      /\ Len(p) = at - 1 /\ \A i \in 1 .. at - 1 : p[i] = doc[i]
      /\ Len(q) = Len(doc) - (at - 1)
      /\ \A i \in 1 .. Len(doc) - (at - 1) : q[i] = doc[at - 1 + i]
  BY DEF Halves
<1> DEFINE B == Block(k, s)
           w == Width(s)
           n == Len(doc)
           F == Join(p, B)
           G == Join(F, q)
           D == Blocked(doc, at, k, s)
<1>1. /\ B \in Document /\ Len(B) = w /\ B[1] = Line("begin") /\ (s # 0 => B[2] = Saved(s))
      /\ B[w - 1] = Key(k) /\ B[w] = Line("end")
  BY <1>0, BlockLines
<1>2. n \in Nat /\ \A i \in 1 .. n : doc[i] \in Text
  BY <1>0, DocumentLines
<1>3. w \in {3, 4} /\ (s # 0 <=> w = 4)
  BY DEF Width
<1>4. D = [j \in 1 .. n + w |->
       IF j < at THEN doc[j]
       ELSE IF j = at THEN Line("begin")
       ELSE IF j = at + w - 2 THEN Key(k)
       ELSE IF j = at + w - 1 THEN Line("end")
       ELSE IF j < at + w THEN Saved(s)
       ELSE doc[j - w]]
  BY DEF Blocked
<1>5. Line("begin") \in Text /\ Line("end") \in Text /\ Saved(s) \in Text /\ Key(k) \in Text
  BY DEF Line, Saved, Key, KeyKind, Text, Kinds
<1> HIDE DEF B, w, n, D
<1>6. D \in [1 .. n + w -> Text] /\ n + w \in Nat
  <2>1. n + w \in Nat /\ at \in Nat \ {0} /\ at <= n + 1
    BY <1>0, <1>2, <1>3 DEF n
  <2>2. ASSUME NEW j \in 1 .. n + w PROVE D[j] \in Text
    <3>1. CASE j < at
      <4>1. j \in 1 .. n
        BY <1>2, <2>1, <3>1
      <4> QED BY <1>2, <1>4, <3>1, <4>1
    <3>2. CASE j >= at + w
      <4>1. j - w \in 1 .. n
        BY <1>2, <1>3, <2>1, <3>2
      <4>2. ~ (j < at) /\ j # at /\ j # at + w - 2 /\ j # at + w - 1 /\ ~ (j < at + w)
        BY <1>3, <2>1, <3>2
      <4> QED BY <1>2, <1>4, <4>1, <4>2
    <3>3. CASE ~ (j < at) /\ ~ (j >= at + w)
      <4>1. j < at + w
        BY <1>3, <2>1, <3>3
      <4> QED BY <1>4, <1>5, <3>3, <4>1
    <3> QED BY <3>1, <3>2, <3>3
  <2> QED BY <1>4, <2>1, <2>2
<1>7. D \in Document /\ Len(D) = n + w
  BY <1>0, <1>6, IsDocument
<1>8. /\ F \in Document /\ Len(F) = (at - 1) + w
      /\ \A i \in 1 .. (at - 1) + w : F[i] = IF i <= at - 1 THEN p[i] ELSE B[i - (at - 1)]
  <2>1. /\ F \in Document /\ Len(F) = Len(p) + Len(B)
        /\ \A i \in 1 .. Len(p) + Len(B) : F[i] = IF i <= Len(p) THEN p[i] ELSE B[i - Len(p)]
    BY <1>0, <1>1, Joined
  <2> QED BY <1>0, <1>1, <2>1
<1> HIDE DEF F
<1>9. /\ G \in Document /\ Len(G) = ((at - 1) + w) + (n - (at - 1))
      /\ \A i \in 1 .. ((at - 1) + w) + (n - (at - 1)) :
           G[i] = IF i <= (at - 1) + w THEN F[i] ELSE q[i - ((at - 1) + w)]
  <2>1. /\ G \in Document /\ Len(G) = Len(F) + Len(q)
        /\ \A i \in 1 .. Len(F) + Len(q) : G[i] = IF i <= Len(F) THEN F[i] ELSE q[i - Len(F)]
    BY <1>0, <1>8, Joined
  <2> QED BY <1>0, <1>8, <2>1 DEF n
<1> HIDE DEF G
<1>10. ((at - 1) + w) + (n - (at - 1)) = n + w /\ at \in Nat \ {0} /\ at <= n + 1
  BY <1>0, <1>2, <1>3 DEF n
<1>11. ASSUME NEW i \in 1 .. n + w PROVE G[i] = D[i]
  <2>1. CASE i < at
    <3>1. i <= at - 1 /\ i <= (at - 1) + w /\ i \in 1 .. at - 1 /\ i \in 1 .. (at - 1) + w
      BY <1>0, <1>3, <1>10, <2>1
    <3>2. G[i] = p[i] /\ p[i] = doc[i]
      BY <1>0, <1>8, <1>9, <1>10, <3>1
    <3> QED BY <1>0, <1>4, <2>1, <3>2
  <2>2. CASE at <= i /\ i <= (at - 1) + w
    <3>1. i \in 1 .. (at - 1) + w /\ ~ (i <= at - 1)
      BY <1>0, <1>3, <1>10, <2>2
    <3>2. G[i] = B[i - (at - 1)]
      BY <1>0, <1>8, <1>9, <1>10, <2>2, <3>1
    <3>3. CASE i = at
      <4>1. i - (at - 1) = 1 /\ ~ (i < at)
        BY <1>0, <1>10, <3>3
      <4> QED BY <1>0, <1>1, <1>4, <3>2, <3>3, <4>1
    <3>4. CASE i = at + w - 2
      <4>1. i - (at - 1) = w - 1 /\ ~ (i < at) /\ i # at
        BY <1>0, <1>3, <1>10, <3>4
      <4> QED BY <1>0, <1>1, <1>4, <3>2, <3>4, <4>1
    <3>5. CASE i = at + w - 1
      <4>1. i - (at - 1) = w /\ ~ (i < at) /\ i # at /\ i # at + w - 2
        BY <1>0, <1>3, <1>10, <3>5
      <4> QED BY <1>0, <1>1, <1>4, <3>2, <3>5, <4>1
    <3>6. CASE i \notin {at, at + w - 2, at + w - 1}
      <4>1. s # 0 /\ i - (at - 1) = 2 /\ i < at + w /\ ~ (i < at)
        BY <1>0, <1>3, <1>10, <2>2, <3>6
      <4>2. i # at /\ i # at + w - 2 /\ i # at + w - 1
        BY <1>0, <3>6
      <4> QED BY <1>0, <1>1, <1>4, <3>2, <4>1, <4>2
    <3> QED BY <1>0, <3>3, <3>4, <3>5, <3>6
  <2>3. CASE (at - 1) + w < i
    <3>1. ~ (i <= (at - 1) + w) /\ i - ((at - 1) + w) \in 1 .. n - (at - 1)
          /\ at - 1 + (i - ((at - 1) + w)) = i - w
      BY <1>0, <1>2, <1>3, <1>10, <2>3
    <3>2. G[i] = q[i - ((at - 1) + w)]
      BY <1>0, <1>9, <1>10, <3>1
    <3>3. q[i - ((at - 1) + w)] = doc[i - w]
      BY <1>0, <3>1 DEF n
    <3>4. ~ (i < at) /\ i # at /\ i # at + w - 2 /\ i # at + w - 1 /\ ~ (i < at + w)
      BY <1>0, <1>3, <1>10, <2>3
    <3> QED BY <1>0, <1>4, <3>2, <3>3, <3>4
  <2> QED BY <1>0, <1>3, <1>10, <2>1, <2>2, <2>3
<1>12. G = D
  BY <1>0, <1>7, <1>9, <1>10, <1>11, SameDocument
<1> QED BY <1>0, <1>7, <1>12 DEF G, F, B, D

\* The lines of a text with a block in it.
Around(A, doc, at, k, s) ==
    LET w == Width(s)
    IN  /\ A \in Document /\ Len(A) = Len(doc) + w /\ DOMAIN A = 1 .. Len(doc) + w
        /\ \A i \in 1 .. Len(doc) + w :
             /\ i < at => i \in 1 .. Len(doc) /\ A[i] = doc[i]
             /\ i >= at + w => i - w \in 1 .. Len(doc) /\ i - w >= at /\ A[i] = doc[i - w]
             /\ i = at => A[i] = Line("begin")
             /\ i = at + w - 1 => A[i] = Line("end")
             /\ i = at + w - 2 => A[i] = Key(k)
             /\ i = at + 1 /\ s # 0 => A[i] = Saved(s)

LEMMA BlockedLines ==
    ASSUME NEW doc \in Document, NEW at \in 1 .. Len(doc) + 1, NEW k \in Nat, NEW s \in Nat
    PROVE  Around(Blocked(doc, at, k, s), doc, at, k, s)
<1> DEFINE w == Width(s)
           A == Blocked(doc, at, k, s)
<1> DEFINE n == Len(doc)
<1>1. n \in Nat /\ \A i \in 1 .. n : doc[i] \in Text
  BY DocumentLines
<1>2. w \in {3, 4} /\ (s # 0 => w = 4) /\ (s = 0 => w = 3)
  BY DEF Width
<1>3. A = [j \in 1 .. n + w |->
       IF j < at THEN doc[j]
       ELSE IF j = at THEN Line("begin")
       ELSE IF j = at + w - 2 THEN Key(k)
       ELSE IF j = at + w - 1 THEN Line("end")
       ELSE IF j < at + w THEN Saved(s)
       ELSE doc[j - w]]
  BY DEF Blocked
<1>4. Line("begin") \in Text /\ Line("end") \in Text /\ Saved(s) \in Text /\ Key(k) \in Text
  BY DEF Line, Saved, Key, KeyKind, Text, Kinds
<1>5. at \in Nat \ {0} /\ at <= n + 1
  BY <1>1
<1> HIDE DEF n, w, A
<1>6. A \in [1 .. n + w -> Text] /\ n + w \in Nat
  BY <1>1, <1>2, <1>3, <1>4, <1>5
<1>7. A \in Document /\ Len(A) = n + w
  BY <1>6, IsDocument
<1>12. ASSUME NEW i \in 1 .. n + w
       PROVE  /\ i < at => i \in 1 .. n /\ A[i] = doc[i]
              /\ i >= at + w => i - w \in 1 .. n /\ i - w >= at /\ A[i] = doc[i - w]
              /\ i = at => A[i] = Line("begin")
              /\ i = at + w - 1 => A[i] = Line("end")
              /\ i = at + w - 2 => A[i] = Key(k)
              /\ i = at + 1 /\ s # 0 => A[i] = Saved(s)
  <2>1. ASSUME i < at PROVE i \in 1 .. n /\ A[i] = doc[i]
    BY <1>1, <1>2, <1>3, <1>5, <2>1
  <2>2. ASSUME i >= at + w PROVE i - w \in 1 .. n /\ i - w >= at /\ A[i] = doc[i - w]
    <3>1. /\ i - w \in 1 .. n /\ i - w >= at
          /\ ~ (i < at) /\ i # at /\ i # at + w - 2 /\ i # at + w - 1 /\ ~ (i < at + w)
      BY <1>1, <1>2, <1>5, <2>2
    <3> QED BY <1>3, <3>1
  <2>3. i = at => A[i] = Line("begin")
    BY <1>3, <1>5
  <2>4. i = at + w - 1 => A[i] = Line("end")
    BY <1>2, <1>3, <1>5
  <2>5. i = at + w - 2 => A[i] = Key(k)
    BY <1>2, <1>3, <1>5
  <2>6. i = at + 1 /\ s # 0 => A[i] = Saved(s)
    BY <1>2, <1>3, <1>5
  <2> QED BY <2>1, <2>2, <2>3, <2>4, <2>5, <2>6
<1> QED BY <1>3, <1>7, <1>12 DEF n, w, A, Around

\* A sound text without a block is sound with one.
LEMMA BlockedSound ==
    ASSUME NEW doc, Sound(doc), Plain(doc), NEW at \in 1 .. Len(doc) + 1,
           NEW k \in Nat, k # 0, NEW s \in Nat, s # 0 => IsDsh,
           IsDsh => at - 1 \in 1 .. Len(doc) /\ doc[at - 1].kind \in Indented \cup {"refs"}
    PROVE  LET A == Blocked(doc, at, k, s)
           IN  /\ Sound(A) /\ BlockAt(A, at) /\ KeyAt(A, at) = at + Width(s) - 2
               /\ Lines(doc, KeyKind) = {} => Lines(A, KeyKind) = {KeyAt(A, at)}
<1> DEFINE A == Blocked(doc, at, k, s)
           n == Len(doc)
           w == Width(s)
<1>1. /\ doc \in Document /\ n \in Nat /\ DOMAIN doc = 1 .. n
      /\ \A i \in 1 .. n :
           /\ doc[i].kind \in KindsOf /\ doc[i].kind \notin Marks
           /\ IsDsh /\ doc[i].kind \in {"ref", "saved"} => doc[i].key # 0
  BY TypedLines DEF Sound, Typed, Plain
<1>0. /\ A \in Document /\ Len(A) = n + w /\ DOMAIN A = 1 .. n + w
      /\ \A i \in 1 .. n + w :
           /\ i < at => i \in 1 .. n /\ A[i] = doc[i]
           /\ i >= at + w => i - w \in 1 .. n /\ i - w >= at /\ A[i] = doc[i - w]
           /\ i = at => A[i] = Line("begin")
           /\ i = at + w - 1 => A[i] = Line("end")
           /\ i = at + w - 2 => A[i] = Key(k)
           /\ i = at + 1 /\ s # 0 => A[i] = Saved(s)
  <2>1. Around(A, doc, at, k, s)
    BY <1>1, BlockedLines
  <2> HIDE DEF A
  <2> QED BY <2>1 DEF Around
<1>3. /\ w \in {3, 4} /\ at \in Nat \ {0} /\ at <= n + 1
      /\ IsDsh => at - 1 \in 1 .. n /\ doc[at - 1].kind \in Indented \cup {"refs"}
      /\ s # 0 => w = 4
      /\ s = 0 => w = 3
  BY <1>1 DEF Width
<1> HIDE DEF n, w, A
<1>2. /\ DOMAIN A = 1 .. n + w
      /\ \A i \in 1 .. n + w :
           /\ i < at => i \in 1 .. n /\ A[i] = doc[i]
           /\ i >= at + w => i - w \in 1 .. n /\ i - w >= at /\ A[i] = doc[i - w]
      /\ A[at] = Line("begin") /\ A[at + w - 1] = Line("end") /\ A[at + w - 2] = Key(k)
      /\ s # 0 => A[at + 1] = Saved(s)
      /\ s = 0 => A[at + 1] = Key(k)
  <2>1. /\ at \in 1 .. n + w /\ at + w - 1 \in 1 .. n + w /\ at + w - 2 \in 1 .. n + w
        /\ at + 1 \in 1 .. n + w /\ (s = 0 => at + w - 2 = at + 1)
    <3>1. n \in Nat /\ at \in Nat \ {0} /\ at <= n + 1
      BY <1>1, <1>3
    <3>2. CASE w = 3
      BY <3>1, <3>2
    <3>3. CASE w = 4
      BY <1>3, <3>1, <3>3
    <3> QED BY <1>3, <3>2, <3>3
  <2> QED BY <1>0, <2>1
<1>4. /\ Line("begin").kind = "begin" /\ Line("end").kind = "end"
      /\ Saved(s).kind = "saved" /\ Saved(s).key = s
      /\ Key(k).kind = KeyKind /\ Key(k).key = k
  BY DEF Line, Saved, Key
<1>5. KeyKind \in KindsOf /\ KeyKind \notin Marks /\ {"begin", "end"} \subseteq KindsOf
      /\ (IsDsh => "saved" \in KindsOf /\ KeyKind \in Indented)
  BY DEF KeyKind, KindsOf, Marks, Indented
\* Each line is of the text or of the block.
<1>6. ASSUME NEW i \in 1 .. n + w
      PROVE  \/ i < at \/ i >= at + w
             \/ i = at \/ i = at + w - 1 \/ i = at + w - 2
             \/ s # 0 /\ i = at + 1
  BY <1>1, <1>3
<1>7. ASSUME NEW i \in 1 .. n + w
      PROVE  /\ i < at \/ i >= at + w => \E j \in 1 .. n : A[i] = doc[j]
             /\ A[i].kind \in KindsOf
             /\ IsDsh /\ A[i].kind \in {"ref", "saved"} => A[i].key # 0
             /\ A[i].kind = "begin" => i = at
             /\ A[i].kind = "saved" => i = at + 1
             /\ A[i].kind = "end" => i = at + w - 1
  <2>1. CASE i < at \/ i >= at + w
    <3>1. PICK j \in 1 .. n : A[i] = doc[j]
      BY <1>2, <2>1
    <3> QED BY <1>1, <3>1 DEF Marks
  <2>2. CASE i = at
    BY <1>2, <1>3, <1>4, <1>5, <2>2
  <2>3. CASE i = at + w - 1
    BY <1>2, <1>3, <1>4, <1>5, <2>3
  <2>4. CASE i = at + w - 2
    <3>1. ~ (i < at \/ i >= at + w)
      BY <1>3, <2>4
    <3>2. A[i].kind = KeyKind /\ A[i].key # 0
      BY <1>2, <1>4, <2>4
    <3> QED BY <1>5, <3>1, <3>2 DEF Marks
  <2>5. CASE s # 0 /\ i = at + 1
    <3>1. ~ (i < at \/ i >= at + w)
      BY <1>3, <2>5
    <3>2. A[i].kind = "saved" /\ A[i].key # 0
      BY <1>2, <1>4, <2>5
    <3> QED BY <1>5, <2>5, <3>1, <3>2
  <2> QED BY <1>6, <2>1, <2>2, <2>3, <2>4, <2>5
<1>8. Typed(A)
  BY <1>0, <1>2, <1>7 DEF Typed
<1>9. KeyAt(A, at) = at + w - 2
  <2>1. CASE s = 0
    <3>1. A[at + 1].kind # "saved" /\ w = 3
      BY <1>2, <1>3, <1>4, <1>5, <2>1 DEF Marks
    <3> QED BY <1>3, <3>1 DEF KeyAt
  <2>2. CASE s # 0
    <3>1. A[at + 1].kind = "saved" /\ w = 4
      BY <1>2, <1>3, <1>4, <2>2
    <3> QED BY <1>3, <3>1 DEF KeyAt
  <2> QED BY <2>1, <2>2
<1>10. BlockAt(A, at)
  <2>1. /\ at \in 1 .. n + w /\ at + 2 \in 1 .. n + w /\ at + w - 2 + 1 \in 1 .. n + w
        /\ at + w - 2 + 1 = at + w - 1
    BY <1>1, <1>3
  <2>2. /\ A[at].kind = "begin" /\ A[at + w - 2 + 1].kind = "end"
        /\ A[at + w - 2].kind = KeyKind /\ A[at + w - 2].key # 0
    BY <1>2, <1>4, <2>1
  <2>3. \A i \in DOMAIN A : /\ A[i].kind = "begin" => i = at
                            /\ A[i].kind = "saved" => i = at + 1
                            /\ A[i].kind = "end" => i = at + w - 2 + 1
    BY <1>2, <1>7, <2>1
  <2> QED BY <1>2, <1>9, <2>1, <2>2, <2>3 DEF BlockAt
<1>11. ASSUME IsDsh PROVE Sections(A)
  <2>1. /\ \A g, h \in 1 .. n : doc[g].kind = "refs" /\ doc[h].kind = "refs" => g = h
        /\ \A i \in 1 .. n : doc[i].kind \in Indented =>
             i - 1 \in 1 .. n /\ doc[i - 1].kind \in Indented \cup {"refs"}
    BY <1>1, <1>11 DEF Sound, Sections, Lines
  <2>2. "refs" \notin Indented /\ {"begin", "saved", "end", KeyKind} \subseteq Indented
    BY <1>5, <1>11 DEF Indented
  <2>3. ASSUME NEW i \in 1 .. n + w, A[i].kind = "refs"
        PROVE  \E j \in 1 .. n : doc[j].kind = "refs" /\ i = IF j < at THEN j ELSE j + w
    <3>1. i < at \/ i >= at + w
      BY <1>2, <1>4, <1>6, <2>2, <2>3
    <3>2. i < at => i \in 1 .. n /\ doc[i].kind = "refs"
      BY <1>2, <2>3
    <3>3. i >= at + w => /\ i - w \in 1 .. n /\ doc[i - w].kind = "refs"
                         /\ ~ (i - w < at) /\ i = (i - w) + w
      BY <1>1, <1>2, <1>3, <2>3
    <3> QED BY <3>1, <3>2, <3>3
  <2>4. \A g, h \in 1 .. n + w : A[g].kind = "refs" /\ A[h].kind = "refs" => g = h
    BY <2>1, <2>3
  <2>5. ASSUME NEW i \in 1 .. n + w, A[i].kind \in Indented
        PROVE  i - 1 \in 1 .. n + w /\ A[i - 1].kind \in Indented \cup {"refs"}
    <3>1. CASE i < at
      <4>1. i - 1 \in 1 .. n /\ doc[i - 1].kind \in Indented \cup {"refs"}
        BY <1>2, <2>1, <2>5, <3>1
      <4>2. i - 1 \in 1 .. n + w /\ i - 1 < at
        BY <1>1, <1>3, <3>1, <4>1
      <4> QED BY <1>2, <4>1, <4>2
    <3>2. CASE i = at
      <4>1. i - 1 \in 1 .. n + w /\ i - 1 < at /\ i - 1 = at - 1
        BY <1>1, <1>3, <1>11, <3>2
      <4> QED BY <1>2, <1>3, <1>11, <4>1
    <3>3. CASE at < i /\ i <= at + w
      <4>1. i - 1 \in 1 .. n + w /\ ~ (i - 1 < at) /\ ~ (i - 1 >= at + w)
        BY <1>1, <1>3, <3>3
      <4>2. A[i - 1].kind \in {"begin", "saved", "end", KeyKind}
        BY <1>2, <1>4, <1>6, <4>1
      <4> QED BY <2>2, <4>1, <4>2
    <3>4. CASE i > at + w
      <4>1. i - w \in 1 .. n /\ A[i] = doc[i - w] /\ i >= at + w
        BY <1>1, <1>2, <1>3, <3>4
      <4>2. (i - w) - 1 \in 1 .. n /\ doc[(i - w) - 1].kind \in Indented \cup {"refs"}
        BY <2>1, <2>5, <4>1
      <4>3. i - 1 \in 1 .. n + w /\ i - 1 >= at + w /\ (i - 1) - w = (i - w) - 1
        BY <1>1, <1>3, <3>4
      <4> QED BY <1>2, <4>2, <4>3
    <3> QED BY <1>3, <3>1, <3>2, <3>3, <3>4
  <2> QED BY <1>2, <2>4, <2>5 DEF Sections, Lines
<1>12. ASSUME Lines(doc, KeyKind) = {} PROVE Lines(A, KeyKind) = {KeyAt(A, at)}
  <2>1. \A j \in 1 .. n : doc[j].kind # KeyKind
    BY <1>1, <1>12 DEF Lines
  <2>2. ASSUME NEW i \in 1 .. n + w, A[i].kind = KeyKind PROVE i = at + w - 2
    <3>1. ~ (i < at \/ i >= at + w)
      BY <1>7, <2>1, <2>2
    <3>2. A[i].kind \notin {"begin", "saved", "end"}
      BY <1>5, <2>2 DEF Marks
    <3> QED BY <1>2, <1>4, <1>6, <3>1, <3>2
  <2>3. at + w - 2 \in 1 .. n + w /\ A[at + w - 2].kind = KeyKind
    BY <1>1, <1>2, <1>3, <1>4
  <2> QED BY <1>2, <1>9, <2>2, <2>3 DEF Lines
<1>13. Sound(A)
  <2>1. at \in DOMAIN A
    BY <1>10 DEF BlockAt
  <2> QED BY <1>8, <1>10, <1>11, <2>1 DEF Sound
<1> QED BY <1>9, <1>10, <1>12, <1>13 DEF w, A

\* The header is alone with the block that is put under it.
Alone(doc, at, s) ==
    /\ IsDsh /\ doc[at - 1].kind = "refs" /\ s = 0
    /\ at \in DOMAIN doc => doc[at].kind \notin Indented

\* What Remove makes of it again.
LEMMA BlockedRemoved ==
    ASSUME NEW doc, Sound(doc), Plain(doc), NEW at \in 1 .. Len(doc) + 1,
           NEW k \in Nat, k # 0, NEW s \in Nat, s # 0 => IsDsh,
           IsDsh => at - 1 \in 1 .. Len(doc) /\ doc[at - 1].kind \in Indented \cup {"refs"}
    PROVE  /\ Alone(doc, at, s) => Removed(Blocked(doc, at, k, s)) = Less(doc, at - 1)
           /\ ~ Alone(doc, at, s) => Removed(Blocked(doc, at, k, s)) =
                                       IF s = 0 THEN doc ELSE Inserted(doc, at - 1, Ref(s))
<1> DEFINE A == Blocked(doc, at, k, s)
           C == Cut(A, at)
           n == Len(doc)
           w == Width(s)
<1>1. doc \in Document /\ n \in Nat /\ DOMAIN doc = 1 .. n /\ Plain(doc)
  BY TypedLines DEF Sound
<1>2. Sound(A) /\ BlockAt(A, at) /\ KeyAt(A, at) = at + w - 2
  BY BlockedSound
<1>3. /\ A \in Document /\ Len(A) = n + w /\ DOMAIN A = 1 .. n + w
      /\ \A i \in 1 .. n + w :
           /\ i < at => i \in 1 .. n /\ A[i] = doc[i]
           /\ i >= at + w => i - w \in 1 .. n /\ i - w >= at /\ A[i] = doc[i - w]
           /\ i = at => A[i] = Line("begin")
           /\ i = at + w - 1 => A[i] = Line("end")
           /\ i = at + w - 2 => A[i] = Key(k)
           /\ i = at + 1 /\ s # 0 => A[i] = Saved(s)
  <2>1. Around(A, doc, at, k, s)
    BY <1>1, BlockedLines
  <2> HIDE DEF A
  <2> QED BY <2>1 DEF Around
<1>4. /\ w \in {3, 4} /\ (s = 0 => w = 3) /\ (s # 0 => w = 4)
      /\ at \in Nat \ {0} /\ at <= n + 1
      /\ IsDsh => at - 1 \in 1 .. n
  BY <1>1 DEF Width
<1>5. C \in Document /\ Len(C) = Len(A) - 3
  BY <1>2, TextLeft DEF Sound
<1>6. /\ \A j \in 1 .. Len(A) - 3 :
           C[j] = IF j < at THEN A[j]
                  ELSE IF j = at /\ A[at + 1].kind = "saved" THEN Ref(A[at + 1].key)
                  ELSE A[j + 3]
  BY DEF Cut
<1>7. Removed(A) = IF Lone(A, at) THEN Less(C, at - 1) ELSE C
  BY <1>2, RemovedIs
<1> HIDE DEF A, C, n, w
<1>8. /\ s # 0 => A[at + 1].kind = "saved" /\ A[at + 1].key = s
      /\ s = 0 => A[at + 1].kind # "saved"
  <2>1. at + 1 \in 1 .. n + w /\ (s = 0 => at + 1 = at + w - 2)
    BY <1>1, <1>4
  <2>2. Saved(s).kind = "saved" /\ Saved(s).key = s /\ Key(k).kind # "saved"
    BY DEF Saved, Key, KeyKind
  <2> QED BY <1>3, <2>1, <2>2
<1>9. ASSUME s = 0 PROVE C = doc
  <2>1. Len(C) = n /\ w = 3 /\ Len(A) - 3 = n
    BY <1>1, <1>3, <1>4, <1>5, <1>9
  <2>2. ASSUME NEW j \in 1 .. n PROVE C[j] = doc[j]
    <3>1. CASE j < at
      <4>1. j \in 1 .. n + w
        BY <1>1, <1>4
      <4> QED BY <1>3, <1>6, <2>1, <3>1, <4>1
    <3>2. CASE ~ (j < at)
      <4>1. j + 3 \in 1 .. n + w /\ j + 3 >= at + w /\ (j + 3) - w = j
        BY <1>1, <1>4, <2>1, <3>2
      <4>2. A[j + 3] = doc[j]
        BY <1>3, <4>1
      <4> QED BY <1>6, <1>8, <1>9, <2>1, <3>2, <4>2
    <3> QED BY <3>1, <3>2
  <2> QED BY <1>1, <1>5, <2>1, <2>2, SameDocument DEF n
<1>10. ASSUME s # 0 PROVE C = Inserted(doc, at - 1, Ref(s))
  <2> DEFINE D == Inserted(doc, at - 1, Ref(s))
  <2>1. Len(C) = n + 1 /\ w = 4 /\ Len(A) - 3 = n + 1 /\ n + 1 \in Nat
    BY <1>1, <1>3, <1>4, <1>5, <1>10
  <2>2. D = [j \in 1 .. n + 1 |-> IF j <= at - 1 THEN doc[j]
                                  ELSE IF j = at - 1 + 1 THEN Ref(s) ELSE doc[j - 1]]
    BY DEF Inserted, n
  <2> HIDE DEF D
  <2>3. D \in Document /\ Len(D) = n + 1
    <3>1. Ref(s) \in Text /\ \A i \in 1 .. n : doc[i] \in Text
      BY <1>1, DocumentLines DEF Ref, Text, Kinds, n
    <3>2. D \in [1 .. n + 1 -> Text]
      BY <1>1, <1>4, <2>2, <3>1
    <3> QED BY <2>1, <3>2, IsDocument
  <2>4. ASSUME NEW j \in 1 .. n + 1 PROVE C[j] = D[j]
    <3>1. CASE j < at
      <4>1. j \in 1 .. n + w /\ j <= at - 1
        BY <1>1, <1>4, <3>1
      <4> QED BY <1>3, <1>6, <2>1, <2>2, <3>1, <4>1
    <3>2. CASE j = at
      <4>1. ~ (j <= at - 1) /\ j = at - 1 + 1 /\ ~ (j < at)
        BY <1>4, <3>2
      <4> QED BY <1>6, <1>8, <1>10, <2>1, <2>2, <3>2, <4>1
    <3>3. CASE j > at
      <4>1. /\ j + 3 \in 1 .. n + w /\ j + 3 >= at + w /\ (j + 3) - w = j - 1
            /\ ~ (j <= at - 1) /\ j # at - 1 + 1 /\ ~ (j < at) /\ j # at
        BY <1>1, <1>4, <2>1, <3>3
      <4>2. A[j + 3] = doc[j - 1]
        BY <1>3, <4>1
      <4> QED BY <1>6, <2>1, <2>2, <4>1, <4>2
    <3> QED BY <1>1, <1>4, <3>1, <3>2, <3>3
  <2> QED BY <1>5, <2>1, <2>3, <2>4, SameDocument DEF D
<1>11. Lone(A, at) <=> Alone(doc, at, s)
  <2>1. ASSUME IsDsh PROVE A[at - 1] = doc[at - 1]
    <3>1. at - 1 \in 1 .. n + w /\ at - 1 < at
      BY <1>1, <1>4, <2>1
    <3> QED BY <1>3, <3>1
  <2>2. A[at + 1].kind # "saved" <=> s = 0
    BY <1>8
  <2>3. ASSUME s = 0 PROVE at + 3 \in DOMAIN A <=> at \in DOMAIN doc
    BY <1>1, <1>3, <1>4, <2>3
  <2>4. ASSUME s = 0, at \in DOMAIN doc PROVE A[at + 3] = doc[at]
    <3>1. at + 3 \in 1 .. n + w /\ at + 3 >= at + w /\ (at + 3) - w = at
      BY <1>1, <1>4, <2>4
    <3> QED BY <1>3, <3>1
  <2> QED BY <2>1, <2>2, <2>3, <2>4 DEF Lone, Alone
<1>12. CASE Alone(doc, at, s)
  <2>1. s = 0
    BY <1>12 DEF Alone
  <2> QED BY <1>7, <1>9, <1>11, <1>12, <2>1 DEF A
<1>13. CASE ~ Alone(doc, at, s)
  BY <1>7, <1>9, <1>10, <1>11, <1>13 DEF A
<1> QED BY <1>12, <1>13

-----------------------------------------------------------------------------
(* Where Apply writes it. *)

\* A document without the lines at some places.
Without(doc, out) == Pick[doc][DOMAIN doc \ out]

\* What is left without some indented lines is typed and in sections.
Remains(D, doc, out) ==
    /\ Typed(D) /\ (IsDsh => Sections(D))
    /\ \A j \in DOMAIN D : \E i \in DOMAIN doc \ out : D[j] = doc[i]
    /\ \A i \in DOMAIN doc \ out : \E j \in DOMAIN D : D[j] = doc[i]

LEMMA Filtered ==
    ASSUME NEW doc, Typed(doc), IsDsh => Sections(doc), NEW out \in SUBSET (DOMAIN doc),
           IsDsh => \A i \in out : doc[i].kind \in Indented
    PROVE  Remains(Without(doc, out), doc, out)
<1> DEFINE I == DOMAIN doc \ out
           D == Pick[doc][I]
           N == Len(doc)
<1>1. /\ doc \in Document /\ N \in Nat /\ DOMAIN doc = 1 .. N
      /\ \A i \in 1 .. N : /\ doc[i].kind \in KindsOf
                           /\ IsDsh /\ doc[i].kind \in {"ref", "saved"} => doc[i].key # 0
  BY TypedLines DEF Typed
<1>2. I \in SUBSET (1 .. Len(doc)) /\ \A i \in 1 .. N : i \in I \/ i \in out
  BY <1>1
<1>3. PICK n, f : n \in Nat /\ Enumerates(f, n, I) /\ D = Along(doc, f, n)
                          /\ D \in Document /\ Len(D) = n
  BY <1>1, <1>2, Picked
<1> n \in Nat
  BY <1>3
<1>4. /\ DOMAIN D = 1 .. n /\ \A j \in 1 .. n : D[j] = doc[f[j]]
      /\ \A j \in 1 .. n : f[j] \in I /\ f[j] \in 1 .. N
      /\ \A i \in I : \E j \in 1 .. n : f[j] = i
      /\ \A j, k \in 1 .. n : j < k => f[j] < f[k]
  <2>1. DOMAIN D = 1 .. n /\ \A j \in 1 .. n : D[j] = doc[f[j]]
    BY <1>3 DEF Along
  <2> HIDE DEF D, N
  <2> QED BY <1>1, <1>2, <1>3, <2>1 DEF Enumerates, N
<1> HIDE DEF D, N
<1>5. Typed(D)
  <2>1. \A j \in 1 .. n : /\ D[j].kind \in KindsOf
                          /\ IsDsh /\ D[j].kind \in {"ref", "saved"} => D[j].key # 0
    BY <1>1, <1>4
  <2> QED BY <1>3, <1>4, <2>1 DEF Typed
<1>6. ASSUME IsDsh PROVE Sections(D)
  <2>1. /\ \A g, h \in 1 .. N : doc[g].kind = "refs" /\ doc[h].kind = "refs" => g = h
        /\ \A i \in 1 .. N : doc[i].kind \in Indented =>
             i - 1 \in 1 .. N /\ doc[i - 1].kind \in Indented \cup {"refs"}
    BY <1>1, <1>6 DEF Sections, Lines
  <2>2. \A j, k \in 1 .. n : f[j] = f[k] => j = k
    <3> SUFFICES ASSUME NEW j \in 1 .. n, NEW k \in 1 .. n, f[j] = f[k], j # k PROVE FALSE
      OBVIOUS
    <3>1. f[j] \in Nat /\ f[k] \in Nat /\ (j < k \/ k < j)
      BY <1>1, <1>4
    <3>2. f[j] < f[k] \/ f[k] < f[j]
      BY <1>4, <3>1
    <3> QED BY <3>1, <3>2
  <2>3. \A g, h \in 1 .. n : D[g].kind = "refs" /\ D[h].kind = "refs" => g = h
    BY <1>4, <2>1, <2>2
  <2>4. ASSUME NEW j \in 1 .. n, D[j].kind \in Indented
        PROVE  j - 1 \in 1 .. n /\ D[j - 1].kind \in Indented \cup {"refs"}
    <3>1. /\ f[j] \in 1 .. N /\ f[j] \in I /\ doc[f[j]].kind \in Indented
          /\ f[j] - 1 \in 1 .. N /\ doc[f[j] - 1].kind \in Indented \cup {"refs"}
      BY <1>4, <2>1, <2>4
    \* There is a kept line above: the header is.
    <3>2. PICK h \in 1 .. N : doc[h].kind = "refs" /\ h < f[j]
      <4>1. f[j] \in DOMAIN doc
        BY <1>1, <3>1
      <4>2. \E g \in Lines(doc, "refs") : g < f[j]
        BY <1>6, <3>1, <4>1, SectionHead
      <4> QED BY <1>1, <4>2 DEF Lines
    <3>3. h \in I
      BY <1>1, <1>2, <1>6, <3>2 DEF Indented
    <3>4. PICK g \in 1 .. n : f[g] = h
      BY <1>4, <3>3
    <3>5. g < j
      <4>1. ~ (j < g) /\ g # j
        <5>1. j < g => f[j] < f[g]
          BY <1>4
        <5> QED BY <1>1, <3>1, <3>2, <3>4, <5>1
      <4> QED BY <4>1
    <3>6. j - 1 \in 1 .. n /\ j - 1 < j
      BY <3>5
    <3>7. f[j - 1] \in 1 .. N /\ f[j - 1] < f[j] /\ f[j - 1] + 1 \in 1 .. N
      <4>1. f[j - 1] \in 1 .. N /\ f[j - 1] < f[j]
        BY <1>4, <3>6
      <4> QED BY <1>1, <3>1, <4>1
    \* The line after it is this one or one that was left out.
    <3>8. doc[f[j - 1] + 1].kind \in Indented
      <4>1. CASE f[j - 1] + 1 = f[j]
        BY <3>1, <4>1
      <4>2. CASE f[j - 1] + 1 # f[j]
        <5>1. f[j - 1] + 1 \notin I
          <6> SUFFICES ASSUME f[j - 1] + 1 \in I PROVE FALSE
            OBVIOUS
          <6>1. PICK g1 \in 1 .. n : f[g1] = f[j - 1] + 1
            BY <1>4
          <6>2. f[j - 1] < f[g1] /\ f[g1] < f[j]
            BY <1>1, <3>1, <3>7, <4>2, <6>1
          <6>3. ~ (g1 < j - 1) /\ g1 # j - 1 /\ ~ (j < g1) /\ g1 # j
            <7>1. (g1 < j - 1 => f[g1] < f[j - 1]) /\ (j < g1 => f[j] < f[g1])
              BY <1>4, <3>6
            <7> QED BY <1>1, <3>1, <3>7, <6>1, <6>2, <7>1
          <6> QED BY <3>6, <6>3
        <5> QED BY <1>1, <1>2, <1>6, <3>7, <5>1
      <4> QED BY <4>1, <4>2
    <3>9. doc[f[j - 1]].kind \in Indented \cup {"refs"}
      <4>1. (f[j - 1] + 1) - 1 = f[j - 1]
        BY <3>7
      <4> QED BY <2>1, <3>7, <3>8, <4>1
    <3> QED BY <1>4, <3>6, <3>9
  <2> QED BY <1>4, <2>3, <2>4 DEF Sections, Lines
<1>7. /\ \A j \in DOMAIN D : \E i \in I : D[j] = doc[i]
      /\ \A i \in I : \E j \in DOMAIN D : D[j] = doc[i]
  BY <1>4
<1>8. Remains(D, doc, out)
  BY <1>5, <1>6, <1>7 DEF Remains
<1> QED BY <1>8 DEF D, Without

\* The first lines stay where they are, if all of them are kept.
LEMMA FirstPlaces ==
    ASSUME NEW I \in SUBSET Nat, NEW n \in Nat, NEW f, Enumerates(f, n, I),
           0 \notin I
    PROVE  \A i \in I : 1 .. i \subseteq I => i \in 1 .. n /\ f[i] = i
<1>1. /\ Cardinality(I) = n
      /\ \A j \in 1 .. n : Cardinality({l \in I : l < f[j]}) = j - 1
  BY EnumerationCounts
<1> SUFFICES ASSUME NEW i \in I, 1 .. i \subseteq I PROVE i \in 1 .. n /\ f[i] = i
  OBVIOUS
<1>2. PICK j \in 1 .. n : f[j] = i
  BY DEF Enumerates
<1>3. i \in Nat /\ i # 0 /\ \A l \in I : l \in Nat /\ l # 0
  OBVIOUS
<1>4. {l \in I : l < i} = 1 .. i - 1
  <2>1. \A l \in 1 .. i - 1 : l \in I /\ l < i
    BY <1>3
  <2>2. ASSUME NEW l \in I, l < i PROVE l \in 1 .. i - 1
    <3>1. l \in Nat /\ l # 0
      BY <1>3
    <3> QED BY <1>3, <2>2, <3>1
  <2> QED BY <2>1, <2>2
<1>5. Cardinality(1 .. i - 1) = i - 1
  <2>1. 1 \in Int /\ i - 1 \in Int /\ (i - 1 >= 1 \/ i - 1 = 0)
    BY <1>3
  <2>2. Cardinality(1 .. i - 1) = IF 1 > i - 1 THEN 0 ELSE (i - 1) - 1 + 1
    BY <2>1, FS_Interval
  <2> QED BY <2>1, <2>2
<1>6. j - 1 = i - 1
  BY <1>1, <1>2, <1>4, <1>5
<1> QED BY <1>2, <1>3, <1>6

\* The lines before a line.
Begins(D, doc, at) ==
    D \in Document /\ at <= Len(D) + 1 /\ \A i \in 1 .. at - 1 : D[i] = doc[i]

\* A document whose lines at out make way, with a block before what is left of a line.
Put(doc, out, at, k, s) ==
    Pick[doc][1 .. at - 1] \o Block(k, s) \o Pick[doc][{i \in DOMAIN doc : i >= at} \ out]

LEMMA BlockPut ==
    ASSUME NEW doc \in Document, NEW out \in SUBSET (DOMAIN doc), NEW at \in 1 .. Len(doc) + 1,
           \A i \in out : at <= i, NEW k \in Nat, NEW s \in Nat
    PROVE  /\ Begins(Without(doc, out), doc, at)
           /\ Put(doc, out, at, k, s) = Blocked(Without(doc, out), at, k, s)
<1> DEFINE I == DOMAIN doc \ out
           J == {i \in DOMAIN doc : i >= at} \ out
           D == Pick[doc][I]
           N == Len(doc)
<1>1. N \in Nat /\ DOMAIN doc = 1 .. N /\ at \in Nat \ {0} /\ at - 1 \in Nat /\ at - 1 <= N
  BY DocumentLines
<1>2. /\ I \in SUBSET (1 .. Len(doc)) /\ I \in SUBSET Nat /\ 0 \notin I
      /\ J \in SUBSET Nat /\ 1 .. at - 1 \subseteq I
  <2>1. /\ I \in SUBSET (1 .. N) /\ J \in SUBSET (1 .. N)
    BY <1>1
  <2>2. 1 .. N \in SUBSET Nat /\ 0 \notin 1 .. N
    BY <1>1
  <2>3. ASSUME NEW i \in 1 .. at - 1 PROVE i \in I
    <3>1. i \in 1 .. N /\ ~ (at <= i)
      BY <1>1
    <3> QED BY <1>1, <3>1
  <2> HIDE DEF I, J
  <2> QED BY <2>1, <2>2, <2>3 DEF N
<1>3. PICK n, f : n \in Nat /\ Enumerates(f, n, I) /\ D = Along(doc, f, n)
                          /\ D \in Document /\ Len(D) = n
  <2> HIDE DEF I, J
  <2> QED BY <1>2, Picked
<1> n \in Nat
  BY <1>3
<1>4. at - 1 <= n /\ \A j \in 1 .. at - 1 : f[j] = j
  <2>1. ASSUME NEW i \in 1 .. at - 1 PROVE i \in 1 .. n /\ f[i] = i
    <3>1. i \in I /\ 1 .. i \subseteq I
      BY <1>1, <1>2
    <3>2. I \in SUBSET Nat /\ 0 \notin I /\ Enumerates(f, n, I)
      BY <1>2, <1>3
    <3> HIDE DEF I
    <3>3. \A l \in I : 1 .. l \subseteq I => l \in 1 .. n /\ f[l] = l
      BY <3>2, FirstPlaces
    <3> QED BY <3>1, <3>3
  <2>2. at - 1 = 0 \/ at - 1 \in 1 .. at - 1
    BY <1>1
  <2> QED BY <1>1, <2>1, <2>2
<1>5. \A i \in 1 .. at - 1 : D[i] = doc[i]
  BY <1>1, <1>3, <1>4 DEF Along
<1> DEFINE p == Pick[doc][1 .. at - 1]
           q == Pick[doc][J]
<1>6. p \in Document /\ Len(p) = at - 1 /\ \A i \in 1 .. at - 1 : p[i] = doc[i]
  <2> DEFINE g == [j \in 1 .. at - 1 |-> j]
  <2>1. Enumerates(g, at - 1, 1 .. at - 1)
    BY <1>1 DEF Enumerates
  <2>2. 1 .. at - 1 \in SUBSET Nat
    BY <1>1
  <2> HIDE DEF g
  <2>3. p = Along(doc, g, at - 1)
    BY <1>1, <2>1, <2>2, PickIs
  <2>4. \A i \in 1 .. at - 1 : g[i] = i
    BY DEF g
  <2>5. \A i \in 1 .. at - 1 : i \in 1 .. N /\ doc[i] \in Text
    BY <1>1, DocumentLines
  <2>6. Along(doc, g, at - 1) \in [1 .. at - 1 -> Text]
    BY <2>4, <2>5 DEF Along
  <2>7. \A i \in 1 .. at - 1 : Along(doc, g, at - 1)[i] = doc[i]
    BY <2>4 DEF Along
  <2> QED BY <1>1, <2>3, <2>6, <2>7, IsDocument
<1>7. /\ q \in Document /\ Len(q) = n - (at - 1)
      /\ \A i \in 1 .. n - (at - 1) : q[i] = D[at - 1 + i]
  <2> DEFINE m == n - (at - 1)
             g == [j \in 1 .. m |-> f[at - 1 + j]]
  <2>1. m \in Nat
    BY <1>1, <1>4
  <2>2. \A j \in 1 .. n : f[j] \in I
    BY <1>3 DEF Enumerates
  <2>3. ASSUME NEW j \in 1 .. m PROVE at - 1 + j \in 1 .. n /\ f[at - 1 + j] \in J
    <3>1. at - 1 + j \in 1 .. n /\ ~ (at - 1 + j <= at - 1)
      BY <1>1, <1>4
    <3>2. f[at - 1 + j] \in I /\ f[at - 1 + j] \in 1 .. N
      BY <1>1, <2>2, <3>1
    <3>3. ~ (f[at - 1 + j] \in 1 .. at - 1)
      <4> SUFFICES ASSUME f[at - 1 + j] \in 1 .. at - 1 PROVE FALSE
        OBVIOUS
      <4> DEFINE l == f[at - 1 + j]
      <4>1. f[l] = l /\ l < at - 1 + j /\ l \in 1 .. n
        BY <1>1, <1>4, <3>1
      <4>2. f[l] < f[at - 1 + j]
        BY <1>3, <3>1, <4>1 DEF Enumerates
      <4> QED BY <1>1, <3>2, <4>1, <4>2
    <3>4. f[at - 1 + j] >= at
      BY <1>1, <3>2, <3>3
    <3> QED BY <1>1, <3>1, <3>2, <3>4
  <2>4. ASSUME NEW i \in J PROVE \E j \in 1 .. m : f[at - 1 + j] = i
    <3>1. i \in I /\ i >= at /\ i \in Nat
      BY <1>1, <1>2
    <3>2. PICK l \in 1 .. n : f[l] = i
      BY <1>3, <3>1 DEF Enumerates
    <3>3. ~ (l \in 1 .. at - 1)
      BY <1>1, <1>4, <3>1, <3>2
    <3>4. l - (at - 1) \in 1 .. m /\ at - 1 + (l - (at - 1)) = l
      BY <1>1, <1>4, <3>3
    <3> QED BY <3>2, <3>4
  <2>5. \A j, l \in 1 .. m : j < l => f[at - 1 + j] < f[at - 1 + l]
    <3> SUFFICES ASSUME NEW j \in 1 .. m, NEW l \in 1 .. m, j < l
                 PROVE  f[at - 1 + j] < f[at - 1 + l]
      OBVIOUS
    <3>1. at - 1 + j \in 1 .. n /\ at - 1 + l \in 1 .. n /\ at - 1 + j < at - 1 + l
      BY <1>1, <2>3
    <3> QED BY <1>3, <3>1 DEF Enumerates
  <2> HIDE DEF J, m
  <2>6. Enumerates(g, m, J)
    BY <2>1, <2>3, <2>4, <2>5 DEF Enumerates
  <2>7. \A i \in 1 .. m : g[i] = f[at - 1 + i]
    OBVIOUS
  <2> HIDE DEF g
  <2>8. q = Along(doc, g, m)
    BY <1>2, <2>1, <2>6, PickIs
  <2>9. \A i \in 1 .. m : D[at - 1 + i] = doc[f[at - 1 + i]]
    BY <1>3, <2>3 DEF Along
  <2>10. \A i \in 1 .. m : Along(doc, g, m)[i] = D[at - 1 + i]
    BY <2>7, <2>9 DEF Along
  <2>11. \A i \in 1 .. m : D[at - 1 + i] \in Text
    BY <1>3, <2>3, DocumentLines
  <2>12. Along(doc, g, m) \in [1 .. m -> Text]
    BY <2>7, <2>9, <2>11 DEF Along
  <2>13. q \in Document /\ Len(q) = m
    BY <2>1, <2>8, <2>12, IsDocument
  <2> QED BY <2>8, <2>10, <2>13 DEF m
<1> HIDE DEF D, I, J, p, q
<1>8. at \in 1 .. Len(D) + 1 /\ \A i \in 1 .. at - 1 : p[i] = D[i]
  BY <1>1, <1>3, <1>4, <1>5, <1>6
<1>9. Join(Join(p, Block(k, s)), q) = Blocked(D, at, k, s)
  <2>1. Halves(D, at, p, q)
    BY <1>3, <1>6, <1>7, <1>8 DEF Halves
  <2> QED BY <1>3, <2>1, BlockedIs
<1>10. Begins(D, doc, at)
  BY <1>1, <1>3, <1>4, <1>5 DEF Begins
<1> QED BY <1>9, <1>10 DEF D, I, J, p, q, Join, Put, Without

\* What makes way for the block, where that goes, and the key that is parked in it.
Out(doc)  == {i \in DOMAIN doc : doc[i].kind \in Marks \cup {"ref"}}
Kept(doc) == Without(doc, Out(doc))
Place(doc) == IF Out(doc) = {} THEN Greatest(RefsBlock(doc) \cup {Head0(doc)}) + 1
                               ELSE Least(Out(doc))
Parked(doc) == IF OwnKeys(doc) = {} THEN 0 ELSE doc[Greatest(OwnKeys(doc))].key

LEMMA OutIs ==
    ASSUME NEW doc, Sound(doc), IsDsh, NEW h \in Lines(doc, "refs")
    PROVE  /\ RefsBlock(doc) \cap (InBlock(doc) \cup OwnKeys(doc)) = Out(doc)
           /\ OwnKeys(doc) \subseteq {i \in DOMAIN doc : doc[i].kind \in {"ref", "saved"}}
           /\ Plain(doc) => OwnKeys(doc) = {i \in DOMAIN doc : doc[i].kind = "ref"}
           /\ \A b : BlockAt(doc, b) /\ Lines(doc, "ref") = {KeyAt(doc, b)} =>
                OwnKeys(doc) = Lines(doc, "saved")
<1> DEFINE R == RefsBlock(doc)
           B == InBlock(doc)
<1>1. /\ doc \in Document /\ Typed(doc) /\ Sections(doc) /\ DOMAIN doc = 1 .. Len(doc)
      /\ Len(doc) \in Nat
  BY TypedLines DEF Sound
<1>2. R = {i \in DOMAIN doc : doc[i].kind \in Indented}
  BY <1>1, SectionIs
<1>3. OwnKeys(doc) = {i \in R : doc[i].kind = IF i \in B THEN "saved" ELSE "ref"}
  BY DEF OwnKeys
<1>4. \A b : BlockAt(doc, b) => B = b .. KeyAt(doc, b) + 1
  BY <1>1, InBlockIs
<1>5. Plain(doc) => B = {}
  BY InBlockPlain
<1>6. ASSUME NEW b, BlockAt(doc, b)
      PROVE  /\ B \subseteq DOMAIN doc /\ \A i \in B : doc[i].kind \in Marks \cup {"ref"}
             /\ \A i \in DOMAIN doc : doc[i].kind \in Marks => i \in B
             /\ KeyAt(doc, b) \in B
  <2> DEFINE e == KeyAt(doc, b) + 1
             n == Len(doc)
  <2>1. /\ b \in 1 .. n /\ b + 2 \in 1 .. n /\ e \in 1 .. n
        /\ doc[b].kind = "begin" /\ doc[e].kind = "end" /\ doc[KeyAt(doc, b)].kind = "ref"
        /\ \A i \in 1 .. n : /\ doc[i].kind = "begin" => i = b
                             /\ doc[i].kind = "saved" => i = b + 1
                             /\ doc[i].kind = "end"   => i = e
    BY <1>1, <1>6 DEF BlockAt, KeyKind
  <2>2. /\ doc[b + 1].kind = "saved" => KeyAt(doc, b) = b + 2
        /\ doc[b + 1].kind # "saved" => KeyAt(doc, b) = b + 1
    BY DEF KeyAt
  <2>3. B = b .. e
    BY <1>4, <1>6
  <2> HIDE DEF B, e, n
  <2>4. KeyAt(doc, b) \in B
    BY <2>1, <2>2, <2>3 DEF e
  <2>5. ASSUME NEW i \in B PROVE i \in 1 .. n /\ doc[i].kind \in Marks \cup {"ref"}
    <3>1. i \in 1 .. n /\ (i = b \/ i = e \/ i = KeyAt(doc, b) \/ (i = b + 1 /\ doc[b + 1].kind = "saved"))
      BY <1>1, <2>1, <2>2, <2>3 DEF e, n
    <3> QED BY <2>1, <3>1 DEF Marks
  <2>6. ASSUME NEW i \in 1 .. n, doc[i].kind \in Marks PROVE i \in B
    <3>1. i = b \/ i = e \/ i = b + 1
      BY <2>1, <2>6 DEF Marks
    <3> QED BY <2>1, <2>2, <2>3, <3>1 DEF e
  <2> QED BY <1>1, <2>4, <2>5, <2>6 DEF n
<1> HIDE DEF R, B
<1>7. Marks \cup {"ref"} \subseteq Indented /\ "ref" \notin Marks /\ "saved" \in Marks
  BY DEF Marks, Indented
<1>8. OwnKeys(doc) \subseteq {i \in DOMAIN doc : doc[i].kind \in {"ref", "saved"}}
  BY <1>2, <1>3
<1>9. CASE Plain(doc)
  <2>1. OwnKeys(doc) = {i \in DOMAIN doc : doc[i].kind = "ref"}
    BY <1>2, <1>3, <1>5, <1>7, <1>9
  <2>2. R \cap (B \cup OwnKeys(doc)) = Out(doc)
    BY <1>2, <1>5, <1>7, <1>9, <2>1 DEF Out, Plain
  <2>3. \A b : ~ BlockAt(doc, b)
    BY <1>9 DEF Plain, BlockAt, Marks
  <2> QED BY <1>8, <2>1, <2>2, <2>3 DEF R, B
<1>10. ASSUME NEW b, BlockAt(doc, b)
       PROVE  /\ R \cap (B \cup OwnKeys(doc)) = Out(doc) /\ ~ Plain(doc)
              /\ \A c : BlockAt(doc, c) /\ Lines(doc, "ref") = {KeyAt(doc, c)} =>
                   OwnKeys(doc) = Lines(doc, "saved")
  <2>1. /\ B \subseteq DOMAIN doc /\ \A i \in B : doc[i].kind \in Marks \cup {"ref"}
        /\ \A i \in DOMAIN doc : doc[i].kind \in Marks => i \in B
    BY <1>6, <1>10
  <2>2. ASSUME NEW i \in DOMAIN doc
        PROVE  i \in R \cap (B \cup OwnKeys(doc)) <=> doc[i].kind \in Marks \cup {"ref"}
    <3>1. CASE i \in B
      BY <1>2, <1>7, <2>1, <3>1
    <3>2. CASE i \notin B
      BY <1>2, <1>3, <1>7, <2>1, <3>2
    <3> QED BY <3>1, <3>2
  <2>3. R \cap (B \cup OwnKeys(doc)) \subseteq DOMAIN doc
    BY <1>2
  <2>4. R \cap (B \cup OwnKeys(doc)) = Out(doc)
    BY <2>2, <2>3 DEF Out
  <2>5. ~ Plain(doc)
    BY <1>10 DEF Plain, BlockAt, Marks
  <2>6. ASSUME NEW c, BlockAt(doc, c), Lines(doc, "ref") = {KeyAt(doc, c)}
        PROVE  OwnKeys(doc) = Lines(doc, "saved")
    <3>1. KeyAt(doc, c) \in B
      BY <1>6, <2>6
    <3>2. \A i \in DOMAIN doc : doc[i].kind = "ref" => i \in B
      BY <2>6, <3>1 DEF Lines
    <3> QED BY <1>2, <1>3, <1>7, <2>1, <3>2 DEF Lines
  <2> QED BY <2>4, <2>5, <2>6
<1> QED BY <1>8, <1>9, <1>10 DEF Sound, R, B

LEMMA PlaceIs ==
    ASSUME NEW doc, Sound(doc), IsDsh, NEW h \in Lines(doc, "refs")
    PROVE  /\ Place(doc) \in 1 .. Len(doc) + 1 /\ \A i \in Out(doc) : Place(doc) <= i
           /\ Place(doc) - 1 \in 1 .. Len(doc)
           /\ doc[Place(doc) - 1].kind \in Indented \cup {"refs"}
           /\ Out(doc) # {} => Place(doc) \in Out(doc)
           /\ Out(doc) = {} => \A i \in DOMAIN doc : doc[i].kind \in Indented => i < Place(doc)
<1> DEFINE R == RefsBlock(doc)
           n == Len(doc)
<1>1. /\ doc \in Document /\ Typed(doc) /\ Sections(doc) /\ DOMAIN doc = 1 .. n /\ n \in Nat
  BY TypedLines DEF Sound
<1>2. /\ Head0(doc) = h /\ R = {i \in DOMAIN doc : doc[i].kind \in Indented}
      /\ h \in 1 .. n /\ doc[h].kind = "refs"
  BY <1>1, SectionIs DEF Lines
<1>3. \A i \in 1 .. n : doc[i].kind \in Indented =>
         i - 1 \in 1 .. n /\ doc[i - 1].kind \in Indented \cup {"refs"}
  BY <1>1 DEF Sections
<1> HIDE DEF R, n
<1>4. \A S \in SUBSET (1 .. n) : S \in SUBSET Nat /\ IsFiniteSet(S)
  <2>1. 1 \in Int /\ n \in Int
    BY <1>1
  <2>2. IsFiniteSet(1 .. n)
    BY <2>1, FS_Interval
  <2> SUFFICES ASSUME NEW S \in SUBSET (1 .. n) PROVE S \in SUBSET Nat /\ IsFiniteSet(S)
    OBVIOUS
  <2>3. S \in SUBSET Nat
    BY <1>1
  <2> QED BY <2>2, <2>3, FS_Subset
<1>5. CASE Out(doc) = {}
  <2> DEFINE S == R \cup {h}
  <2>1. S \in SUBSET (1 .. n) /\ S # {}
    BY <1>1, <1>2
  <2>2. S \in SUBSET Nat /\ IsFiniteSet(S)
    BY <1>4, <2>1
  <2> HIDE DEF S
  <2>3. PICK m \in S : \A i \in S : i <= m
    BY <2>1, <2>2, HasEnds
  <2>4. Greatest(S) = m
    BY <2>2, <2>3, GreatestIs
  <2>5. Place(doc) = m + 1 /\ m \in 1 .. n
    BY <1>2, <1>5, <2>1, <2>3, <2>4 DEF Place, S, R
  <2>6. doc[m].kind \in Indented \cup {"refs"}
    BY <1>2, <2>3 DEF S
  <2>7. \A i \in 1 .. n : doc[i].kind \in Indented => i < m + 1
    <3> SUFFICES ASSUME NEW i \in 1 .. n, doc[i].kind \in Indented PROVE i < m + 1
      OBVIOUS
    <3>1. i <= m
      BY <1>1, <1>2, <2>3 DEF S
    <3> QED BY <2>5, <3>1
  <2>8. m + 1 \in 1 .. n + 1 /\ (m + 1) - 1 = m
    BY <1>1, <2>5
  <2> QED BY <1>1, <1>5, <2>5, <2>6, <2>7, <2>8 DEF n
<1>6. CASE Out(doc) # {}
  <2>1. Out(doc) \in SUBSET (1 .. n) /\ \A i \in Out(doc) : doc[i].kind \in Indented
    BY <1>1 DEF Out, Marks, Indented
  <2>2. Out(doc) \in SUBSET Nat /\ IsFiniteSet(Out(doc))
    BY <1>4, <2>1
  <2>3. PICK m \in Out(doc) : \A i \in Out(doc) : m <= i
    BY <1>6, <2>2, HasEnds
  <2>4. Least(Out(doc)) = m
    BY <2>2, <2>3, LeastIs
  <2>5. Place(doc) = m /\ m \in 1 .. n /\ m \in 1 .. n + 1
    BY <1>1, <1>6, <2>1, <2>4 DEF Place
  <2>6. m - 1 \in 1 .. n /\ doc[m - 1].kind \in Indented \cup {"refs"}
    BY <1>3, <2>1, <2>3, <2>5
  <2> QED BY <1>6, <2>3, <2>5, <2>6 DEF n
<1> QED BY <1>5, <1>6

LEMMA ParkedIs ==
    ASSUME NEW doc, Sound(doc), IsDsh, NEW h \in Lines(doc, "refs")
    PROVE  /\ Parked(doc) \in Nat
           /\ OwnKeys(doc) = {} <=> Parked(doc) = 0
           /\ \A i : OwnKeys(doc) = {i} => Parked(doc) = doc[i].key
<1>1. /\ doc \in Document /\ DOMAIN doc = 1 .. Len(doc) /\ Len(doc) \in Nat
      /\ \A i \in 1 .. Len(doc) : /\ doc[i].key \in Nat
                                  /\ doc[i].kind \in {"ref", "saved"} => doc[i].key # 0
  BY TypedLines DEF Sound
<1>2. OwnKeys(doc) \subseteq {i \in DOMAIN doc : doc[i].kind \in {"ref", "saved"}}
  BY OutIs
<1>3. OwnKeys(doc) \in SUBSET Nat /\ IsFiniteSet(OwnKeys(doc))
  <2>1. 1 \in Int /\ Len(doc) \in Int
    BY <1>1
  <2>2. IsFiniteSet(1 .. Len(doc)) /\ OwnKeys(doc) \subseteq 1 .. Len(doc)
    BY <1>1, <1>2, <2>1, FS_Interval
  <2> QED BY <2>2, FS_Subset
<1>4. CASE OwnKeys(doc) = {}
  BY <1>4 DEF Parked
<1>5. CASE OwnKeys(doc) # {}
  <2>1. PICK m \in OwnKeys(doc) : \A i \in OwnKeys(doc) : i <= m
    BY <1>3, <1>5, HasEnds
  <2>2. Greatest(OwnKeys(doc)) = m
    BY <1>3, <2>1, GreatestIs
  <2>3. Parked(doc) = doc[m].key
    BY <1>5, <2>2 DEF Parked
  <2> QED BY <1>1, <1>2, <1>5, <2>1, <2>3
<1> QED BY <1>4, <1>5

\* In the harness's file the block goes into the section.
LEMMA ApplyBlockIs ==
    ASSUME NEW doc, Sound(doc), IsDsh, NEW h \in Lines(doc, "refs"), NEW k \in Nat
    PROVE  /\ ApplyBlock(doc, k) = Blocked(Kept(doc), Place(doc), k, Parked(doc))
           /\ Sound(Kept(doc)) /\ Plain(Kept(doc)) /\ Lines(Kept(doc), "ref") = {}
           /\ Place(doc) \in 1 .. Len(Kept(doc)) + 1
           /\ Place(doc) - 1 \in 1 .. Len(Kept(doc))
           /\ \A i \in 1 .. Place(doc) - 1 : Kept(doc)[i] = doc[i]
           /\ Kept(doc)[Place(doc) - 1].kind \in Indented \cup {"refs"}
<1> DEFINE at == Place(doc)
           D == Kept(doc)
           s == Parked(doc)
           n == Len(doc)
<1>1. /\ doc \in Document /\ Typed(doc) /\ Sections(doc) /\ DOMAIN doc = 1 .. n /\ n \in Nat
  BY TypedLines DEF Sound
<1>2. /\ at \in 1 .. n + 1 /\ \A i \in Out(doc) : at <= i
      /\ at - 1 \in 1 .. n /\ doc[at - 1].kind \in Indented \cup {"refs"}
  BY PlaceIs
<1>3. s \in Nat
  BY ParkedIs
<1>4. /\ Out(doc) \in SUBSET (DOMAIN doc) /\ \A i \in Out(doc) : doc[i].kind \in Indented
      /\ \A i \in DOMAIN doc \ Out(doc) : doc[i].kind \notin Marks /\ doc[i].kind # "ref"
  BY DEF Out, Marks, Indented
<1>5. /\ Typed(D) /\ Sections(D)
      /\ \A j \in DOMAIN D : \E i \in DOMAIN doc \ Out(doc) : D[j] = doc[i]
  <2>1. Remains(D, doc, Out(doc))
    BY <1>1, <1>4, Filtered DEF Kept
  <2> HIDE DEF D
  <2> QED BY <2>1 DEF Remains
<1>6. Sound(D) /\ Plain(D) /\ Lines(D, "ref") = {}
  BY <1>4, <1>5 DEF Sound, Plain, Lines
<1>7. /\ D \in Document /\ at <= Len(D) + 1 /\ \A i \in 1 .. at - 1 : D[i] = doc[i]
      /\ Put(doc, Out(doc), at, k, s) = Blocked(D, at, k, s)
  <2> HIDE DEF at, s
  <2>1. PICK a \in 1 .. Len(doc) + 1 : a = at
    BY <1>2
  <2>2. PICK c \in Nat : c = s
    BY <1>3
  <2>3. \A i \in Out(doc) : a <= i
    BY <1>2, <2>1
  <2>4. /\ Begins(D, doc, a)
        /\ Put(doc, Out(doc), a, k, c) = Blocked(D, a, k, c)
    BY <1>1, <1>4, <2>3, BlockPut DEF Kept
  <2> HIDE DEF D
  <2> QED BY <2>1, <2>2, <2>4 DEF Begins
<1>8. ApplyBlock(doc, k) = Pick[doc][1 .. at - 1] \o ManagedBlock(k, s)
                             \o Pick[doc][{i \in DOMAIN doc : i >= at} \ Out(doc)]
  <2>1. RefsBlock(doc) \cap (InBlock(doc) \cup OwnKeys(doc)) = Out(doc)
    BY OutIs
  <2> QED BY <2>1 DEF ApplyBlock, Place, Parked
<1>9. ManagedBlock(k, s) = Block(k, s)
  BY DEF ManagedBlock, Block, Ref, Key, KeyKind
<1>10. at \in 1 .. Len(D) + 1 /\ at - 1 \in 1 .. Len(D)
  <2>1. Len(D) \in Nat
    BY <1>7, DocumentLines
  <2> HIDE DEF at, D
  <2> QED BY <1>1, <1>2, <1>7, <2>1
<1>11. D[at - 1].kind \in Indented \cup {"refs"}
  <2>1. at - 1 \in 1 .. at - 1
    BY <1>2
  <2> QED BY <1>2, <1>7, <2>1
<1> QED BY <1>6, <1>7, <1>8, <1>9, <1>10, <1>11 DEF Put

\* A text followed by a block.
LEMMA JoinNothing ==
    ASSUME NEW c \in Document
    PROVE  Join(c, <<>>) = c
<1>1. <<>> \in Document /\ Len(<<>>) = 0
  BY DEF Document
<1>2. Len(c) \in Nat
  BY DocumentLines
<1> DEFINE e == <<>>
<1> HIDE DEF e
<1>3. e \in Document /\ Len(e) = 0
  BY <1>1 DEF e
<1>4. /\ Join(c, e) \in Document /\ Len(Join(c, e)) = Len(c) + Len(e)
      /\ \A i \in 1 .. Len(c) + Len(e) :
           Join(c, e)[i] = IF i <= Len(c) THEN c[i] ELSE e[i - Len(c)]
  BY <1>3, Joined
<1>5. Len(Join(c, e)) = Len(c) /\ \A i \in 1 .. Len(c) : Join(c, e)[i] = c[i]
  BY <1>2, <1>3, <1>4
<1>6. Join(c, e) = c
  BY <1>4, <1>5, SameDocument
<1> QED BY <1>6 DEF e

LEMMA BlockAtEnd ==
    ASSUME NEW doc \in Document, NEW k \in Nat
    PROVE  doc \o Block(k, 0) = Blocked(doc, Len(doc) + 1, k, 0)
<1> DEFINE at == Len(doc) + 1
           e == <<>>
<1>1. Len(doc) \in Nat
  BY DocumentLines
<1>2. e \in Document /\ Len(e) = 0
  BY DEF Document
<1>3. 0 \in Nat
  OBVIOUS
<1> HIDE DEF e
<1>4. Halves(doc, at, doc, e)
  BY <1>1, <1>2 DEF Halves
<1>5. Join(Join(doc, Block(k, 0)), e) = Blocked(doc, at, k, 0)
  BY <1>3, <1>4, BlockedIs
<1>6. Join(doc, Block(k, 0)) \in Document
  BY <1>3, BlockLines, Joined
<1>7. Join(Join(doc, Block(k, 0)), e) = Join(doc, Block(k, 0))
  BY <1>6, JoinNothing DEF e
<1> QED BY <1>5, <1>7 DEF Join

LEMMA ShortBlock ==
    ASSUME NEW k \in Nat
    PROVE  Block(k, 0) = <<Line("begin"), Key(k), Line("end")>>
<1> DEFINE B == Block(k, 0)
           C == <<Line("begin"), Key(k), Line("end")>>
<1>1. /\ B \in Document /\ Len(B) = 3 /\ B[1] = Line("begin") /\ B[2] = Key(k) /\ B[3] = Line("end")
  <2>1. 0 \in Nat /\ Width(0) = 3 /\ 3 - 1 = 2
    BY DEF Width
  <2> QED BY <2>1, BlockLines
<1>2. Line("begin") \in Text /\ Line("end") \in Text /\ Key(k) \in Text
  BY DEF Line, Key, KeyKind, Text, Kinds
<1>3. /\ C \in Document /\ Len(C) = 3 /\ C[1] = Line("begin") /\ C[2] = Key(k) /\ C[3] = Line("end")
  BY <1>2 DEF Document
<1> HIDE DEF B, C
<1>4. \A i \in 1 .. 3 : B[i] = C[i]
  <2>1. \A i \in 1 .. 3 : i = 1 \/ i = 2 \/ i = 3
    OBVIOUS
  <2> QED BY <1>1, <1>3, <2>1
<1>5. B = C
  BY <1>1, <1>3, <1>4, SameDocument
<1> QED BY <1>5 DEF B, C

\* Apply is a block put into a text: at the end of Codex's file, ...
LEMMA CodexApplied ==
    ASSUME NEW doc, Sound(doc), ~ IsDsh, NEW k \in Nat
    PROVE  /\ Applied(doc, k) = Blocked(Removed(doc), Len(Removed(doc)) + 1, k, 0)
           /\ Sound(Removed(doc)) /\ Plain(Removed(doc))
<1>1. Removed(doc) = StripManagedBlock(doc)
  BY DEF Removed, BlockRemoved
<1>2. Sound(Removed(doc)) /\ Plain(Removed(doc)) /\ Removed(doc) \in Document
  BY RemovedSound, TypedLines DEF Sound
<1>3. Block(k, 0) = <<Line("begin"), Provider(k), Line("end")>>
  BY ShortBlock DEF Key, KeyKind, Provider
<1>4. Applied(doc, k) = Removed(doc) \o Block(k, 0)
  BY <1>1, <1>3 DEF Applied, BlockApplied
<1> HIDE DEF Removed
<1> QED BY <1>2, <1>4, BlockAtEnd

\* ... under a new header in a file of the harness that has none, ...
Base(doc) == IF doc = <<>> THEN <<Line("version")>> ELSE doc
Headed(doc) == Append(Base(doc), Line("refs"))

LEMMA NewSection ==
    ASSUME NEW doc, Sound(doc), IsDsh, Lines(doc, "refs") = {}, NEW k \in Nat
    PROVE  /\ Applied(doc, k) = Blocked(Headed(doc), Len(Headed(doc)) + 1, k, 0)
           /\ Sound(Headed(doc)) /\ Plain(Headed(doc)) /\ Lines(Headed(doc), "ref") = {}
           /\ Len(Headed(doc)) \in Nat \ {0} /\ Headed(doc)[Len(Headed(doc))] = Line("refs")
           /\ Less(Headed(doc), Len(Headed(doc))) = Base(doc)
           /\ Plain(doc)
<1> DEFINE p == Base(doc)
           D == Headed(doc)
           n == Len(p)
<1>1. /\ Typed(doc) /\ doc \in Document /\ Sections(doc)
      /\ \A i \in DOMAIN doc : \/ doc[i].kind \in Indented
                               \/ doc[i].kind \in {"version", "refs", "other"}
  BY TypedLines DEF Sound
<1>2. \A i \in DOMAIN doc : doc[i].kind \in {"version", "other"}
  <2> SUFFICES ASSUME NEW i \in DOMAIN doc, doc[i].kind \notin {"version", "other"} PROVE FALSE
    OBVIOUS
  <2>1. doc[i].kind # "refs"
    BY DEF Lines
  <2>2. doc[i].kind \in Indented
    BY <1>1, <2>1
  <2>3. \E h \in Lines(doc, "refs") : h < i
    BY <1>1, <2>2, SectionHead
  <2> QED BY <2>3
<1>3. p \in Document /\ n \in Nat /\ \A i \in 1 .. n : p[i].kind \in {"version", "other"}
  <2>1. CASE doc = <<>>
    <3>1. p = <<Line("version")>> /\ Line("version") \in Text /\ Line("version").kind = "version"
      BY <2>1 DEF Base, Line, Text, Kinds
    <3>2. p \in Document /\ Len(p) = 1 /\ p[1] = Line("version")
      BY <3>1 DEF Document
    <3>3. \A i \in 1 .. 1 : i = 1
      OBVIOUS
    <3> QED BY <3>1, <3>2, <3>3
  <2>2. CASE doc # <<>>
    BY <1>1, <1>2, <2>2, DocumentLines DEF Base
  <2> QED BY <2>1, <2>2
<1>4. /\ D \in Document /\ Len(D) = n + 1 /\ DOMAIN D = 1 .. n + 1 /\ D[n + 1] = Line("refs")
      /\ \A i \in 1 .. n : D[i] = p[i]
  <2>1. Line("refs") \in Text
    BY DEF Line, Text, Kinds
  <2> HIDE DEF p
  <2> QED BY <1>3, <2>1 DEF Document, Headed, p
<1>5. /\ Line("refs").kind = "refs"
      /\ \A i \in 1 .. n + 1 : i \in 1 .. n \/ i = n + 1
  BY <1>3 DEF Line
<1> HIDE DEF p, D, n
<1>6. \A i \in 1 .. n + 1 : \/ i \in 1 .. n /\ D[i].kind \in {"version", "other"}
                            \/ i = n + 1 /\ D[i].kind = "refs"
  BY <1>3, <1>4, <1>5
<1>7. Sound(D) /\ Plain(D) /\ Lines(D, "ref") = {}
  <2>1. \A i \in DOMAIN D : D[i].kind \in {"version", "other", "refs"}
    BY <1>4, <1>6
  <2>2. \A i \in DOMAIN D : D[i].kind = "refs" => i = n + 1
    BY <1>4, <1>6
  <2>3. Typed(D)
    BY <1>4, <2>1 DEF Typed, KindsOf
  <2>4. Sections(D)
    BY <2>1, <2>2 DEF Sections, Lines, Indented
  <2>5. Plain(D) /\ Lines(D, "ref") = {}
    BY <2>1 DEF Plain, Lines, Marks
  <2> QED BY <2>3, <2>4, <2>5 DEF Sound
<1>8. Less(D, n + 1) = p
  <2>1. Less(D, n + 1) = [j \in 1 .. n |-> p[j]]
    <3>1. Len(D) - 1 = n /\ \A j \in 1 .. n : j < n + 1
      BY <1>3, <1>4
    <3> QED BY <1>4, <3>1 DEF Less
  <2>2. \A j \in 1 .. n : p[j] \in Text
    BY <1>3, DocumentLines DEF n
  <2>3. Less(D, n + 1) \in Document /\ Len(Less(D, n + 1)) = n
    BY <1>3, <2>1, <2>2, IsDocument
  <2> QED BY <1>3, <2>1, <2>3, SameDocument DEF n
<1>9. Applied(doc, k) = Blocked(D, Len(D) + 1, k, 0)
  <2>1. Applied(doc, k) = (p \o <<Line("refs")>>) \o ManagedBlock(k, 0)
    BY DEF Applied, ApplyBlock, p, Base
  <2>2. ManagedBlock(k, 0) = Block(k, 0)
    BY DEF ManagedBlock, Block, Ref, Key, KeyKind
  <2>3. p \o <<Line("refs")>> = D
    BY <1>3 DEF D, Headed, p, Document
  <2> QED BY <1>4, <2>1, <2>2, <2>3, BlockAtEnd
<1>10. Plain(doc)
  BY <1>2 DEF Plain, Marks
<1> QED BY <1>3, <1>4, <1>7, <1>8, <1>9, <1>10 DEF D, p

-----------------------------------------------------------------------------
(* Apply and Remove. *)

\* Apply makes a sound document with a block, and leaves no key of the user's beside it.
LEMMA AppliedSound ==
    ASSUME NEW doc, Sound(doc), NEW k \in Nat, k # 0
    PROVE  Sound(Applied(doc, k)) /\ HasBlock(Applied(doc, k)) /\ Single(Applied(doc, k))
<1> DEFINE A == Applied(doc, k)
<1>1. SUFFICES \E b : Sound(A) /\ BlockAt(A, b) /\ (IsDsh => Lines(A, "ref") = {KeyAt(A, b)})
  <2>1. PICK b : Sound(A) /\ BlockAt(A, b) /\ (IsDsh => Lines(A, "ref") = {KeyAt(A, b)})
    BY <1>1
  <2> HIDE DEF A
  <2>2. HasBlock(A) /\ ~ Plain(A)
    BY <2>1 DEF BlockAt, HasBlock, Lines, Plain, Marks
  <2>3. \A c \in DOMAIN A : BlockAt(A, c) => c = b
    BY <2>1 DEF BlockAt
  <2>4. Single(A)
    BY <2>1, <2>2, <2>3 DEF Single
  <2> QED BY <2>1, <2>2, <2>4 DEF A
<1>2. CASE ~ IsDsh
  <2> DEFINE D == Removed(doc)
  <2>1. A = Blocked(D, Len(D) + 1, k, 0) /\ Sound(D) /\ Plain(D)
    BY <1>2, CodexApplied
  <2>2. Len(D) \in Nat /\ 0 \in Nat
    BY <2>1, TypedLines DEF Sound
  <2> HIDE DEF D
  <2>3. PICK at \in 1 .. Len(D) + 1 : at = Len(D) + 1
    BY <2>2
  <2>4. Sound(Blocked(D, at, k, 0)) /\ BlockAt(Blocked(D, at, k, 0), at)
    BY <1>2, <2>1, <2>2, BlockedSound
  <2> QED BY <1>2, <2>1, <2>3, <2>4
<1>3. CASE IsDsh /\ Lines(doc, "refs") = {}
  <2> DEFINE D == Headed(doc)
  <2>1. /\ A = Blocked(D, Len(D) + 1, k, 0) /\ Sound(D) /\ Plain(D) /\ Lines(D, "ref") = {}
        /\ Len(D) \in Nat \ {0} /\ D[Len(D)] = Line("refs")
    BY <1>3, NewSection
  <2> HIDE DEF D
  <2>2. PICK at \in 1 .. Len(D) + 1 : at = Len(D) + 1
    BY <2>1
  <2>3. 0 \in Nat /\ at - 1 \in 1 .. Len(D) /\ D[at - 1].kind \in Indented \cup {"refs"}
    BY <2>1, <2>2 DEF Line
  <2>4. Lines(D, KeyKind) = {} /\ KeyKind = "ref"
    BY <1>3, <2>1 DEF KeyKind
  <2>5. /\ Sound(Blocked(D, at, k, 0)) /\ BlockAt(Blocked(D, at, k, 0), at)
        /\ Lines(Blocked(D, at, k, 0), KeyKind) = {KeyAt(Blocked(D, at, k, 0), at)}
    BY <1>3, <2>1, <2>3, <2>4, BlockedSound
  <2> QED BY <2>1, <2>2, <2>4, <2>5
<1>4. CASE IsDsh /\ Lines(doc, "refs") # {}
  <2> DEFINE D == Kept(doc)
  <2>1. PICK h \in Lines(doc, "refs") : TRUE
    BY <1>4
  <2>2. /\ ApplyBlock(doc, k) = Blocked(D, Place(doc), k, Parked(doc))
        /\ Sound(D) /\ Plain(D) /\ Lines(D, "ref") = {}
        /\ Place(doc) \in 1 .. Len(D) + 1 /\ Place(doc) - 1 \in 1 .. Len(D)
        /\ D[Place(doc) - 1].kind \in Indented \cup {"refs"}
        /\ Parked(doc) \in Nat
    BY <1>4, <2>1, ApplyBlockIs, ParkedIs
  <2> HIDE DEF D
  <2>3. PICK at \in 1 .. Len(D) + 1 : at = Place(doc)
    BY <2>2
  <2>4. PICK s \in Nat : s = Parked(doc)
    BY <2>2
  <2>5. /\ at - 1 \in 1 .. Len(D) /\ D[at - 1].kind \in Indented \cup {"refs"}
        /\ Lines(D, KeyKind) = {} /\ KeyKind = "ref"
    BY <1>4, <2>2, <2>3 DEF KeyKind
  <2>6. /\ Sound(Blocked(D, at, k, s)) /\ BlockAt(Blocked(D, at, k, s), at)
        /\ Lines(Blocked(D, at, k, s), KeyKind) = {KeyAt(Blocked(D, at, k, s), at)}
    BY <1>4, <2>2, <2>5, BlockedSound
  <2>7. A = Blocked(D, at, k, s)
    BY <1>4, <2>2, <2>3, <2>4 DEF Applied
  <2> QED BY <2>5, <2>6, <2>7
<1> QED BY <1>2, <1>3, <1>4

\* Remove undoes Apply, in a section with a key of the user's at most, ...
LEMMA PlainApplied ==
    ASSUME NEW doc, Sound(doc), IsDsh, Plain(doc), Single(doc), NEW h \in Lines(doc, "refs"),
           NEW k \in Nat, k # 0
    PROVE  Removed(ApplyBlock(doc, k)) = doc
<1> DEFINE D == Kept(doc)
           n == Len(doc)
<1>1. /\ ApplyBlock(doc, k) = Blocked(D, Place(doc), k, Parked(doc))
      /\ Sound(D) /\ Plain(D)
      /\ Place(doc) \in 1 .. Len(D) + 1 /\ Place(doc) - 1 \in 1 .. Len(D)
      /\ D[Place(doc) - 1].kind \in Indented \cup {"refs"}
      /\ Parked(doc) \in Nat
  BY ApplyBlockIs, ParkedIs
<1>2. /\ doc \in Document /\ n \in Nat /\ DOMAIN doc = 1 .. n /\ Typed(doc) /\ Sections(doc)
      /\ \A i \in 1 .. n : doc[i] \in Text /\ doc[i].key \in Nat
                           /\ (doc[i].kind \in {"ref", "saved"} => doc[i].key # 0)
  BY TypedLines DEF Sound
<1>3. Out(doc) = Lines(doc, "ref") /\ OwnKeys(doc) = Lines(doc, "ref")
  <2>1. OwnKeys(doc) = {i \in DOMAIN doc : doc[i].kind = "ref"}
    BY OutIs
  <2> QED BY <2>1 DEF Out, Lines, Plain
<1> HIDE DEF D, n
<1>4. PICK at \in 1 .. Len(D) + 1 : at = Place(doc)
  BY <1>1
<1>5. PICK s \in Nat : s = Parked(doc)
  BY <1>1
<1>6. /\ Alone(D, at, s) => Removed(Blocked(D, at, k, s)) = Less(D, at - 1)
      /\ ~ Alone(D, at, s) => Removed(Blocked(D, at, k, s)) =
                                IF s = 0 THEN D ELSE Inserted(D, at - 1, Ref(s))
  BY <1>1, <1>4, BlockedRemoved
<1>7. CASE Lines(doc, "ref") = {}
  <2>1. D = doc
    <3>1. DOMAIN doc \ Out(doc) = DOMAIN doc
      BY <1>3, <1>7
    <3> QED BY <1>2, <3>1, PickAll DEF D, Kept, Without
  <2>2. s = 0
    BY <1>3, <1>5, <1>7, ParkedIs
  <2>3. doc[at - 1].kind # "refs"
    <3>1. PICK i \in DOMAIN doc : doc[i].kind \in Indented
      BY DEF Single
    <3>2. i < at
      BY <1>3, <1>4, <1>7, <3>1, PlaceIs
    <3>3. h < i
      BY <1>2, <3>1, SectionIs
    <3>4. at - 1 # h
      BY <1>2, <3>2, <3>3 DEF Lines
    <3>5. at - 1 \in DOMAIN doc
      BY <1>1, <1>2, <1>4, <2>1 DEF n
    <3> QED BY <1>2, <3>4, <3>5 DEF Sections, Lines
  <2>4. ~ Alone(D, at, s)
    BY <2>1, <2>3 DEF Alone
  <2> QED BY <1>1, <1>4, <1>5, <1>6, <2>1, <2>2, <2>4
<1>8. CASE Lines(doc, "ref") # {}
  <2>1. PICK r \in Lines(doc, "ref") : Lines(doc, "ref") = {r}
    BY <1>8 DEF Single
  <2>2. r \in 1 .. n /\ doc[r].kind = "ref"
    BY <1>2 DEF Lines
  <2>3. at = r
    BY <1>3, <1>4, <2>1, PlaceIs
  <2>4. s = doc[r].key /\ s # 0
    BY <1>2, <1>3, <1>5, <2>1, <2>2, ParkedIs
  <2>5. D = Less(doc, r) /\ D \in Document /\ Len(D) = n - 1
    <3>1. D = Pick[doc][DOMAIN doc \ {r}]
      BY <1>3, <2>1 DEF D, Kept, Without
    <3>2. r \in DOMAIN doc
      BY <1>2, <2>2
    <3>3. /\ Pick[doc][DOMAIN doc \ {r}] = Less(doc, r)
          /\ Less(doc, r) \in Document /\ Len(Less(doc, r)) = Len(doc) - 1
      BY <1>2, <3>2, LessIs
    <3> QED BY <3>1, <3>3 DEF n
  <2>6. \A j \in 1 .. n - 1 : D[j] = IF j < r THEN doc[j] ELSE doc[j + 1]
    BY <2>5 DEF Less, n
  <2>7. Removed(Blocked(D, at, k, s)) = Inserted(D, at - 1, Ref(s))
    BY <1>6, <2>4 DEF Alone
  <2> DEFINE E == Inserted(D, at - 1, Ref(s))
  <2>8. E = [j \in 1 .. n |-> IF j <= r - 1 THEN D[j] ELSE IF j = r - 1 + 1 THEN Ref(s) ELSE D[j - 1]]
    <3>1. Len(D) + 1 = n
      BY <1>2, <2>5
    <3> QED BY <2>3, <3>1 DEF Inserted
  <2>9. Ref(s) = doc[r]
    <3>1. Ref(s) \in Text /\ Ref(s).kind = "ref" /\ Ref(s).key = s
      BY DEF Ref, Text, Kinds
    <3> QED BY <1>2, <2>2, <2>4, <3>1, SameLine
  <2> HIDE DEF E
  <2>10. ASSUME NEW j \in 1 .. n PROVE E[j] = doc[j]
    <3>1. CASE j < r
      BY <1>2, <2>2, <2>6, <2>8, <3>1
    <3>2. CASE j = r
      BY <1>2, <2>2, <2>8, <2>9, <3>2
    <3>3. CASE j > r
      <4>1. j - 1 \in 1 .. n - 1 /\ ~ (j - 1 < r) /\ (j - 1) + 1 = j /\ ~ (j <= r - 1) /\ j # r - 1 + 1
        BY <1>2, <2>2, <3>3
      <4> QED BY <2>6, <2>8, <4>1
    <3> QED BY <2>2, <3>1, <3>2, <3>3
  <2>11. E \in Document /\ Len(E) = n
    <3>1. E \in [1 .. n -> Text]
      BY <1>2, <2>8, <2>10
    <3> QED BY <1>2, <3>1, IsDocument
  <2>12. E = doc
    BY <1>2, <2>10, <2>11, SameDocument DEF n
  <2> QED BY <1>1, <1>4, <1>5, <2>7, <2>12 DEF E
<1> QED BY <1>7, <1>8

\* ... in one with a block and no key beside it, ...
LEMMA AppliedAgain ==
    ASSUME NEW doc, Sound(doc), IsDsh, NEW b, BlockAt(doc, b),
           Lines(doc, "ref") = {KeyAt(doc, b)}, NEW h \in Lines(doc, "refs"),
           NEW k \in Nat, k # 0
    PROVE  Removed(ApplyBlock(doc, k)) = Removed(doc)
<1> DEFINE D == Kept(doc)
           C == Cut(doc, b)
           n == Len(doc)
<1>1. /\ ApplyBlock(doc, k) = Blocked(D, Place(doc), k, Parked(doc))
      /\ Sound(D) /\ Plain(D)
      /\ Place(doc) \in 1 .. Len(D) + 1 /\ Place(doc) - 1 \in 1 .. Len(D)
      /\ D[Place(doc) - 1].kind \in Indented \cup {"refs"}
      /\ \A i \in 1 .. Place(doc) - 1 : D[i] = doc[i]
      /\ Parked(doc) \in Nat
  BY ApplyBlockIs, ParkedIs
<1>2. /\ doc \in Document /\ n \in Nat /\ DOMAIN doc = 1 .. n /\ Typed(doc)
      /\ \A i \in 1 .. n : doc[i] \in Text /\ doc[i].key \in Nat
                           /\ (doc[i].kind \in {"ref", "saved"} => doc[i].key # 0)
  BY TypedLines DEF Sound
<1>3. /\ b \in 1 .. n /\ KeyAt(doc, b) + 1 \in 1 .. n
      /\ doc[b + 1].kind = "saved" => KeyAt(doc, b) = b + 2 /\ b + 3 <= n
      /\ doc[b + 1].kind # "saved" => KeyAt(doc, b) = b + 1 /\ b + 2 <= n
      /\ doc[b].kind = "begin"
      /\ \A i \in 1 .. n : doc[i].kind = "saved" => i = b + 1
  BY <1>2, BlockPlaces DEF BlockAt
<1>4. /\ C \in Document /\ DOMAIN C = 1 .. n - 3 /\ n - 3 \in Nat /\ Len(C) = n - 3
      /\ \A j \in 1 .. n - 3 :
           /\ j < b => C[j] = doc[j]
           /\ j > b => C[j] = doc[j + 3]
           /\ j = b /\ doc[b + 1].kind # "saved" => C[j] = doc[b + 3]
           /\ j = b /\ doc[b + 1].kind = "saved" => C[j] = Ref(doc[b + 1].key)
  <2>1. Left(C, doc, b)
    BY <1>2, CutLeft
  <2> HIDE DEF C
  <2> QED BY <2>1 DEF Left
<1>5. Out(doc) = InBlock(doc) /\ OwnKeys(doc) = Lines(doc, "saved")
  <2>1. InBlock(doc) = b .. KeyAt(doc, b) + 1
    BY <1>2, InBlockIs
  <2>2. \A i \in 1 .. n : doc[i].kind \in Marks \cup {"ref"} => i \in b .. KeyAt(doc, b) + 1
    <3> SUFFICES ASSUME NEW i \in 1 .. n, doc[i].kind \in Marks \cup {"ref"}
                 PROVE  i \in b .. KeyAt(doc, b) + 1
      OBVIOUS
    <3>1. i = b \/ i = b + 1 \/ i = KeyAt(doc, b) + 1 \/ i = KeyAt(doc, b)
      BY <1>2 DEF BlockAt, Lines, Marks
    <3> QED BY <1>3, <3>1
  <2>3. \A i \in b .. KeyAt(doc, b) + 1 : i \in 1 .. n /\ doc[i].kind \in Marks \cup {"ref"}
    <3> SUFFICES ASSUME NEW i \in b .. KeyAt(doc, b) + 1
                 PROVE  i \in 1 .. n /\ doc[i].kind \in Marks \cup {"ref"}
      OBVIOUS
    <3>1. /\ i \in 1 .. n
          /\ \/ i = b \/ i = KeyAt(doc, b) + 1 \/ i = KeyAt(doc, b)
             \/ i = b + 1 /\ doc[b + 1].kind = "saved"
      BY <1>2, <1>3
    <3>2. doc[KeyAt(doc, b)].kind = "ref" /\ doc[KeyAt(doc, b) + 1].kind = "end"
      BY DEF BlockAt, KeyKind
    <3> QED BY <1>3, <3>1, <3>2 DEF Marks
  <2>4. Out(doc) = b .. KeyAt(doc, b) + 1
    BY <1>2, <2>2, <2>3 DEF Out
  <2>5. OwnKeys(doc) = Lines(doc, "saved")
    BY OutIs
  <2> QED BY <2>1, <2>4, <2>5
<1>6. InBlock(doc) = b .. KeyAt(doc, b) + 1
  BY <1>2, InBlockIs
<1>7. Place(doc) = b
  <2>1. Place(doc) \in Out(doc) /\ \A i \in Out(doc) : Place(doc) <= i
    <3>1. Out(doc) # {}
      BY <1>2, <1>3, <1>5, <1>6
    <3> QED BY <3>1, PlaceIs
  <2>2. b \in Out(doc) /\ \A i \in Out(doc) : i \in Int /\ b <= i
    BY <1>2, <1>3, <1>5, <1>6
  <2>3. Place(doc) <= b /\ b <= Place(doc) /\ Place(doc) \in Int /\ b \in Int
    BY <2>1, <2>2
  <2> QED BY <2>3
<1>8. Removed(doc) = IF Lone(doc, b) THEN Less(C, b - 1) ELSE C
  BY RemovedIs
<1> HIDE DEF D, C, n
<1>9. PICK at \in 1 .. Len(D) + 1 : at = b
  BY <1>1, <1>7
<1>10. PICK s \in Nat : s = Parked(doc)
  BY <1>1
<1>11. at - 1 \in 1 .. Len(D) /\ D[at - 1].kind \in Indented \cup {"refs"}
  BY <1>1, <1>7, <1>9
<1>12. /\ Alone(D, at, s) => Removed(Blocked(D, at, k, s)) = Less(D, at - 1)
       /\ ~ Alone(D, at, s) => Removed(Blocked(D, at, k, s)) =
                                 IF s = 0 THEN D ELSE Inserted(D, at - 1, Ref(s))
  BY <1>1, <1>11, BlockedRemoved
<1>13. ApplyBlock(doc, k) = Blocked(D, at, k, s)
  BY <1>1, <1>7, <1>9, <1>10
<1>14. CASE doc[b + 1].kind # "saved"
  <2>1. Lines(doc, "saved") = {}
    BY <1>2, <1>3, <1>14 DEF Lines
  <2>2. s = 0
    BY <1>5, <1>10, <2>1, ParkedIs
  <2>3. D = C
    <3> DEFINE lines == [i \in DOMAIN doc |-> IF i \in {} THEN Ref(doc[i].key) ELSE doc[i]]
    <3>1. lines = doc
      <4>1. doc = [i \in DOMAIN doc |-> doc[i]]
        BY <1>2 DEF Document
      <4> QED BY <4>1
    <3>2. {} \in SUBSET {b + 1} /\ ({} = {} <=> doc[b + 1].kind # "saved")
      BY <1>14
    <3> HIDE DEF lines
    <3>3. lines \in Document
      BY <1>2, <3>1
    <3>4. lines = [i \in DOMAIN doc |-> IF i \in {} THEN Ref(doc[i].key) ELSE doc[i]]
      BY DEF lines
    <3>5. Pick[lines][(DOMAIN doc \ InBlock(doc)) \cup {}] = C
      BY <1>2, <3>2, <3>3, <3>4, CutIs DEF C
    <3>6. (DOMAIN doc \ InBlock(doc)) \cup {} = DOMAIN doc \ Out(doc)
      BY <1>5
    <3> QED BY <3>1, <3>5, <3>6 DEF D, Kept, Without
  <2>4. Alone(D, at, s) <=> Lone(doc, b)
    <3>1. b - 1 \in 1 .. b - 1
      BY <1>1, <1>7, <1>3
    <3>2. D[b - 1] = doc[b - 1]
      BY <1>1, <1>7, <3>1
    <3>3. b \in DOMAIN C <=> b + 3 \in DOMAIN doc
      BY <1>2, <1>3, <1>4
    <3>4. b \in DOMAIN C => C[b] = doc[b + 3]
      BY <1>4, <1>14
    <3> QED BY <1>9, <1>14, <2>2, <2>3, <3>2, <3>3, <3>4 DEF Alone, Lone
  <2> QED BY <1>8, <1>9, <1>12, <1>13, <2>2, <2>3, <2>4
<1>15. CASE doc[b + 1].kind = "saved"
  <2>1. Lines(doc, "saved") = {b + 1} /\ b + 1 \in 1 .. n
    BY <1>2, <1>3, <1>15 DEF Lines
  <2>2. s = doc[b + 1].key /\ s # 0
    BY <1>2, <1>5, <1>10, <1>15, <2>1, ParkedIs
  <2> DEFINE f == [j \in 1 .. n - 4 |-> IF j < b THEN j ELSE j + 4]
             I == DOMAIN doc \ Out(doc)
  <2>3. n - 4 \in Nat /\ b + 3 <= n
    BY <1>2, <1>3, <1>15
  <2>4. I = {i \in 1 .. n : i < b \/ i > b + 3} /\ I \in SUBSET Nat
    BY <1>2, <1>3, <1>5, <1>6, <1>15
  <2>5. Enumerates(f, n - 4, I)
    <3> HIDE DEF I
    <3>1. f \in [1 .. n - 4 -> I]
      BY <1>2, <1>3, <2>3, <2>4
    <3>2. \A i \in I : \E j \in 1 .. n - 4 : f[j] = i
      <4> SUFFICES ASSUME NEW i \in I PROVE \E j \in 1 .. n - 4 : f[j] = i
        OBVIOUS
      <4>1. i \in 1 .. n /\ (i < b \/ i > b + 3)
        BY <2>4
      <4>2. CASE i < b
        <5>1. i \in 1 .. n - 4 /\ f[i] = i
          BY <1>2, <1>3, <2>3, <4>1, <4>2
        <5> QED BY <5>1
      <4>3. CASE i > b + 3
        <5>1. i - 4 \in 1 .. n - 4 /\ f[i - 4] = i
          BY <1>2, <1>3, <2>3, <4>1, <4>3
        <5> QED BY <5>1
      <4> QED BY <4>1, <4>2, <4>3
    <3>3. \A j, l \in 1 .. n - 4 : j < l => f[j] < f[l]
      BY <1>2, <1>3, <2>3
    <3> QED BY <3>1, <3>2, <3>3 DEF Enumerates
  <2> HIDE DEF I
  <2>6. D = Along(doc, f, n - 4)
    <3> HIDE DEF f
    <3> QED BY <1>2, <2>3, <2>4, <2>5, PickIs DEF D, Kept, Without, I
  <2>7. /\ DOMAIN D = 1 .. n - 4
        /\ \A j \in 1 .. n - 4 : D[j] = IF j < b THEN doc[j] ELSE doc[j + 4]
    BY <1>3, <2>6 DEF Along
  <2>8. Len(D) = n - 4
    <3>1. D \in Document
      BY <1>1, TypedLines DEF Sound
    <3>2. DOMAIN D = 1 .. Len(D) /\ Len(D) \in Nat
      BY <3>1, DocumentLines
    <3> QED BY <2>3, <2>7, <3>2
  <2> DEFINE E == Inserted(D, at - 1, Ref(s))
  <2>9. Removed(Blocked(D, at, k, s)) = E /\ Removed(doc) = C
    BY <1>8, <1>12, <1>15, <2>2 DEF Alone, Lone
  <2>10. E = [j \in 1 .. n - 3 |-> IF j <= b - 1 THEN D[j]
                                   ELSE IF j = b - 1 + 1 THEN Ref(s) ELSE D[j - 1]]
    <3>1. Len(D) + 1 = n - 3
      BY <1>2, <2>8
    <3> QED BY <1>9, <3>1 DEF Inserted
  <2> HIDE DEF E, f
  <2>11. ASSUME NEW j \in 1 .. n - 3 PROVE E[j] = C[j]
    <3>1. CASE j < b
      <4>1. j \in 1 .. n - 4 /\ j <= b - 1
        BY <1>2, <1>3, <2>3, <3>1
      <4> QED BY <1>4, <2>7, <2>10, <3>1, <4>1
    <3>2. CASE j = b
      BY <1>3, <1>4, <1>15, <2>2, <2>10, <3>2
    <3>3. CASE j > b
      <4>1. /\ j - 1 \in 1 .. n - 4 /\ ~ (j - 1 < b) /\ (j - 1) + 4 = j + 3
            /\ ~ (j <= b - 1) /\ j # b - 1 + 1
        BY <1>2, <1>3, <3>3
      <4> QED BY <1>4, <2>7, <2>10, <3>3, <4>1
    <3> QED BY <1>3, <3>1, <3>2, <3>3
  <2>12. E \in Document /\ Len(E) = n - 3
    <3>1. \A j \in 1 .. n - 3 : C[j] \in Text
      BY <1>4, DocumentLines
    <3>2. E \in [1 .. n - 3 -> Text]
      BY <2>10, <2>11, <3>1
    <3> QED BY <1>4, <3>2, IsDocument
  <2>13. E = C
    BY <1>4, <2>11, <2>12, SameDocument
  <2> QED BY <1>13, <2>9, <2>13
<1> QED BY <1>14, <1>15

\* ... and at the end of Codex's file.  (A file that was not there keeps its version.)
LEMMA AppliedRemoved ==
    ASSUME NEW doc, Sound(doc), Single(doc), NEW k \in Nat, k # 0
    PROVE  Removed(Applied(doc, k)) =
             IF IsDsh /\ doc = <<>> THEN <<Line("version")>> ELSE Removed(doc)
<1>1. CASE ~ IsDsh
  <2> DEFINE D == Removed(doc)
  <2>1. Applied(doc, k) = Blocked(D, Len(D) + 1, k, 0) /\ Sound(D) /\ Plain(D)
    BY <1>1, CodexApplied
  <2>2. Len(D) \in Nat /\ 0 \in Nat
    BY <2>1, TypedLines DEF Sound
  <2> HIDE DEF D
  <2>3. PICK at \in 1 .. Len(D) + 1 : at = Len(D) + 1
    BY <2>2
  <2>4. ~ Alone(D, at, 0) => Removed(Blocked(D, at, k, 0)) = IF 0 = 0 THEN D ELSE Inserted(D, at - 1, Ref(0))
    BY <1>1, <2>1, <2>2, BlockedRemoved
  <2> QED BY <1>1, <2>1, <2>3, <2>4 DEF D, Alone
<1>2. CASE IsDsh /\ Lines(doc, "refs") = {}
  <2> DEFINE D == Headed(doc)
  <2>1. /\ Applied(doc, k) = Blocked(D, Len(D) + 1, k, 0) /\ Sound(D) /\ Plain(D)
        /\ Len(D) \in Nat \ {0} /\ D[Len(D)] = Line("refs")
        /\ Less(D, Len(D)) = Base(doc) /\ Plain(doc)
    BY <1>2, NewSection
  <2> HIDE DEF D
  <2>2. PICK at \in 1 .. Len(D) + 1 : at = Len(D) + 1
    BY <2>1
  <2>3. /\ 0 \in Nat /\ at - 1 \in 1 .. Len(D) /\ D[at - 1].kind \in Indented \cup {"refs"}
        /\ at - 1 = Len(D) /\ D[at - 1].kind = "refs"
    BY <2>1, <2>2 DEF Line
  <2>4. Alone(D, at, 0) => Removed(Blocked(D, at, k, 0)) = Less(D, at - 1)
    BY <1>2, <2>1, <2>3, BlockedRemoved
  <2>5. Alone(D, at, 0)
    <3>1. D \in Document
      BY <2>1, TypedLines DEF Sound
    <3>2. DOMAIN D = 1 .. Len(D)
      BY <3>1, DocumentLines
    <3>3. at \notin DOMAIN D
      BY <2>1, <2>2, <3>2
    <3> QED BY <1>2, <2>3, <3>3 DEF Alone
  <2>6. Removed(doc) = doc
    BY <2>1, RemovedPlain DEF Sound
  <2>7. Removed(Applied(doc, k)) = Base(doc)
    BY <2>1, <2>2, <2>3, <2>4, <2>5
  <2> QED BY <1>2, <2>6, <2>7 DEF Base
<1>3. CASE IsDsh /\ Lines(doc, "refs") # {}
  <2>1. PICK h \in Lines(doc, "refs") : TRUE
    BY <1>3
  <2>2. Applied(doc, k) = ApplyBlock(doc, k)
    BY <1>3 DEF Applied
  <2>3. Removed(ApplyBlock(doc, k)) = Removed(doc)
    <3>1. CASE Plain(doc)
      BY <1>3, <2>1, <3>1, PlainApplied, RemovedPlain DEF Sound
    <3>2. CASE ~ Plain(doc)
      <4>1. PICK b \in DOMAIN doc : BlockAt(doc, b)
        BY <3>2 DEF Sound
      <4>2. Lines(doc, "ref") = {KeyAt(doc, b)}
        BY <1>3, <4>1 DEF Single
      <4> QED BY <1>3, <2>1, <4>1, <4>2, AppliedAgain
    <3> QED BY <3>1, <3>2
  <2>4. doc # <<>>
    BY <2>1 DEF Lines
  <2> QED BY <1>3, <2>2, <2>3, <2>4
<1> QED BY <1>1, <1>2, <1>3

-----------------------------------------------------------------------------
(* The user writes a line. *)

With(A, doc, i, x) ==
    /\ A \in Document /\ Len(A) = Len(doc) + 1 /\ DOMAIN A = 1 .. Len(doc) + 1
    /\ \A j \in 1 .. Len(doc) + 1 :
         /\ j <= i => j \in 1 .. Len(doc) /\ A[j] = doc[j]
         /\ j = i + 1 => A[j] = x
         /\ j > i + 1 => j - 1 \in 1 .. Len(doc) /\ A[j] = doc[j - 1]

LEMMA InsertedIs ==
    ASSUME NEW doc \in Document, NEW i \in 0 .. Len(doc), NEW x \in Text
    PROVE  With(Inserted(doc, i, x), doc, i, x)
<1> DEFINE A == Inserted(doc, i, x)
           n == Len(doc)
<1>1. n \in Nat /\ \A j \in 1 .. n : doc[j] \in Text
  BY DocumentLines
<1>2. A = [j \in 1 .. n + 1 |-> IF j <= i THEN doc[j] ELSE IF j = i + 1 THEN x ELSE doc[j - 1]]
  BY DEF Inserted
<1>3. i \in Nat /\ i <= n
  BY <1>1
<1> HIDE DEF A, n
<1>4. A \in [1 .. n + 1 -> Text] /\ n + 1 \in Nat
  BY <1>1, <1>2, <1>3
<1>5. A \in Document /\ Len(A) = n + 1
  BY <1>4, IsDocument
<1>6. ASSUME NEW j \in 1 .. n + 1
      PROVE  /\ j <= i => j \in 1 .. n /\ A[j] = doc[j]
             /\ j = i + 1 => A[j] = x
             /\ j > i + 1 => j - 1 \in 1 .. n /\ A[j] = doc[j - 1]
  BY <1>1, <1>2, <1>3
<1>7. With(A, doc, i, x)
  BY <1>2, <1>5, <1>6 DEF With, n
<1> QED BY <1>7 DEF A

\* Where the lines of a document are when another is written.
To(i, j) == IF j <= i THEN j ELSE j + 1

LEMMA Moved ==
    ASSUME NEW doc \in Document, NEW i \in 0 .. Len(doc), NEW x, NEW A, With(A, doc, i, x)
    PROVE  /\ \A j \in 1 .. Len(doc) :
                To(i, j) \in 1 .. Len(doc) + 1 /\ A[To(i, j)] = doc[j] /\ To(i, j) # i + 1
           /\ \A j \in 1 .. Len(doc) + 1 : j # i + 1 =>
                \E l \in 1 .. Len(doc) : j = To(i, l) /\ A[j] = doc[l]
           /\ i + 1 \in 1 .. Len(doc) + 1 /\ A[i + 1] = x
           /\ DOMAIN A = 1 .. Len(doc) + 1 /\ DOMAIN doc = 1 .. Len(doc)
<1> DEFINE n == Len(doc)
<1>1. n \in Nat /\ DOMAIN doc = 1 .. n /\ i \in Nat /\ i <= n
  <2>1. n \in Nat /\ DOMAIN doc = 1 .. n
    BY DocumentLines
  <2> QED BY <2>1
<1>2. /\ DOMAIN A = 1 .. n + 1
      /\ \A j \in 1 .. n + 1 :
           /\ j <= i => j \in 1 .. n /\ A[j] = doc[j]
           /\ j = i + 1 => A[j] = x
           /\ j > i + 1 => j - 1 \in 1 .. n /\ A[j] = doc[j - 1]
  BY DEF With
<1> HIDE DEF n
<1>3. ASSUME NEW j \in 1 .. n
      PROVE  To(i, j) \in 1 .. n + 1 /\ A[To(i, j)] = doc[j] /\ To(i, j) # i + 1
  <2>1. CASE j <= i
    <3>1. j \in 1 .. n + 1 /\ j # i + 1
      BY <1>1, <2>1
    <3> QED BY <1>2, <2>1, <3>1 DEF To
  <2>2. CASE ~ (j <= i)
    <3>1. j + 1 \in 1 .. n + 1 /\ j + 1 > i + 1 /\ (j + 1) - 1 = j /\ j + 1 # i + 1
      BY <1>1, <2>2
    <3> QED BY <1>2, <2>2, <3>1 DEF To
  <2> QED BY <2>1, <2>2
<1>4. ASSUME NEW j \in 1 .. n + 1, j # i + 1 PROVE \E l \in 1 .. n : j = To(i, l) /\ A[j] = doc[l]
  <2>1. CASE j <= i
    BY <1>2, <2>1 DEF To
  <2>2. CASE j > i + 1
    <3>1. j - 1 \in 1 .. n /\ ~ (j - 1 <= i) /\ (j - 1) + 1 = j
      BY <1>1, <2>2
    <3> QED BY <1>2, <2>2, <3>1 DEF To
  <2> QED BY <1>1, <1>4, <2>1, <2>2
<1>5. i + 1 \in 1 .. n + 1 /\ A[i + 1] = x
  BY <1>1, <1>2
<1> QED BY <1>1, <1>2, <1>3, <1>4, <1>5 DEF n

\* The ends of a document are places to write at.
LEMMA Appended ==
    ASSUME NEW doc \in Document, NEW x \in Text
    PROVE  Append(doc, x) = Inserted(doc, Len(doc), x)
<1> DEFINE A == Append(doc, x)
           B == Inserted(doc, Len(doc), x)
           n == Len(doc)
<1>1. n \in Nat /\ n \in 0 .. Len(doc)
  BY DocumentLines
<1>2. /\ A \in Document /\ Len(A) = n + 1 /\ A[n + 1] = x
      /\ \A j \in 1 .. n : A[j] = doc[j]
  BY DEF Document
<1>3. With(B, doc, n, x)
  BY <1>1, InsertedIs
<1> HIDE DEF A, B, n
<1>4. \A j \in 1 .. n + 1 : (j <= n /\ j \in 1 .. n) \/ j = n + 1
  BY <1>1
<1>5. B \in Document /\ Len(B) = n + 1 /\ \A j \in 1 .. n + 1 : A[j] = B[j]
  BY <1>2, <1>3, <1>4 DEF With, n
<1>6. A = B
  BY <1>2, <1>5, SameDocument
<1> QED BY <1>6 DEF A, B

LEMMA Prepended ==
    ASSUME NEW doc \in Document, NEW x \in Text
    PROVE  <<x>> \o doc = Inserted(doc, 0, x)
<1> DEFINE s == <<x>>
           A == Join(s, doc)
           B == Inserted(doc, 0, x)
           n == Len(doc)
<1>1. n \in Nat /\ 0 \in 0 .. Len(doc)
  BY DocumentLines
<1>2. s \in Document /\ Len(s) = 1 /\ s[1] = x
  BY DEF Document
<1> HIDE DEF s
<1>3. /\ A \in Document /\ Len(A) = Len(s) + Len(doc)
      /\ \A j \in 1 .. Len(s) + Len(doc) : A[j] = IF j <= Len(s) THEN s[j] ELSE doc[j - Len(s)]
  BY <1>2, Joined
<1>4. With(B, doc, 0, x)
  BY <1>1, InsertedIs
<1> HIDE DEF A, B, n
<1>5. /\ Len(A) = n + 1
      /\ \A j \in 1 .. n + 1 : A[j] = IF j <= 1 THEN x ELSE doc[j - 1]
  <2>1. Len(s) + Len(doc) = n + 1 /\ Len(s) = 1
    BY <1>1, <1>2 DEF n
  <2>2. Len(A) = n + 1 /\ \A j \in 1 .. n + 1 : A[j] = IF j <= 1 THEN s[j] ELSE doc[j - 1]
    BY <1>3, <2>1
  <2>3. \A j \in 1 .. n + 1 : j <= 1 => j = 1
    BY <1>1
  <2> QED BY <1>2, <2>2, <2>3
<1>6. \A j \in 1 .. n + 1 : (j <= 1 /\ j = 0 + 1) \/ (j > 0 + 1 /\ ~ (j <= 1))
  BY <1>1
<1>7. B \in Document /\ Len(B) = n + 1 /\ \A j \in 1 .. n + 1 : A[j] = B[j]
  BY <1>4, <1>5, <1>6 DEF With, n
<1>8. A = B
  BY <1>3, <1>5, <1>7, SameDocument
<1> QED BY <1>8 DEF A, B, s, Join

\* A line that may be written after the i-th: not of a block nor in one, below the header
\* or an indented line if it is indented, and otherwise not between these.
MayWrite(doc, i, x) ==
    /\ i \in 0 .. Len(doc) /\ x \in Text /\ x.kind \in KindsOf \ Marks
    /\ IsDsh =>
         /\ x.kind = "ref" => x.key # 0
         /\ x.kind = "refs" => Lines(doc, "refs") = {}
         /\ x.kind \in Indented => i \in 1 .. Len(doc) /\ doc[i].kind \in Indented \cup {"refs"}
         /\ x.kind \notin Indented \cup {"refs"} =>
              (i + 1 \in 1 .. Len(doc) => doc[i + 1].kind \notin Indented)
         /\ x.kind = "refs" => i = Len(doc)
    /\ \A b : BlockAt(doc, b) => i < b \/ KeyAt(doc, b) < i

LEMMA WrittenSound ==
    ASSUME NEW doc, Sound(doc), NEW i, NEW x, MayWrite(doc, i, x)
    PROVE  /\ Sound(Inserted(doc, i, x))
           /\ Plain(doc) => Plain(Inserted(doc, i, x))
           /\ \A b : BlockAt(doc, b) =>
                /\ i < b => /\ BlockAt(Inserted(doc, i, x), b + 1)
                            /\ KeyAt(Inserted(doc, i, x), b + 1) = KeyAt(doc, b) + 1
                /\ KeyAt(doc, b) < i => /\ BlockAt(Inserted(doc, i, x), b)
                                        /\ KeyAt(Inserted(doc, i, x), b) = KeyAt(doc, b)
<1> DEFINE A == Inserted(doc, i, x)
           n == Len(doc)
<1>1. /\ doc \in Document /\ n \in Nat /\ DOMAIN doc = 1 .. n /\ Typed(doc)
      /\ \A j \in 1 .. n : /\ doc[j].kind \in KindsOf
                           /\ IsDsh /\ doc[j].kind \in {"ref", "saved"} => doc[j].key # 0
  BY TypedLines DEF Sound, Typed
<1>2. With(A, doc, i, x)
  <2>1. i \in 0 .. Len(doc) /\ x \in Text
    BY DEF MayWrite
  <2> QED BY <1>1, <2>1, InsertedIs
<1> HIDE DEF A
<1>3. /\ A \in Document /\ DOMAIN A = 1 .. n + 1
      /\ \A j \in 1 .. n + 1 :
           /\ j <= i => j \in 1 .. n /\ A[j] = doc[j]
           /\ j = i + 1 => A[j] = x
           /\ j > i + 1 => j - 1 \in 1 .. n /\ A[j] = doc[j - 1]
  BY <1>2 DEF With
<1>4. i \in Nat /\ i <= n
  <2>1. i \in 0 .. n
    BY DEF MayWrite, n
  <2> HIDE DEF n
  <2> QED BY <1>1, <2>1
<1>5. /\ x.kind \in KindsOf /\ x.kind \notin Marks /\ (IsDsh /\ x.kind \in {"ref", "saved"} => x.key # 0)
  BY DEF MayWrite, Marks
<1> HIDE DEF n
\* Where the lines of the document are now.
<1> DEFINE to(j) == To(i, j)
<1>0. /\ \A j \in 1 .. n : to(j) \in 1 .. n + 1 /\ A[to(j)] = doc[j] /\ to(j) # i + 1
      /\ \A j \in 1 .. n + 1 : j # i + 1 => \E l \in 1 .. n : j = to(l) /\ A[j] = doc[l]
      /\ i + 1 \in 1 .. n + 1 /\ A[i + 1] = x
  <2>1. i \in 0 .. Len(doc) /\ doc \in Document
    BY <1>1 DEF MayWrite
  <2> HIDE DEF to
  <2>2. /\ \A j \in 1 .. n : To(i, j) \in 1 .. n + 1 /\ A[To(i, j)] = doc[j] /\ To(i, j) # i + 1
        /\ \A j \in 1 .. n + 1 : j # i + 1 => \E l \in 1 .. n : j = To(i, l) /\ A[j] = doc[l]
        /\ i + 1 \in 1 .. n + 1 /\ A[i + 1] = x
    BY <1>2, <2>1, Moved DEF n
  <2> QED BY <2>2 DEF to
<1>6. ASSUME NEW j \in 1 .. n PROVE to(j) \in 1 .. n + 1 /\ A[to(j)] = doc[j] /\ to(j) # i + 1
  BY <1>0
<1>7. ASSUME NEW j \in 1 .. n + 1, j # i + 1 PROVE \E l \in 1 .. n : j = to(l) /\ A[j] = doc[l]
  BY <1>0, <1>7
<1>8. i + 1 \in 1 .. n + 1 /\ A[i + 1] = x
  BY <1>0
<1> USE DEF To
<1>9. \A j, l \in 1 .. n : to(j) = to(l) => j = l
  BY <1>1, <1>4
<1>10. Typed(A)
  <2>1. ASSUME NEW j \in 1 .. n + 1
        PROVE  A[j].kind \in KindsOf /\ (IsDsh /\ A[j].kind \in {"ref", "saved"} => A[j].key # 0)
    <3>1. CASE j = i + 1
      BY <1>5, <1>8, <3>1
    <3>2. CASE j # i + 1
      <4>1. PICK l \in 1 .. n : A[j] = doc[l]
        BY <1>7, <3>2
      <4> QED BY <1>1, <4>1
    <3> QED BY <3>1, <3>2
  <2> QED BY <1>3, <2>1 DEF Typed
<1>11. ASSUME Plain(doc) PROVE Plain(A)
  <2>1. ASSUME NEW j \in 1 .. n + 1 PROVE A[j].kind \notin Marks
    <3>1. CASE j = i + 1
      BY <1>5, <1>8, <3>1
    <3>2. CASE j # i + 1
      <4>1. PICK l \in 1 .. n : A[j] = doc[l]
        BY <1>7, <3>2
      <4> QED BY <1>1, <1>11, <4>1 DEF Plain
    <3> QED BY <3>1, <3>2
  <2> QED BY <1>3, <2>1 DEF Plain
<1>12. ASSUME NEW b, BlockAt(doc, b)
       PROVE  BlockAt(A, to(b)) /\ KeyAt(A, to(b)) = to(KeyAt(doc, b))
              /\ (i < b \/ KeyAt(doc, b) < i) /\ b \in 1 .. n /\ KeyAt(doc, b) \in 1 .. n
              /\ b < KeyAt(doc, b)
  <2> DEFINE k == KeyAt(doc, b)
  <2>1. /\ b \in 1 .. n /\ b + 1 \in 1 .. n /\ k \in 1 .. n /\ k + 1 \in 1 .. n /\ b < k
        /\ k = IF doc[b + 1].kind = "saved" THEN b + 2 ELSE b + 1
    BY <1>1, <1>12, BlockPlaces DEF KeyAt, n
  <2>2. /\ doc[b].kind = "begin" /\ doc[k + 1].kind = "end"
        /\ doc[k].kind = KeyKind /\ doc[k].key # 0
        /\ \A j \in 1 .. n : /\ doc[j].kind = "begin" => j = b
                             /\ doc[j].kind = "saved" => j = b + 1
                             /\ doc[j].kind = "end"   => j = k + 1
    BY <1>1, <1>12 DEF BlockAt
  <2>3. i < b \/ k < i
    BY <1>12 DEF MayWrite
  <2> HIDE DEF k
  <2>4. /\ to(b) + 1 = to(b + 1) /\ to(k) + 1 = to(k + 1)
        /\ to(k) = IF doc[b + 1].kind = "saved" THEN to(b) + 2 ELSE to(b) + 1
    BY <1>1, <1>4, <2>1, <2>3
  <2>5. A[to(b) + 1] = doc[b + 1]
    BY <1>6, <2>1, <2>4
  <2>6. KeyAt(A, to(b)) = to(k)
    BY <2>4, <2>5 DEF KeyAt
  <2>7. /\ to(b) \in 1 .. n + 1 /\ to(k + 1) \in 1 .. n + 1 /\ A[to(b)] = doc[b]
        /\ A[to(k)] = doc[k] /\ A[to(k + 1)] = doc[k + 1]
    BY <1>6, <2>1
  <2>8. to(b) + 2 \in 1 .. n + 1
    <3>1. to(b) + 2 <= to(k + 1) /\ to(b) + 2 \in Nat
      BY <1>1, <1>4, <2>1, <2>3
    <3> QED BY <1>1, <2>7, <3>1
  <2>9. ASSUME NEW j \in 1 .. n + 1
        PROVE  /\ A[j].kind = "begin" => j = to(b)
               /\ A[j].kind = "saved" => j = to(b) + 1
               /\ A[j].kind = "end"   => j = to(k) + 1
    <3>1. CASE j = i + 1
      BY <1>5, <1>8, <3>1 DEF Marks
    <3>2. CASE j # i + 1
      <4>1. PICK l \in 1 .. n : j = to(l) /\ A[j] = doc[l]
        BY <1>7, <3>2
      <4> QED BY <2>2, <2>4, <4>1
    <3> QED BY <3>1, <3>2
  <2>10. BlockAt(A, to(b))
    BY <1>3, <2>2, <2>4, <2>6, <2>7, <2>8, <2>9 DEF BlockAt
  <2> QED BY <2>1, <2>3, <2>6, <2>10 DEF k
<1>13. ASSUME IsDsh PROVE Sections(A)
  <2>1. /\ \A g, h \in 1 .. n : doc[g].kind = "refs" /\ doc[h].kind = "refs" => g = h
        /\ \A j \in 1 .. n : doc[j].kind \in Indented =>
             j - 1 \in 1 .. n /\ doc[j - 1].kind \in Indented \cup {"refs"}
        /\ x.kind = "refs" => \A j \in 1 .. n : doc[j].kind # "refs"
        /\ x.kind \in Indented => i \in 1 .. n /\ doc[i].kind \in Indented \cup {"refs"}
        /\ x.kind \notin Indented \cup {"refs"} =>
              (i + 1 \in 1 .. n => doc[i + 1].kind \notin Indented)
        /\ x.kind = "refs" => i = n
    BY <1>1, <1>13 DEF Sound, Sections, Lines, MayWrite, n
  <2>2. \A g, h \in 1 .. n + 1 : A[g].kind = "refs" /\ A[h].kind = "refs" => g = h
    <3> SUFFICES ASSUME NEW g \in 1 .. n + 1, NEW h \in 1 .. n + 1,
                        A[g].kind = "refs", A[h].kind = "refs", g # h
                 PROVE  FALSE
      OBVIOUS
    <3>1. CASE g = i + 1
      <4>1. PICK l \in 1 .. n : A[h] = doc[l]
        BY <1>7, <3>1
      <4> QED BY <1>8, <2>1, <3>1, <4>1
    <3>2. CASE h = i + 1
      <4>1. PICK l \in 1 .. n : A[g] = doc[l]
        BY <1>7, <3>2
      <4> QED BY <1>8, <2>1, <3>2, <4>1
    <3>3. CASE g # i + 1 /\ h # i + 1
      <4>1. PICK l \in 1 .. n : g = to(l) /\ A[g] = doc[l]
        BY <1>7, <3>3
      <4>2. PICK m \in 1 .. n : h = to(m) /\ A[h] = doc[m]
        BY <1>7, <3>3
      <4> QED BY <2>1, <4>1, <4>2
    <3> QED BY <3>1, <3>2, <3>3
  <2>3. ASSUME NEW j \in 1 .. n + 1, A[j].kind \in Indented
        PROVE  j - 1 \in 1 .. n + 1 /\ A[j - 1].kind \in Indented \cup {"refs"}
    <3>1. CASE j = i + 1
      <4>1. i \in 1 .. n /\ doc[i].kind \in Indented \cup {"refs"} /\ j - 1 = i
        BY <1>4, <1>8, <2>1, <2>3, <3>1
      <4>2. to(i) = i
        BY <1>4
      <4> QED BY <1>6, <4>1, <4>2
    <3>2. CASE j = i + 2
      <4>1. j > i + 1 /\ j - 1 = i + 1 /\ i + 1 \in 1 .. n /\ A[j] = doc[i + 1]
        BY <1>3, <1>4, <3>2
      <4>2. x.kind \in Indented \cup {"refs"}
        BY <2>1, <2>3, <4>1
      <4> QED BY <1>8, <4>1, <4>2
    <3>3. CASE j # i + 1 /\ j # i + 2
      <4>1. PICK l \in 1 .. n : j = to(l) /\ A[j] = doc[l]
        BY <1>7, <3>3
      <4>2. l - 1 \in 1 .. n /\ doc[l - 1].kind \in Indented \cup {"refs"}
        BY <2>1, <2>3, <4>1
      <4>3. to(l - 1) = j - 1
        BY <1>4, <3>3, <4>1
      <4> QED BY <1>6, <4>2, <4>3
    <3> QED BY <3>1, <3>2, <3>3
  <2> QED BY <1>3, <2>2, <2>3 DEF Sections, Lines
<1>14. Sound(A)
  <2>1. \A b : BlockAt(A, b) => b \in DOMAIN A
    BY DEF BlockAt
  <2> QED BY <1>10, <1>11, <1>12, <1>13, <2>1 DEF Sound
<1>15. ASSUME NEW b, BlockAt(doc, b)
       PROVE  /\ i < b => BlockAt(A, b + 1) /\ KeyAt(A, b + 1) = KeyAt(doc, b) + 1
              /\ KeyAt(doc, b) < i => BlockAt(A, b) /\ KeyAt(A, b) = KeyAt(doc, b)
  <2>1. /\ BlockAt(A, to(b)) /\ KeyAt(A, to(b)) = to(KeyAt(doc, b))
        /\ b \in 1 .. n /\ KeyAt(doc, b) \in 1 .. n /\ b < KeyAt(doc, b)
    BY <1>12, <1>15
  <2>2. ASSUME i < b PROVE to(b) = b + 1 /\ to(KeyAt(doc, b)) = KeyAt(doc, b) + 1
    BY <1>4, <2>1, <2>2
  <2>3. ASSUME KeyAt(doc, b) < i PROVE to(b) = b /\ to(KeyAt(doc, b)) = KeyAt(doc, b)
    BY <1>4, <2>1, <2>3
  <2> QED BY <2>1, <2>2, <2>3
<1> QED BY <1>11, <1>14, <1>15 DEF A

\* What is written before the block, or after it, is written in what Remove leaves.
LEMMA CutWritten ==
    ASSUME NEW doc, Sound(doc), NEW i, NEW x, MayWrite(doc, i, x), NEW b, BlockAt(doc, b)
    PROVE  /\ i < b => Cut(Inserted(doc, i, x), b + 1) = Inserted(Cut(doc, b), i, x)
           /\ KeyAt(doc, b) < i => /\ Cut(Inserted(doc, i, x), b) = Inserted(Cut(doc, b), i - 3, x)
                                   /\ i - 3 \in 0 .. Len(doc) - 3
<1> DEFINE A == Inserted(doc, i, x)
           n == Len(doc)
           C == Cut(doc, b)
           sv == doc[b + 1].kind = "saved"
<1>1. /\ doc \in Document /\ n \in Nat /\ DOMAIN doc = 1 .. n /\ Typed(doc)
      /\ i \in 0 .. n /\ x \in Text
  BY TypedLines DEF Sound, MayWrite
<1>2. /\ b \in Nat \ {0} /\ (sv => KeyAt(doc, b) = b + 2 /\ b + 3 <= n)
      /\ (~ sv => KeyAt(doc, b) = b + 1 /\ b + 2 <= n)
  BY <1>1, BlockPlaces
<1>3. /\ A \in Document /\ Len(A) = n + 1
      /\ \A j \in 1 .. n + 1 :
           /\ j <= i => A[j] = doc[j]
           /\ j = i + 1 => A[j] = x
           /\ j > i + 1 => A[j] = doc[j - 1]
  <2>1. With(A, doc, i, x)
    BY <1>1, InsertedIs
  <2> HIDE DEF A
  <2> QED BY <2>1 DEF With
<1>4. /\ C \in Document /\ Len(C) = n - 3 /\ n - 3 \in Nat
      /\ \A j \in 1 .. n - 3 :
           /\ j < b => C[j] = doc[j]
           /\ j > b => C[j] = doc[j + 3]
           /\ j = b /\ ~ sv => C[j] = doc[b + 3]
           /\ j = b /\ sv => C[j] = Ref(doc[b + 1].key)
  <2>1. Left(C, doc, b)
    BY <1>1, CutLeft
  <2> HIDE DEF C, sv
  <2> QED BY <2>1 DEF Left, sv
<1>5. /\ Typed(A)
      /\ i < b => BlockAt(A, b + 1)
      /\ KeyAt(doc, b) < i => BlockAt(A, b)
  BY WrittenSound DEF Sound
<1>6. ASSUME NEW c, BlockAt(A, c)
      PROVE  /\ Cut(A, c) \in Document /\ Len(Cut(A, c)) = n - 2
             /\ \A j \in 1 .. n - 2 :
                  /\ j < c => Cut(A, c)[j] = A[j]
                  /\ j > c => Cut(A, c)[j] = A[j + 3]
                  /\ j = c /\ A[c + 1].kind # "saved" => Cut(A, c)[j] = A[c + 3]
                  /\ j = c /\ A[c + 1].kind = "saved" => Cut(A, c)[j] = Ref(A[c + 1].key)
  <2> DEFINE E == Cut(A, c)
  <2>1. (n + 1) - 3 = n - 2
    BY <1>1
  <2>2. Left(E, A, c)
    BY <1>5, <1>6, CutLeft
  <2> HIDE DEF A, n, E
  <2>3. /\ E \in Document /\ Len(E) = n - 2
        /\ \A j \in 1 .. n - 2 :
             /\ j < c => E[j] = A[j]
             /\ j > c => E[j] = A[j + 3]
             /\ j = c /\ A[c + 1].kind # "saved" => E[j] = A[c + 3]
             /\ j = c /\ A[c + 1].kind = "saved" => E[j] = Ref(A[c + 1].key)
    BY <1>3, <2>1, <2>2 DEF Left
  <2> QED BY <2>3 DEF E
<1> HIDE DEF A, C, n, sv
<1>7. ASSUME i < b PROVE Cut(A, b + 1) = Inserted(C, i, x)
  <2> DEFINE D == Cut(A, b + 1)
             B == Inserted(C, i, x)
  <2>1. i \in 0 .. Len(C) /\ i \in Nat
    BY <1>1, <1>2, <1>4, <1>7
  <2>2. /\ B \in Document /\ Len(B) = n - 2
        /\ \A j \in 1 .. n - 2 :
             /\ j <= i => B[j] = C[j]
             /\ j = i + 1 => B[j] = x
             /\ j > i + 1 => B[j] = C[j - 1]
    <3>1. With(B, C, i, x)
      BY <1>1, <1>4, <2>1, InsertedIs
    <3>2. (n - 3) + 1 = n - 2
      BY <1>1
    <3> HIDE DEF B
    <3> QED BY <1>4, <3>1, <3>2 DEF With
  <2>3. A[(b + 1) + 1] = doc[b + 1]
    <3>1. b + 2 \in 1 .. n + 1 /\ b + 2 > i + 1 /\ (b + 2) - 1 = b + 1 /\ (b + 1) + 1 = b + 2
      BY <1>1, <1>2, <1>7, <2>1
    <3> QED BY <1>3, <3>1
  <2>4. /\ D \in Document /\ Len(D) = n - 2
        /\ \A j \in 1 .. n - 2 :
             /\ j < b + 1 => D[j] = A[j]
             /\ j > b + 1 => D[j] = A[j + 3]
             /\ j = b + 1 /\ ~ sv => D[j] = A[(b + 1) + 3]
             /\ j = b + 1 /\ sv => D[j] = Ref(doc[b + 1].key)
    BY <1>5, <1>6, <1>7, <2>3 DEF sv
  <2> HIDE DEF B, D
  <2>5. ASSUME NEW j \in 1 .. n - 2 PROVE D[j] = B[j]
    <3>1. CASE j <= i
      <4>1. j \in 1 .. n + 1 /\ j \in 1 .. n - 3 /\ j < b + 1 /\ j < b
        BY <1>1, <1>2, <1>7, <2>1, <2>5, <3>1
      <4> QED BY <1>3, <1>4, <2>2, <2>4, <2>5, <3>1, <4>1
    <3>2. CASE j = i + 1
      <4>1. j \in 1 .. n + 1 /\ j < b + 1
        BY <1>1, <1>2, <1>7, <2>1, <2>5, <3>2
      <4> QED BY <1>3, <2>2, <2>4, <2>5, <3>2, <4>1
    <3>3. CASE j > i + 1 /\ j < b + 1
      <4>1. j \in 1 .. n + 1 /\ j - 1 \in 1 .. n - 3 /\ j - 1 < b
        BY <1>1, <1>2, <1>7, <2>1, <2>5, <3>3
      <4> QED BY <1>3, <1>4, <2>2, <2>4, <2>5, <3>3, <4>1
    <3>4. CASE j = b + 1
      <4>1. /\ j > i + 1 /\ j - 1 = b /\ j - 1 \in 1 .. n - 3
            /\ (b + 1) + 3 \in 1 .. n + 1 /\ (b + 1) + 3 > i + 1 /\ ((b + 1) + 3) - 1 = b + 3
        BY <1>1, <1>2, <1>7, <2>1, <2>5, <3>4
      <4>2. B[j] = C[b] /\ b \in 1 .. n - 3 /\ A[(b + 1) + 3] = doc[b + 3]
        BY <1>3, <2>2, <2>5, <4>1
      <4> QED BY <1>4, <2>4, <2>5, <3>4, <4>2
    <3>5. CASE j > b + 1
      <4>1. /\ j > i + 1 /\ j - 1 > b /\ j - 1 \in 1 .. n - 3 /\ (j - 1) + 3 = j + 2
            /\ j + 3 \in 1 .. n + 1 /\ j + 3 > i + 1 /\ (j + 3) - 1 = j + 2
        BY <1>1, <1>2, <1>7, <2>1, <2>5, <3>5
      <4>2. B[j] = doc[j + 2] /\ A[j + 3] = doc[j + 2]
        BY <1>3, <1>4, <2>2, <2>5, <4>1
      <4> QED BY <2>4, <2>5, <3>5, <4>2
    <3> QED BY <1>1, <1>2, <2>1, <2>5, <3>1, <3>2, <3>3, <3>4, <3>5
  <2>6. D = B
    BY <2>2, <2>4, <2>5, SameDocument
  <2> QED BY <2>6 DEF D, B
<1>8. ASSUME KeyAt(doc, b) < i
      PROVE  Cut(A, b) = Inserted(C, i - 3, x) /\ i - 3 \in 0 .. n - 3
  <2> DEFINE D == Cut(A, b)
             B == Inserted(C, i - 3, x)
  <2>1. /\ i \in Nat /\ i - 3 \in 0 .. Len(C) /\ i - 3 >= b - 1 /\ (sv => i - 3 >= b)
        /\ i - 3 \in 0 .. n - 3 /\ i <= n
    BY <1>1, <1>2, <1>4, <1>8
  <2>2. /\ B \in Document /\ Len(B) = n - 2
        /\ \A j \in 1 .. n - 2 :
             /\ j <= i - 3 => B[j] = C[j]
             /\ j = (i - 3) + 1 => B[j] = x
             /\ j > (i - 3) + 1 => B[j] = C[j - 1]
    <3>1. With(B, C, i - 3, x)
      BY <1>1, <1>4, <2>1, InsertedIs
    <3>2. (n - 3) + 1 = n - 2
      BY <1>1
    <3> HIDE DEF B
    <3> QED BY <1>4, <3>1, <3>2 DEF With
  <2>3. A[b + 1] = doc[b + 1]
    <3>1. b + 1 \in 1 .. n + 1 /\ b + 1 <= i
      BY <1>1, <1>2, <1>8, <2>1
    <3> QED BY <1>3, <3>1
  <2>4. /\ D \in Document /\ Len(D) = n - 2
        /\ \A j \in 1 .. n - 2 :
             /\ j < b => D[j] = A[j]
             /\ j > b => D[j] = A[j + 3]
             /\ j = b /\ ~ sv => D[j] = A[b + 3]
             /\ j = b /\ sv => D[j] = Ref(doc[b + 1].key)
    BY <1>5, <1>6, <1>8, <2>3 DEF sv
  <2> HIDE DEF B, D
  <2>5. ASSUME NEW j \in 1 .. n - 2 PROVE D[j] = B[j]
    <3>1. CASE j <= i - 3 /\ j < b
      <4>1. j \in 1 .. n + 1 /\ j \in 1 .. n - 3 /\ j <= i
        BY <1>1, <1>2, <2>1, <2>5, <3>1
      <4> QED BY <1>3, <1>4, <2>2, <2>4, <2>5, <3>1, <4>1
    <3>2. CASE j <= i - 3 /\ j = b
      <4>1. j \in 1 .. n - 3 /\ b + 3 \in 1 .. n + 1 /\ b + 3 <= i
        BY <1>1, <1>2, <2>1, <2>5, <3>2
      <4>2. B[j] = C[b] /\ b \in 1 .. n - 3 /\ A[b + 3] = doc[b + 3]
        BY <1>3, <2>2, <2>5, <3>2, <4>1
      <4> QED BY <1>4, <2>4, <2>5, <3>2, <4>2
    <3>3. CASE j <= i - 3 /\ j > b
      <4>1. j \in 1 .. n - 3 /\ j + 3 \in 1 .. n + 1 /\ j + 3 <= i
        BY <1>1, <1>2, <2>1, <2>5, <3>3
      <4>2. B[j] = doc[j + 3] /\ A[j + 3] = doc[j + 3]
        BY <1>3, <1>4, <2>2, <2>5, <3>3, <4>1
      <4> QED BY <2>4, <2>5, <3>3, <4>2
    <3>4. CASE j = (i - 3) + 1
      <4>1. j + 3 \in 1 .. n + 1 /\ j + 3 = i + 1 /\ (j > b \/ (j = b /\ ~ sv /\ b + 3 = j + 3))
        BY <1>1, <1>2, <2>1, <2>5, <3>4
      <4>2. B[j] = x /\ A[j + 3] = x
        BY <1>3, <2>2, <2>5, <3>4, <4>1
      <4> QED BY <2>4, <2>5, <4>1, <4>2
    <3>5. CASE j > (i - 3) + 1
      <4>1. /\ j - 1 \in 1 .. n - 3 /\ (j - 1) + 3 = j + 2 /\ j > b
            /\ j + 3 \in 1 .. n + 1 /\ j + 3 > i + 1 /\ (j + 3) - 1 = j + 2
            /\ (j - 1 > b \/ (j - 1 = b /\ ~ sv /\ b + 3 = j + 2))
        BY <1>1, <1>2, <2>1, <2>5, <3>5
      <4>2. C[j - 1] = doc[j + 2]
        BY <1>4, <4>1
      <4>3. B[j] = doc[j + 2] /\ A[j + 3] = doc[j + 2]
        BY <1>3, <2>2, <2>5, <3>5, <4>1, <4>2
      <4> QED BY <2>4, <2>5, <4>1, <4>3
    <3> QED BY <1>1, <1>2, <2>1, <2>5, <3>1, <3>2, <3>3, <3>4, <3>5
  <2>6. D = B
    BY <2>2, <2>4, <2>5, SameDocument
  <2> QED BY <2>1, <2>6 DEF D, B
<1> QED BY <1>7, <1>8 DEF A, C, n

LEMMA LessInserted ==
    ASSUME NEW C \in Document, NEW h \in DOMAIN C, NEW i \in 0 .. Len(C), NEW x \in Text
    PROVE  /\ i < h => Less(Inserted(C, i, x), h + 1) = Inserted(Less(C, h), i, x)
           /\ h <= i => Less(Inserted(C, i, x), h) = Inserted(Less(C, h), i - 1, x)
<1> DEFINE A == Inserted(C, i, x)
           L == Less(C, h)
           n == Len(C)
           i2 == IF i < h THEN i ELSE i - 1
           h2 == IF i < h THEN h + 1 ELSE h
           D == Less(A, h2)
           B == Inserted(L, i2, x)
<1>1. n \in Nat /\ h \in 1 .. n /\ i \in Nat /\ i <= n
  <2>1. n \in Nat /\ DOMAIN C = 1 .. n
    BY DocumentLines
  <2> QED BY <2>1
<1>2. With(A, C, i, x)
  BY InsertedIs
<1>3. /\ A \in Document /\ Len(A) = n + 1 /\ DOMAIN A = 1 .. n + 1
      /\ \A j \in 1 .. n + 1 :
           /\ j <= i => A[j] = C[j]
           /\ j = i + 1 => A[j] = x
           /\ j > i + 1 => A[j] = C[j - 1]
  <2> HIDE DEF A
  <2> QED BY <1>2 DEF With
<1>4. L \in Document /\ Len(L) = n - 1 /\ \A j \in 1 .. n - 1 : L[j] = IF j < h THEN C[j] ELSE C[j + 1]
  BY LessIs DEF Less
<1> HIDE DEF A, L, n
<1>5. /\ h2 \in 1 .. n + 1 /\ h2 \in Nat /\ i2 \in 0 .. n - 1 /\ i2 \in Nat
      /\ (n + 1) - 1 = n /\ (n - 1) + 1 = n
  BY <1>1
<1>6. D \in Document /\ Len(D) = n /\ \A j \in 1 .. n : D[j] = IF j < h2 THEN A[j] ELSE A[j + 1]
  <2> HIDE DEF h2
  <2> QED BY <1>3, <1>5, LessIs DEF Less
<1>7. With(B, L, i2, x)
  <2> HIDE DEF i2
  <2> QED BY <1>4, <1>5, InsertedIs
<1>8. /\ B \in Document /\ Len(B) = n
      /\ \A j \in 1 .. n :
           /\ j <= i2 => B[j] = L[j]
           /\ j = i2 + 1 => B[j] = x
           /\ j > i2 + 1 => B[j] = L[j - 1]
  <2> HIDE DEF B, i2
  <2> QED BY <1>4, <1>5, <1>7 DEF With
<1> HIDE DEF B, D
<1>9. ASSUME NEW j \in 1 .. n PROVE D[j] = B[j]
  <2>1. CASE i < h
    <3>1. CASE j <= i
      <4>1. j \in 1 .. n - 1 /\ j \in 1 .. n + 1 /\ j < h /\ j < h + 1
        BY <1>1, <1>9, <2>1, <3>1
      <4> QED BY <1>3, <1>4, <1>6, <1>8, <1>9, <2>1, <3>1, <4>1
    <3>2. CASE j = i + 1
      <4>1. j \in 1 .. n + 1 /\ j < h + 1
        BY <1>1, <1>9, <2>1, <3>2
      <4> QED BY <1>3, <1>6, <1>8, <1>9, <2>1, <3>2, <4>1
    <3>3. CASE j > i + 1 /\ j < h + 1
      <4>1. j \in 1 .. n + 1 /\ j - 1 \in 1 .. n - 1 /\ j - 1 < h
        BY <1>1, <1>9, <2>1, <3>3
      <4> QED BY <1>3, <1>4, <1>6, <1>8, <1>9, <2>1, <3>3, <4>1
    <3>4. CASE j >= h + 1
      <4>1. /\ j + 1 \in 1 .. n + 1 /\ j + 1 > i + 1 /\ (j + 1) - 1 = j /\ ~ (j < h + 1)
            /\ j - 1 \in 1 .. n - 1 /\ ~ (j - 1 < h) /\ (j - 1) + 1 = j /\ j > i + 1
        BY <1>1, <1>9, <2>1, <3>4
      <4>2. D[j] = C[j]
        BY <1>3, <1>6, <1>9, <2>1, <4>1
      <4>3. B[j] = C[j]
        BY <1>4, <1>8, <1>9, <2>1, <4>1
      <4> QED BY <4>2, <4>3
    <3> QED BY <1>1, <1>9, <3>1, <3>2, <3>3, <3>4
  <2>2. CASE ~ (i < h)
    <3>1. CASE j < h
      <4>1. j \in 1 .. n - 1 /\ j \in 1 .. n + 1 /\ j <= i /\ j <= i - 1
        BY <1>1, <1>9, <2>2, <3>1
      <4> QED BY <1>3, <1>4, <1>6, <1>8, <1>9, <2>2, <3>1, <4>1
    <3>2. CASE j >= h /\ j <= i - 1
      <4>1. j + 1 \in 1 .. n + 1 /\ j + 1 <= i /\ j \in 1 .. n - 1 /\ ~ (j < h)
        BY <1>1, <1>9, <2>2, <3>2
      <4> QED BY <1>3, <1>4, <1>6, <1>8, <1>9, <2>2, <3>2, <4>1
    <3>3. CASE j = (i - 1) + 1
      <4>1. j + 1 \in 1 .. n + 1 /\ j + 1 = i + 1 /\ ~ (j < h)
        BY <1>1, <1>9, <2>2, <3>3
      <4> QED BY <1>3, <1>6, <1>8, <1>9, <2>2, <3>3, <4>1
    <3>4. CASE j > (i - 1) + 1
      <4>1. /\ j + 1 \in 1 .. n + 1 /\ j + 1 > i + 1 /\ (j + 1) - 1 = j /\ ~ (j < h)
            /\ j - 1 \in 1 .. n - 1 /\ ~ (j - 1 < h) /\ (j - 1) + 1 = j
        BY <1>1, <1>9, <2>2, <3>4
      <4>2. D[j] = C[j]
        BY <1>3, <1>6, <1>9, <2>2, <4>1
      <4>3. B[j] = C[j]
        BY <1>4, <1>8, <1>9, <2>2, <3>4, <4>1
      <4> QED BY <4>2, <4>3
    <3> QED BY <1>1, <1>9, <2>2, <3>1, <3>2, <3>3, <3>4
  <2> QED BY <2>1, <2>2
<1>10. D = B
  <2> HIDE DEF i2, h2
  <2> QED BY <1>6, <1>8, <1>9, SameDocument
<1>11. ASSUME i < h PROVE Less(A, h + 1) = Inserted(L, i, x)
  BY <1>10, <1>11 DEF D, B
<1>12. ASSUME h <= i PROVE Less(A, h) = Inserted(L, i - 1, x)
  <2>1. ~ (i < h)
    BY <1>1, <1>12
  <2> QED BY <1>10, <2>1 DEF D, B
<1> QED BY <1>11, <1>12 DEF A, L

LEMMA WrittenRemoved ==
    ASSUME NEW doc, Sound(doc), NEW i, NEW x, MayWrite(doc, i, x), x.kind # "refs",
           NEW b, BlockAt(doc, b)
    PROVE  /\ i < b /\ (Lone(doc, b) => i < b - 1) =>
                Removed(Inserted(doc, i, x)) = Inserted(Removed(doc), i, x)
           /\ i = Len(doc) /\ x.kind \notin Indented =>
                Removed(Inserted(doc, i, x)) = Inserted(Removed(doc), Len(Removed(doc)), x)
<1> DEFINE A == Inserted(doc, i, x)
           n == Len(doc)
           C == Cut(doc, b)
<1>1. /\ doc \in Document /\ n \in Nat /\ DOMAIN doc = 1 .. n /\ Typed(doc)
      /\ i \in 0 .. n /\ x \in Text /\ i \in Nat /\ i <= n
  <2>1. doc \in Document /\ n \in Nat /\ DOMAIN doc = 1 .. n /\ Typed(doc) /\ i \in 0 .. n /\ x \in Text
    BY TypedLines DEF Sound, MayWrite
  <2> QED BY <2>1
<1>2. /\ b \in Nat \ {0} /\ b + 2 <= n /\ b < KeyAt(doc, b) /\ KeyAt(doc, b) + 1 <= n
      /\ (doc[b + 1].kind # "saved" => KeyAt(doc, b) = b + 1)
  BY <1>1, BlockPlaces
<1>3. /\ Len(A) = n + 1 /\ DOMAIN A = 1 .. n + 1
      /\ \A j \in 1 .. n + 1 :
           /\ j <= i => A[j] = doc[j]
           /\ j = i + 1 => A[j] = x
           /\ j > i + 1 => A[j] = doc[j - 1]
  <2>1. With(A, doc, i, x)
    BY <1>1, InsertedIs
  <2> HIDE DEF A
  <2> QED BY <2>1 DEF With
<1>4. C \in Document /\ Len(C) = n - 3 /\ DOMAIN C = 1 .. n - 3
  BY <1>1, TextLeft, DocumentLines
<1>5. /\ Sound(A)
      /\ i < b => BlockAt(A, b + 1)
      /\ KeyAt(doc, b) < i => BlockAt(A, b)
  BY WrittenSound
<1>6. /\ i < b => Cut(A, b + 1) = Inserted(C, i, x)
      /\ KeyAt(doc, b) < i => Cut(A, b) = Inserted(C, i - 3, x)
  BY CutWritten
<1>7. Lone(doc, b) => b - 1 \in 1 .. n - 3
  <2>1. ASSUME IsDsh PROVE b - 1 \in DOMAIN doc
    <3>1. b \in DOMAIN doc /\ doc[b].kind \in Indented
      BY DEF BlockAt, Indented
    <3> QED BY <2>1, <3>1 DEF Sound, Sections
  <2>2. b - 1 \in 1 .. n => b - 1 \in 1 .. n - 3
    BY <1>1, <1>2
  <2> QED BY <1>1, <2>1, <2>2 DEF Lone
<1>8. Removed(doc) = IF Lone(doc, b) THEN Less(C, b - 1) ELSE C
  BY RemovedIs
<1>9. \A c : BlockAt(A, c) => Removed(A) = IF Lone(A, c) THEN Less(Cut(A, c), c - 1) ELSE Cut(A, c)
  BY <1>5, RemovedIs
<1> HIDE DEF A, C, n
<1>10. ASSUME i < b, Lone(doc, b) => i < b - 1
       PROVE  Removed(A) = Inserted(Removed(doc), i, x)
  <2>1. /\ A[b + 1 + 1] = doc[b + 1]
        /\ b + 3 \in 1 .. n => A[b + 1 + 3] = doc[b + 3]
        /\ b + 1 + 3 \in 1 .. n + 1 <=> b + 3 \in 1 .. n
        /\ (b + 1) - 1 = b
    <3>1. /\ b + 1 + 1 \in 1 .. n + 1 /\ b + 1 + 1 > i + 1 /\ (b + 1 + 1) - 1 = b + 1
          /\ b + 1 + 3 > i + 1 /\ (b + 1 + 3) - 1 = b + 3
          /\ b + 1 + 3 \in 1 .. n + 1 <=> b + 3 \in 1 .. n
          /\ (b + 1) - 1 = b
      <4>1. b \in Nat /\ n \in Nat /\ i \in Nat /\ b + 2 <= n /\ i < b
        BY <1>1, <1>2, <1>10
      <4> QED BY <4>1
    <3> QED BY <1>3, <3>1
  <2>2. IF i = b - 1 THEN A[b] = x ELSE A[b] = doc[b - 1]
    <3>1. b \in 1 .. n + 1 /\ (i = b - 1 => b = i + 1) /\ (i # b - 1 => b > i + 1)
      BY <1>1, <1>2, <1>10
    <3> QED BY <1>3, <3>1
  <2>3. Lone(doc, b) => i # b - 1
    BY <1>1, <1>2, <1>10
  <2>4. Lone(A, b + 1) <=> Lone(doc, b) /\ i # b - 1
    BY <1>1, <1>3, <2>1, <2>2 DEF Lone
  <2>5. Removed(A) = IF Lone(doc, b) THEN Less(Inserted(C, i, x), b) ELSE Inserted(C, i, x)
    BY <1>5, <1>6, <1>9, <1>10, <2>1, <2>3, <2>4
  <2>6. ASSUME Lone(doc, b) PROVE Less(Inserted(C, i, x), b) = Inserted(Less(C, b - 1), i, x)
    <3>1. i < b - 1 /\ (b - 1) + 1 = b /\ i \in 0 .. Len(C) /\ b - 1 \in DOMAIN C
      BY <1>1, <1>2, <1>4, <1>7, <1>10, <2>6
    <3>2. i < b - 1 => Less(Inserted(C, i, x), (b - 1) + 1) = Inserted(Less(C, b - 1), i, x)
      BY <1>1, <1>4, <3>1, LessInserted
    <3> QED BY <3>1, <3>2
  <2> QED BY <1>8, <2>5, <2>6
<1>11. ASSUME i = n, x.kind \notin Indented
       PROVE  Removed(A) = Inserted(Removed(doc), Len(Removed(doc)), x)
  <2>1. KeyAt(doc, b) < i /\ i - 3 \in 0 .. n - 3 /\ i - 3 = n - 3
    <3>1. KeyAt(doc, b) \in Nat
      BY <1>1, <1>2, BlockPlaces DEF n
    <3> QED BY <1>1, <1>2, <1>11, <3>1
  <2>2. /\ b - 1 \in 1 .. n => A[b - 1] = doc[b - 1]
        /\ b + 3 \in 1 .. n => A[b + 3] = doc[b + 3]
        /\ b + 3 \in 1 .. n + 1 => b + 3 \in 1 .. n \/ b + 3 = i + 1
    <3>1. /\ b - 1 \in 1 .. n => b - 1 \in 1 .. n + 1 /\ b - 1 <= i
          /\ b + 3 \in 1 .. n => b + 3 \in 1 .. n + 1 /\ b + 3 <= i
          /\ b + 3 \in 1 .. n + 1 => b + 3 \in 1 .. n \/ b + 3 = i + 1
      BY <1>1, <1>2, <1>11
    <3> QED BY <1>3, <3>1
  <2>3. A[b + 1] = doc[b + 1]
    <3>1. b + 1 \in 1 .. n + 1 /\ b + 1 <= i
      BY <1>1, <1>2, <1>11
    <3> QED BY <1>3, <3>1
  <2>4. IsDsh => b - 1 \in 1 .. n
    <3>1. ASSUME IsDsh PROVE b - 1 \in DOMAIN doc
      <4>1. b \in DOMAIN doc /\ doc[b].kind \in Indented
        BY DEF BlockAt, Indented
      <4> QED BY <3>1, <4>1 DEF Sound, Sections
    <3> QED BY <1>1, <3>1
  <2>5. b + 3 = i + 1 /\ b + 3 \in 1 .. n + 1 => A[b + 3] = x
    BY <1>3
  <2>6. b + 3 \in 1 .. n => b + 3 \in 1 .. n + 1
    BY <1>1
  <2>7. Lone(A, b) <=> Lone(doc, b)
    BY <1>1, <1>3, <1>11, <2>2, <2>3, <2>4, <2>5, <2>6 DEF Lone
  <2>8. Removed(A) = IF Lone(doc, b) THEN Less(Inserted(C, n - 3, x), b - 1) ELSE Inserted(C, n - 3, x)
    BY <1>5, <1>6, <1>9, <2>1, <2>7
  <2>9. ASSUME Lone(doc, b)
        PROVE  /\ Less(Inserted(C, n - 3, x), b - 1) = Inserted(Less(C, b - 1), (n - 3) - 1, x)
               /\ Len(Less(C, b - 1)) = (n - 3) - 1
    <3>1. b - 1 <= n - 3 /\ n - 3 \in 0 .. Len(C) /\ b - 1 \in DOMAIN C
      BY <1>1, <1>2, <1>4, <1>7, <2>1, <2>9
    <3>2. b - 1 <= n - 3 => Less(Inserted(C, n - 3, x), b - 1) = Inserted(Less(C, b - 1), (n - 3) - 1, x)
      BY <1>1, <1>4, <3>1, LessInserted
    <3>3. Len(Less(C, b - 1)) = Len(C) - 1
      BY <1>4, <3>1, LessIs
    <3> QED BY <1>4, <3>1, <3>2, <3>3
  <2> QED BY <1>4, <1>8, <2>8, <2>9
<1> QED BY <1>10, <1>11 DEF A, n

\* A line that is no key leaves the document single, and a block in place.
LEMMA WrittenSingle ==
    ASSUME NEW doc, Sound(doc), NEW i, NEW x, MayWrite(doc, i, x), x.kind # "refs"
    PROVE  /\ HasBlock(doc) => HasBlock(Inserted(doc, i, x))
           /\ x.kind # "ref" /\ Single(doc) => Single(Inserted(doc, i, x))
<1> DEFINE A == Inserted(doc, i, x)
           n == Len(doc)
<1>1. /\ doc \in Document /\ n \in Nat /\ i \in 0 .. n /\ x \in Text /\ x.kind \notin Marks
      /\ i \in Nat
  <2>1. doc \in Document /\ n \in Nat /\ i \in 0 .. n /\ x \in Text /\ x.kind \notin Marks
    BY TypedLines DEF Sound, MayWrite
  <2> QED BY <2>1
<1>2. With(A, doc, i, x)
  BY <1>1, InsertedIs
<1> HIDE DEF A
<1>3. /\ \A j \in 1 .. n : To(i, j) \in 1 .. n + 1 /\ A[To(i, j)] = doc[j] /\ To(i, j) # i + 1
      /\ \A j \in 1 .. n + 1 : j # i + 1 => \E l \in 1 .. n : j = To(i, l) /\ A[j] = doc[l]
      /\ i + 1 \in 1 .. n + 1 /\ A[i + 1] = x
      /\ DOMAIN A = 1 .. n + 1 /\ DOMAIN doc = 1 .. n
  BY <1>1, <1>2, Moved
<1>4. /\ Sound(A)
      /\ Plain(doc) => Plain(A)
      /\ \A b : BlockAt(doc, b) =>
           /\ i < b => BlockAt(A, b + 1) /\ KeyAt(A, b + 1) = KeyAt(doc, b) + 1
           /\ KeyAt(doc, b) < i => BlockAt(A, b) /\ KeyAt(A, b) = KeyAt(doc, b)
  BY WrittenSound DEF A
<1> HIDE DEF n
<1>5. ASSUME HasBlock(doc) PROVE HasBlock(A)
  <2>1. PICK b \in 1 .. n : doc[b].kind = "begin"
    BY <1>3, <1>5 DEF HasBlock, Lines
  <2>2. To(i, b) \in DOMAIN A /\ A[To(i, b)].kind = "begin"
    BY <1>3, <2>1
  <2> QED BY <2>2 DEF HasBlock, Lines
<1>6. ASSUME NEW j \in 1 .. n + 1, NEW k, k # x.kind, A[j].kind = k
      PROVE  \E l \in Lines(doc, k) : j = To(i, l)
  <2>1. j # i + 1
    BY <1>3, <1>6
  <2>2. PICK l \in 1 .. n : j = To(i, l) /\ A[j] = doc[l]
    BY <1>3, <2>1
  <2> QED BY <1>3, <1>6, <2>2 DEF Lines
<1>7. ASSUME x.kind # "ref", Single(doc), IsDsh, Plain(A)
      PROVE  /\ \A j, l \in Lines(A, "ref") : j = l
             /\ Lines(A, "refs") # {} => \E j \in DOMAIN A : A[j].kind \in Indented
  <2>1. Plain(doc)
    <3>1. ASSUME NEW j \in 1 .. n PROVE doc[j].kind \notin Marks
      BY <1>3, <1>7 DEF Plain
    <3> QED BY <1>3, <3>1 DEF Plain
  <2>2. /\ \A j, l \in Lines(doc, "ref") : j = l
        /\ Lines(doc, "refs") # {} => \E j \in DOMAIN doc : doc[j].kind \in Indented
    BY <1>7, <2>1 DEF Single
  <2>3. \A j, l \in Lines(A, "ref") : j = l
    <3>1. \A j \in Lines(A, "ref") : \E l \in Lines(doc, "ref") : j = To(i, l)
      BY <1>3, <1>6, <1>7 DEF Lines
    <3> QED BY <2>2, <3>1
  <2>4. ASSUME Lines(A, "refs") # {} PROVE \E j \in DOMAIN A : A[j].kind \in Indented
    <3>1. PICK j \in 1 .. n + 1 : A[j].kind = "refs"
      BY <1>3, <2>4 DEF Lines
    <3>2. Lines(doc, "refs") # {}
      BY <1>6, <3>1
    <3>3. PICK l \in 1 .. n : doc[l].kind \in Indented
      BY <1>3, <2>2, <3>2
    <3> QED BY <1>3, <3>3
  <2> QED BY <2>3, <2>4
<1>8. ASSUME x.kind # "ref", Single(doc), IsDsh, NEW c \in DOMAIN A, BlockAt(A, c)
      PROVE  Lines(A, "ref") = {KeyAt(A, c)}
  <2>1. A[c].kind = "begin"
    BY <1>8 DEF BlockAt
  <2>2. ~ Plain(doc)
    BY <1>4, <1>8, <2>1 DEF Plain, Marks
  <2>3. PICK b \in DOMAIN doc : BlockAt(doc, b)
    BY <2>2 DEF Sound
  <2>4. Lines(doc, "ref") = {KeyAt(doc, b)}
    BY <1>8, <2>3 DEF Single
  <2>5. i < b \/ KeyAt(doc, b) < i
    BY <2>3 DEF MayWrite
  <2>6. /\ b \in Nat /\ KeyAt(doc, b) \in Nat /\ b < KeyAt(doc, b)
    BY <1>1, <2>3, BlockPlaces
  <2>7. PICK d : d = To(i, b) /\ BlockAt(A, d) /\ KeyAt(A, d) = To(i, KeyAt(doc, b))
    <3>1. CASE i < b
      <4>1. To(i, b) = b + 1 /\ To(i, KeyAt(doc, b)) = KeyAt(doc, b) + 1
        BY <1>1, <2>6, <3>1 DEF To
      <4> QED BY <1>4, <2>3, <3>1, <4>1
    <3>2. CASE KeyAt(doc, b) < i
      <4>1. To(i, b) = b /\ To(i, KeyAt(doc, b)) = KeyAt(doc, b)
        BY <1>1, <2>6, <3>2 DEF To
      <4> QED BY <1>4, <2>3, <3>2, <4>1
    <3> QED BY <2>5, <3>1, <3>2
  <2>8. d = c
    BY <1>8, <2>1, <2>7 DEF BlockAt
  <2>9. KeyAt(doc, b) \in 1 .. n /\ doc[KeyAt(doc, b)].kind = "ref"
    BY <1>3, <2>4 DEF Lines
  <2>10. KeyAt(A, c) \in Lines(A, "ref")
    BY <1>3, <2>7, <2>8, <2>9 DEF Lines
  <2>11. \A j \in Lines(A, "ref") : j = KeyAt(A, c)
    <3>1. \A j \in Lines(A, "ref") : \E l \in Lines(doc, "ref") : j = To(i, l)
      BY <1>3, <1>6, <1>8 DEF Lines
    <3> QED BY <2>4, <2>7, <2>8, <3>1
  <2> QED BY <2>10, <2>11
<1>9. x.kind # "ref" /\ Single(doc) => Single(A)
  BY <1>7, <1>8 DEF Single
<1> QED BY <1>5, <1>9 DEF A

-----------------------------------------------------------------------------
(* What the user writes survives. *)

\* An edit: what it makes of the file, and of what Remove leaves.
Survives(doc, edited, left) ==
    /\ Sound(edited) /\ Removed(edited) = left
    /\ HasBlock(doc) => HasBlock(edited)
    /\ Single(doc) => Single(edited)

\* A sound document has a block or is plain.
LEMMA BlockOrPlain ==
    ASSUME NEW doc, Sound(doc)
    PROVE  /\ Plain(doc) \/ \E b : BlockAt(doc, b)
           /\ doc \in Document /\ Removed(doc) \in Document
           /\ Plain(doc) => Removed(doc) = doc
<1>1. Typed(doc) /\ doc \in Document /\ Removed(doc) \in Document
  BY RemovedSound DEF Sound, Typed
<1> QED BY <1>1, RemovedPlain DEF Sound

\* At the end of the file.
LEMMA AppendSurvives ==
    ASSUME NEW doc, Sound(doc), NEW x \in Text,
           x.kind \in IF IsDsh THEN {"other"} ELSE {"own", "provider"}
    PROVE  Survives(doc, Append(doc, x), Append(Removed(doc), x))
<1> DEFINE n == Len(doc)
           A == Inserted(doc, n, x)
<1>1. doc \in Document /\ n \in Nat /\ DOMAIN doc = 1 .. n /\ n \in 0 .. n
  BY TypedLines DEF Sound
<1>2. x.kind \in KindsOf /\ x.kind \notin Marks /\ x.kind \notin {"ref", "refs"}
      /\ (IsDsh => x.kind \notin Indented)
  BY DEF KindsOf, Marks, Indented
<1>3. \A b : BlockAt(doc, b) => KeyAt(doc, b) < n
  BY <1>1, BlockPlaces
<1>4. MayWrite(doc, n, x)
  <2>1. ~ (n + 1 \in 1 .. n)
    BY <1>1
  <2>2. IsDsh => x.kind \notin Indented \cup {"refs"} /\ (n + 1 \in 1 .. n => doc[n + 1].kind \notin Indented)
    BY <1>2, <2>1
  <2> HIDE DEF n
  <2>3. n = Len(doc)
    BY DEF n
  <2> QED BY <1>1, <1>2, <1>3, <2>2, <2>3 DEF MayWrite
<1>5. Append(doc, x) = A
  BY <1>1, Appended
<1>6. Removed(doc) \in Document /\ Append(Removed(doc), x) = Inserted(Removed(doc), Len(Removed(doc)), x)
  <2>1. Removed(doc) \in Document
    BY BlockOrPlain
  <2> QED BY <2>1, Appended
<1> HIDE DEF A
<1>7. Sound(A) /\ (Plain(doc) => Plain(A))
  BY <1>4, WrittenSound DEF A
<1>8. (HasBlock(doc) => HasBlock(A)) /\ (Single(doc) => Single(A))
  BY <1>2, <1>4, WrittenSingle DEF A
<1>9. Removed(A) = Append(Removed(doc), x)
  <2>1. CASE Plain(doc)
    BY <1>5, <1>7, <2>1, BlockOrPlain
  <2>2. CASE \E b : BlockAt(doc, b)
    <3>1. PICK b : BlockAt(doc, b)
      BY <2>2
    <3>2. x.kind \notin Indented
      BY <1>2 DEF Indented, KindsOf
    <3> QED BY <1>2, <1>4, <1>6, <3>1, <3>2, WrittenRemoved DEF A
  <2> QED BY <2>1, <2>2, BlockOrPlain
<1> QED BY <1>5, <1>7, <1>8, <1>9 DEF Survives

\* At the start of it.
LEMMA PrependSurvives ==
    ASSUME NEW doc, Sound(doc), NEW x \in Text,
           x.kind = IF IsDsh THEN "version" ELSE "own"
    PROVE  Survives(doc, <<x>> \o doc, <<x>> \o Removed(doc))
<1> DEFINE n == Len(doc)
           A == Inserted(doc, 0, x)
<1>1. doc \in Document /\ n \in Nat /\ DOMAIN doc = 1 .. n /\ 0 \in 0 .. n
  <2>1. doc \in Document /\ n \in Nat /\ DOMAIN doc = 1 .. n
    BY TypedLines DEF Sound
  <2> QED BY <2>1
<1>2. x.kind \in KindsOf /\ x.kind \notin Marks /\ x.kind \notin {"ref", "refs"}
      /\ (IsDsh => x.kind \notin Indented)
  BY DEF KindsOf, Marks, Indented
<1>3. \A b : BlockAt(doc, b) => 0 < b
  BY <1>1, BlockPlaces
<1>4. MayWrite(doc, 0, x)
  <2>1. ASSUME IsDsh, 0 + 1 \in 1 .. n PROVE doc[0 + 1].kind \notin Indented
    <3>1. 0 + 1 = 1 /\ 1 \in DOMAIN doc /\ ~ (1 - 1 \in DOMAIN doc)
      BY <1>1, <2>1
    <3> QED BY <2>1, <3>1 DEF Sound, Sections
  <2> QED BY <1>1, <1>2, <1>3, <2>1 DEF MayWrite
<1>5. <<x>> \o doc = A
  BY <1>1, Prepended
<1>6. Removed(doc) \in Document /\ <<x>> \o Removed(doc) = Inserted(Removed(doc), 0, x)
  <2>1. Removed(doc) \in Document
    BY BlockOrPlain
  <2> QED BY <2>1, Prepended
<1> HIDE DEF A
<1>7. Sound(A) /\ (Plain(doc) => Plain(A))
  BY <1>4, WrittenSound DEF A
<1>8. (HasBlock(doc) => HasBlock(A)) /\ (Single(doc) => Single(A))
  BY <1>2, <1>4, WrittenSingle DEF A
<1>9. Removed(A) = <<x>> \o Removed(doc)
  <2>1. CASE Plain(doc)
    BY <1>5, <1>7, <2>1, BlockOrPlain
  <2>2. CASE \E b : BlockAt(doc, b)
    <3>1. PICK b : BlockAt(doc, b)
      BY <2>2
    <3>2. Lone(doc, b) => 0 < b - 1
      <4>1. ASSUME IsDsh PROVE b - 1 \in DOMAIN doc
        <5>1. b \in DOMAIN doc /\ doc[b].kind \in Indented
          BY <3>1 DEF BlockAt, Indented
        <5> QED BY <4>1, <5>1 DEF Sound, Sections
      <4> QED BY <1>1, <4>1 DEF Lone
    <3> QED BY <1>2, <1>3, <1>4, <1>6, <3>1, <3>2, WrittenRemoved DEF A
  <2> QED BY <2>1, <2>2, BlockOrPlain
<1> QED BY <1>5, <1>7, <1>8, <1>9 DEF Survives

\* Below the header.
LEMMA HeaderLine ==
    ASSUME NEW doc, Sound(doc), IsDsh, NEW h \in Lines(doc, "refs"), NEW x \in Text,
           x.kind \in {"entry", "ref"}, x.kind = "ref" => x.key # 0
    PROVE  /\ MayWrite(doc, h, x) /\ InsertAfter(doc, "refs", x) = Inserted(doc, h, x)
           /\ \A b : BlockAt(doc, b) => h < b
<1>1. doc \in Document /\ Len(doc) \in Nat /\ DOMAIN doc = 1 .. Len(doc) /\ Typed(doc) /\ Sections(doc)
  BY TypedLines DEF Sound
<1>2. h \in 1 .. Len(doc) /\ doc[h].kind = "refs" /\ \A g \in Lines(doc, "refs") : g = h
  BY <1>1 DEF Lines, Sections
<1>3. Least(Lines(doc, "refs")) = h
  <2>1. Lines(doc, "refs") \in SUBSET Nat /\ \A g \in Lines(doc, "refs") : h <= g
    BY <1>1, <1>2 DEF Lines
  <2> QED BY <2>1, LeastIs
<1>4. ASSUME NEW b, BlockAt(doc, b) PROVE h < b
  <2>1. b \in DOMAIN doc /\ doc[b].kind \in Indented
    BY <1>4 DEF BlockAt, Indented
  <2>2. PICK g \in Lines(doc, "refs") : g < b
    BY <1>1, <2>1, SectionHead
  <2> QED BY <1>2, <2>2
<1>5. MayWrite(doc, h, x)
  <2>1. h \in 0 .. Len(doc)
    BY <1>1, <1>2
  <2>2. x.kind \in KindsOf \ Marks /\ x.kind \in Indented /\ x.kind # "refs"
    BY DEF KindsOf, Marks, Indented
  <2> QED BY <1>2, <1>4, <2>1, <2>2 DEF MayWrite
<1> QED BY <1>3, <1>4, <1>5 DEF InsertAfter

LEMMA EntrySurvives ==
    ASSUME NEW doc, Sound(doc), IsDsh, Lines(doc, "refs") # {}, Lines(Removed(doc), "refs") # {},
           NEW x \in Text, x.kind = "entry"
    PROVE  Survives(doc, InsertAfter(doc, "refs", x), InsertAfter(Removed(doc), "refs", x))
<1>1. PICK h : h \in Lines(doc, "refs")
  OBVIOUS
<1> DEFINE A == Inserted(doc, h, x)
<1>2. /\ MayWrite(doc, h, x) /\ InsertAfter(doc, "refs", x) = A
      /\ \A b : BlockAt(doc, b) => h < b
  BY <1>1, HeaderLine
<1> HIDE DEF A
<1>3. Sound(A) /\ (Plain(doc) => Plain(A))
  BY <1>2, WrittenSound DEF A
<1>4. (HasBlock(doc) => HasBlock(A)) /\ (Single(doc) => Single(A))
  BY <1>2, WrittenSingle DEF A
<1>5. Removed(A) = InsertAfter(Removed(doc), "refs", x)
  <2>1. CASE Plain(doc)
    BY <1>2, <1>3, <2>1, BlockOrPlain
  <2>2. CASE \E b : BlockAt(doc, b)
    <3>1. PICK b : BlockAt(doc, b)
      BY <2>2
    <3>2. Removed(doc) = Cut(doc, b) /\ Sound(Removed(doc)) /\ ~ Lone(doc, b)
      BY <3>1, RemovedIs
    <3>3. /\ b \in Nat \ {0} /\ Len(doc) \in Nat /\ DOMAIN doc = 1 .. Len(doc)
          /\ h \in 1 .. Len(doc) /\ doc[h].kind = "refs" /\ h < b /\ Typed(doc)
      BY <1>1, <1>2, <3>1, TypedLines, BlockPlaces DEF Sound, Lines
    <3>4. /\ DOMAIN Cut(doc, b) = 1 .. Len(doc) - 3 /\ b \in 1 .. Len(doc) - 2
          /\ \A j \in 1 .. Len(doc) - 3 : j < b => Cut(doc, b)[j] = doc[j]
      BY <3>1, <3>3, LinesLeft
    <3>5. h \in 1 .. Len(doc) - 3
      BY <3>3, <3>4
    <3>6. h \in Lines(Removed(doc), "refs")
      BY <3>2, <3>3, <3>4, <3>5 DEF Lines
    <3>7. InsertAfter(Removed(doc), "refs", x) = Inserted(Removed(doc), h, x)
      BY <3>2, <3>6, HeaderLine
    <3> QED BY <1>2, <3>1, <3>2, <3>3, <3>7, WrittenRemoved DEF A
  <2> QED BY <2>1, <2>2, BlockOrPlain
<1> QED BY <1>2, <1>3, <1>4, <1>5 DEF Survives

\* The user's own key, in a file without a block.
LEMMA PlainSingle ==
    ASSUME NEW doc, Plain(doc), \A i, j \in Lines(doc, "ref") : i = j,
           Lines(doc, "refs") # {} => \E i \in DOMAIN doc : doc[i].kind \in Indented
    PROVE  Single(doc)
BY DEF Single, Plain, BlockAt, Marks

LEMMA KeyReplaced ==
    ASSUME NEW doc, Sound(doc), Plain(doc), IsDsh, NEW k \in Nat, k # 0
    PROVE  LET D == [i \in DOMAIN doc |-> IF doc[i].kind = "ref" THEN Ref(k) ELSE doc[i]]
           IN  Sound(D) /\ Plain(D) /\ (Single(doc) => Single(D))
<1> DEFINE D == [i \in DOMAIN doc |-> IF doc[i].kind = "ref" THEN Ref(k) ELSE doc[i]]
           n == Len(doc)
<1>1. /\ doc \in Document /\ n \in Nat /\ DOMAIN doc = 1 .. n /\ Typed(doc) /\ Sections(doc)
      /\ \A i \in 1 .. n : doc[i] \in Text
  BY TypedLines DEF Sound
<1>2. Ref(k) \in Text /\ Ref(k).kind = "ref" /\ Ref(k).key = k /\ "ref" \in KindsOf /\ "ref" \notin Marks
  BY DEF Ref, Text, Kinds, KindsOf, Marks, Indented
<1> HIDE DEF n
<1>3. D \in [1 .. n -> Text] /\ DOMAIN D = DOMAIN doc /\ \A i \in DOMAIN doc : D[i].kind = doc[i].kind
  BY <1>1, <1>2
<1>4. D \in Document
  BY <1>1, <1>3, IsDocument
<1>5. \A i \in DOMAIN doc : D[i].kind = "ref" => D[i].key = k
  BY <1>2
<1>6. \A i \in DOMAIN doc : D[i].kind # "ref" => D[i] = doc[i]
  BY <1>2
<1> HIDE DEF D
<1>7. Typed(D)
  <2>1. \A i \in DOMAIN doc : IsDsh /\ D[i].kind \in {"ref", "saved"} => D[i].key # 0
    BY <1>1, <1>3, <1>5, <1>6 DEF Typed
  <2> QED BY <1>1, <1>3, <1>4, <2>1 DEF Typed
<1>8. Plain(D) /\ Sections(D)
  BY <1>1, <1>3 DEF Plain, Sections, Lines
<1>9. ASSUME Single(doc) PROVE Single(D)
  <2>1. /\ \A i, j \in Lines(doc, "ref") : i = j
        /\ Lines(doc, "refs") # {} => \E i \in DOMAIN doc : doc[i].kind \in Indented
    BY <1>9 DEF Single
  <2>2. Lines(D, "ref") = Lines(doc, "ref") /\ Lines(D, "refs") = Lines(doc, "refs")
    BY <1>3 DEF Lines
  <2>3. Lines(D, "refs") # {} => \E i \in DOMAIN D : D[i].kind \in Indented
    BY <1>3, <2>1, <2>2
  <2> QED BY <1>8, <2>1, <2>2, <2>3, PlainSingle
<1> QED BY <1>7, <1>8, <1>9 DEF Sound, D

LEMMA KeyWritten ==
    ASSUME NEW doc, Sound(doc), Plain(doc), IsDsh, NEW i, NEW x, MayWrite(doc, i, x),
           x.kind = "ref", Lines(doc, "ref") = {}
    PROVE  Single(Inserted(doc, i, x))
<1> DEFINE A == Inserted(doc, i, x)
           n == Len(doc)
<1>1. doc \in Document /\ n \in Nat /\ i \in 0 .. n /\ x \in Text
  BY TypedLines DEF Sound, MayWrite
<1>2. With(A, doc, i, x)
  BY <1>1, InsertedIs
<1>3. Plain(A)
  BY WrittenSound
<1> HIDE DEF A
<1>4. /\ \A j \in 1 .. n + 1 : j # i + 1 => \E l \in 1 .. n : j = To(i, l) /\ A[j] = doc[l]
      /\ i + 1 \in 1 .. n + 1 /\ A[i + 1] = x
      /\ DOMAIN A = 1 .. n + 1 /\ DOMAIN doc = 1 .. n
  BY <1>1, <1>2, Moved
<1> HIDE DEF n
<1>5. \A j \in Lines(A, "ref") : j = i + 1
  BY <1>4 DEF Lines
<1>6. A[i + 1].kind \in Indented
  BY <1>4 DEF Indented
<1>7. Single(A)
  BY <1>3, <1>4, <1>5, <1>6, PlainSingle
<1> QED BY <1>7 DEF A

LEMMA KeyAdded ==
    ASSUME NEW doc, Sound(doc), Plain(doc), IsDsh, Lines(doc, "refs") = {}, NEW k \in Nat, k # 0
    PROVE  LET D == doc \o <<Line("refs"), Ref(k)>> IN Sound(D) /\ Plain(D) /\ Single(D)
<1> DEFINE n == Len(doc)
           B == Append(doc, Line("refs"))
           D == doc \o <<Line("refs"), Ref(k)>>
<1>1. doc \in Document /\ n \in Nat /\ DOMAIN doc = 1 .. n /\ n \in 0 .. n /\ Sections(doc)
  BY TypedLines DEF Sound
<1>2. /\ Line("refs") \in Text /\ Line("refs").kind = "refs" /\ Ref(k) \in Text
      /\ Ref(k).kind = "ref" /\ Ref(k).key = k
      /\ {"refs", "ref"} \subseteq KindsOf \ Marks /\ "ref" \in Indented /\ "refs" \notin Indented
  BY DEF Line, Ref, Text, Kinds, KindsOf, Marks, Indented
<1>3. D = Append(B, Ref(k))
  <2>1. doc \in Seq(Text)
    BY <1>1 DEF Document
  <2> QED BY <1>2, <2>1
<1>4. \A b : ~ BlockAt(doc, b)
  BY DEF Plain, BlockAt, Marks
<1>5. MayWrite(doc, n, Line("refs")) /\ B = Inserted(doc, n, Line("refs"))
  <2>1. MayWrite(doc, n, Line("refs"))
    BY <1>1, <1>2, <1>4 DEF MayWrite
  <2> QED BY <1>1, <1>2, <2>1, Appended
<1>6. Sound(B) /\ Plain(B)
  BY <1>5, WrittenSound
<1>7. B \in Document /\ Len(B) = n + 1 /\ B[n + 1] = Line("refs") /\ \A i \in 1 .. n : B[i] = doc[i]
  BY <1>1, <1>2 DEF Document
<1>8. DOMAIN B = 1 .. n + 1 /\ n + 1 \in 0 .. n + 1 /\ n + 1 \in 1 .. n + 1
  BY <1>1, <1>7, DocumentLines
<1> HIDE DEF B, D
<1>9. MayWrite(B, n + 1, Ref(k)) /\ D = Inserted(B, n + 1, Ref(k))
  <2>1. \A b : ~ BlockAt(B, b)
    BY <1>6 DEF Plain, BlockAt, Marks
  <2>2. MayWrite(B, n + 1, Ref(k))
    BY <1>2, <1>7, <1>8, <2>1 DEF MayWrite
  <2> QED BY <1>2, <1>3, <1>7, <2>2, Appended
<1>10. Sound(D) /\ Plain(D)
  BY <1>6, <1>9, WrittenSound
<1>11. Lines(B, "ref") = {}
  <2>1. ASSUME NEW i \in 1 .. n PROVE doc[i].kind # "ref"
    <3>1. ASSUME doc[i].kind \in Indented PROVE FALSE
      BY <1>1, <3>1, SectionHead DEF Sound
    <3> QED BY <1>2, <3>1
  <2>2. ASSUME NEW i \in 1 .. n + 1 PROVE B[i].kind # "ref"
    <3>1. i \in 1 .. n \/ i = n + 1
      BY <1>1
    <3> QED BY <1>2, <1>7, <2>1, <3>1
  <2> QED BY <1>8, <2>2 DEF Lines
<1>12. Single(D)
  BY <1>2, <1>6, <1>9, <1>11, KeyWritten
<1> QED BY <1>10, <1>12 DEF D

LEMMA SetKeySound ==
    ASSUME NEW doc, Sound(doc), Plain(doc), IsDsh, NEW k \in Nat, k # 0
    PROVE  Sound(SetKey(doc, k)) /\ Plain(SetKey(doc, k)) /\ (Single(doc) => Single(SetKey(doc, k)))
<1>1. CASE Lines(doc, "ref") # {}
  BY <1>1, KeyReplaced DEF SetKey
<1>2. CASE Lines(doc, "ref") = {} /\ Lines(doc, "refs") # {}
  <2>1. PICK h : h \in Lines(doc, "refs")
    BY <1>2
  <2>2. Ref(k) \in Text /\ Ref(k).kind = "ref" /\ Ref(k).key = k
    BY DEF Ref, Text, Kinds
  <2>3. MayWrite(doc, h, Ref(k)) /\ SetKey(doc, k) = Inserted(doc, h, Ref(k))
    BY <1>2, <2>1, <2>2, HeaderLine DEF SetKey
  <2> QED BY <1>2, <2>2, <2>3, WrittenSound, KeyWritten
<1>3. CASE Lines(doc, "ref") = {} /\ Lines(doc, "refs") = {}
  BY <1>3, KeyAdded DEF SetKey
<1> QED BY <1>1, <1>2, <1>3

LEMMA DropKeySound ==
    ASSUME NEW doc, Sound(doc), Plain(doc), IsDsh
    PROVE  Sound(DropKey(doc)) /\ Plain(DropKey(doc)) /\ Single(DropKey(doc))
<1> DEFINE out == Lines(doc, "ref")
           D == Without(doc, out)
<1>1. Typed(doc) /\ Sections(doc) /\ out \in SUBSET (DOMAIN doc) /\ \A i \in out : doc[i].kind \in Indented
  BY DEF Sound, Lines, Indented
<1>2. Remains(D, doc, out) /\ DropKey(doc) = DropEmptyRefs[D]
  BY <1>1, Filtered DEF DropKey, Without
<1> HIDE DEF D
<1>3. Typed(D) /\ Sections(D) /\ D \in Document
  BY <1>2 DEF Remains, Typed
<1>4. \A j \in DOMAIN D : D[j].kind \notin Marks /\ D[j].kind # "ref"
  BY <1>2 DEF Remains, Plain, Lines
<1>5. Sound(D) /\ Plain(D)
  BY <1>3, <1>4 DEF Sound, Plain
<1>6. CASE Lines(D, "refs") = {}
  <2>1. DropEmptyRefs[D] = D
    BY <1>3, <1>6, NoHeader
  <2>2. Lines(D, "ref") = {}
    BY <1>4 DEF Lines
  <2> QED BY <1>2, <1>5, <1>6, <2>1, <2>2, PlainSingle
<1>7. CASE Lines(D, "refs") # {} /\ \E i \in DOMAIN D : D[i].kind \in Indented
  <2>1. DropEmptyRefs[D] = D
    BY <1>5, <1>7, HeaderDropped
  <2>2. Lines(D, "ref") = {}
    BY <1>4 DEF Lines
  <2> QED BY <1>2, <1>5, <1>7, <2>1, <2>2, PlainSingle
<1>8. CASE Lines(D, "refs") # {} /\ \A i \in DOMAIN D : D[i].kind \notin Indented
  <2>1. PICK h : h \in Lines(D, "refs")
    BY <1>8
  <2>2. /\ DropEmptyRefs[D] = Less(D, h) /\ Sound(Less(D, h)) /\ Plain(Less(D, h))
        /\ Lines(Less(D, h), "refs") = {}
    BY <1>5, <1>8, <2>1, HeaderDropped
  <2>3. h \in DOMAIN D /\ Len(D) \in Nat /\ DOMAIN D = 1 .. Len(D)
    BY <1>3, <2>1, DocumentLines DEF Lines
  <2>4. ASSUME NEW j \in DOMAIN Less(D, h) PROVE Less(D, h)[j].kind # "ref"
    <3>1. j \in 1 .. Len(D) - 1 /\ Less(D, h)[j] = IF j < h THEN D[j] ELSE D[j + 1]
      BY <2>4 DEF Less
    <3>2. j \in 1 .. Len(D) /\ j + 1 \in 1 .. Len(D)
      BY <2>3, <3>1
    <3> QED BY <1>4, <2>3, <3>1, <3>2
  <2>5. Lines(Less(D, h), "ref") = {}
    BY <2>4 DEF Lines
  <2> QED BY <1>2, <2>2, <2>5, PlainSingle
<1> QED BY <1>6, <1>7, <1>8

\* A key beside the block leaves the block in place.
LEMMA BesideSound ==
    ASSUME NEW doc, Sound(doc), IsDsh, HasBlock(doc), NEW k \in Nat, k # 0,
           NEW at \in {"refs", "end"}
    PROVE  Sound(InsertAfter(doc, at, Ref(k))) /\ HasBlock(InsertAfter(doc, at, Ref(k)))
<1> DEFINE x == Ref(k)
<1>1. x \in Text /\ x.kind = "ref" /\ x.key = k /\ x.kind \in Indented /\ x.kind \in KindsOf \ Marks
  BY DEF Ref, Text, Kinds, Indented, KindsOf, Marks
<1>2. /\ doc \in Document /\ Len(doc) \in Nat /\ DOMAIN doc = 1 .. Len(doc) /\ Typed(doc) /\ Sections(doc)
  BY TypedLines DEF Sound
<1>3. PICK b : BlockAt(doc, b)
  <2>1. ~ Plain(doc)
    BY DEF HasBlock, Lines, Plain, Marks
  <2> QED BY <2>1 DEF Sound
<1> HIDE DEF x
<1>4. \E i : MayWrite(doc, i, x) /\ InsertAfter(doc, at, x) = Inserted(doc, i, x)
  <2>1. CASE at = "refs"
    <3>1. PICK h : h \in Lines(doc, "refs")
      <4>1. b \in DOMAIN doc /\ doc[b].kind \in Indented
        BY <1>3 DEF BlockAt, Indented
      <4> QED BY <1>2, <4>1, SectionHead
    <3> QED BY <1>1, <2>1, <3>1, HeaderLine
  <2>2. CASE at = "end"
    <3> DEFINE e == KeyAt(doc, b) + 1
    <3>1. /\ e \in DOMAIN doc /\ doc[e].kind = "end" /\ \A i \in DOMAIN doc : doc[i].kind = "end" => i = e
          /\ \A c : BlockAt(doc, c) => c = b
      BY <1>3 DEF BlockAt
    <3>2. KeyAt(doc, b) < e
      BY <1>2, <1>3, BlockPlaces
    <3> HIDE DEF e
    <3>3. Lines(doc, "end") = {e} /\ e \in Nat
      BY <1>2, <3>1 DEF Lines
    <3>4. Least(Lines(doc, "end")) = e
      BY <3>3, LeastIs
    <3>5. MayWrite(doc, e, x)
      <4>1. e \in 0 .. Len(doc) /\ e \in 1 .. Len(doc) /\ doc[e].kind \in Indented
        BY <1>2, <3>1 DEF Indented
      <4> QED BY <1>1, <3>1, <3>2, <4>1 DEF MayWrite, Indented
    <3> QED BY <2>2, <3>4, <3>5 DEF InsertAfter
  <2> QED BY <2>1, <2>2
<1> QED BY <1>1, <1>4, WrittenSound, WrittenSingle DEF x

\* The user's lines without the table of a provider.
Others(doc) == Pick[doc][{i \in DOMAIN doc : doc[i] # Provider(0)}]

\* What is picked of what is picked.
Among(f, J) == {f[j] : j \in J}

LEMMA PickedTwice ==
    ASSUME NEW doc \in Document, NEW n \in Nat, NEW f, NEW I \in SUBSET (1 .. Len(doc)),
           Enumerates(f, n, I), NEW D \in Document, D = Along(doc, f, n), NEW J \in SUBSET (1 .. n)
    PROVE  Pick[D][J] = Pick[doc][Among(f, J)]
<1> DEFINE K == {f[j] : j \in J}
<1>1. /\ f \in [1 .. n -> I] /\ \A j, k \in 1 .. n : j < k => f[j] < f[k]
      /\ D = [j \in 1 .. n |-> doc[f[j]]]
  BY DEF Enumerates, Along
<1>2. Len(D) = n
  BY <1>1 DEF Document
<1>3. PICK m, g : m \in Nat /\ Enumerates(g, m, J) /\ Pick[D][J] = Along(D, g, m)
  <2> HIDE DEF K
  <2>1. J \in SUBSET (1 .. Len(D))
    BY <1>2
  <2> QED BY <2>1, Picked
<1> m \in Nat
  BY <1>3
<1>4. /\ g \in [1 .. m -> J] /\ \A i \in J : \E j \in 1 .. m : g[j] = i
      /\ \A j, k \in 1 .. m : j < k => g[j] < g[k]
  BY <1>3 DEF Enumerates
<1> DEFINE c == [j \in 1 .. m |-> f[g[j]]]
<1>5. c \in [1 .. m -> K]
  BY <1>4
<1>6. \A i \in K : \E j \in 1 .. m : c[j] = i
  BY <1>4
<1>7. \A j, k \in 1 .. m : j < k => c[j] < c[k]
  <2> SUFFICES ASSUME NEW j \in 1 .. m, NEW k \in 1 .. m, j < k PROVE c[j] < c[k]
    OBVIOUS
  <2>1. g[j] \in 1 .. n /\ g[k] \in 1 .. n /\ g[j] < g[k]
    BY <1>4
  <2>2. f[g[j]] < f[g[k]]
    BY <1>1, <2>1
  <2> QED BY <2>2
<1>8. Enumerates(c, m, K)
  <2> HIDE DEF c, K
  <2> QED BY <1>5, <1>6, <1>7 DEF Enumerates
<1>9. K \in SUBSET Nat
  <2>1. ASSUME NEW j \in J PROVE f[j] \in Nat
    <3>1. f[j] \in I
      BY <1>1
    <3>2. Len(doc) \in Nat
      BY DocumentLines
    <3>3. f[j] \in 1 .. Len(doc)
      BY <3>1
    <3> QED BY <3>2, <3>3
  <2> QED BY <2>1
<1>10. Pick[doc][K] = Along(doc, c, m)
  <2> HIDE DEF c, K
  <2> QED BY <1>8, <1>9, PickIs
<1>11. Along(doc, c, m) = Along(D, g, m)
  <2>1. ASSUME NEW j \in 1 .. m PROVE doc[c[j]] = D[g[j]]
    BY <1>1, <1>4
  <2> HIDE DEF c
  <2> QED BY <2>1 DEF Along
<1> QED BY <1>3, <1>10, <1>11 DEF Among

\* Lines next to each other stay so.
LEMMA StaysNext ==
    ASSUME NEW I \in SUBSET Nat, NEW n \in Nat, NEW f, Enumerates(f, n, I),
           NEW j \in 1 .. n, f[j] + 1 \in I
    PROVE  j + 1 \in 1 .. n /\ f[j + 1] = f[j] + 1
<1>1. /\ f \in [1 .. n -> I] /\ \A i \in I : \E k \in 1 .. n : f[k] = i
      /\ \A i, k \in 1 .. n : i < k => f[i] < f[k]
  BY DEF Enumerates
<1>2. PICK k \in 1 .. n : f[k] = f[j] + 1
  BY <1>1
<1>3. \A i \in 1 .. n : f[i] \in Nat
  BY <1>1
<1>4. j < k
  <2>1. ~ (k < j) /\ k # j
    BY <1>1, <1>2, <1>3
  <2> QED BY <2>1
<1>5. k = j + 1
  <2> SUFFICES ASSUME j + 1 < k PROVE FALSE
    BY <1>4
  <2>1. j + 1 \in 1 .. n /\ j < j + 1
    BY <1>4
  <2>2. f[j] < f[j + 1] /\ f[j + 1] < f[k]
    BY <1>1, <2>1
  <2> QED BY <1>2, <1>3, <2>1, <2>2
<1> QED BY <1>2, <1>5

LEMMA OthersSound ==
    ASSUME NEW doc, Sound(doc), ~ IsDsh
    PROVE  /\ Typed(Others(doc)) /\ (Plain(doc) => Sound(Others(doc)) /\ Plain(Others(doc)))
           /\ \E n, f :
                /\ n \in Nat
                /\ Enumerates(f, n, {i \in DOMAIN doc : doc[i] # Provider(0)})
                /\ Others(doc) = Along(doc, f, n)
<1> DEFINE I == {i \in DOMAIN doc : doc[i] # Provider(0)}
           out == DOMAIN doc \ I
           D == Others(doc)
<1>1. doc \in Document /\ DOMAIN doc = 1 .. Len(doc) /\ Typed(doc)
  BY TypedLines DEF Sound
<1>2. DOMAIN doc \ out = I /\ out \in SUBSET (DOMAIN doc)
  OBVIOUS
<1>3. D = Without(doc, out)
  BY <1>2 DEF Others, Without
<1>4. Remains(D, doc, out)
  BY <1>1, <1>2, <1>3, Filtered
<1>5. Typed(D)
  BY <1>4 DEF Remains
<1>6. ASSUME Plain(doc) PROVE Sound(D) /\ Plain(D)
  <2> HIDE DEF D
  <2>1. Plain(D)
    BY <1>4, <1>6 DEF Remains, Plain
  <2> QED BY <1>5, <2>1 DEF Sound
<1>7. \E n, f : n \in Nat /\ Enumerates(f, n, I) /\ D = Along(doc, f, n)
  <2>1. I \in SUBSET (1 .. Len(doc)) /\ D = Pick[doc][I]
    BY <1>1 DEF Others
  <2> HIDE DEF I, D
  <2> QED BY <1>1, <2>1, Picked
<1> QED BY <1>5, <1>6, <1>7

LEMMA OthersSurvive ==
    ASSUME NEW doc, Sound(doc), ~ IsDsh
    PROVE  Survives(doc, Others(doc), Others(Removed(doc)))
<1> DEFINE I == {i \in DOMAIN doc : doc[i] # Provider(0)}
           D == Others(doc)
<1>1. doc \in Document /\ DOMAIN doc = 1 .. Len(doc) /\ Len(doc) \in Nat /\ Typed(doc)
  BY TypedLines DEF Sound
<1>2. PICK n, f : n \in Nat /\ Enumerates(f, n, I) /\ D = Along(doc, f, n)
  BY OthersSound
<1> n \in Nat
  BY <1>2
<1>3. Typed(D) /\ D \in Document /\ (Plain(doc) => Sound(D) /\ Plain(D))
  BY OthersSound DEF Typed
<1>4. Single(D)
  BY DEF Single
<1>5. CASE Plain(doc)
  <2>1. Removed(D) = D /\ Removed(doc) = doc
    BY <1>3, <1>5, BlockOrPlain
  <2>2. ~ HasBlock(doc)
    BY <1>5, InBlockPlain DEF HasBlock
  <2> QED BY <1>3, <1>4, <1>5, <2>1, <2>2 DEF Survives
<1>6. CASE \E b : BlockAt(doc, b)
  <2>1. PICK b : BlockAt(doc, b)
    BY <1>6
  <2>2. doc[b + 1].kind # "saved" /\ KeyAt(doc, b) = b + 1
    <3>1. b + 1 \in 1 .. Len(doc)
      BY <1>1, <2>1, BlockPlaces
    <3>2. doc[b + 1].kind # "saved"
      BY <1>1, <3>1, TypedLines
    <3> QED BY <3>2 DEF KeyAt
  <2>3. /\ b \in Nat \ {0} /\ b \in 1 .. Len(doc) /\ b + 1 \in 1 .. Len(doc) /\ b + 2 \in 1 .. Len(doc)
        /\ b + 1 + 1 = b + 2
    BY <1>1, <2>1, <2>2, BlockPlaces
  <2>4. /\ doc[b].kind = "begin" /\ doc[b + 2].kind = "end"
        /\ doc[b + 1].kind = "provider" /\ doc[b + 1].key # 0
        /\ \A i \in DOMAIN doc : /\ doc[i].kind = "begin" => i = b
                                 /\ doc[i].kind = "saved" => i = b + 1
                                 /\ doc[i].kind = "end"   => i = b + 2
    BY <2>1, <2>2, <2>3 DEF BlockAt, KeyKind
  <2>5. b \in I /\ b + 1 \in I /\ b + 2 \in I
    BY <1>1, <2>3, <2>4 DEF Provider
  <2>6. /\ f \in [1 .. n -> I] /\ \A i \in I : \E j \in 1 .. n : f[j] = i
        /\ \A j, k \in 1 .. n : j < k => f[j] < f[k]
        /\ D = [j \in 1 .. n |-> doc[f[j]]] /\ I \in SUBSET Nat
    BY <1>1, <1>2 DEF Enumerates, Along
  <2>7. DOMAIN D = 1 .. n /\ \A j \in 1 .. n : D[j] = doc[f[j]] /\ f[j] \in I /\ f[j] \in DOMAIN doc /\ f[j] \in Nat
    BY <2>6
  <2>8. \A j, k \in 1 .. n : f[j] = f[k] => j = k
    BY <2>6, <2>7
  <2>9. PICK p \in 1 .. n : f[p] = b
    BY <2>5, <2>6
  <2> HIDE DEF I, D
  <2>10. p + 1 \in 1 .. n /\ f[p + 1] = b + 1
    <3>1. f[p] + 1 \in I
      BY <2>5, <2>9
    <3>2. p + 1 \in 1 .. n /\ f[p + 1] = f[p] + 1
      BY <1>2, <2>6, <3>1, StaysNext
    <3> QED BY <2>9, <3>2
  <2>11. p + 2 \in 1 .. n /\ f[p + 2] = b + 2
    <3> DEFINE q == p + 1
    <3>0. q \in 1 .. n /\ f[q] + 1 \in I
      BY <2>3, <2>5, <2>10
    <3> HIDE DEF q
    <3>3. q + 1 \in 1 .. n /\ f[q + 1] = f[q] + 1
      BY <1>2, <2>6, <3>0, StaysNext
    <3>1. (p + 1) + 1 \in 1 .. n /\ f[(p + 1) + 1] = (b + 1) + 1
      BY <2>10, <3>3 DEF q
    <3>2. (p + 1) + 1 = p + 2
      OBVIOUS
    <3> QED BY <2>3, <3>1, <3>2
  <2>12. KeyAt(D, p) = p + 1
    BY <2>2, <2>7, <2>10 DEF KeyAt
  <2>13. BlockAt(D, p)
    <3>1. /\ p \in DOMAIN D /\ p + 2 \in DOMAIN D /\ (p + 1) + 1 \in DOMAIN D /\ (p + 1) + 1 = p + 2
          /\ D[p].kind = "begin" /\ D[p + 2].kind = "end"
          /\ D[p + 1].kind = KeyKind /\ D[p + 1].key # 0
      BY <2>4, <2>7, <2>9, <2>10, <2>11 DEF KeyKind
    <3>2. ASSUME NEW i \in 1 .. n
          PROVE  /\ D[i].kind = "begin" => i = p
                 /\ D[i].kind = "saved" => i = p + 1
                 /\ D[i].kind = "end"   => i = p + 2
      <4>1. D[i] = doc[f[i]] /\ f[i] \in DOMAIN doc
        BY <2>7
      <4>2. /\ doc[f[i]].kind = "begin" => f[i] = f[p]
            /\ doc[f[i]].kind = "saved" => f[i] = f[p + 1]
            /\ doc[f[i]].kind = "end"   => f[i] = f[p + 2]
        BY <2>4, <2>9, <2>10, <2>11, <4>1
      <4> QED BY <2>8, <2>9, <2>10, <2>11, <4>1, <4>2
    <3> QED BY <2>7, <2>12, <3>1, <3>2 DEF BlockAt
  <2>14. Sound(D) /\ HasBlock(D)
    BY <1>3, <2>13 DEF Sound, HasBlock, Lines, BlockAt
  <2> DEFINE K == I \ (b .. b + 2)
  <2>15. Removed(D) = Pick[doc][K]
    <3> DEFINE J == 1 .. n \ (p .. p + 2)
    <3>1. InBlock(D) = p .. p + 2
      <4>1. InBlock(D) = p .. (p + 1) + 1 /\ (p + 1) + 1 = p + 2
        BY <1>3, <2>12, <2>13, InBlockIs
      <4> QED BY <4>1
    <3>2. Removed(D) = Pick[D][J]
      BY <2>7, <3>1 DEF Removed, BlockRemoved, StripManagedBlock
    <3>3. Pick[D][J] = Pick[doc][Among(f, J)]
      <4>1. I \in SUBSET (1 .. Len(doc)) /\ J \in SUBSET (1 .. n)
        BY <1>1 DEF I
      <4> HIDE DEF J
      <4> QED BY <1>1, <1>2, <1>3, <4>1, PickedTwice
    <3>4. Among(f, J) = K
      <4>1. ASSUME NEW j \in J PROVE f[j] \in K
        <5>1. j \in 1 .. n /\ j # p /\ j # p + 1 /\ j # p + 2
          OBVIOUS
        <5>2. f[j] # b /\ f[j] # b + 1 /\ f[j] # b + 2
          BY <2>8, <2>9, <2>10, <2>11, <5>1
        <5>3. f[j] \in I /\ f[j] \notin b .. b + 2
          BY <2>3, <2>7, <5>1, <5>2
        <5> QED BY <5>3
      <4>2. ASSUME NEW i \in K PROVE \E j \in J : i = f[j]
        <5>1. i \in I /\ i # b /\ i # b + 1 /\ i # b + 2
          BY <2>3
        <5>2. PICK j \in 1 .. n : f[j] = i
          BY <2>6, <5>1
        <5>3. j # p /\ j # p + 1 /\ j # p + 2
          BY <2>9, <2>10, <2>11, <5>1, <5>2
        <5>4. j \in J
          BY <5>3
        <5> QED BY <5>2, <5>4
      <4> HIDE DEF J, K
      <4> QED BY <4>1, <4>2 DEF Among
    <3> QED BY <3>2, <3>3, <3>4
  <2>16. Others(Removed(doc)) = Pick[doc][K]
    <3> DEFINE J == DOMAIN doc \ (b .. b + 2)
               E == Removed(doc)
    <3>1. InBlock(doc) = b .. b + 2
      <4>1. InBlock(doc) = b .. (b + 1) + 1 /\ (b + 1) + 1 = b + 2
        BY <1>1, <2>1, <2>2, <2>3, InBlockIs
      <4> QED BY <4>1
    <3>2. E = Pick[doc][J] /\ J \in SUBSET (1 .. Len(doc))
      BY <1>1, <3>1 DEF Removed, BlockRemoved, StripManagedBlock
    <3> HIDE DEF J, E
    <3>3. PICK m, g : m \in Nat /\ Enumerates(g, m, J) /\ E = Along(doc, g, m) /\ E \in Document /\ Len(E) = m
      BY <1>1, <3>2, Picked
    <3> m \in Nat
      BY <3>3
    <3> DEFINE L == {i \in DOMAIN E : E[i] # Provider(0)}
    <3>4. /\ g \in [1 .. m -> J] /\ \A i \in J : \E j \in 1 .. m : g[j] = i
          /\ E = [j \in 1 .. m |-> doc[g[j]]] /\ DOMAIN E = 1 .. m /\ L \in SUBSET (1 .. m)
      BY <3>3 DEF Enumerates, Along
    <3>5. Pick[E][L] = Pick[doc][Among(g, L)]
      <4>1. L \in SUBSET (1 .. m)
        BY <3>4
      <4> HIDE DEF L
      <4> QED BY <1>1, <3>2, <3>3, <4>1, PickedTwice
    <3>6. Among(g, L) = K
      <4>1. ASSUME NEW j \in L PROVE g[j] \in K
        <5>1. j \in 1 .. m /\ g[j] \in J /\ doc[g[j]] # Provider(0)
          BY <3>4
        <5> QED BY <5>1 DEF J, I
      <4>2. ASSUME NEW i \in K PROVE \E j \in L : i = g[j]
        <5>1. i \in J /\ doc[i] # Provider(0)
          BY DEF J, I
        <5>2. PICK j \in 1 .. m : g[j] = i
          BY <3>4, <5>1
        <5>3. j \in L
          BY <3>4, <5>1, <5>2
        <5> QED BY <5>2, <5>3
      <4> HIDE DEF L, K
      <4> QED BY <4>1, <4>2 DEF Among
    <3> QED BY <3>5, <3>6 DEF Others, E
  <2> QED BY <1>4, <2>14, <2>15, <2>16 DEF Survives, D
<1> QED BY <1>5, <1>6, BlockOrPlain

-----------------------------------------------------------------------------
(* What a sound file says. *)

LEMMA SoundOneBlock ==
    ASSUME Sound(file)
    PROVE  OneBlock
<1>1. file \in Document /\ DOMAIN file = 1 .. Len(file) /\ Typed(file) /\ Len(file) \in Nat
  BY TypedLines DEF Sound
<1>2. Cardinality({}) = 0 /\ \A S : \A x : S = {x} => Cardinality(S) = 1
  BY FS_EmptySet, FS_Singleton
<1>3. CASE Plain(file)
  <2>1. Lines(file, "begin") = {} /\ Lines(file, "end") = {}
    BY <1>3 DEF Plain, Marks, Lines
  <2>2. BlockKey(file) = {}
    BY <2>1 DEF BlockKey
  <2> QED BY <1>2, <2>1, <2>2 DEF OneBlock
<1>4. CASE \E b : BlockAt(file, b)
  <2>1. PICK b : BlockAt(file, b)
    BY <1>4
  <2> DEFINE k == KeyAt(file, b)
  <2>2. /\ b \in Nat /\ k \in Nat /\ (file[b + 1].kind = "saved" => k = b + 2)
        /\ (file[b + 1].kind # "saved" => k = b + 1)
        /\ b \in 1 .. Len(file) /\ k \in 1 .. Len(file)
    BY <1>1, <2>1, BlockPlaces
  <2>3. /\ k + 1 \in DOMAIN file /\ file[b].kind = "begin" /\ file[k + 1].kind = "end"
        /\ file[k].kind = KeyKind
        /\ \A i \in DOMAIN file : (file[i].kind = "begin" => i = b) /\ (file[i].kind = "end" => i = k + 1)
    BY <2>1 DEF BlockAt
  <2> HIDE DEF k
  <2>4. Lines(file, "begin") = {b} /\ Lines(file, "end") = {k + 1}
    BY <1>1, <2>2, <2>3 DEF Lines
  <2> DEFINE J == {j \in Lines(file, KeyKind) :
                      \E d \in Lines(file, "begin"), e \in Lines(file, "end") : d < j /\ j < e}
  <2>5. J = {k}
    <3>1. k \in J
      BY <1>1, <2>2, <2>3, <2>4 DEF Lines
    <3>2. ASSUME NEW j \in J PROVE j = k
      <4>1. j \in 1 .. Len(file) /\ file[j].kind = KeyKind /\ b < j /\ j < k + 1
        BY <1>1, <2>4 DEF Lines
      <4>2. j # b + 1 \/ file[b + 1].kind # "saved"
        BY <4>1 DEF KeyKind
      <4> QED BY <2>2, <4>1, <4>2
    <3> HIDE DEF J
    <3> QED BY <3>1, <3>2
  <2>6. BlockKey(file) = {file[j].key : j \in J}
    BY DEF BlockKey, KeyKind
  <2>7. BlockKey(file) = {file[k].key}
    <3> HIDE DEF J
    <3> QED BY <2>5, <2>6
  <2>8. /\ Cardinality(Lines(file, "begin")) = 1 /\ Cardinality(Lines(file, "end")) = 1
        /\ Cardinality(BlockKey(file)) = 1
    BY <1>2, <2>4, <2>7
  <2> QED BY <2>8 DEF OneBlock
<1> QED BY <1>3, <1>4, BlockOrPlain

\* What Remove leaves is single.
LEMMA RemovedSingle ==
    ASSUME NEW doc, Sound(doc), Single(doc)
    PROVE  Single(Removed(doc)) /\ ~ HasBlock(Removed(doc))
<1>1. doc \in Document /\ DOMAIN doc = 1 .. Len(doc) /\ Len(doc) \in Nat /\ Typed(doc)
  BY TypedLines DEF Sound
<1>2. Sound(Removed(doc)) /\ Plain(Removed(doc))
  BY RemovedSound
<1>3. ~ HasBlock(Removed(doc))
  BY <1>2 DEF Plain, HasBlock, Lines, Marks
<1>4. CASE Plain(doc) \/ ~ IsDsh
  <2>1. Plain(doc) => Removed(doc) = doc
    BY BlockOrPlain
  <2>2. ~ IsDsh => Single(Removed(doc))
    BY DEF Single
  <2> QED BY <1>3, <1>4, <2>1, <2>2
<1>5. CASE IsDsh /\ \E b : BlockAt(doc, b)
  <2>1. PICK b : BlockAt(doc, b)
    BY <1>5
  <2> DEFINE C == Cut(doc, b)
             n == Len(doc) - 3
  <2>2. Lines(doc, "ref") = {KeyAt(doc, b)}
    BY <1>5, <2>1 DEF Single, BlockAt
  <2>3. /\ DOMAIN C = 1 .. n /\ n \in Nat /\ b \in 1 .. Len(doc) - 2
        /\ \A j \in 1 .. n :
             /\ j < b => C[j] = doc[j]
             /\ j > b => C[j] = doc[j + 3]
             /\ j = b /\ doc[b + 1].kind # "saved" => C[j] = doc[b + 3]
             /\ j = b /\ doc[b + 1].kind = "saved" => C[j] = Ref(doc[b + 1].key)
        /\ doc[b + 1].kind = "saved" => b \in 1 .. n
    <3>1. Left(C, doc, b)
      BY <1>1, <2>1, CutLeft
    <3> HIDE DEF C
    <3> QED BY <3>1 DEF Left
  <2>4. Len(doc) = n + 3
    BY <1>1
  <2>5. /\ b \in Nat \ {0} /\ b < KeyAt(doc, b) /\ KeyAt(doc, b) <= b + 2 /\ KeyAt(doc, b) \in Nat
        /\ (doc[b + 1].kind # "saved" => KeyAt(doc, b) = b + 1)
    BY <1>1, <2>1, BlockPlaces
  <2> HIDE DEF C, n
  <2>6. ASSUME NEW j \in 1 .. n, C[j].kind = "ref"
        PROVE  j = b /\ doc[b + 1].kind = "saved"
    <3>1. \A i \in 1 .. Len(doc) : doc[i].kind = "ref" => i = KeyAt(doc, b)
      BY <1>1, <2>2 DEF Lines
    <3>2. CASE j < b
      BY <2>3, <2>4, <2>5, <2>6, <3>1, <3>2
    <3>3. CASE j > b
      <4>1. j + 3 \in 1 .. Len(doc) /\ j + 3 > b + 2
        BY <2>3, <2>4, <2>5, <3>3
      <4> QED BY <2>3, <2>5, <2>6, <3>1, <3>3, <4>1
    <3>4. CASE j = b /\ doc[b + 1].kind # "saved"
      <4>1. b + 3 \in 1 .. Len(doc) /\ C[j] = doc[b + 3]
        BY <2>3, <2>4, <2>5, <3>4
      <4> QED BY <2>5, <2>6, <3>1, <4>1
    <3> QED BY <2>3, <2>5, <3>2, <3>3, <3>4
  <2>7. CASE Lone(doc, b)
    <3>1. Removed(doc) = Less(C, b - 1) /\ Lines(Removed(doc), "refs") = {}
      BY <2>1, <2>7, RemovedIs DEF C
    <3>2. ASSUME NEW j \in DOMAIN Removed(doc) PROVE Removed(doc)[j].kind # "ref"
      <4>1. C \in Document /\ Len(C) = n
        BY <1>1, <2>1, TextLeft DEF C, n
      <4>2. j \in 1 .. n - 1 /\ Removed(doc)[j] = IF j < b - 1 THEN C[j] ELSE C[j + 1]
        BY <3>1, <3>2, <4>1 DEF Less
      <4>3. j \in 1 .. n /\ j + 1 \in 1 .. n /\ doc[b + 1].kind # "saved"
        BY <2>3, <2>7, <4>2 DEF Lone
      <4> QED BY <2>6, <4>2, <4>3
    <3>3. Lines(Removed(doc), "ref") = {}
      BY <3>2 DEF Lines
    <3> QED BY <1>2, <1>3, <3>1, <3>3, PlainSingle
  <2>8. CASE ~ Lone(doc, b)
    <3>1. Removed(doc) = C
      BY <2>1, <2>8, RemovedIs DEF C
    <3>2. \A i, j \in Lines(C, "ref") : i = j
      BY <2>3, <2>6 DEF Lines
    <3>3. b - 1 \in 1 .. Len(doc) /\ doc[b - 1].kind \in Indented \cup {"refs"}
      <4>1. b \in DOMAIN doc /\ doc[b].kind \in Indented
        BY <2>1 DEF BlockAt, Indented
      <4> QED BY <1>1, <1>5, <4>1 DEF Sound, Sections
    <3>4. \E j \in 1 .. n : C[j].kind \in Indented
      <4>1. CASE doc[b + 1].kind = "saved"
        <5>1. b \in 1 .. n /\ C[b].kind = "ref"
          BY <2>3, <4>1 DEF Ref
        <5> QED BY <5>1 DEF Indented
      <4>2. CASE doc[b + 1].kind # "saved" /\ doc[b - 1].kind \in Indented
        <5>1. b - 1 \in 1 .. n /\ b - 1 < b
          BY <2>3, <2>4, <2>5, <3>3
        <5> QED BY <2>3, <4>2, <5>1
      <4>3. CASE doc[b + 1].kind # "saved" /\ doc[b - 1].kind = "refs"
        <5>1. b + 3 \in 1 .. Len(doc) /\ doc[b + 3].kind \in Indented
          BY <1>1, <1>5, <2>8, <4>3 DEF Lone
        <5>2. b \in 1 .. n
          BY <2>3, <2>4, <2>5, <5>1
        <5> QED BY <2>3, <4>3, <5>1, <5>2
      <4> QED BY <3>3, <4>1, <4>2, <4>3
    <3> QED BY <1>2, <1>3, <2>3, <3>1, <3>2, <3>4, PlainSingle
  <2> QED BY <2>7, <2>8
<1> QED BY <1>3, <1>4, <1>5, BlockOrPlain

\* Remove adds no version line.
LEMMA RemovedVersion ==
    ASSUME NEW doc, Sound(doc), Lines(Removed(doc), "version") # {}
    PROVE  Lines(doc, "version") # {}
<1>1. doc \in Document /\ DOMAIN doc = 1 .. Len(doc) /\ Len(doc) \in Nat /\ Typed(doc)
  BY TypedLines DEF Sound
<1>2. CASE Plain(doc)
  BY <1>2, BlockOrPlain
<1>3. CASE \E b : BlockAt(doc, b)
  <2>1. PICK b : BlockAt(doc, b)
    BY <1>3
  <2> DEFINE C == Cut(doc, b)
             n == Len(doc) - 3
  <2>2. /\ DOMAIN C = 1 .. n /\ n \in Nat /\ b \in 1 .. Len(doc) - 2
        /\ \A j \in 1 .. n :
             /\ j < b => C[j] = doc[j]
             /\ j > b => C[j] = doc[j + 3]
             /\ j = b /\ doc[b + 1].kind # "saved" => C[j] = doc[b + 3]
             /\ j = b /\ doc[b + 1].kind = "saved" => C[j] = Ref(doc[b + 1].key)
        /\ doc[b + 1].kind = "saved" => b \in 1 .. n
    <3>1. Left(C, doc, b)
      BY <1>1, <2>1, CutLeft
    <3> HIDE DEF C
    <3> QED BY <3>1 DEF Left
  <2>3. Len(doc) = n + 3
    BY <1>1
  <2>4. C \in Document /\ Len(C) = n
    BY <1>1, <2>1, TextLeft
  <2>5. Removed(doc) = IF Lone(doc, b) THEN Less(C, b - 1) ELSE C
    BY <2>1, RemovedIs
  <2> HIDE DEF C, n
  <2>6. ASSUME NEW j \in 1 .. n, C[j].kind = "version" PROVE \E i \in 1 .. Len(doc) : doc[i].kind = "version"
    <3>1. /\ j \in 1 .. Len(doc) /\ j + 3 \in 1 .. Len(doc)
          /\ b \in Nat /\ (j = b => b + 3 \in 1 .. Len(doc))
      BY <2>2, <2>3
    <3>2. Ref(doc[b + 1].key).kind = "ref"
      BY DEF Ref
    <3>3. \/ C[j] = doc[j]
          \/ C[j] = doc[j + 3]
          \/ (j = b /\ C[j] = doc[b + 3])
          \/ C[j] = Ref(doc[b + 1].key)
      <4>1. j < b \/ j > b \/ j = b
        BY <3>1
      <4> QED BY <2>2, <4>1
    <3> QED BY <2>6, <3>1, <3>2, <3>3
  <2>7. \E j \in 1 .. n : C[j].kind = "version"
    <3>1. PICK j \in DOMAIN Removed(doc) : Removed(doc)[j].kind = "version"
      BY DEF Lines
    <3>2. CASE Lone(doc, b)
      <4>1. j \in 1 .. n - 1 /\ Removed(doc)[j] = IF j < b - 1 THEN C[j] ELSE C[j + 1]
        BY <2>4, <2>5, <3>1, <3>2 DEF Less
      <4>2. j \in 1 .. n /\ j + 1 \in 1 .. n
        BY <2>2, <4>1
      <4> QED BY <3>1, <4>1, <4>2
    <3>3. CASE ~ Lone(doc, b)
      BY <2>2, <2>5, <3>1, <3>3
    <3> QED BY <3>2, <3>3
  <2> QED BY <1>1, <2>6, <2>7 DEF Lines
<1> QED BY <1>2, <1>3, BlockOrPlain

-----------------------------------------------------------------------------
(* The behaviour. *)

\* The harness is the same in the next state, and what is said of its documents too.
LEMMA FileNext ==
    ASSUME NEW e, harness' = harness, file' = e
    PROVE  /\ Sound(e) => Sound(file)'
           /\ Single(e) => Single(file)'
           /\ Removed(file)' = Removed(e)
           /\ HasBlock(file)' <=> HasBlock(e)
           /\ Lines(file, "begin")' = Lines(e, "begin")
<1>1. Typed(e) => Typed(file)'
  BY DEF Typed, KindsOf, IsDsh
<1>2. \A b : BlockAt(e, b) <=> BlockAt(file, b)'
  BY DEF BlockAt, KeyAt, KeyKind, IsDsh
<1>3. Sections(e) => Sections(file)'
  BY DEF Sections, Lines
<1>4. (Plain(e) <=> Plain(file)') /\ (IsDsh <=> IsDsh') /\ DOMAIN e = (DOMAIN file)'
  BY DEF Plain, IsDsh
<1>5. Sound(e) => Sound(file)'
  BY <1>1, <1>2, <1>3, <1>4 DEF Sound
<1>6. Single(e) => Single(file)'
  <2>1. \A b : KeyAt(e, b) = KeyAt(file, b)'
    BY DEF KeyAt
  <2> QED BY <1>2, <1>4, <2>1 DEF Single, Lines
<1> QED BY <1>5, <1>6 DEF Removed, HasBlock, Lines, IsDsh

LEMMA NextNext ==
    ASSUME NEW e, harness' = harness, next' = e, Sound(e)
    PROVE  Sound(next)'
<1>1. Typed(e) => Typed(next)'
  BY DEF Typed, KindsOf, IsDsh
<1>2. \A b : BlockAt(e, b) <=> BlockAt(next, b)'
  BY DEF BlockAt, KeyAt, KeyKind, IsDsh
<1>3. Sections(e) => Sections(next)'
  BY DEF Sections, Lines
<1>4. (Plain(e) <=> Plain(next)') /\ (IsDsh <=> IsDsh') /\ DOMAIN e = (DOMAIN next)'
  BY DEF Plain, IsDsh
<1> QED BY <1>1, <1>2, <1>3, <1>4 DEF Sound

LEMMA SoundNothing == Sound(<<>>) /\ Single(<<>>) /\ <<>> \in Document /\ Removed(<<>>) = <<>>
<1>1. <<>> \in Document /\ DOMAIN <<>> = {}
  BY DEF Document
<1>2. Plain(<<>>) /\ Typed(<<>>) /\ Sections(<<>>) /\ Lines(<<>>, "refs") = {}
  BY <1>1 DEF Plain, Typed, Sections, Lines
<1>3. Sound(<<>>)
  BY <1>2 DEF Sound
<1>4. Single(<<>>)
  BY <1>1, <1>2, PlainSingle DEF Lines
<1> QED BY <1>1, <1>2, <1>3, <1>4, BlockOrPlain

\* What the user may have before foxy.
LEMMA SoundAtFirst ==
    ASSUME NEW doc \in Documents
    PROVE  Sound(doc) /\ Single(doc) /\ Plain(doc)
<1> USE DEF Line, Ref, Own, Provider, Text, Kinds
<1>1. CASE doc = <<>>
  BY <1>1, SoundNothing DEF Plain
<1>2. CASE IsDsh /\ doc = <<Line("version"), Line("other")>>
  <2>1. /\ doc \in Document /\ DOMAIN doc = 1 .. 2
        /\ doc[1] = Line("version") /\ doc[2] = Line("other")
    BY <1>2 DEF Document
  <2>2. \A i \in 1 .. 2 : doc[i].kind \in {"version", "other"}
    BY <2>1
  <2>3. Typed(doc) /\ Plain(doc)
    BY <1>2, <2>1, <2>2 DEF Typed, Plain, KindsOf, Marks
  <2>4. Sections(doc) /\ Lines(doc, "ref") = {} /\ Lines(doc, "refs") = {}
    BY <2>1, <2>2 DEF Sections, Lines, Indented
  <2> QED BY <2>3, <2>4, PlainSingle DEF Sound
<1>3. CASE IsDsh /\ doc = <<Line("refs"), Ref(1)>>
  <2>1. /\ doc \in Document /\ DOMAIN doc = 1 .. 2
        /\ doc[1] = Line("refs") /\ doc[2] = Ref(1)
    BY <1>3 DEF Document
  <2>2. \A i \in 1 .. 2 : \/ i = 1 /\ doc[i].kind = "refs"
                          \/ i = 2 /\ doc[i].kind = "ref" /\ doc[i].key = 1
    BY <2>1
  <2>3. Typed(doc) /\ Plain(doc)
    BY <1>3, <2>1, <2>2 DEF Typed, Plain, KindsOf, Marks, Indented
  <2>4. Lines(doc, "ref") = {2} /\ Lines(doc, "refs") = {1}
    BY <2>1, <2>2 DEF Lines
  <2>5. Sections(doc) /\ doc[2].kind \in Indented
    BY <2>1, <2>2, <2>4 DEF Sections, Indented
  <2> QED BY <2>1, <2>3, <2>4, <2>5, PlainSingle DEF Sound
<1>4. CASE IsDsh /\ doc = <<Line("version"), Line("refs"), Line("entry"), Ref(1),
                           Line("entry"), Line("other")>>
  <2>1. /\ doc \in Document /\ DOMAIN doc = 1 .. 6
        /\ doc[1] = Line("version") /\ doc[2] = Line("refs") /\ doc[3] = Line("entry")
        /\ doc[4] = Ref(1) /\ doc[5] = Line("entry") /\ doc[6] = Line("other")
    BY <1>4 DEF Document
  <2>2. \A i \in 1 .. 6 : \/ i = 1 /\ doc[i].kind = "version"
                          \/ i = 2 /\ doc[i].kind = "refs"
                          \/ i \in {3, 5} /\ doc[i].kind = "entry"
                          \/ i = 4 /\ doc[i].kind = "ref" /\ doc[i].key = 1
                          \/ i = 6 /\ doc[i].kind = "other"
    BY <2>1
  <2>3. Typed(doc) /\ Plain(doc)
    BY <1>4, <2>1, <2>2 DEF Typed, Plain, KindsOf, Marks, Indented
  <2>4. Lines(doc, "ref") = {4} /\ Lines(doc, "refs") = {2}
    BY <2>1, <2>2 DEF Lines
  <2>5. Sections(doc) /\ doc[4].kind \in Indented
    BY <2>1, <2>2, <2>4 DEF Sections, Indented
  <2> QED BY <2>1, <2>3, <2>4, <2>5, PlainSingle DEF Sound
<1>5. CASE ~ IsDsh /\ doc = <<Own(0)>>
  <2>1. doc \in Document /\ DOMAIN doc = 1 .. 1 /\ doc[1] = Own(0)
    BY <1>5 DEF Document
  <2>2. Typed(doc) /\ Plain(doc)
    BY <1>5, <2>1 DEF Typed, Plain, KindsOf, Marks
  <2> QED BY <1>5, <2>2 DEF Sound, Single
<1>6. CASE ~ IsDsh /\ doc = <<Own(0), Provider(0)>>
  <2>1. /\ doc \in Document /\ DOMAIN doc = 1 .. 2 /\ doc[1] = Own(0) /\ doc[2] = Provider(0)
    BY <1>6 DEF Document
  <2>2. \A i \in 1 .. 2 : doc[i].kind \in {"own", "provider"}
    BY <2>1
  <2>3. Typed(doc) /\ Plain(doc)
    BY <1>6, <2>1, <2>2 DEF Typed, Plain, KindsOf, Marks
  <2> QED BY <1>6, <2>3 DEF Sound, Single
<1> QED BY <1>1, <1>2, <1>3, <1>4, <1>5, <1>6 DEF Documents

\* What the user means is a document.
LEMMA EditedDocument ==
    ASSUME NEW doc \in Document, NEW x \in Text, NEW k \in Nat
    PROVE  /\ Append(doc, x) \in Document /\ <<x>> \o doc \in Document
           /\ SetKey(doc, k) \in Document /\ DropKey(doc) \in Document /\ Others(doc) \in Document
           /\ Lines(doc, "refs") # {} => InsertAfter(doc, "refs", x) \in Document
<1>1. /\ Len(doc) \in Nat /\ DOMAIN doc = 1 .. Len(doc)
      /\ \A i \in 1 .. Len(doc) : doc[i] \in Text
  BY DocumentLines
<1>2. Append(doc, x) \in Document /\ <<x>> \o doc \in Document
  BY DEF Document
<1>3. ASSUME NEW d \in Document, NEW I \in SUBSET (DOMAIN d) PROVE Pick[d][I] \in Document
  <2>1. I \in SUBSET (1 .. Len(d))
    BY DocumentLines
  <2> QED BY <2>1, Picked
<1>4. Others(doc) \in Document
  BY <1>3 DEF Others
<1>5. DropKey(doc) \in Document
  <2> DEFINE d == Pick[doc][DOMAIN doc \ Lines(doc, "ref")]
  <2>1. d \in Document
    BY <1>3
  <2> HIDE DEF d
  <2>2. Pick[d][DOMAIN d \ {Head0(d)}] \in Document
    BY <1>3, <2>1
  <2>3. DropEmptyRefs[d] \in Document
    BY <2>1, <2>2 DEF DropEmptyRefs
  <2> QED BY <2>3 DEF DropKey, d
<1>6. ASSUME NEW y \in Text, Lines(doc, "refs") # {}
      PROVE  InsertAfter(doc, "refs", y) \in Document
  <2> DEFINE i == Least(Lines(doc, "refs"))
  <2>1. PICK g \in Lines(doc, "refs") : TRUE
    BY <1>6
  <2>2. Lines(doc, "refs") \in SUBSET Nat /\ IsFiniteSet(Lines(doc, "refs"))
    <3>1. 1 \in Int /\ Len(doc) \in Int /\ Lines(doc, "refs") \subseteq 1 .. Len(doc)
      BY <1>1 DEF Lines
    <3>2. IsFiniteSet(1 .. Len(doc))
      BY <3>1, FS_Interval
    <3>3. IsFiniteSet(Lines(doc, "refs"))
      BY <3>1, <3>2, FS_Subset
    <3> QED BY <1>1, <3>1, <3>3
  <2>3. PICK m \in Lines(doc, "refs") : \A l \in Lines(doc, "refs") : m <= l
    BY <1>6, <2>2, HasEnds
  <2>4. i = m
    BY <2>2, <2>3, LeastIs
  <2>5. i \in 0 .. Len(doc)
    BY <1>1, <2>3, <2>4 DEF Lines
  <2> HIDE DEF i
  <2>6. With(Inserted(doc, i, y), doc, i, y)
    BY <2>5, InsertedIs
  <2> QED BY <2>6 DEF With, InsertAfter, i
<1>7. Ref(k) \in Text /\ Line("refs") \in Text
  BY DEF Ref, Line, Text, Kinds
<1>8. [i \in DOMAIN doc |-> IF doc[i].kind = "ref" THEN Ref(k) ELSE doc[i]] \in Document
  <2>1. [i \in DOMAIN doc |-> IF doc[i].kind = "ref" THEN Ref(k) ELSE doc[i]] \in [1 .. Len(doc) -> Text]
    BY <1>1, <1>7
  <2> QED BY <1>1, <2>1, IsDocument
<1>9. doc \o <<Line("refs"), Ref(k)>> \in Document
  BY <1>7 DEF Document
<1>10. SetKey(doc, k) \in Document
  BY <1>6, <1>7, <1>8, <1>9 DEF SetKey
<1> QED BY <1>2, <1>4, <1>5, <1>6, <1>10

\* The invariant, in parts: the types, what the steps of a sync know of each other, the
\* file and the document to write, and what holds while the user and the daemon do not
\* get in each other's way.
Flow ==
    /\ pc = "rename" => tmp = next
    /\ pc = "idle" => job = None
    /\ job = None => mem = 0 \/ pc = "idle"
    /\ up = "quitting" => job = None
    /\ up = "off" => pc = "idle"

NotRaced ==
    /\ pc \in {"write", "rename"} =>
         next = IF job = None THEN Removed(file) ELSE Applied(file, job.key)
    /\ pc = "profiles" /\ job # None => HasBlock(file)
    /\ mem # 0 => HasBlock(file)

Restored ==
    \/ Removed(file) = mine
    \/ IsDsh /\ mine = <<>> /\ Removed(file) = <<Line("version")>>

Keeps == Single(file) /\ Restored

IInv ==
    /\ TypeOK /\ Flow /\ Sound(file) /\ Sound(next)
    /\ ~ raced => NotRaced
    /\ ~ raced /\ ~ doubled => Keeps

LEMMA KeysAreNumbers ==
    ASSUME TypeOK
    PROVE  /\ job # None => job \in Grant /\ job.key \in Nat /\ job.key # 0 /\ job.models \subseteq Models
           /\ \A k \in UserKeys : k \in Nat /\ k # 0
           /\ edits \in Nat /\ file \in Document /\ next \in Document /\ mine \in Document
<1>1. job # None => job \in Grant
  BY DEF TypeOK
<1>2. job # None => job.key \in Keys /\ job.models \subseteq Models
  BY <1>1 DEF Grant
<1>3. edits \in Nat
  BY AgentAssumption DEF TypeOK
<1> QED BY <1>1, <1>2, <1>3, AgentAssumption DEF TypeOK

LEMMA InitInv == Init => IInv
<1> SUFFICES ASSUME Init PROVE IInv
  OBVIOUS
<1>1. Sound(file) /\ Single(file) /\ Plain(file) /\ Sound(next) /\ file \in Document
  BY SoundAtFirst, SoundNothing DEF Init, Sound, Typed
<1>2. Removed(file) = mine
  BY <1>1, BlockOrPlain DEF Init
<1>3. TypeOK
  <2>1. next \in Document /\ tmp \in Document \cup {None}
    BY SoundNothing DEF Init
  <2>2. grants \in 0 .. MaxGrants /\ edits \in 0 .. MaxEdits /\ stops \in 0 .. MaxStops
    BY AgentAssumption DEF Init
  <2>3. profile \in [Names -> {Absent, Foreign} \cup Models]
    BY DEF Init
  <2> QED BY <1>1, <2>1, <2>2, <2>3 DEF Init, TypeOK
<1> QED BY <1>1, <1>2, <1>3 DEF Init, IInv, Flow, NotRaced, Keeps, Restored

\* The types, where the documents are documents.
LEMMA TypesNext ==
    ASSUME TypeOK, Flow, [Next]_vars, (file' \in Document), (next' \in Document), (mine' \in Document)
    PROVE  TypeOK'
<1> DEFINE Rest ==
      /\ harness' \in Harnesses /\ granted' \in Grant' \cup {None} /\ tmp' \in Document \cup {None}
      /\ profile' \in [Names -> {Absent, Foreign} \cup Models]
      /\ up' \in {"up", "quitting", "off"}
      /\ pc' \in {"idle", "read", "write", "rename", "profiles"}
      /\ job' \in Grant' \cup {None} /\ todo' \subseteq Models /\ mem' \in Keys \cup {0}
      /\ up' # "up" => mem' = 0
      /\ grants' \in 0 .. MaxGrants /\ edits' \in 0 .. MaxEdits /\ stops' \in 0 .. MaxStops
      /\ raced' \in BOOLEAN /\ doubled' \in BOOLEAN
<1> SUFFICES Rest
  BY DEF TypeOK
<1> USE DEF TypeOK
<1>1. Grant' = Grant /\ harness' = harness
  <2>1. harness' = harness
    BY DEF Next, vars, Start, Sync, Ask, Read, Write, Rename, Done, WriteProfile, Sweep, Fails, Quit,
           Die, Regrant, EditDsh, EditBesideBlock, EditCodex, EditProfile, Saves, DaemonKeeps
  <2> QED BY <2>1 DEF Grant, IsDsh
<1>2. {grants, edits, stops, MaxGrants, MaxEdits, MaxStops} \subseteq Nat
  BY AgentAssumption
<1>3. CASE Start
  BY <1>1, <1>3 DEF Start, DaemonKeeps, bounds, user, disk, sync
<1>4. CASE Ask
  BY <1>1, <1>4 DEF Ask, DaemonKeeps, bounds, user, disk
<1>5. CASE Read
  BY <1>1, <1>5 DEF Read, DaemonKeeps, bounds, user, disk
<1>6. CASE Write
  <2>1. todo' \subseteq Models
    BY <1>6, KeysAreNumbers DEF Write
  <2> QED BY <1>1, <1>6, <2>1 DEF Write, DaemonKeeps, bounds, user
<1>7. CASE Rename
  BY <1>1, <1>7 DEF Rename, DaemonKeeps, bounds, user
<1>8. CASE Done
  <2>1. mem' \in Keys \cup {0}
    BY <1>8 DEF Done, Grant
  <2>2. up' # "up" => mem' = 0
    BY <1>8 DEF Done, Flow
  <2> QED BY <1>1, <1>8, <2>1, <2>2 DEF Done, DaemonKeeps, bounds, user, disk
<1>9. ASSUME NEW m \in Models, WriteProfile(m) PROVE Rest
  <2>1. profile' \in [Names -> {Absent, Foreign} \cup Models]
    BY <1>9 DEF WriteProfile
  <2> QED BY <1>1, <1>9, <2>1 DEF WriteProfile, DaemonKeeps, bounds, user
<1>10. ASSUME NEW n \in Names, Sweep(n) PROVE Rest
  <2>1. profile' \in [Names -> {Absent, Foreign} \cup Models]
    BY <1>10 DEF Sweep
  <2> QED BY <1>1, <1>10, <2>1 DEF Sweep, DaemonKeeps, bounds, user, daemon, sync
<1>11. CASE Fails
  <2>1. stops' \in 0 .. MaxStops
    BY <1>2, <1>11 DEF Fails
  <2> QED BY <1>1, <1>11, <2>1 DEF Fails, user
<1>12. CASE Quit
  <2>1. stops' \in 0 .. MaxStops
    BY <1>2, <1>12 DEF Quit
  <2> QED BY <1>1, <1>12, <2>1 DEF Quit, user, disk
<1>13. CASE Die
  <2>1. stops' \in 0 .. MaxStops
    BY <1>2, <1>13 DEF Die
  <2> QED BY <1>1, <1>13, <2>1 DEF Die, user, disk
<1>14. CASE Regrant
  <2>1. grants' \in 0 .. MaxGrants
    BY <1>2, <1>14 DEF Regrant
  <2> QED BY <1>1, <1>14, <2>1 DEF Regrant, user, disk, daemon, sync
<1>15. ASSUME NEW doc, NEW own, Saves(doc, own), doubled' \in BOOLEAN PROVE Rest
  <2>1. edits' \in 0 .. MaxEdits
    BY <1>2, <1>15 DEF Saves
  <2>2. raced' \in BOOLEAN
    BY <1>15 DEF Saves
  <2> QED BY <1>1, <1>15, <2>1, <2>2 DEF Saves, daemon, sync
<1>16. CASE EditDsh
  <2>1. \E doc, own : Saves(doc, own)
    BY <1>16 DEF EditDsh
  <2> QED BY <1>15, <1>16, <2>1 DEF EditDsh
<1>17. CASE EditBesideBlock
  <2>1. \E doc, own : Saves(doc, own)
    BY <1>17 DEF EditBesideBlock
  <2> QED BY <1>15, <1>17, <2>1 DEF EditBesideBlock
<1>18. CASE EditCodex
  <2>1. \E doc, own : Saves(doc, own)
    BY <1>18 DEF EditCodex
  <2> QED BY <1>15, <1>18, <2>1 DEF EditCodex
<1>19. CASE EditProfile
  <2>1. edits' \in 0 .. MaxEdits
    BY <1>2, <1>19 DEF EditProfile
  <2>2. profile' \in [Names -> {Absent, Foreign} \cup Models]
    BY <1>19 DEF EditProfile
  <2> QED BY <1>1, <1>19, <2>1, <2>2 DEF EditProfile, daemon, sync, user
<1>20. CASE UNCHANGED vars
  BY <1>1, <1>20 DEF vars, disk, daemon, sync, bounds, user
<1> QED BY <1>3, <1>4, <1>5, <1>6, <1>7, <1>8, <1>9, <1>10, <1>11, <1>12, <1>13, <1>14,
           <1>16, <1>17, <1>18, <1>19, <1>20 DEF Next, Sync

\* A step that leaves the file alone.
LEMMA QuietStep ==
    ASSUME IInv, [Next]_vars, UNCHANGED <<harness, file, mine, raced, doubled>>,
           Sound(next)', Flow', ~ raced => NotRaced'
    PROVE  IInv'
<1>1. Sound(file)' /\ Removed(file)' = Removed(file) /\ (Single(file) => Single(file)')
  BY FileNext DEF IInv
<1>2. (file' \in Document) /\ (next' \in Document) /\ (mine' \in Document)
  BY DEF IInv, TypeOK, Sound, Typed
<1>3. TypeOK'
  BY <1>2, TypesNext DEF IInv
<1>4. Keeps => Keeps'
  BY <1>1 DEF Keeps, Restored, IsDsh
<1> QED BY <1>1, <1>3, <1>4 DEF IInv

\* ... and the document to write too.
LEMMA NextStays ==
    ASSUME IInv, harness' = harness, next' = next
    PROVE  Sound(next)'
BY NextNext DEF IInv

LEMMA NothingNext ==
    ASSUME harness' = harness, next' = <<>>
    PROVE  Sound(next)'
BY NextNext, SoundNothing

\* What the steps of a sync know of the file stays while nothing of it changes.
LEMMA StaysNotRaced ==
    ASSUME NotRaced, UNCHANGED <<harness, file, next, pc, job>>, mem' \in {0, mem}
    PROVE  NotRaced'
BY DEF NotRaced, Removed, Applied, IsDsh, HasBlock, Lines

\* An idle daemon knows nothing but that a key it serves is configured.
LEMMA IdleNotRaced ==
    ASSUME NotRaced, UNCHANGED file, pc' \in {"idle", "read"}, mem' \in {0, mem}
    PROVE  NotRaced'
BY DEF NotRaced, HasBlock, Lines

LEMMA DaemonSteps ==
    ASSUME IInv, Start \/ Ask \/ Quit \/ Die \/ Fails \/ Done
    PROVE  IInv'
<1>1. UNCHANGED <<harness, file, mine, raced, doubled>>
  BY DEF Start, Ask, Quit, Die, Fails, Done, DaemonKeeps, user, disk
<1>2. [Next]_vars
  BY DEF Next, Sync
<1>3. Sound(next)'
  <2>1. next' = next \/ next' = <<>>
    BY DEF Start, Ask, Quit, Die, Fails, Done, sync
  <2> QED BY <1>1, <2>1, NextStays, NothingNext
<1>4. Flow'
  <2> USE DEF IInv, Flow
  <2>1. CASE Start
    BY <2>1 DEF Start, sync, disk
  <2>2. CASE Ask
    BY <2>2 DEF Ask
  <2>3. CASE Quit
    BY <2>3 DEF Quit
  <2>4. CASE Die
    BY <2>4 DEF Die
  <2>5. CASE Fails
    BY <2>5 DEF Fails
  <2>6. CASE Done
    BY <2>6 DEF Done
  <2> QED BY <2>1, <2>2, <2>3, <2>4, <2>5, <2>6
<1>5. ASSUME NotRaced PROVE NotRaced'
  <2>1. CASE Start
    BY <1>1, <1>5, <2>1, StaysNotRaced DEF Start, sync
  <2>2. CASE Ask \/ Quit \/ Die \/ Fails
    <3>1. pc' \in {"idle", "read"} /\ mem' \in {0, mem}
      BY <2>2 DEF Ask, Quit, Die, Fails
    <3> QED BY <1>1, <1>5, <3>1, IdleNotRaced
  <2>3. CASE Done
    <3>1. /\ pc = "profiles" /\ pc' = "idle" /\ mem' = IF job = None THEN 0 ELSE job.key
      BY <2>3 DEF Done
    <3>2. mem' # 0 => HasBlock(file)
      BY <1>5, <3>1 DEF NotRaced
    <3> QED BY <1>1, <3>1, <3>2 DEF NotRaced, HasBlock, Lines
  <2> QED BY <2>1, <2>2, <2>3
<1> QED BY <1>1, <1>2, <1>3, <1>4, <1>5, QuietStep DEF IInv

LEMMA ReadStep ==
    ASSUME IInv, Read
    PROVE  IInv'
<1>1. UNCHANGED <<harness, file, tmp, mine, raced, doubled, up, mem>> /\ pc = "read" /\ [Next]_vars
  BY DEF Read, DaemonKeeps, user, disk, Next, Sync
<1>2. CASE pc' = "idle" /\ job' = None /\ next' = next
  <2>1. Sound(next)'
    BY <1>1, <1>2, NextStays
  <2>2. Flow'
    BY <1>1, <1>2 DEF IInv, Flow
  <2>3. NotRaced => NotRaced'
    BY <1>1, <1>2, IdleNotRaced
  <2> QED BY <1>1, <2>1, <2>2, <2>3, QuietStep DEF IInv
<1>3. CASE /\ pc' = "write" /\ job' = job
           /\ next' = IF job = None THEN Removed(file) ELSE Applied(file, job.key)
  <2>1. Sound(IF job = None THEN Removed(file) ELSE Applied(file, job.key))
    <3>1. job # None => job.key \in Nat /\ job.key # 0
      BY KeysAreNumbers DEF IInv
    <3> QED BY <3>1, RemovedSound, AppliedSound DEF IInv
  <2>2. Sound(next)'
    BY <1>1, <1>3, <2>1, NextNext
  <2>3. Flow'
    BY <1>1, <1>3 DEF IInv, Flow
  <2>4. NotRaced => NotRaced'
    BY <1>1, <1>3 DEF NotRaced, HasBlock, Lines, Removed, Applied, IsDsh
  <2> QED BY <1>1, <2>2, <2>3, <2>4, QuietStep DEF IInv
<1> QED BY <1>2, <1>3 DEF Read

LEMMA WriteStep ==
    ASSUME IInv, Write
    PROVE  IInv'
<1>1. /\ UNCHANGED <<harness, file, mine, raced, doubled, up, mem, next, job>> /\ pc = "write"
      /\ [Next]_vars
      /\ IF next = file THEN pc' = "profiles" /\ tmp' = tmp ELSE pc' = "rename" /\ tmp' = next
  BY DEF Write, DaemonKeeps, user, Next, Sync
<1>2. Sound(next)'
  BY <1>1, NextStays
<1>3. Flow'
  BY <1>1 DEF IInv, Flow
<1>4. ASSUME NotRaced PROVE NotRaced'
  <2>1. ASSUME job # None, next = file PROVE HasBlock(file)
    <3>1. job.key \in Nat /\ job.key # 0 /\ Sound(file)
      BY <2>1, KeysAreNumbers DEF IInv
    <3>2. file = Applied(file, job.key)
      BY <1>1, <1>4, <2>1 DEF NotRaced
    <3> QED BY <3>1, <3>2, AppliedSound
  <2> QED BY <1>1, <1>4, <2>1 DEF NotRaced, HasBlock, Lines, Removed, Applied, IsDsh
<1> QED BY <1>1, <1>2, <1>3, <1>4, QuietStep DEF IInv

LEMMA RenameStep ==
    ASSUME IInv, Rename
    PROVE  IInv'
<1>1. /\ UNCHANGED <<harness, mine, raced, doubled, up, mem, next, job>> /\ pc = "rename"
      /\ [Next]_vars /\ pc' = "profiles" /\ file' = next /\ tmp' = None
  BY DEF Rename, DaemonKeeps, user, Next, Sync, IInv, Flow
<1>2. /\ Sound(next)' /\ Sound(file)' /\ (Single(next) => Single(file)')
      /\ Removed(file)' = Removed(next) /\ (HasBlock(file)' <=> HasBlock(next))
  BY <1>1, NextStays, FileNext DEF IInv
<1>3. Flow'
  BY <1>1 DEF IInv, Flow
<1>4. TypeOK'
  <2>1. (file' \in Document) /\ (next' \in Document) /\ (mine' \in Document)
    BY <1>1 DEF IInv, TypeOK
  <2> QED BY <1>1, <2>1, TypesNext DEF IInv
<1>5. job # None => job.key \in Nat /\ job.key # 0
  BY KeysAreNumbers DEF IInv
<1>6. ASSUME NotRaced PROVE NotRaced'
  <2>1. job # None => HasBlock(next)
    BY <1>1, <1>5, <1>6, AppliedSound DEF NotRaced, IInv
  <2>2. mem # 0 => job # None
    BY <1>1 DEF IInv, Flow
  <2> QED BY <1>1, <1>2, <2>1, <2>2 DEF NotRaced, HasBlock
<1>7. ASSUME NotRaced, Keeps PROVE Keeps'
  <2>1. CASE job = None
    <3>1. next = Removed(file)
      BY <1>1, <1>7, <2>1 DEF NotRaced
    <3>2. Single(next) /\ Removed(next) = Removed(file)
      BY <1>7, <3>1, RemovedSingle, RemovedSound DEF Keeps, IInv
    <3> QED BY <1>1, <1>2, <1>7, <3>2 DEF Keeps, Restored, IsDsh
  <2>2. CASE job # None
    <3>1. next = Applied(file, job.key)
      BY <1>1, <1>7, <2>2 DEF NotRaced
    <3>2. /\ Single(next)
          /\ Removed(next) = IF IsDsh /\ file = <<>> THEN <<Line("version")>> ELSE Removed(file)
      BY <1>5, <1>7, <2>2, <3>1, AppliedSound, AppliedRemoved DEF Keeps, IInv
    <3>3. CASE IsDsh /\ file = <<>>
      <4>1. Removed(file) = <<>>
        BY <3>3, SoundNothing
      <4>2. <<>> # <<Line("version")>>
        OBVIOUS
      <4>3. mine = <<>>
        BY <1>7, <4>1, <4>2 DEF Keeps, Restored
      <4> QED BY <1>1, <1>2, <3>2, <3>3, <4>3 DEF Keeps, Restored, IsDsh
    <3>4. CASE ~ (IsDsh /\ file = <<>>)
      BY <1>1, <1>2, <1>7, <3>2, <3>4 DEF Keeps, Restored, IsDsh
    <3> QED BY <3>3, <3>4
  <2> QED BY <2>1, <2>2
<1> QED BY <1>1, <1>2, <1>3, <1>4, <1>6, <1>7 DEF IInv

LEMMA OtherSteps ==
    ASSUME IInv,
           \/ \E m \in Models : WriteProfile(m)
           \/ \E n \in Names : Sweep(n)
           \/ Regrant \/ EditProfile \/ UNCHANGED vars
    PROVE  IInv'
<1>1. /\ UNCHANGED <<harness, file, mine, raced, doubled, up, mem, next, job, pc, tmp>>
      /\ [Next]_vars
  <2>1. ASSUME NEW m \in Models, WriteProfile(m)
        PROVE  UNCHANGED <<harness, file, mine, raced, doubled, up, mem, next, job, pc, tmp>>
    BY <2>1 DEF WriteProfile, DaemonKeeps, user
  <2>2. ASSUME NEW n \in Names, Sweep(n)
        PROVE  UNCHANGED <<harness, file, mine, raced, doubled, up, mem, next, job, pc, tmp>>
    BY <2>2 DEF Sweep, DaemonKeeps, user, daemon, sync
  <2>3. CASE Regrant
    BY <2>3 DEF Regrant, user, disk, daemon, sync, Next
  <2>4. CASE EditProfile
    BY <2>4 DEF EditProfile, user, daemon, sync, Next
  <2>5. CASE UNCHANGED vars
    BY <2>5 DEF vars, user, disk, daemon, sync
  <2>6. [Next]_vars
    BY DEF Next, Sync
  <2> QED BY <2>1, <2>2, <2>3, <2>4, <2>5, <2>6
<1>2. Sound(next)'
  BY <1>1, NextStays
<1>3. Flow'
  BY <1>1 DEF IInv, Flow
<1>4. NotRaced => NotRaced'
  BY <1>1, StaysNotRaced
<1> QED BY <1>1, <1>2, <1>3, <1>4, QuietStep DEF IInv

\* The user saves a file that is sound and keeps the block there was; and, as long as no
\* one was raced and no key doubled, what Remove leaves of it is what the user means.
LEMMA SavesStep ==
    ASSUME IInv, [Next]_vars, harness' = harness,
           NEW doc, NEW own \in Document, Saves(doc, own),
           Sound(doc), HasBlock(file) => HasBlock(doc),
           ~ raced /\ ~ doubled' => ~ doubled /\ (Keeps => Single(doc) /\ Removed(doc) = own)
    PROVE  IInv'
<1>1. /\ UNCHANGED <<up, mem, next, job, pc, tmp>> /\ file' = doc /\ mine' = own
      /\ raced' = (raced \/ pc \in {"write", "rename"})
  BY DEF Saves, daemon, sync
<1>2. /\ Sound(file)' /\ (Single(doc) => Single(file)') /\ Removed(file)' = Removed(doc)
      /\ (HasBlock(file)' <=> HasBlock(doc))
  BY <1>1, FileNext
<1>3. Sound(next)'
  BY <1>1, NextStays
<1>4. TypeOK'
  <2>1. (file' \in Document) /\ (next' \in Document) /\ (mine' \in Document)
    BY <1>1 DEF IInv, TypeOK, Sound, Typed
  <2> QED BY <2>1, TypesNext DEF IInv
<1>5. Flow'
  BY <1>1 DEF IInv, Flow
<1>6. ASSUME ~ raced' PROVE ~ raced /\ NotRaced'
  <2>1. ~ raced /\ NotRaced /\ pc \notin {"write", "rename"}
    BY <1>1, <1>6 DEF IInv
  <2> QED BY <1>1, <1>2, <2>1 DEF NotRaced, HasBlock
<1>7. ASSUME ~ raced', ~ doubled' PROVE Keeps'
  BY <1>1, <1>2, <1>6, <1>7 DEF IInv, Keeps, Restored
<1> QED BY <1>2, <1>3, <1>4, <1>5, <1>6, <1>7 DEF IInv

\* What the user means, while no one was raced.
LEMMA MeantIs ==
    ASSUME TypeOK, Sound(file)
    PROVE  Meant \in Document /\ (Restored => Meant = Removed(file))
BY BlockOrPlain DEF TypeOK, Meant, Restored

LEMMA EditDshStep ==
    ASSUME IInv, EditDsh
    PROVE  IInv'
<1>1. /\ IsDsh /\ doubled' = doubled /\ [Next]_vars /\ Sound(file) /\ TypeOK /\ mine \in Document
      /\ Meant \in Document /\ (Restored => Meant = Removed(file))
      /\ (~ raced /\ ~ doubled => Keeps)
  BY MeantIs, KeysAreNumbers DEF EditDsh, Next, IInv
<1>2. \A doc, own : Saves(doc, own) => harness' = harness
  BY DEF Saves
<1>3. ASSUME Saves(Append(file, Line("other")), Append(Meant, Line("other"))) PROVE IInv'
  <2>1. Line("other") \in Text /\ Line("other").kind = "other"
    BY DEF Line, Text, Kinds
  <2>2. Survives(file, Append(file, Line("other")), Append(Removed(file), Line("other")))
    BY <1>1, <2>1, AppendSurvives
  <2>3. Append(Meant, Line("other")) \in Document
    BY <1>1, <2>1, EditedDocument
  <2> QED BY <1>1, <1>2, <1>3, <2>2, <2>3, SavesStep DEF Survives, Keeps
<1>4. ASSUME Lines(file, "refs") # {}, Lines(mine, "refs") # {},
             Saves(InsertAfter(file, "refs", Line("entry")), InsertAfter(mine, "refs", Line("entry")))
      PROVE  IInv'
  <2> DEFINE doc == InsertAfter(file, "refs", Line("entry"))
             own == InsertAfter(mine, "refs", Line("entry"))
  <2>1. Line("entry") \in Text /\ Line("entry").kind = "entry"
    BY DEF Line, Text, Kinds
  <2>2. own \in Document
    BY <1>1, <1>4, <2>1, EditedDocument
  <2>3. PICK h : h \in Lines(file, "refs") 
    BY <1>4
  <2>4. MayWrite(file, h, Line("entry")) /\ doc = Inserted(file, h, Line("entry"))
    BY <1>1, <2>1, <2>3, HeaderLine
  <2>5. Sound(doc) /\ (HasBlock(file) => HasBlock(doc))
    BY <1>1, <2>1, <2>4, WrittenSound, WrittenSingle
  <2>6. ASSUME Keeps PROVE Single(doc) /\ Removed(doc) = own
    <3>1. Removed(file) = mine
      <4>1. Lines(<<>>, "refs") = {}
        BY DEF Lines
      <4> QED BY <1>4, <2>6, <4>1 DEF Keeps, Restored
    <3>2. Survives(file, doc, own)
      BY <1>1, <1>4, <2>1, <3>1, EntrySurvives
    <3> QED BY <2>6, <3>2 DEF Survives, Keeps
  <2> HIDE DEF doc, own
  <2>7. Saves(doc, own)
    BY <1>4 DEF doc, own
  <2> QED BY <1>1, <1>2, <2>2, <2>5, <2>6, <2>7, SavesStep
<1>5. ASSUME file # <<>>, Lines(file, "version") = {},
             Saves(<<Line("version")>> \o file, <<Line("version")>> \o mine)
      PROVE  IInv'
  <2> DEFINE doc == <<Line("version")>> \o file
             own == <<Line("version")>> \o mine
  <2>1. Line("version") \in Text /\ Line("version").kind = "version"
    BY DEF Line, Text, Kinds
  <2>2. Survives(file, doc, <<Line("version")>> \o Removed(file))
    BY <1>1, <2>1, PrependSurvives
  <2>3. own \in Document
    BY <1>1, <2>1, EditedDocument
  <2>4. ASSUME Keeps PROVE Removed(file) = mine
    <3>1. Removed(file) # <<Line("version")>>
      <4>1. 1 \in Lines(<<Line("version")>>, "version")
        BY <2>1 DEF Lines
      <4> QED BY <1>1, <1>5, <4>1, RemovedVersion
    <3> QED BY <2>4, <3>1 DEF Keeps, Restored
  <2> HIDE DEF doc
  <2>5. Saves(doc, own)
    BY <1>5 DEF doc
  <2> QED BY <1>1, <1>2, <2>2, <2>3, <2>4, <2>5, SavesStep DEF Survives, Keeps
\* Without a block the file is what the user means.
<1>6. ASSUME Lines(file, "begin") = {} PROVE Plain(file) /\ Removed(file) = file /\ ~ HasBlock(file)
  <2>1. \A b : ~ BlockAt(file, b)
    BY <1>6 DEF BlockAt, Lines
  <2> QED BY <1>1, <1>6, <2>1, BlockOrPlain DEF HasBlock
<1>7. ASSUME Lines(file, "begin") = {}, NEW k \in UserKeys, Saves(SetKey(file, k), SetKey(Meant, k))
      PROVE  IInv'
  <2>1. k \in Nat /\ k # 0 /\ Line("refs") \in Text
    BY <1>1, KeysAreNumbers DEF Line, Text, Kinds
  <2>2. SetKey(Meant, k) \in Document
    BY <1>1, <2>1, EditedDocument
  <2>3. /\ Sound(SetKey(file, k)) /\ Plain(SetKey(file, k))
        /\ (Single(file) => Single(SetKey(file, k)))
    BY <1>1, <1>6, <1>7, <2>1, SetKeySound
  <2>4. Removed(SetKey(file, k)) = SetKey(file, k)
    BY <2>3, BlockOrPlain
  <2>5. ASSUME Keeps PROVE Meant = file
    BY <1>1, <1>6, <1>7, <2>5 DEF Keeps
  <2> QED BY <1>1, <1>2, <1>6, <1>7, <2>2, <2>3, <2>4, <2>5, SavesStep DEF Keeps
<1>8. ASSUME Lines(file, "begin") = {}, Lines(file, "ref") # {}, Saves(DropKey(file), DropKey(mine))
      PROVE  IInv'
  <2>1. Line("refs") \in Text /\ 0 \in Nat
    BY DEF Line, Text, Kinds
  <2>2. DropKey(mine) \in Document
    BY <1>1, <2>1, EditedDocument
  <2>3. Sound(DropKey(file)) /\ Plain(DropKey(file)) /\ Single(DropKey(file))
    BY <1>1, <1>6, <1>8, DropKeySound
  <2>4. Removed(DropKey(file)) = DropKey(file)
    BY <2>3, BlockOrPlain
  <2>5. ASSUME Keeps PROVE mine = file
    <3>1. file # <<Line("version")>>
      <4>1. Lines(<<Line("version")>>, "ref") = {}
        BY DEF Lines, Line
      <4> QED BY <1>8, <4>1
    <3> QED BY <1>6, <1>8, <2>5, <3>1 DEF Keeps, Restored
  <2> QED BY <1>1, <1>2, <1>6, <1>8, <2>2, <2>3, <2>4, <2>5, SavesStep
<1> QED BY <1>3, <1>4, <1>5, <1>7, <1>8 DEF EditDsh

LEMMA EditBesideBlockStep ==
    ASSUME IInv, EditBesideBlock
    PROVE  IInv'
<1>1. PICK k \in UserKeys, at \in {"refs", "end"} :
         Saves(InsertAfter(file, at, Ref(k)), SetKey(Meant, k))
  BY DEF EditBesideBlock
<1>2. /\ IsDsh /\ doubled' = TRUE /\ HasBlock(file) /\ [Next]_vars /\ Sound(file) /\ harness' = harness
      /\ Meant \in Document
  BY <1>1, MeantIs DEF EditBesideBlock, Next, HasBlock, IInv, Saves
<1>3. k \in Nat /\ k # 0 /\ Line("refs") \in Text
  BY KeysAreNumbers DEF Line, Text, Kinds, IInv
<1>4. /\ Sound(InsertAfter(file, at, Ref(k))) /\ HasBlock(InsertAfter(file, at, Ref(k)))
      /\ SetKey(Meant, k) \in Document
  BY <1>2, <1>3, BesideSound, EditedDocument
<1> QED BY <1>1, <1>2, <1>4, SavesStep

LEMMA EditCodexStep ==
    ASSUME IInv, EditCodex
    PROVE  IInv'
<1> DEFINE line == Own(edits + 1)
<1>1. /\ ~ IsDsh /\ doubled' = doubled /\ [Next]_vars /\ Sound(file) /\ mine \in Document
      /\ (Restored => mine = Removed(file)) /\ edits \in Nat
      /\ (~ raced /\ ~ doubled => Keeps)
  BY KeysAreNumbers DEF EditCodex, Next, IInv, Restored
<1>2. \A doc, own : Saves(doc, own) => harness' = harness
  BY DEF Saves
<1>3. /\ line \in Text /\ line.kind = "own"
      /\ Provider(0) \in Text /\ Provider(0).kind = "provider" /\ 0 \in Nat
  BY <1>1 DEF Own, Provider, Text, Kinds
<1> HIDE DEF line
<1>4. ASSUME NEW doc, NEW own, NEW left, Saves(doc, own), Survives(file, doc, left),
             own \in Document, mine = Removed(file) => own = left
      PROVE  IInv'
  BY <1>1, <1>2, <1>4, SavesStep DEF Survives, Keeps
<1>5. ASSUME NEW x \in {line, Provider(0)}, Saves(Append(file, x), Append(mine, x)) PROVE IInv'
  <2>1. Survives(file, Append(file, x), Append(Removed(file), x)) /\ Append(mine, x) \in Document
    BY <1>1, <1>3, AppendSurvives, EditedDocument
  <2> QED BY <1>4, <1>5, <2>1
<1>6. ASSUME Saves(<<line>> \o file, <<line>> \o mine) PROVE IInv'
  <2>1. Survives(file, <<line>> \o file, <<line>> \o Removed(file)) /\ <<line>> \o mine \in Document
    BY <1>1, <1>3, PrependSurvives, EditedDocument
  <2> QED BY <1>4, <1>6, <2>1
<1>7. ASSUME Saves(Others(file), Others(mine)) PROVE IInv'
  <2>1. Survives(file, Others(file), Others(Removed(file))) /\ Others(mine) \in Document
    BY <1>1, <1>3, OthersSurvive, EditedDocument
  <2> QED BY <1>4, <1>7, <2>1
<1> QED BY <1>5, <1>6, <1>7 DEF EditCodex, Others, line

LEMMA StepInv == IInv /\ [Next]_vars => IInv'
BY DaemonSteps, ReadStep, WriteStep, RenameStep, OtherSteps,
   EditDshStep, EditBesideBlockStep, EditCodexStep DEF Next, Sync

\* Whatever was granted, edited and interrupted, at any point of a sync: what Remove
\* leaves is the document of the user (but for the version line of a file that foxy
\* created, and unless the user and the daemon wrote at the same time or the user put a
\* key next to the block); the file has one whole block or none; and a key is served
\* only with one (ApplyBlock, RemoveBlock, Teardown: "restores the codex home to its
\* pre-foxy state").
THEOREM ConfigIsSound == Spec => []ConfigInv
<1>1. IInv => ConfigInv
  <2> SUFFICES ASSUME IInv PROVE ConfigInv
    OBVIOUS
  <2>1. TypeOK /\ OneBlock
    BY SoundOneBlock DEF IInv
  <2>2. RemoveRestores
    BY DEF IInv, RemoveRestores, Keeps, Restored
  <2>3. ServedIsConfigured
    BY DEF IInv, NotRaced, ServedIsConfigured, HasBlock
  <2> QED BY <2>1, <2>2, <2>3 DEF ConfigInv
<1> QED BY <1>1, InitInv, StepInv, PTL DEF Spec

-----------------------------------------------------------------------------
(* Profile files. *)

\* ProfileName: the first of the models with a stem has it, the others a name made
\* from their id, so that no two models of a grant have the same file.
LEMMA NamesDiffer ==
    ASSUME NEW models \in SUBSET Models, NEW m \in models, NEW n \in models, m # n
    PROVE  ProfileName(Stem, models, m) # ProfileName(Stem, models, n)
<1> DEFINE Later(x) == \E l \in models : l < x /\ Stem[l] = Stem[x]
<1>1. m \in Nat \ {0} /\ n \in Nat \ {0} /\ Stem[m] \in Nat \ {0} /\ Stem[n] \in Nat \ {0}
  BY AgentAssumption
<1>2. /\ ProfileName(Stem, models, m) = IF Later(m) THEN <<0, m>> ELSE <<Stem[m], 0>>
      /\ ProfileName(Stem, models, n) = IF Later(n) THEN <<0, n>> ELSE <<Stem[n], 0>>
  BY DEF ProfileName
<1>3. Stem[m] = Stem[n] => Later(m) \/ Later(n)
  <2>1. m < n \/ n < m
    BY <1>1
  <2> QED BY <2>1
<1> HIDE DEF Later
<1> QED BY <1>1, <1>2, <1>3

\* What names the profiles have, and that edits are counted.
Counted == edits \in Nat /\ profile = [n \in Names |-> profile[n]]

LEMMA CountedStep == Counted /\ [Next]_vars => Counted'
<1> SUFFICES ASSUME Counted, [Next]_vars PROVE Counted'
  OBVIOUS
<1> USE DEF Counted
<1>1. ASSUME UNCHANGED <<edits, profile>> PROVE Counted'
  BY <1>1
<1>2. CASE Start \/ Fails \/ Quit \/ Die \/ Regrant
  BY <1>1, <1>2 DEF Start, Fails, Quit, Die, Regrant, DaemonKeeps, bounds, disk
<1>3. CASE Ask \/ Read \/ Write \/ Rename \/ Done
  BY <1>1, <1>3 DEF Ask, Read, Write, Rename, Done, DaemonKeeps, bounds, disk
<1>4. ASSUME NEW m \in Models, WriteProfile(m) PROVE Counted'
  BY <1>4 DEF WriteProfile, DaemonKeeps, bounds
<1>5. ASSUME NEW n \in Names, Sweep(n) PROVE Counted'
  BY <1>5 DEF Sweep, DaemonKeeps, bounds
<1>6. CASE EditDsh \/ EditBesideBlock \/ EditCodex
  <2>1. edits' = edits + 1 /\ profile' = profile
    BY <1>6 DEF EditDsh, EditBesideBlock, EditCodex, Saves
  <2> QED BY <2>1
<1>7. CASE EditProfile
  BY <1>7 DEF EditProfile
<1>8. CASE UNCHANGED vars
  BY <1>1, <1>8 DEF vars, disk, bounds
<1> QED BY <1>2, <1>3, <1>4, <1>5, <1>6, <1>7, <1>8 DEF Next, Sync

\* A profile file of the user's goes only by the user's hand, whatever the grant, the
\* names of its models and the point at which a sync fails (writeProfiles,
\* sweepStaleProfiles: "never overwrite what we don't own").
THEOREM ProfilesAreTheUsers == Spec => UserProfilesKept
<1> DEFINE Theirs == \A n \in Names : profile[n] = Foreign =>
                        profile'[n] = Foreign \/ edits' # edits
<1>1. Init => Counted
  BY DEF Init, Counted
<1>2. Counted /\ [Next]_vars => [Theirs]_vars
  <2> SUFFICES ASSUME Counted, Next, NEW n \in Names, profile[n] = Foreign,
                      edits' = edits, profile' # profile
               PROVE  profile'[n] = Foreign
    OBVIOUS
  <2>1. ~ (EditDsh \/ EditBesideBlock \/ EditCodex \/ EditProfile)
    <3>1. ASSUME edits' = edits + 1 PROVE FALSE
      BY <3>1 DEF Counted
    <3>2. ~ EditDsh
      BY <3>1 DEF EditDsh, Saves
    <3>3. ~ EditBesideBlock
      BY <3>1 DEF EditBesideBlock, Saves
    <3>4. ~ EditCodex
      BY <3>1 DEF EditCodex, Saves
    <3>5. ~ EditProfile
      BY <3>1 DEF EditProfile
    <3> QED BY <3>2, <3>3, <3>4, <3>5
  <2>2. ~ (Start \/ Fails \/ Quit \/ Die \/ Regrant \/ Ask \/ Read \/ Write \/ Rename \/ Done)
    BY DEF Start, Fails, Quit, Die, Regrant, Ask, Read, Write, Rename, Done, disk
  <2>3. (\E m \in Models : WriteProfile(m)) \/ (\E l \in Names : Sweep(l))
    BY <2>1, <2>2 DEF Next, Sync
  <2>4. ASSUME NEW m \in Models, WriteProfile(m) PROVE profile'[n] = Foreign
    <3>1. profile[Name(m)] # Foreign /\ profile' = [profile EXCEPT ![Name(m)] = m]
      BY <2>4 DEF WriteProfile
    <3> HIDE DEF Name
    <3> QED BY <3>1 DEF Counted
  <2>5. ASSUME NEW l \in Names, Sweep(l) PROVE profile'[n] = Foreign
    <3>1. profile[l] > 0 /\ profile' = [profile EXCEPT ![l] = Absent]
      BY <2>5 DEF Sweep, Stale, FoxyOwns
    <3>2. l # n
      BY <3>1 DEF Foreign
    <3> QED BY <3>1, <3>2 DEF Counted
  <2> QED BY <2>3, <2>4, <2>5
<1> HIDE DEF Theirs
<1>3. Spec => [][Theirs]_vars
  BY <1>1, <1>2, CountedStep, PTL DEF Spec
<1> QED BY <1>3 DEF UserProfilesKept, Theirs
=============================================================================
