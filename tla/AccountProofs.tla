---------------------------- MODULE AccountProofs ----------------------------
(***************************************************************************)
(* One account of the pool.  For any number of devices, samples, leases    *)
(* and windows, and any TTL and retention: all shares and the rest make up *)
(* what the samples saw of the account's use; where samples fall on the    *)
(* hand-overs each device is billed what it used itself; and an answer is  *)
(* the one of the time it was asked at.  For any number of devices,        *)
(* logins, requests and faults: the daemon's own refreshes never kill the  *)
(* token of the account, and an account the user paused stays paused while *)
(* its organization stays open.                                            *)
(***************************************************************************)
EXTENDS MCAccount, FiniteSetTheorems, FunctionTheorems, WellFoundedInduction, TLAPS

-----------------------------------------------------------------------------
(* Numbers and finite sets. *)

\* A set of numbers has a least one.
LEMMA LeastNumber ==
    ASSUME NEW S \in SUBSET Nat, S # {}
    PROVE  \E m \in S : \A n \in S : m <= n
<1>1. PICK m \in S : \A n \in S : ~ (<<n, m>> \in OpToRel(<, Nat))
  BY NatLessThanWellFounded, WFMin
<1>2. \A n \in S : ~ (n < m)
  BY <1>1 DEF OpToRel
<1> QED BY <1>2

\* Induction over the parts of a finite set: of those in B one has no smaller in B.
LEMMA SmallestPart ==
    ASSUME NEW S, IsFiniteSet(S), NEW B \in SUBSET (SUBSET S), B # {}
    PROVE  \E T \in B : \A U \in B : U \subseteq T => U = T
<1> DEFINE N == {Cardinality(T) : T \in B}
<1>1. \A T \in B : IsFiniteSet(T) /\ Cardinality(T) \in Nat
  BY FS_Subset, FS_CardinalityType
<1>2. N \in SUBSET Nat /\ N # {}
  BY <1>1
<1>3. PICK n \in N : \A m \in N : n <= m
  BY <1>2, LeastNumber
<1>4. PICK T \in B : Cardinality(T) = n
  BY <1>3
<1>5. \A U \in B : U \subseteq T => U = T
  <2> SUFFICES ASSUME NEW U \in B, U \subseteq T, U # T PROVE FALSE
    OBVIOUS
  <2>1. Cardinality(U) < Cardinality(T)
    BY <1>1, FS_Subset
  <2>2. Cardinality(U) \in N
    OBVIOUS
  <2> QED BY <1>1, <1>3, <1>4, <2>1, <2>2
<1> QED BY <1>5

\* What a function makes of a finite set is finite.
LEMMA FiniteImage ==
    ASSUME NEW S, IsFiniteSet(S), NEW f
    PROVE  IsFiniteSet({f[x] : x \in S})
<1> DEFINE T == {f[x] : x \in S}
           g == [x \in S |-> f[x]]
<1>1. g \in [S -> T] /\ \A t \in T : \E x \in S : g[x] = t
  OBVIOUS
<1> HIDE DEF g, T
<1>2. g \in Surjection(S, T)
  BY <1>1, Fun_IsSurj
<1>3. IsFiniteSet(T)
  BY <1>2, FS_Surjection
<1> QED BY <1>3 DEF T

-----------------------------------------------------------------------------
(* Sums of a function's values: the library takes the arguments out one by *)
(* one, in an order of its own.                                            *)

Some(S) == CHOOSE x \in S : TRUE

\* g gives the sum of f over every part of S.
Sums(g, f, S) ==
    g = [s \in SUBSET S |-> IF s = {} THEN 0 ELSE f[Some(s)] + g[s \ {Some(s)}]]

\* What is taken out first is there.
LEMMA SomeIn ==
    ASSUME NEW S, S # {}
    PROVE  Some(S) \in S
BY DEF Some

\* What the equation says.
LEMMA SumsAre ==
    ASSUME NEW g, NEW f, NEW S, Sums(g, f, S)
    PROVE  /\ g[{}] = 0
           /\ \A s \in SUBSET S : s # {} => g[s] = f[Some(s)] + g[s \ {Some(s)}]
<1>1. g = [s \in SUBSET S |-> IF s = {} THEN 0 ELSE f[Some(s)] + g[s \ {Some(s)}]]
  BY DEF Sums
<1>2. {} \in SUBSET S
  OBVIOUS
<1>3. g[{}] = 0
  BY <1>1, <1>2
<1>4. ASSUME NEW s \in SUBSET S, s # {}
      PROVE  g[s] = f[Some(s)] + g[s \ {Some(s)}]
  BY <1>1, <1>4
<1> QED BY <1>3, <1>4

\* Two such functions agree where both are defined.
LEMMA SumsAgree ==
    ASSUME NEW f, NEW S, NEW T, NEW U, IsFiniteSet(U), U \in SUBSET S, U \in SUBSET T,
           NEW g, Sums(g, f, S), NEW h, Sums(h, f, T)
    PROVE  g[U] = h[U]
<1> DEFINE B == {V \in SUBSET U : g[V] # h[V]}
<1> SUFFICES ASSUME B # {} PROVE FALSE
  OBVIOUS
<1>1. B \in SUBSET (SUBSET U)
  OBVIOUS
<1>2. PICK V \in B : \A W \in B : W \subseteq V => W = V
  <2> HIDE DEF B
  <2> QED BY <1>1, SmallestPart
<1>3. V # {}
  BY SumsAre
<1>4. Some(V) \in V
  BY <1>3, SomeIn
<1>5. V \ {Some(V)} \notin B /\ V \in SUBSET S /\ V \in SUBSET T
  BY <1>2, <1>4
<1>6. g[V \ {Some(V)}] = h[V \ {Some(V)}]
  BY <1>5
<1>7. g[V] = f[Some(V)] + g[V \ {Some(V)}]
  <2> HIDE DEF B
  <2> QED BY <1>3, <1>5, SumsAre
<1>8. h[V] = f[Some(V)] + h[V \ {Some(V)}]
  <2> HIDE DEF B
  <2> QED BY <1>3, <1>5, SumsAre
<1> QED BY <1>6, <1>7, <1>8

\* Over T, a sum defined for S gives what one defined for T gives.
LEMMA SumsAgreeOnPart ==
    ASSUME NEW f, NEW S, NEW T, IsFiniteSet(T), T \subseteq S,
           NEW g, Sums(g, f, S), NEW h, Sums(h, f, T)
    PROVE  g[T] = h[T]
<1>1. ASSUME NEW U, U = T
      PROVE  g[U] = h[U]
  <2>1. IsFiniteSet(U) /\ U \in SUBSET S /\ U \in SUBSET T
    BY <1>1
  <2> QED BY ONLY <2>1, Sums(g, f, S), Sums(h, f, T), SumsAgree
<1> QED BY <1>1

\* There is one for every finite set.
LEMMA SumsExist ==
    ASSUME NEW f, NEW S, IsFiniteSet(S)
    PROVE  \E g : Sums(g, f, S)
<1> DEFINE B == {T \in SUBSET S : ~ \E g : Sums(g, f, T)}
<1> SUFFICES ASSUME B # {} PROVE FALSE
  OBVIOUS
<1>1. B \in SUBSET (SUBSET S)
  OBVIOUS
<1>2. PICK T \in B : \A W \in B : W \subseteq T => W = T
  <2> HIDE DEF B
  <2> QED BY <1>1, SmallestPart
<1>3. IsFiniteSet(T)
  BY FS_Subset
<1> DEFINE Of(U) == CHOOSE g : Sums(g, f, U)
<1>4. ASSUME NEW U \in SUBSET T, U # T
      PROVE  Sums(Of(U), f, U)
  <2>1. U \notin B
    BY <1>2, <1>4
  <2>2. \E g : Sums(g, f, U)
    BY <2>1
  <2> QED BY <2>2
<1> HIDE DEF Of
<1> DEFINE g == [s \in SUBSET T |->
                   IF s = {} THEN 0
                   ELSE f[Some(s)] + Of(s \ {Some(s)})[s \ {Some(s)}]]
<1>5. ASSUME NEW U \in SUBSET T, U # T
      PROVE  g[U] = Of(U)[U]
  <2>1. CASE U = {}
    <3>1. g[U] = 0
      BY <2>1
    <3> QED BY <1>4, <1>5, <2>1, <3>1, SumsAre
  <2>2. CASE U # {}
    <3> DEFINE V == U \ {Some(U)}
    <3>1. Some(U) \in U
      BY <2>2, SomeIn
    <3>2. V \in SUBSET T /\ V # T /\ V \subseteq U /\ U \in SUBSET U
      BY <3>1
    <3>3. IsFiniteSet(V)
      BY <1>3, <3>2, FS_Subset
    <3>4. Of(U)[U] = f[Some(U)] + Of(U)[V]
      BY <1>4, <1>5, <2>2, <3>2, SumsAre
    <3>5. Of(U)[V] = Of(V)[V]
      <4>1. Sums(Of(U), f, U) /\ Sums(Of(V), f, V)
        BY <1>4, <1>5, <3>2
      <4> QED
        BY <3>2, <3>3, <4>1, SumsAgree
    <3>6. g[U] = f[Some(U)] + Of(V)[V]
      BY <2>2
    <3> QED BY <3>4, <3>5, <3>6
  <2> QED BY <2>1, <2>2
<1>6. Sums(g, f, T)
  <2>1. ASSUME NEW s \in SUBSET T, s # {}
        PROVE  g[s \ {Some(s)}] = Of(s \ {Some(s)})[s \ {Some(s)}]
    <3>1. Some(s) \in s
      BY <2>1, SomeIn
    <3>2. s \ {Some(s)} \in SUBSET T /\ s \ {Some(s)} # T
      BY <3>1
    <3> HIDE DEF g
    <3> QED BY <1>5, <3>2
  <2>2. \A s \in SUBSET T : s # {} => g[s] = f[Some(s)] + g[s \ {Some(s)}]
    BY <2>1
  <2>3. {} \in SUBSET T /\ g[{}] = 0
    OBVIOUS
  <2>4. g = [s \in SUBSET T |-> g[s]]
    OBVIOUS
  <2> HIDE DEF g
  <2>5. \A s \in SUBSET T : g[s] = IF s = {} THEN 0 ELSE f[Some(s)] + g[s \ {Some(s)}]
    BY <2>2, <2>3
  <2> QED BY <2>4, <2>5 DEF Sums
<1>7. T \notin B
  BY <1>6
<1> QED BY <1>2, <1>7

\* The library's sum of f over a finite set is what such a function gives.
LEMMA SumIsOf ==
    ASSUME NEW f, NEW S, IsFiniteSet(S)
    PROVE  \E g : Sums(g, f, S) /\ SumFunctionOnSet(f, S) = g[S]
<1> DEFINE C(g) ==
             g = [s \in SUBSET S |->
                    IF s = {} THEN 0
                    ELSE f[CHOOSE x \in s : TRUE] + g[s \ {CHOOSE x \in s : TRUE}]]
<1> DEFINE it == CHOOSE g : C(g)
<1>1. PICK h : Sums(h, f, S)
  BY SumsExist
<1>2. C(h)
  BY <1>1 DEF Sums, Some
<1>3. SumFunctionOnSet(f, S) = it[S]
  BY DEF SumFunctionOnSet, FoldFunctionOnSet, MapThenFoldSet
<1> HIDE DEF C
<1>4. C(it)
  BY <1>2
<1>5. Sums(it, f, S)
  BY <1>4 DEF C, Sums, Some
<1> QED BY <1>3, <1>5

\* A sum over nothing, and with some argument taken out.
LEMMA SumStep ==
    ASSUME NEW f, NEW S, IsFiniteSet(S)
    PROVE  /\ S = {} => SumFunctionOnSet(f, S) = 0
           /\ S # {} => SumFunctionOnSet(f, S)
                          = f[Some(S)] + SumFunctionOnSet(f, S \ {Some(S)})
<1>1. PICK g : Sums(g, f, S) /\ SumFunctionOnSet(f, S) = g[S]
  BY SumIsOf
<1>2. CASE S = {}
  BY <1>1, <1>2, SumsAre
<1>3. CASE S # {}
  <2> DEFINE T == S \ {Some(S)}
  <2>1. IsFiniteSet(T)
    BY FS_Subset
  <2>2. PICK h : Sums(h, f, T) /\ SumFunctionOnSet(f, T) = h[T]
    BY <2>1, SumIsOf
  <2>3. g[T] = h[T]
    <3>1. T \subseteq S
      OBVIOUS
    <3>2. Sums(g, f, S) /\ Sums(h, f, T)
      BY <1>1, <2>2
    <3> HIDE DEF T
    <3> QED BY <2>1, <3>1, <3>2, SumsAgreeOnPart
  <2>4. S \in SUBSET S
    OBVIOUS
  <2>5. g[S] = f[Some(S)] + g[T]
    BY <1>1, <1>3, <2>4, SumsAre
  <2> QED BY <1>1, <1>3, <2>2, <2>3, <2>5
<1> QED BY <1>2, <1>3

\* A sum of integers is one.
LEMMA SumInt ==
    ASSUME NEW f, NEW S, IsFiniteSet(S), \A x \in S : f[x] \in Int
    PROVE  SumFunctionOnSet(f, S) \in Int
<1> DEFINE B == {T \in SUBSET S : SumFunctionOnSet(f, T) \notin Int}
<1> SUFFICES ASSUME B # {} PROVE FALSE
  OBVIOUS
<1>1. PICK T \in B : \A W \in B : W \subseteq T => W = T
  <2>1. B \in SUBSET (SUBSET S)
    OBVIOUS
  <2> HIDE DEF B
  <2> QED BY <2>1, SmallestPart
<1>2. T \subseteq S /\ SumFunctionOnSet(f, T) \notin Int
  OBVIOUS
<1>3. IsFiniteSet(T)
  BY <1>2, FS_Subset
<1>4. T # {}
  <2> SUFFICES ASSUME T = {} PROVE FALSE
    OBVIOUS
  <2>1. SumFunctionOnSet(f, T) = 0
    BY <1>3, SumStep
  <2> QED BY <1>2, <2>1
<1>5. Some(T) \in T
  BY <1>4, SomeIn
<1>6. SumFunctionOnSet(f, T) = f[Some(T)] + SumFunctionOnSet(f, T \ {Some(T)})
  BY <1>3, <1>4, SumStep
<1>7. SumFunctionOnSet(f, T \ {Some(T)}) \in Int
  <2>1. T \ {Some(T)} \notin B
    BY <1>1, <1>5
  <2> QED BY <1>2, <2>1
<1> QED BY <1>2, <1>5, <1>6, <1>7

\* Whichever argument is taken out.
LEMMA SumWithout ==
    ASSUME NEW f, NEW S, IsFiniteSet(S), \A x \in S : f[x] \in Int, NEW y \in S
    PROVE  SumFunctionOnSet(f, S) = f[y] + SumFunctionOnSet(f, S \ {y})
<1> DEFINE B == {T \in SUBSET S : \E x \in T :
                   SumFunctionOnSet(f, T) # f[x] + SumFunctionOnSet(f, T \ {x})}
<1> SUFFICES ASSUME B # {} PROVE FALSE
  OBVIOUS
<1>1. PICK T \in B : \A W \in B : W \subseteq T => W = T
  <2>1. B \in SUBSET (SUBSET S)
    OBVIOUS
  <2> HIDE DEF B
  <2> QED BY <2>1, SmallestPart
<1>2. PICK x \in T : SumFunctionOnSet(f, T) # f[x] + SumFunctionOnSet(f, T \ {x})
  BY <1>1
<1> DEFINE z == Some(T)
<1>3. T \subseteq S /\ T # {} /\ IsFiniteSet(T) /\ z \in T
  BY <1>2, SomeIn, FS_Subset
<1>4. SumFunctionOnSet(f, T) = f[z] + SumFunctionOnSet(f, T \ {z})
  BY <1>3, SumStep
<1>5. x # z
  BY <1>2, <1>4
<1> HIDE DEF z
<1>6. T \ {x} \notin B /\ T \ {z} \notin B
  BY <1>1, <1>3
<1>7. SumFunctionOnSet(f, T \ {x}) = f[z] + SumFunctionOnSet(f, (T \ {x}) \ {z})
  BY <1>3, <1>5, <1>6
<1>8. SumFunctionOnSet(f, T \ {z}) = f[x] + SumFunctionOnSet(f, (T \ {z}) \ {x})
  BY <1>2, <1>3, <1>5, <1>6
<1>9. (T \ {x}) \ {z} = (T \ {z}) \ {x}
  OBVIOUS
<1>10. SumFunctionOnSet(f, (T \ {z}) \ {x}) \in Int
  <2>1. IsFiniteSet((T \ {z}) \ {x}) /\ \A w \in (T \ {z}) \ {x} : f[w] \in Int
    BY <1>3, FS_Subset
  <2> QED BY <2>1, SumInt
<1>11. f[x] \in Int /\ f[z] \in Int
  BY <1>3
<1>12. SumFunctionOnSet(f, T) = f[z] + (f[x] + SumFunctionOnSet(f, (T \ {z}) \ {x}))
  BY <1>4, <1>8
<1>13. f[x] + SumFunctionOnSet(f, T \ {x})
         = f[x] + (f[z] + SumFunctionOnSet(f, (T \ {z}) \ {x}))
  BY <1>7, <1>9
<1> QED BY <1>2, <1>10, <1>11, <1>12, <1>13

\* A sum is that of the values.
LEMMA SumSame ==
    ASSUME NEW f, NEW g, NEW S, IsFiniteSet(S), \A x \in S : f[x] = g[x]
    PROVE  SumFunctionOnSet(f, S) = SumFunctionOnSet(g, S)
<1> DEFINE B == {T \in SUBSET S : SumFunctionOnSet(f, T) # SumFunctionOnSet(g, T)}
<1> SUFFICES ASSUME B # {} PROVE FALSE
  OBVIOUS
<1>1. PICK T \in B : \A W \in B : W \subseteq T => W = T
  <2>1. B \in SUBSET (SUBSET S)
    OBVIOUS
  <2> HIDE DEF B
  <2> QED BY <2>1, SmallestPart
<1>2. T \subseteq S /\ IsFiniteSet(T) /\ SumFunctionOnSet(f, T) # SumFunctionOnSet(g, T)
  BY FS_Subset
<1>3. T # {}
  BY <1>2, SumStep
<1>4. Some(T) \in T
  BY <1>3, SomeIn
<1>5. /\ SumFunctionOnSet(f, T) = f[Some(T)] + SumFunctionOnSet(f, T \ {Some(T)})
      /\ SumFunctionOnSet(g, T) = g[Some(T)] + SumFunctionOnSet(g, T \ {Some(T)})
  BY <1>2, <1>3, SumStep
<1>6. SumFunctionOnSet(f, T \ {Some(T)}) = SumFunctionOnSet(g, T \ {Some(T)})
  <2>1. T \ {Some(T)} \notin B
    BY <1>1, <1>4
  <2> QED BY <1>2, <2>1
<1>7. f[Some(T)] = g[Some(T)]
  BY <1>2, <1>4
<1> QED BY <1>2, <1>5, <1>6, <1>7

\* A sum of a times f and b times g.
LEMMA SumLinear ==
    ASSUME NEW S, IsFiniteSet(S), NEW f, NEW g, NEW h, NEW a \in Int,
           \A x \in S : f[x] \in Int /\ g[x] \in Int /\ h[x] = f[x] + a * g[x]
    PROVE  SumFunctionOnSet(h, S) = SumFunctionOnSet(f, S) + a * SumFunctionOnSet(g, S)
<1> DEFINE Good(T) == SumFunctionOnSet(h, T)
                        = SumFunctionOnSet(f, T) + a * SumFunctionOnSet(g, T)
           B == {T \in SUBSET S : ~ Good(T)}
<1> SUFFICES ASSUME B # {} PROVE FALSE
  OBVIOUS
<1>1. PICK T \in B : \A W \in B : W \subseteq T => W = T
  <2>1. B \in SUBSET (SUBSET S)
    OBVIOUS
  <2> HIDE DEF B
  <2> QED BY <2>1, SmallestPart
<1>2. T \subseteq S /\ IsFiniteSet(T) /\ ~ Good(T)
  BY FS_Subset
<1>3. T # {}
  <2> SUFFICES ASSUME T = {} PROVE FALSE
    OBVIOUS
  <2>1. SumFunctionOnSet(h, T) = 0 /\ SumFunctionOnSet(f, T) = 0 /\ SumFunctionOnSet(g, T) = 0
    BY <1>2, SumStep
  <2> QED BY <1>2, <2>1
<1>4. Some(T) \in T
  BY <1>3, SomeIn
<1>5. /\ SumFunctionOnSet(f, T) = f[Some(T)] + SumFunctionOnSet(f, T \ {Some(T)})
      /\ SumFunctionOnSet(g, T) = g[Some(T)] + SumFunctionOnSet(g, T \ {Some(T)})
      /\ SumFunctionOnSet(h, T) = h[Some(T)] + SumFunctionOnSet(h, T \ {Some(T)})
  BY <1>2, <1>3, SumStep
<1>6. Good(T \ {Some(T)})
  <2>1. T \ {Some(T)} \notin B
    BY <1>1, <1>4
  <2> HIDE DEF Good
  <2> QED BY <1>2, <2>1
<1>7. /\ SumFunctionOnSet(f, T \ {Some(T)}) \in Int
      /\ SumFunctionOnSet(g, T \ {Some(T)}) \in Int
  <2>1. IsFiniteSet(T \ {Some(T)})
    BY <1>2, FS_Subset
  <2>2. \A x \in T \ {Some(T)} : f[x] \in Int /\ g[x] \in Int
    BY <1>2
  <2> QED BY <2>1, <2>2, SumInt
<1>8. Some(T) \in S
  BY <1>2, <1>4
<1> QED
  <2> DEFINE x == Some(T)
             F == SumFunctionOnSet(f, T \ {x})
             G == SumFunctionOnSet(g, T \ {x})
  <2>1. f[x] \in Int /\ g[x] \in Int /\ h[x] = f[x] + a * g[x] /\ F \in Int /\ G \in Int
    BY <1>7, <1>8
  <2>2. SumFunctionOnSet(h, T) = f[x] + a * g[x] + (F + a * G)
    BY <1>5, <1>6, <2>1
  <2>3. SumFunctionOnSet(f, T) = f[x] + F /\ SumFunctionOnSet(g, T) = g[x] + G
    BY <1>5
  <2> HIDE DEF F, G, x
  <2>4. a * (g[x] + G) = a * g[x] + a * G
    BY <2>1
  <2>5. a * g[x] \in Int /\ a * G \in Int
    BY <2>1
  <2>6. f[x] + a * g[x] + (F + a * G) = (f[x] + F) + (a * g[x] + a * G)
    BY <2>1, <2>5
  <2>7. Good(T)
    BY <2>2, <2>3, <2>4, <2>6
  <2> QED BY <1>2, <2>7

\* A sum of nothing but one value.
LEMMA SumSingle ==
    ASSUME NEW S, IsFiniteSet(S), NEW f, NEW y, \A x \in S : f[x] \in Int,
           \A x \in S : x # y => f[x] = 0
    PROVE  SumFunctionOnSet(f, S) = IF y \in S THEN f[y] ELSE 0
<1>1. ASSUME NEW T \in SUBSET S, y \notin T
      PROVE  SumFunctionOnSet(f, T) = 0
  <2> DEFINE zero == [x \in T |-> 0]
  <2>1. IsFiniteSet(T)
    BY FS_Subset
  <2>2. SumFunctionOnSet(f, T) = SumFunctionOnSet(f, T) + (-1) * SumFunctionOnSet(f, T)
    <3>1. \A x \in T : f[x] \in Int /\ f[x] = f[x] + (-1) * f[x]
      BY <1>1
    <3>2. -1 \in Int
      OBVIOUS
    <3> QED BY <2>1, <3>1, <3>2, SumLinear
  <2>3. SumFunctionOnSet(f, T) \in Int
    <3>1. \A x \in T : f[x] \in Int
      OBVIOUS
    <3> QED BY <2>1, <3>1, SumInt
  <2> QED BY <2>2, <2>3
<1>2. CASE y \notin S
  BY <1>1, <1>2
<1>3. CASE y \in S
  <2>1. SumFunctionOnSet(f, S) = f[y] + SumFunctionOnSet(f, S \ {y})
    BY <1>3, SumWithout
  <2>2. SumFunctionOnSet(f, S \ {y}) = 0
    BY <1>1
  <2>3. f[y] \in Int
    BY <1>3
  <2> QED BY <1>3, <2>1, <2>2, <2>3
<1> QED BY <1>2, <1>3

\* A sum of natural numbers is one, and zero only when all are.
LEMMA SumNat ==
    ASSUME NEW f, NEW S, IsFiniteSet(S), \A x \in S : f[x] \in Nat
    PROVE  /\ SumFunctionOnSet(f, S) \in Nat
           /\ \A x \in S : f[x] <= SumFunctionOnSet(f, S)
<1>0. \A x \in S : f[x] \in Int
  OBVIOUS
<1> DEFINE B == {T \in SUBSET S : SumFunctionOnSet(f, T) \notin Nat}
<1>1. B = {}
  <2> SUFFICES ASSUME B # {} PROVE FALSE
    OBVIOUS
  <2>1. PICK T \in B : \A W \in B : W \subseteq T => W = T
    <3>1. B \in SUBSET (SUBSET S)
      OBVIOUS
    <3> HIDE DEF B
    <3> QED BY <3>1, SmallestPart
  <2>2. T \subseteq S /\ IsFiniteSet(T) /\ SumFunctionOnSet(f, T) \notin Nat
    BY FS_Subset
  <2>3. T # {}
    <3> SUFFICES ASSUME T = {} PROVE FALSE
      OBVIOUS
    <3>1. SumFunctionOnSet(f, T) = 0
      BY <2>2, SumStep
    <3> QED BY <2>2, <3>1
  <2>4. Some(T) \in T
    BY <2>3, SomeIn
  <2>5. SumFunctionOnSet(f, T) = f[Some(T)] + SumFunctionOnSet(f, T \ {Some(T)})
    BY <2>2, <2>3, SumStep
  <2>6. SumFunctionOnSet(f, T \ {Some(T)}) \in Nat
    <3>1. T \ {Some(T)} \notin B
      BY <2>1, <2>4
    <3> QED BY <2>2, <3>1
  <2>7. f[Some(T)] \in Nat
    BY <2>2, <2>4
  <2> QED BY <2>2, <2>5, <2>6, <2>7
<1>2. \A T \in SUBSET S : SumFunctionOnSet(f, T) \in Nat
  BY <1>1
<1>3. ASSUME NEW x \in S
      PROVE  f[x] <= SumFunctionOnSet(f, S)
  <2>1. SumFunctionOnSet(f, S) = f[x] + SumFunctionOnSet(f, S \ {x})
    BY <1>0, SumWithout
  <2>2. f[x] \in Nat /\ SumFunctionOnSet(f, S \ {x}) \in Nat
    BY <1>2
  <2> QED BY <2>1, <2>2
<1> QED BY <1>2, <1>3

-----------------------------------------------------------------------------
(* Stretches that lie apart, and how long they are. *)

\* Stretches of the time from..to, one after another.
Stretch == [dev : Devices, lo : Nat, hi : Nat]
Apart(O, from, to) ==
    /\ IsFiniteSet(O)
    /\ \A o \in O : o \in Stretch /\ from <= o.lo /\ o.lo < o.hi /\ o.hi <= to
    /\ \A o, q \in O : o = q \/ o.hi <= q.lo \/ q.hi <= o.lo

\* A part of stretches that lie apart is one.
LEMMA ApartParts ==
    ASSUME NEW O, NEW from, NEW to, Apart(O, from, to), NEW T \in SUBSET O
    PROVE  Apart(T, from, to)
<1>1. IsFiniteSet(T)
  BY FS_Subset DEF Apart
<1> QED BY <1>1 DEF Apart

\* The length of stretches is a sum.
LEMMA LengthIsSum ==
    ASSUME NEW O
    PROVE  Length(O) = SumFunctionOnSet([o \in O |-> o.hi - o.lo], O)
<1> DEFINE f == [o \in O |-> o.hi - o.lo]
<1>1. DOMAIN f = O
  OBVIOUS
<1> QED BY <1>1 DEF Length, SumFunction

\* Of nothing, and with one stretch taken out.
LEMMA LengthStep ==
    ASSUME NEW O, NEW from, NEW to, Apart(O, from, to)
    PROVE  /\ Length(O) \in Nat
           /\ O = {} => Length(O) = 0
           /\ \A o \in O : Length(O) = (o.hi - o.lo) + Length(O \ {o})
<1> DEFINE f == [o \in O |-> o.hi - o.lo]
<1>1. IsFiniteSet(O)
  BY DEF Apart
<1>2. Length(O) = SumFunctionOnSet(f, O)
  BY LengthIsSum
<1>3. \A o \in O : f[o] = o.hi - o.lo /\ f[o] \in Nat /\ f[o] \in Int
  BY DEF Apart, Stretch
<1> HIDE DEF f
<1>4. Length(O) \in Nat
  BY <1>1, <1>2, <1>3, SumNat
<1>5. O = {} => Length(O) = 0
  BY <1>1, <1>2, SumStep
<1>6. ASSUME NEW o \in O
      PROVE  Length(O) = (o.hi - o.lo) + Length(O \ {o})
  <2>1. SumFunctionOnSet(f, O) = f[o] + SumFunctionOnSet(f, O \ {o})
    BY <1>1, <1>3, SumWithout
  <2> DEFINE T == O \ {o}
             g == [q \in T |-> q.hi - q.lo]
  <2>2. Length(T) = SumFunctionOnSet(g, T)
    BY LengthIsSum
  <2>3. IsFiniteSet(T)
    BY <1>1, FS_Subset
  <2>4. \A q \in T : f[q] = g[q]
    BY <1>3
  <2> HIDE DEF T, g
  <2>5. SumFunctionOnSet(f, T) = SumFunctionOnSet(g, T)
    BY <2>3, <2>4, SumSame
  <2>6. SumFunctionOnSet(f, O) = f[o] + SumFunctionOnSet(f, T)
    BY <2>1 DEF T
  <2>7. Length(O) = (o.hi - o.lo) + Length(T)
    BY <1>2, <1>3, <2>2, <2>5, <2>6
  <2> QED BY <2>7 DEF T
<1> QED BY <1>4, <1>5, <1>6

\* Something is held just when the length is not 0.
LEMMA LengthZero ==
    ASSUME NEW O, NEW from, NEW to, Apart(O, from, to)
    PROVE  Length(O) = 0 <=> O = {}
<1>1. O = {} => Length(O) = 0
  BY LengthStep
<1>2. ASSUME NEW o \in O PROVE Length(O) # 0
  <2>1. Length(O) = (o.hi - o.lo) + Length(O \ {o})
    BY LengthStep
  <2>2. Length(O \ {o}) \in Nat
    BY ApartParts, LengthStep
  <2>3. o.hi \in Nat /\ o.lo \in Nat /\ o.lo < o.hi
    BY DEF Apart, Stretch
  <2> QED BY <2>1, <2>2, <2>3
<1> QED BY <1>1, <1>2

\* No more is held than there is time.
LEMMA LengthBound ==
    ASSUME NEW from \in Nat, NEW to \in Nat, from <= to, NEW O, Apart(O, from, to)
    PROVE  Length(O) <= to - from
<1> DEFINE Good(T) == \A b \in Nat : from <= b /\ (\A o \in T : o.hi <= b) => Length(T) <= b - from
           B == {T \in SUBSET O : ~ Good(T)}
<1>1. B = {}
  <2> SUFFICES ASSUME B # {} PROVE FALSE
    OBVIOUS
  <2>1. PICK T \in B : \A W \in B : W \subseteq T => W = T
    <3>1. B \in SUBSET (SUBSET O) /\ IsFiniteSet(O)
      BY DEF Apart
    <3> HIDE DEF B
    <3> QED BY <3>1, SmallestPart
  <2>2. Apart(T, from, to)
    BY ApartParts
  <2>3. PICK b \in Nat : /\ from <= b /\ \A o \in T : o.hi <= b
                         /\ ~ (Length(T) <= b - from)
    BY <2>1
  <2>4. T # {}
    BY <2>2, <2>3, LengthStep
  <2>5. PICK o \in T : \A q \in T : q.hi <= o.hi
    <3> DEFINE N == {to - q.hi : q \in T}
    <3>1. \A q \in T : q.hi \in Nat /\ to - q.hi \in Nat
      BY <2>2 DEF Apart, Stretch
    <3>2. N \in SUBSET Nat /\ N # {}
      BY <2>4, <3>1
    <3>3. PICK n \in N : \A m \in N : n <= m
      BY <3>2, LeastNumber
    <3>4. PICK o \in T : n = to - o.hi
      BY <3>3
    <3>5. ASSUME NEW q \in T PROVE q.hi <= o.hi
      <4>1. to - o.hi <= to - q.hi
        BY <3>3, <3>4
      <4> QED BY <3>1, <4>1
    <3> QED BY <3>5
  <2> DEFINE U == T \ {o}
  <2>6. o.lo \in Nat /\ o.hi \in Nat /\ from <= o.lo /\ o.hi <= b
    BY <2>2, <2>3 DEF Apart, Stretch
  <2>7. \A q \in U : q.hi <= o.lo
    BY <2>2, <2>5 DEF Apart, Stretch
  <2>8. Good(U)
    <3>1. U \notin B /\ U \in SUBSET O
      BY <2>1
    <3> HIDE DEF Good
    <3> QED BY <3>1
  <2>9. Length(U) <= o.lo - from
    BY <2>6, <2>7, <2>8
  <2>10. Length(T) = (o.hi - o.lo) + Length(U) /\ Length(U) \in Nat
    BY <2>2, ApartParts, LengthStep
  <2> QED BY <2>3, <2>6, <2>9, <2>10
<1>2. Good(O)
  <2> HIDE DEF Good
  <2> QED BY <1>1
<1> QED BY <1>2 DEF Apart

\* Nothing of what is held goes by a device.
LEMMA LengthByDevice ==
    ASSUME NEW O, NEW from, NEW to, Apart(O, from, to)
    PROVE  SumFunctionOnSet([d \in Devices |-> Length(HeldBy(O, d))], Devices) = Length(O)
<1> DEFINE F(T) == [d \in Devices |-> Length(HeldBy(T, d))]
           Good(T) == SumFunctionOnSet(F(T), Devices) = Length(T)
           B == {T \in SUBSET O : ~ Good(T)}
<1>0. IsFiniteSet(Devices) /\ None \notin Devices
  BY AttributionAssumption
<1> SUFFICES ASSUME B # {} PROVE FALSE
  <2> HIDE DEF Good
  <2>1. Good(O)
    OBVIOUS
  <2> QED BY <2>1 DEF Good
<1>1. PICK T \in B : \A W \in B : W \subseteq T => W = T
  <2>1. B \in SUBSET (SUBSET O) /\ IsFiniteSet(O)
    BY DEF Apart
  <2> HIDE DEF B
  <2> QED BY <2>1, SmallestPart
<1>2. Apart(T, from, to) /\ ~ Good(T)
  BY ApartParts
<1>3. \A W \in SUBSET O : \A d \in Devices :
        HeldBy(W, d) \in SUBSET W /\ F(W)[d] \in Nat /\ F(W)[d] \in Int
  <2> SUFFICES ASSUME NEW W \in SUBSET O, NEW d \in Devices
               PROVE  HeldBy(W, d) \in SUBSET W /\ Length(HeldBy(W, d)) \in Nat
    OBVIOUS
  <2>1. HeldBy(W, d) \in SUBSET W /\ HeldBy(W, d) \in SUBSET O
    BY DEF HeldBy
  <2> QED BY <2>1, ApartParts, LengthStep
<1>4. T # {}
  <2> SUFFICES ASSUME T = {} PROVE FALSE
    OBVIOUS
  <2>1. Length(T) = 0
    BY <1>2, LengthStep
  <2>2. \A d \in Devices : F(T)[d] = 0
    BY <2>1 DEF HeldBy
  <2>3. SumFunctionOnSet(F(T), Devices) = 0
    <3> HIDE DEF F
    <3>1. \A d \in Devices : F(T)[d] \in Int
      BY <2>2
    <3> QED BY <1>0, <2>2, <3>1, SumSingle
  <2> QED BY <1>2, <2>1, <2>3
<1>5. PICK o \in T : TRUE
  BY <1>4
<1> DEFINE U == T \ {o}
           w == o.hi - o.lo
           g == [d \in Devices |-> IF d = o.dev THEN w ELSE 0]
<1>6. Length(T) = w + Length(U) /\ w \in Nat /\ w \in Int /\ o.dev \in Devices
  <2>1. Length(T) = w + Length(U)
    BY <1>2, LengthStep
  <2>2. o.hi \in Nat /\ o.lo \in Nat /\ o.lo < o.hi /\ o.dev \in Devices
    BY <1>2 DEF Apart, Stretch
  <2> QED BY <2>1, <2>2
<1>7. ASSUME NEW d \in Devices
      PROVE  F(T)[d] = F(U)[d] + 1 * g[d]
  <2>1. Apart(HeldBy(T, d), from, to)
    BY <1>2, <1>3, ApartParts
  <2>2. CASE d = o.dev
    <3>1. o \in HeldBy(T, d) /\ HeldBy(T, d) \ {o} = HeldBy(U, d)
      BY <2>2 DEF HeldBy
    <3>2. Length(HeldBy(T, d)) = w + Length(HeldBy(T, d) \ {o})
      BY <2>1, <3>1, LengthStep
    <3>3. Length(HeldBy(T, d)) = w + Length(HeldBy(U, d))
      BY <3>1, <3>2
    <3>4. F(U)[d] \in Nat /\ F(U)[d] = Length(HeldBy(U, d)) /\ F(T)[d] = Length(HeldBy(T, d))
      BY <1>3
    <3>5. g[d] = w
      BY <2>2
    <3> HIDE DEF F, g, w
    <3> QED BY <1>6, <3>3, <3>4, <3>5
  <2>3. CASE d # o.dev
    <3>1. HeldBy(T, d) = HeldBy(U, d)
      BY <2>3 DEF HeldBy
    <3>2. F(U)[d] \in Nat /\ F(U)[d] = Length(HeldBy(U, d)) /\ F(T)[d] = Length(HeldBy(T, d))
      BY <1>3
    <3>3. g[d] = 0
      BY <2>3
    <3> HIDE DEF F, g
    <3> QED BY <3>1, <3>2, <3>3
  <2> QED BY <2>2, <2>3
<1>8. \A d \in Devices : g[d] \in Int
  BY <1>6
<1>9. \A d \in Devices : F(U)[d] \in Int
  BY <1>3
<1>10. Good(U)
  <2>1. U \notin B /\ U \in SUBSET O
    BY <1>1, <1>5
  <2> HIDE DEF Good
  <2> QED BY <2>1
<1>11. SumFunctionOnSet(g, Devices) = w
  <2>1. \A d \in Devices : d # o.dev => g[d] = 0
    OBVIOUS
  <2>2. g[o.dev] = w
    BY <1>6
  <2> HIDE DEF g
  <2> QED BY <1>0, <1>6, <1>8, <2>1, <2>2, SumSingle
<1>12. SumFunctionOnSet(F(T), Devices)
         = SumFunctionOnSet(F(U), Devices) + 1 * SumFunctionOnSet(g, Devices)
  <2> DEFINE fT == F(T)
             fU == F(U)
  <2>1. \A d \in Devices : fU[d] \in Int /\ g[d] \in Int /\ fT[d] = fU[d] + 1 * g[d]
    <3> HIDE DEF F, g
    <3> QED BY <1>7, <1>8, <1>9
  <2>2. 1 \in Int
    OBVIOUS
  <2> HIDE DEF fT, fU, g
  <2>3. SumFunctionOnSet(fT, Devices)
          = SumFunctionOnSet(fU, Devices) + 1 * SumFunctionOnSet(g, Devices)
    BY <1>0, <2>1, <2>2, SumLinear
  <2> QED BY <2>3 DEF fT, fU
<1>13. Length(U) \in Nat
  BY <1>2, ApartParts, LengthStep
<1>14. SumFunctionOnSet(F(T), Devices) = Length(T)
  <2> HIDE DEF F, g, w
  <2> QED BY <1>6, <1>10, <1>11, <1>12, <1>13
<1> QED BY <1>2, <1>14

\* A part of a divided number.
LEMMA DivExact ==
    ASSUME NEW x \in Nat, NEW t \in Nat \ {0}
    PROVE  (x * t) \div t = x
OBVIOUS

\* What leaves no rest is a multiple.
LEMMA Divides ==
    ASSUME NEW x \in Int, NEW t \in Int, t > 0, x >= 0, x % t = 0
    PROVE  \E q \in Nat : x = q * t
<1>1. t * (x \div t) = x /\ x \div t \in Int
  BY SMTT(30)
<1>2. x \div t >= 0
  BY <1>1
<1>3. (x \div t) * t = x
  BY <1>1
<1> QED BY <1>1, <1>2, <1>3

\* The largest of a bounded set of numbers.
LEMMA LargestIs ==
    ASSUME NEW S \in SUBSET Nat, S # {}, NEW N \in Nat, \A n \in S : n <= N
    PROVE  Largest(S) \in S /\ \A n \in S : n <= Largest(S)
<1> DEFINE T == {N - n : n \in S}
<1>1. T \in SUBSET Nat /\ T # {}
  <2>1. \A n \in S : N - n \in Nat
    OBVIOUS
  <2> QED BY <2>1
<1>2. PICK t \in T : \A u \in T : t <= u
  BY <1>1, LeastNumber
<1>3. PICK m \in S : t = N - m
  BY <1>2
<1>4. \A n \in S : n <= m
  <2> SUFFICES ASSUME NEW n \in S PROVE n <= m
    OBVIOUS
  <2>1. N - m <= N - n
    BY <1>2, <1>3
  <2> QED BY <2>1
<1> QED BY <1>4 DEF Largest

-----------------------------------------------------------------------------
(* One interval. *)

Tally == [points : [Devices -> Nat], rest : Nat, lastUsed : [Devices -> Nat]]

\* What distribute adds: each device a part of the amount for the time it held,
\* and when the account was held at all the whole amount among them.
LEMMA Shared ==
    ASSUME NEW from \in Nat, NEW to \in Nat, from <= to, to - from <= MaxNow,
           NEW O, Apart(O, from, to), O # {}, NEW amount \in Nat
    PROVE  \E part \in Nat :
             /\ amount * Unit = part * Length(O)
             /\ \A d \in Devices :
                  /\ Length(HeldBy(O, d)) \in Nat
                  /\ (amount * Unit * Length(HeldBy(O, d))) \div Length(O)
                       = part * Length(HeldBy(O, d))
<1> DEFINE total == Length(O)
<1>1. total \in Nat \ {0} /\ total <= to - from
  BY LengthStep, LengthZero, LengthBound
<1>2. MaxNow \in Nat /\ Unit \in Nat /\ \A n \in 1 .. MaxNow : Unit % n = 0
  BY AttributionAssumption
<1> HIDE DEF total
<1>3. Unit % total = 0
  BY <1>1, <1>2
<1>4. PICK q \in Nat : Unit = q * total
  <2>1. total \in Int /\ total > 0 /\ Unit \in Int /\ Unit >= 0
    BY <1>1, <1>2
  <2> QED BY <1>3, <2>1, Divides
<1>5. ASSUME NEW d \in Devices
      PROVE  /\ Length(HeldBy(O, d)) \in Nat
             /\ (amount * Unit * Length(HeldBy(O, d))) \div total
                  = amount * q * Length(HeldBy(O, d))
  <2>1. HeldBy(O, d) \in SUBSET O
    BY DEF HeldBy
  <2>2. Length(HeldBy(O, d)) \in Nat
    BY <2>1, ApartParts, LengthStep
  <2> DEFINE L == Length(HeldBy(O, d))
             x == amount * q * L
  <2> HIDE DEF L
  <2>3. L \in Nat
    BY <2>2 DEF L
  <2>4. x \in Nat
    BY <2>3
  <2>5. amount * Unit * L = x * total
    BY <1>1, <1>4, <2>3
  <2> HIDE DEF x
  <2>6. (x * total) \div total = x
    BY <1>1, <2>4, DivExact
  <2> QED BY <2>3, <2>5, <2>6 DEF L, x
<1>6. amount * Unit = amount * q * total /\ amount * q \in Nat
  BY <1>1, <1>4
<1> QED BY <1>5, <1>6 DEF total

\* The last use of a device: the latest end of what it held, or what it was.
LEMMA LastUsedIs ==
    ASSUME NEW from \in Nat, NEW to \in Nat, NEW O, Apart(O, from, to), NEW d, NEW n \in Nat
    PROVE  LET S == {n} \cup {o.hi : o \in HeldBy(O, d)}
           IN  Largest(S) \in S /\ Largest(S) \in Nat /\ \A m \in S : m <= Largest(S)
<1> DEFINE S == {n} \cup {o.hi : o \in HeldBy(O, d)}
           N == IF n < to THEN to ELSE n
<1>1. \A o \in HeldBy(O, d) : o.hi \in Nat /\ o.hi <= to
  BY DEF HeldBy, Apart, Stretch
<1>2. S \in SUBSET Nat /\ S # {} /\ N \in Nat
  BY <1>1
<1>3. \A m \in S : m <= N
  BY <1>1
<1> HIDE DEF S, N
<1>4. Largest(S) \in S /\ \A m \in S : m <= Largest(S)
  BY <1>2, <1>3, LargestIs
<1>5. Largest(S) \in Nat
  BY <1>2, <1>4
<1> QED BY <1>4, <1>5 DEF S

\* Nothing of the amount is lost, and nothing is billed twice.
LEMMA DistributeAdds ==
    ASSUME NEW from \in Nat, NEW to \in Nat, from <= to, to - from <= MaxNow,
           NEW O, Apart(O, from, to), NEW amount \in Nat, NEW tally \in Tally
    PROVE  /\ Distribute(tally, amount, O) \in Tally
           /\ Sum(Distribute(tally, amount, O)) = Sum(tally) + amount * Unit
<1> DEFINE D == Distribute(tally, amount, O)
<1>0. IsFiniteSet(Devices) /\ Unit \in Nat
  BY AttributionAssumption
<1>1. /\ tally.points \in [Devices -> Nat] /\ tally.rest \in Nat
      /\ tally.lastUsed \in [Devices -> Nat]
  BY DEF Tally
<1>2. \A t \in Tally : /\ Sum(t) = t.rest + SumFunctionOnSet(t.points, Devices)
                       /\ SumFunctionOnSet(t.points, Devices) \in Nat
  <2> SUFFICES ASSUME NEW t \in Tally
               PROVE  /\ Sum(t) = t.rest + SumFunctionOnSet(t.points, Devices)
                      /\ SumFunctionOnSet(t.points, Devices) \in Nat
    OBVIOUS
  <2>1. DOMAIN t.points = Devices /\ \A d \in Devices : t.points[d] \in Nat
    BY DEF Tally
  <2>2. SumFunctionOnSet(t.points, Devices) \in Nat
    BY <1>0, <2>1, SumNat
  <2> QED BY <2>1, <2>2 DEF Sum, SumFunction
<1>3. amount * Unit \in Nat
  BY <1>0
<1>4. CASE O = {}
  <2>1. Length(O) = 0
    BY <1>4, LengthZero
  <2>2. D = [tally EXCEPT !.rest = @ + amount * Unit]
    BY <2>1 DEF Distribute
  <2>3. D \in Tally /\ D.points = tally.points /\ D.rest = tally.rest + amount * Unit
    BY <1>1, <1>3, <2>2 DEF Tally
  <2> HIDE DEF D
  <2>4. Sum(D) = Sum(tally) + amount * Unit
    BY <1>1, <1>2, <1>3, <2>3
  <2> QED BY <2>3, <2>4 DEF D
<1>5. CASE O # {}
  <2>1. PICK part \in Nat :
             /\ amount * Unit = part * Length(O)
             /\ \A d \in Devices :
                  /\ Length(HeldBy(O, d)) \in Nat
                  /\ (amount * Unit * Length(HeldBy(O, d))) \div Length(O)
                       = part * Length(HeldBy(O, d))
    BY <1>5, Shared
  <2> DEFINE held == [d \in Devices |-> Length(HeldBy(O, d))]
             points == [d \in Devices |->
                          tally.points[d] + (amount * Unit * Length(HeldBy(O, d))) \div Length(O)]
             last == [d \in Devices |-> Largest({tally.lastUsed[d]} \cup {o.hi : o \in HeldBy(O, d)})]
  <2>2. Length(O) # 0
    BY <1>5, LengthZero
  <2>3. D = [tally EXCEPT !.points = points, !.lastUsed = last]
    BY <1>1, <2>2 DEF Distribute, Tally
  <2>4. \A d \in Devices : /\ tally.points[d] \in Int /\ held[d] \in Int
                           /\ points[d] = tally.points[d] + part * held[d]
                           /\ points[d] \in Nat
    BY <1>1, <2>1
  <2>5. last \in [Devices -> Nat]
    <3> SUFFICES ASSUME NEW d \in Devices
                 PROVE  Largest({tally.lastUsed[d]} \cup {o.hi : o \in HeldBy(O, d)}) \in Nat
      OBVIOUS
    <3>1. tally.lastUsed[d] \in Nat
      BY <1>1
    <3> QED BY <3>1, LastUsedIs
  <2>6. SumFunctionOnSet(held, Devices) = Length(O)
    BY LengthByDevice
  <2>7. points \in [Devices -> Nat]
    BY <2>4
  <2> HIDE DEF points, last, held, D
  <2>8. D \in Tally /\ D.points = points /\ D.rest = tally.rest
    BY <2>3, <2>5, <2>7 DEF Tally
  <2>9. SumFunctionOnSet(points, Devices)
          = SumFunctionOnSet(tally.points, Devices) + part * SumFunctionOnSet(held, Devices)
    <3>1. part \in Int
      OBVIOUS
    <3> QED BY <1>0, <2>4, <3>1, SumLinear
  <2>10. SumFunctionOnSet(points, Devices)
          = SumFunctionOnSet(tally.points, Devices) + amount * Unit
    BY <2>1, <2>6, <2>9
  <2>11. Sum(D) = Sum(tally) + amount * Unit
    BY <1>1, <1>2, <1>3, <2>8, <2>10
  <2> QED BY <2>8, <2>11 DEF D
<1> QED BY <1>4, <1>5

-----------------------------------------------------------------------------
(* The walk over the samples. *)

\* w is the walk as far as the k-th sample.
Walks(w, samples, held, k) ==
    w = [i \in 0 .. k |->
          IF i < 2 THEN NoShares
          ELSE Credit(w[i - 1], samples[i - 1], samples[i], held[i])]

\* For every number of samples there is such a walk.
LEMMA WalksExist ==
    ASSUME NEW samples, NEW held, NEW n \in Nat
    PROVE  \E w : Walks(w, samples, held, n)
<1> DEFINE B == {k \in Nat : ~ \E w : Walks(w, samples, held, k)}
<1> SUFFICES ASSUME B # {} PROVE FALSE
  OBVIOUS
<1>1. PICK k \in B : \A j \in B : k <= j
  BY LeastNumber
<1>2. k # 0
  <2> SUFFICES ASSUME k = 0 PROVE FALSE
    OBVIOUS
  <2> DEFINE w == [i \in 0 .. 0 |-> NoShares]
  <2>1. \A i \in 0 .. 0 : i < 2
    OBVIOUS
  <2>2. Walks(w, samples, held, 0)
    BY <2>1 DEF Walks
  <2> QED BY <2>2
<1>3. k - 1 \in Nat /\ k - 1 \notin B
  BY <1>1, <1>2
<1>4. PICK h : Walks(h, samples, held, k - 1)
  BY <1>3
<1> DEFINE To(x, i) == Credit(x, samples[i - 1], samples[i], held[i])
           w == [i \in 0 .. k |-> IF i < k THEN h[i] ELSE IF i < 2 THEN NoShares ELSE To(h[i - 1], i)]
<1>5. h = [i \in 0 .. k - 1 |-> IF i < 2 THEN NoShares ELSE To(h[i - 1], i)]
  BY <1>4 DEF Walks
<1> HIDE DEF To
<1>6. ASSUME NEW i \in 0 .. k
      PROVE  w[i] = IF i < 2 THEN NoShares ELSE To(w[i - 1], i)
  <2>1. CASE i < 2
    <3>1. i < k => i \in 0 .. k - 1 /\ h[i] = NoShares
      BY <1>5, <2>1
    <3> QED BY <2>1, <3>1
  <2>2. CASE ~ (i < 2)
    <3>1. i - 1 \in 0 .. k /\ i - 1 < k
      BY <2>2
    <3>2. w[i - 1] = h[i - 1]
      BY <3>1
    <3>3. CASE i < k
      <4>1. i \in 0 .. k - 1
        BY <3>3
      <4>2. h[i] = To(h[i - 1], i)
        BY <1>5, <2>2, <4>1
      <4> QED BY <2>2, <3>2, <3>3, <4>2
    <3>4. CASE ~ (i < k)
      BY <2>2, <3>2, <3>4
    <3> QED BY <3>3, <3>4
  <2> QED BY <2>1, <2>2
<1>7. w = [i \in 0 .. k |-> w[i]]
  OBVIOUS
<1>8. Walks(w, samples, held, k)
  <2> HIDE DEF w
  <2>1. w = [i \in 0 .. k |-> IF i < 2 THEN NoShares ELSE To(w[i - 1], i)]
    BY <1>6, <1>7
  <2> QED BY <2>1 DEF Walks, To
<1> QED BY <1>1, <1>8

\* The walk is as it is written.
LEMMA TalliesAre ==
    ASSUME NEW samples, NEW held, Len(samples) \in Nat
    PROVE  \A i \in 0 .. Len(samples) :
             Tallies(samples, held)[i] =
               IF i < 2 THEN NoShares
               ELSE Credit(Tallies(samples, held)[i - 1], samples[i - 1], samples[i], held[i])
<1> DEFINE C(w) == w = [i \in 0 .. Len(samples) |->
                         IF i < 2 THEN NoShares
                         ELSE Credit(w[i - 1], samples[i - 1], samples[i], held[i])]
           T == CHOOSE w : C(w)
<1>1. \E w : C(w)
  <2>1. PICK v : Walks(v, samples, held, Len(samples))
    BY WalksExist
  <2>2. C(v)
    BY <2>1 DEF Walks
  <2> QED BY <2>2
<1>2. Tallies(samples, held) = T
  BY DEF Tallies
<1>3. C(T)
  <2> HIDE DEF C
  <2> QED BY <1>1
<1> HIDE DEF T
<1>4. \A i \in 0 .. Len(samples) :
             T[i] = IF i < 2 THEN NoShares
                    ELSE Credit(T[i - 1], samples[i - 1], samples[i], held[i])
  BY <1>3
<1> QED BY <1>2, <1>4

\* It depends on the samples and on what is held between them alone.
LEMMA SameWalk ==
    ASSUME NEW samples, NEW S, NEW T, NEW end, Held(samples, S, end) = Held(samples, T, end)
    PROVE  AttributeWindow(samples, S, end) = AttributeWindow(samples, T, end)
BY DEF AttributeWindow

\* An interval as it is credited: the amount, and the tally it is added to.
LEMMA CreditIs ==
    ASSUME NEW tally, NEW p, NEW c, NEW O
    PROVE  LET dropped == c.util < p.util
               amount == IF dropped THEN c.util ELSE c.util - p.util
               base == IF dropped THEN StartAnew(tally) ELSE tally
           IN  Credit(tally, p, c, O) = IF amount = 0 THEN base ELSE Distribute(base, amount, O)
BY DEF Credit

\* The walk begins with nothing billed.
LEMMA NoSharesYet == NoShares \in Tally /\ Sum(NoShares) = 0
<1> DEFINE zero == [d \in Devices |-> 0]
<1>1. NoShares = [points |-> zero, rest |-> 0, lastUsed |-> zero]
  BY DEF NoShares, Nobody
<1>2. zero \in [Devices -> Nat]
  OBVIOUS
<1>3. \A d \in Devices : zero[d] = 0 /\ zero[d] \in Int
  OBVIOUS
<1>4. IsFiniteSet(Devices) /\ None \notin Devices /\ DOMAIN zero = Devices
  BY AttributionAssumption
<1> HIDE DEF zero
<1>5. SumFunctionOnSet(zero, Devices) = 0
  BY <1>3, <1>4, SumSingle
<1>6. NoShares \in Tally
  BY <1>1, <1>2 DEF Tally
<1>7. NoShares.points = zero /\ NoShares.rest = 0
  BY <1>1
<1>8. Sum(NoShares) = 0
  BY <1>4, <1>5, <1>7 DEF Sum, SumFunction
<1> QED BY <1>6, <1>8

\* A tally that starts anew has nothing billed.
LEMMA StartedAnew ==
    ASSUME NEW tally \in Tally
    PROVE  StartAnew(tally) \in Tally /\ Sum(StartAnew(tally)) = 0
<1> DEFINE new == StartAnew(tally)
<1>1. new = [points |-> NoShares.points, rest |-> 0, lastUsed |-> tally.lastUsed]
  <2>1. NoShares.points = Nobody
    BY DEF NoShares
  <2>2. new = [tally EXCEPT !.points = Nobody, !.rest = 0]
    BY DEF StartAnew
  <2> HIDE DEF new
  <2> QED BY <2>1, <2>2 DEF Tally
<1>2. NoShares.rest = 0
  BY DEF NoShares
<1>3. NoShares.points \in [Devices -> Nat] /\ tally.lastUsed \in [Devices -> Nat]
  BY NoSharesYet DEF Tally
<1> HIDE DEF new
<1>4. new \in Tally
  BY <1>1, <1>3 DEF Tally
<1>5. new.points = NoShares.points /\ new.rest = NoShares.rest
  BY <1>1, <1>2
<1>6. Sum(new) = Sum(NoShares)
  BY <1>5 DEF Sum
<1> QED BY <1>4, <1>6, NoSharesYet DEF new

-----------------------------------------------------------------------------
(* The inductive invariant. *)

\* One segment had ended when the other began.
Precedes(s, r) == s.ended # Open /\ s.ended <= r.started

\* Segments lie one after another in the past; one that runs is of the lease,
\* which began before its deadline.
SegmentsInv ==
    /\ IsFiniteSet(segs)
    /\ \A s \in segs :
         /\ s.started <= now
         /\ s.ended = Open => lease # None /\ s.started < lease.expires
         /\ s.ended # Open => s.started <= s.ended /\ s.ended <= now
    /\ \A s, r \in segs : s = r \/ Precedes(s, r) \/ Precedes(r, s)

\* Windows follow one another, up to now.
WindowsInv ==
    \A w \in DOMAIN rollovers :
        /\ rollovers[w] <= now
        /\ \A v \in 1 .. w : rollovers[v] <= rollovers[w]

\* A sample was taken in its window, and says what was used of it.
SampleInv(r) ==
    /\ r.ts <= now /\ r.window <= Len(rollovers)
    /\ WindowStart(r.window) <= r.ts
    /\ \A w \in r.window + 1 .. Len(rollovers) : r.ts <= rollovers[w]
    /\ ~ r.gap => r.util = Used(WindowStart(r.window), r.ts, Users)

\* Samples are rows in the order of time.
RowsInv ==
    /\ \A i \in DOMAIN rows : SampleInv(rows[i])
    /\ \A i, j \in DOMAIN rows :
         i < j => rows[i].ts < rows[j].ts /\ rows[i].window <= rows[j].window

IInv == TypeOK /\ SegmentsInv /\ WindowsInv /\ RowsInv

-----------------------------------------------------------------------------
(* Segments of the table, and what they hold of an interval. *)

\* The greater and the lesser of two numbers.
LEMMA Between ==
    ASSUME NEW x \in Int, NEW y \in Int
    PROVE  /\ Most(x, y) \in {x, y} /\ Most(x, y) >= x /\ Most(x, y) >= y
           /\ Least(x, y) \in {x, y} /\ Least(x, y) <= x /\ Least(x, y) <= y
BY DEF Most, Least

\* When a segment ends, for one who asks at time `end`.
EndOf(s, end) == IF s.ended = Open THEN end ELSE s.ended

\* o is of device s.dev, lies in segment s and in from..to, and is bounded by both.
Fits(o, s, from, to, end) ==
    /\ o \in Stretch /\ o.dev = s.dev /\ EndOf(s, end) \in Nat
    /\ s.started <= o.lo /\ from <= o.lo /\ o.hi <= to /\ o.hi <= EndOf(s, end)
    /\ o.lo \in {s.started, from} /\ o.hi \in {EndOf(s, end), to}

\* What a segment holds of an interval lies in both.
LEMMA OverlapIs ==
    ASSUME NEW s \in Segment, NEW from \in Nat, NEW to \in Nat, NEW end \in Nat
    PROVE  Fits(Overlap(s, from, to, end), s, from, to, end)
<1> DEFINE o == Overlap(s, from, to, end)
<1>1. s.started \in Nat /\ s.dev \in Devices /\ EndOf(s, end) \in Nat
  BY DEF Segment, EndOf
<1>2. /\ Most(s.started, from) \in {s.started, from}
      /\ Most(s.started, from) >= s.started /\ Most(s.started, from) >= from
      /\ Least(EndOf(s, end), to) \in {EndOf(s, end), to}
      /\ Least(EndOf(s, end), to) <= EndOf(s, end) /\ Least(EndOf(s, end), to) <= to
  BY <1>1, Between
<1>3. o = [dev |-> s.dev, lo |-> Most(s.started, from),
           hi |-> Least(EndOf(s, end), to)]
  BY DEF Overlap, EndOf
<1>4. Most(s.started, from) \in Nat /\ Least(EndOf(s, end), to) \in Nat
  BY <1>1, <1>2
<1>5. o \in Stretch
  BY <1>1, <1>3, <1>4 DEF Stretch
<1>6. /\ o.dev = s.dev /\ o.lo = Most(s.started, from)
      /\ o.hi = Least(EndOf(s, end), to)
  BY <1>3
<1> HIDE DEF o
<1>7. Fits(o, s, from, to, end)
  BY <1>1, <1>2, <1>5, <1>6 DEF Fits
<1> QED BY <1>7 DEF o

\* Of what the segments hold, each is what one of them holds, and not empty.
LEMMA OverlapsAre ==
    ASSUME NEW S, NEW from, NEW to, NEW end, NEW o
    PROVE  o \in Overlaps(S, from, to, end) <=>
             \E s \in S : o = Overlap(s, from, to, end) /\ o.hi > o.lo
BY DEF Overlaps

\* Segments one after another hold stretches one after another.
LEMMA OverlapsApart ==
    ASSUME TypeOK, SegmentsInv, NEW S \in SUBSET segs,
           NEW from \in Nat, NEW to \in Nat, NEW end \in Nat
    PROVE  Apart(Overlaps(S, from, to, end), from, to)
<1> DEFINE O == Overlaps(S, from, to, end)
<1>1. S \subseteq Segment /\ IsFiniteSet(S)
  BY FS_Subset DEF TypeOK, SegmentsInv
<1>2. IsFiniteSet(O)
  <2> DEFINE I == {Overlap(s, from, to, end) : s \in S}
  <2>1. IsFiniteSet(I)
    <3> DEFINE f == [s \in S |-> Overlap(s, from, to, end)]
    <3>1. IsFiniteSet({f[s] : s \in S})
      <4> HIDE DEF f
      <4> QED BY <1>1, FiniteImage
    <3>2. {f[s] : s \in S} = I
      OBVIOUS
    <3> QED BY <3>1, <3>2
  <2>2. O \subseteq I
    BY DEF Overlaps
  <2> QED BY <2>1, <2>2, FS_Subset
<1>3. ASSUME NEW o \in O
      PROVE  o \in Stretch /\ from <= o.lo /\ o.lo < o.hi /\ o.hi <= to
  <2>1. PICK s \in S : o = Overlap(s, from, to, end) /\ o.hi > o.lo
    BY OverlapsAre
  <2>2. o \in Stretch /\ from <= o.lo /\ o.hi <= to
    BY <1>1, <2>1, OverlapIs DEF Fits
  <2> QED BY <2>1, <2>2 DEF Stretch
<1>4. ASSUME NEW o \in O, NEW q \in O
      PROVE  o = q \/ o.hi <= q.lo \/ q.hi <= o.lo
  <2>1. PICK s \in S : o = Overlap(s, from, to, end)
    BY OverlapsAre
  <2>2. PICK r \in S : q = Overlap(r, from, to, end)
    BY OverlapsAre
  <2>3. s \in Segment /\ r \in Segment
    BY <1>1
  <2>4. ASSUME NEW x \in S, NEW y \in S, Precedes(x, y)
        PROVE  Overlap(x, from, to, end).hi <= Overlap(y, from, to, end).lo
    <3>1. x \in Segment /\ y \in Segment
      BY <1>1
    <3> DEFINE ox == Overlap(x, from, to, end)
               oy == Overlap(y, from, to, end)
    <3>2. ox.hi <= EndOf(x, end) /\ y.started <= oy.lo /\ ox \in Stretch /\ oy \in Stretch
      BY <3>1, OverlapIs DEF Fits
    <3> HIDE DEF ox, oy
    <3>3. EndOf(x, end) = x.ended /\ x.ended <= y.started /\ x.ended \in Nat /\ y.started \in Nat
      BY <2>4, <3>1 DEF EndOf, Precedes, Segment
    <3>4. ox.hi \in Nat /\ oy.lo \in Nat
      BY <3>2 DEF Stretch
    <3>5. ox.hi <= oy.lo
      BY <3>2, <3>3, <3>4
    <3> QED BY <3>5 DEF ox, oy
  <2>5. s = r \/ Precedes(s, r) \/ Precedes(r, s)
    BY DEF SegmentsInv
  <2> QED BY <2>1, <2>2, <2>4, <2>5
<1> HIDE DEF O
<1>5. Apart(O, from, to)
  BY <1>2, <1>3, <1>4 DEF Apart
<1> QED BY <1>5 DEF O

\* Those an answer reads are some of the table.
LEMMA SegmentsSinceAre ==
    ASSUME NEW S, NEW t
    PROVE  SegmentsSince(S, t) \in SUBSET S
BY DEF SegmentsSince

\* Of an interval up to t, the table holds what it held at t.
LEMMA HeldAsOf ==
    ASSUME TypeOK, NEW t \in Nat, NEW from \in Nat, NEW to \in Nat, to <= t
    PROVE  Overlaps(SegmentsSince(segs, t), from, to, t)
             = Overlaps(SegmentsSince(AsOf(t), t), from, to, t)
<1> DEFINE Then(s) == [s EXCEPT !.ended = IF @ > t THEN Open ELSE @]
           O == Overlaps(SegmentsSince(segs, t), from, to, t)
           A == Overlaps(SegmentsSince(AsOf(t), t), from, to, t)
<1>1. segs \subseteq Segment
  BY DEF TypeOK
<1>2. Open = -1
  BY DEF Open
<1>0. Retention \in Nat
  BY AttributionAssumption
<1>3. ASSUME NEW s \in segs
      PROVE  /\ Then(s) \in Segment
             /\ Overlap(Then(s), from, to, t) = Overlap(s, from, to, t)
             /\ Then(s) \in SegmentsSince({Then(s)}, t) <=> s \in SegmentsSince({s}, t)
  <2>1. s \in Segment /\ s.started \in Nat /\ s.ended \in Nat \cup {Open} /\ s.dev \in Devices
    BY <1>1 DEF Segment
  <2>2. CASE s.ended > t
    <3>1. Then(s) = [dev |-> s.dev, started |-> s.started, ended |-> Open]
      BY <2>1, <2>2 DEF Segment
    <3> HIDE DEF Then
    <3>2. Then(s) \in Segment
      BY <2>1, <3>1 DEF Segment
    <3>3. s.ended # Open /\ s.ended \in Nat
      BY <1>2, <2>1, <2>2
    <3>4. Least(s.ended, to) = to /\ Least(t, to) = to
      BY <2>2, <3>3 DEF Least
    <3>5. Overlap(Then(s), from, to, t) = [dev |-> s.dev, lo |-> Most(s.started, from), hi |-> to]
      BY <3>1, <3>4 DEF Overlap
    <3>6. Overlap(s, from, to, t) = [dev |-> s.dev, lo |-> Most(s.started, from), hi |-> to]
      BY <3>3, <3>4 DEF Overlap
    <3>7. s.ended >= t - Retention
      BY <1>0, <2>2, <3>3
    <3>8. Then(s).ended = Open
      BY <3>1
    <3> QED BY <3>2, <3>5, <3>6, <3>7, <3>8 DEF SegmentsSince
  <2>3. CASE ~ (s.ended > t)
    <3>1. Then(s) = s
      BY <2>1, <2>3 DEF Segment
    <3> HIDE DEF Then
    <3> QED BY <2>1, <3>1
  <2> QED BY <2>2, <2>3
<1>4. AsOf(t) = {Then(s) : s \in {x \in segs : x.started <= t}}
  BY DEF AsOf
<1>5. ASSUME NEW o \in O PROVE o \in A
  <2>1. PICK s \in SegmentsSince(segs, t) : o = Overlap(s, from, to, t) /\ o.hi > o.lo
    BY OverlapsAre
  <2>2. s \in segs /\ s \in SegmentsSince({s}, t) /\ s \in Segment
    BY <1>1, <2>1 DEF SegmentsSince
  <2>3. s.started <= t
    <3>1. /\ s.started <= o.lo /\ o.hi <= to
          /\ o \in Stretch
      BY <2>1, <2>2, OverlapIs DEF Fits
    <3>2. o.lo \in Nat /\ o.hi \in Nat /\ s.started \in Nat
      BY <2>2, <3>1 DEF Stretch, Segment
    <3> QED BY <2>1, <3>1, <3>2
  <2>4. Then(s) \in AsOf(t)
    <3> HIDE DEF Then
    <3> QED BY <1>4, <2>2, <2>3
  <2> HIDE DEF Then
  <2>5. Then(s) \in SegmentsSince(AsOf(t), t)
    BY <1>3, <2>2, <2>4 DEF SegmentsSince
  <2>6. o = Overlap(Then(s), from, to, t)
    BY <1>3, <2>1, <2>2
  <2> QED BY <2>1, <2>5, <2>6, OverlapsAre
<1>6. ASSUME NEW o \in A PROVE o \in O
  <2> HIDE DEF Then
  <2>1. PICK a \in SegmentsSince(AsOf(t), t) : o = Overlap(a, from, to, t) /\ o.hi > o.lo
    BY OverlapsAre
  <2>2. a \in AsOf(t) /\ a \in SegmentsSince({a}, t)
    BY <2>1 DEF SegmentsSince
  <2>3. PICK s \in segs : a = Then(s)
    BY <1>4, <2>2
  <2>4. s \in SegmentsSince(segs, t)
    BY <1>3, <2>2, <2>3 DEF SegmentsSince
  <2>5. o = Overlap(s, from, to, t)
    BY <1>3, <2>1, <2>3
  <2> QED BY <2>1, <2>4, <2>5, OverlapsAre
<1> QED BY <1>5, <1>6

-----------------------------------------------------------------------------
(* The rows that are read. *)

\* Rows before a time are the first ones.
LEMMA RowsBeforeAre ==
    ASSUME TypeOK, RowsInv, NEW t \in Int
    PROVE  /\ RowsBefore(t) \in 0 .. Len(rows)
           /\ \A i \in 1 .. Len(rows) : rows[i].ts < t <=> i <= RowsBefore(t)
<1> DEFINE n == Len(rows)
           E == {i \in 1 .. n + 1 : i = n + 1 \/ ~ (rows[i].ts < t)}
<1>1. n \in Nat /\ DOMAIN rows = 1 .. n /\ \A i \in 1 .. n : rows[i] \in Sample /\ rows[i].ts \in Nat
  <2>1. rows \in Seq(Sample)
    BY DEF TypeOK
  <2>2. \A r \in Sample : r.ts \in Nat
    BY DEF Sample
  <2> QED BY <2>1, <2>2
<1>2. n + 1 \in E /\ E \in SUBSET Nat
  BY <1>1
<1>3. PICK m \in E : \A k \in E : m <= k
  BY <1>2, LeastNumber
<1>4. m \in 1 .. n + 1
  OBVIOUS
<1>5. ASSUME NEW i \in 1 .. n
      PROVE  rows[i].ts < t <=> i <= m - 1
  <2>1. CASE i < m
    <3>1. i \notin E
      BY <1>1, <1>3, <2>1
    <3>2. i \in 1 .. n + 1 /\ i # n + 1
      BY <1>1
    <3> QED BY <1>4, <2>1, <3>1, <3>2
  <2>2. CASE ~ (i < m)
    <3>1. ~ (rows[m].ts < t) /\ m \in 1 .. n
      BY <1>1, <1>4, <2>2
    <3>2. m = i \/ rows[m].ts < rows[i].ts
      BY <1>1, <1>4, <2>2, <3>1 DEF RowsInv
    <3> QED BY <1>1, <1>4, <2>2, <3>1, <3>2
  <2> QED BY <2>1, <2>2
<1>6. {i \in DOMAIN rows : rows[i].ts < t} = 1 .. m - 1
  BY <1>1, <1>4, <1>5
<1>7. Cardinality(1 .. m - 1) = m - 1
  <2>1. Cardinality(1 .. m - 1) = IF 1 > m - 1 THEN 0 ELSE m - 1 - 1 + 1
    BY <1>4, FS_Interval
  <2> QED BY <1>4, <2>1
<1>8. RowsBefore(t) = m - 1
  BY <1>6, <1>7 DEF RowsBefore
<1> QED BY <1>1, <1>4, <1>5, <1>8

\* Samples one after another, each true.
SamplesInv(R) ==
    /\ R \in Seq(Sample)
    /\ \A i \in 1 .. Len(R) : SampleInv(R[i])
    /\ \A i, j \in 1 .. Len(R) : i < j => R[i].ts < R[j].ts /\ R[i].window <= R[j].window

\* A sample has a time, a level and a window.
LEMMA SamplesAre ==
    ASSUME NEW R, SamplesInv(R)
    PROVE  /\ Len(R) \in Nat /\ DOMAIN R = 1 .. Len(R)
           /\ \A i \in 1 .. Len(R) :
                R[i].ts \in Nat /\ R[i].util \in Nat /\ R[i].window \in Nat
<1>1. R \in Seq(Sample)
  BY DEF SamplesInv
<1>2. \A r \in Sample : r.ts \in Nat /\ r.util \in Nat /\ r.window \in Nat
  BY DEF Sample
<1> QED BY <1>1, <1>2

\* Rows a + 1 to b are samples one after another.
LEMMA StretchOfRows ==
    ASSUME TypeOK, RowsInv, NEW a \in 0 .. Len(rows), NEW b \in 0 .. Len(rows)
    PROVE  LET R == SubSeq(rows, a + 1, b)
           IN  /\ SamplesInv(R)
               /\ Len(R) = IF a <= b THEN b - a ELSE 0
               /\ \A i \in 1 .. Len(R) : i + a \in 1 .. Len(rows) /\ R[i] = rows[i + a]
<1> DEFINE R == SubSeq(rows, a + 1, b)
<1>1. rows \in Seq(Sample) /\ Len(rows) \in Nat /\ DOMAIN rows = 1 .. Len(rows)
  BY DEF TypeOK
<1>2. /\ R \in Seq(Sample) /\ Len(R) = IF a <= b THEN b - a ELSE 0
      /\ \A i \in 1 .. Len(R) : R[i] = rows[i + a]
  <2>1. a + 1 \in 1 .. Len(rows) + 1 /\ b \in Nat /\ a \in Nat /\ b <= Len(rows)
    BY <1>1
  <2> QED BY <1>1, <2>1
<1> HIDE DEF R
<1>3. Len(R) \in Nat /\ \A i \in 1 .. Len(R) : i + a \in 1 .. Len(rows)
  BY <1>1, <1>2
<1>4. \A i \in 1 .. Len(R) : SampleInv(R[i])
  BY <1>1, <1>2, <1>3 DEF RowsInv
<1>5. ASSUME NEW i \in 1 .. Len(R), NEW j \in 1 .. Len(R), i < j
      PROVE  R[i].ts < R[j].ts /\ R[i].window <= R[j].window
  <2>1. i + a \in DOMAIN rows /\ j + a \in DOMAIN rows /\ i + a < j + a
    BY <1>1, <1>3, <1>5
  <2>2. rows[i + a].ts < rows[j + a].ts /\ rows[i + a].window <= rows[j + a].window
    BY <2>1 DEF RowsInv
  <2> QED BY <1>2, <2>2
<1>6. SamplesInv(R)
  BY <1>2, <1>4, <1>5 DEF SamplesInv
<1> QED BY <1>2, <1>3, <1>6 DEF R

\* Rows that were pruned or are not read yet are left out.
LEMMA RowsAtAre ==
    ASSUME TypeOK, RowsInv, NEW t \in Nat
    PROVE  /\ SamplesInv(RowsAt(t))
           /\ \A i \in 1 .. Len(RowsAt(t)) : RowsAt(t)[i].ts <= t
<1> DEFINE a == RowsBefore(t - Retention)
           b == RowsBefore(t + 1)
           R == SubSeq(rows, a + 1, b)
<1>1. t - Retention \in Int /\ t + 1 \in Int
  BY AttributionAssumption
<1>2. /\ a \in 0 .. Len(rows) /\ b \in 0 .. Len(rows)
      /\ \A i \in 1 .. Len(rows) : i <= b => rows[i].ts < t + 1
  BY <1>1, RowsBeforeAre
<1>3. RowsAt(t) = R
  BY DEF RowsAt
<1> HIDE DEF a, b
<1>4. SamplesInv(R)
  BY <1>2, StretchOfRows
<1>5. ASSUME NEW i \in 1 .. Len(R)
      PROVE  R[i].ts <= t
  <2>1. i + a \in 1 .. Len(rows) /\ R[i] = rows[i + a] /\ Len(R) = IF a <= b THEN b - a ELSE 0
    BY <1>2, StretchOfRows
  <2>2. i + a <= b
    <3> HIDE DEF R
    <3> QED BY <1>2, <2>1
  <2>3. R[i].ts \in Nat
    <3> HIDE DEF R
    <3>1. R[i] \in Sample
      BY <1>4 DEF SamplesInv
    <3> QED BY <3>1 DEF Sample
  <2> QED BY <1>2, <2>1, <2>2, <2>3
<1> QED BY <1>3, <1>4, <1>5

\* An answer that is given now reads the rows a poll keeps: the last ones.
LEMMA RowsSinceAre ==
    ASSUME TypeOK, RowsInv
    PROVE  /\ RowsAt(now) = RowsSince(now)
           /\ SamplesInv(RowsSince(now))
           /\ \A i \in 1 .. Len(RowsSince(now)) : RowsSince(now)[i].ts >= now - Retention
           /\ \E a \in 0 .. Len(rows) :
                /\ Len(RowsSince(now)) = Len(rows) - a
                /\ \A i \in 1 .. Len(rows) - a :
                     i + a \in DOMAIN rows /\ RowsSince(now)[i] = rows[i + a]
<1> DEFINE a == RowsBefore(now - Retention)
           R == SubSeq(rows, a + 1, Len(rows))
<1>1. now - Retention \in Int /\ now + 1 \in Int /\ now \in Nat /\ Len(rows) \in Nat
  BY AttributionAssumption DEF TypeOK
<1>2. a \in 0 .. Len(rows) /\ Len(rows) \in 0 .. Len(rows)
  BY <1>1, RowsBeforeAre
<1>3. RowsSince(now) = R
  BY DEF RowsSince
<1>4. RowsBefore(now + 1) = Len(rows)
  <2>1. /\ RowsBefore(now + 1) \in 0 .. Len(rows)
        /\ \A i \in 1 .. Len(rows) : rows[i].ts < now + 1 => i <= RowsBefore(now + 1)
    BY <1>1, RowsBeforeAre
  <2>2. CASE Len(rows) = 0
    BY <2>1, <2>2
  <2>3. CASE Len(rows) # 0
    <3>1. Len(rows) \in 1 .. Len(rows) /\ Len(rows) \in DOMAIN rows
      BY <1>1, <2>3
    <3>2. rows[Len(rows)].ts <= now /\ rows[Len(rows)] \in Sample
      BY <3>1 DEF RowsInv, SampleInv, TypeOK
    <3>3. rows[Len(rows)].ts < now + 1
      BY <1>1, <3>2 DEF Sample
    <3> QED BY <1>1, <2>1, <3>1, <3>3
  <2> QED BY <2>2, <2>3
<1>5. RowsAt(now) = R
  BY <1>4 DEF RowsAt
<1>6. \A i \in 1 .. Len(rows) : rows[i].ts >= now - Retention <=> i > a
  <2> SUFFICES ASSUME NEW i \in 1 .. Len(rows) PROVE rows[i].ts >= now - Retention <=> i > a
    OBVIOUS
  <2>1. rows[i].ts < now - Retention <=> i <= a
    BY <1>1, RowsBeforeAre
  <2>2. rows[i] \in Sample
    BY DEF TypeOK
  <2>3. rows[i].ts \in Int
    BY <2>2 DEF Sample
  <2> QED BY <1>1, <1>2, <2>1, <2>3
<1> HIDE DEF a
<1>7. /\ SamplesInv(R) /\ Len(R) = IF a <= Len(rows) THEN Len(rows) - a ELSE 0
      /\ \A i \in 1 .. Len(R) : i + a \in 1 .. Len(rows) /\ R[i] = rows[i + a]
  BY <1>2, StretchOfRows
<1> HIDE DEF R
<1>8. Len(R) = Len(rows) - a
  BY <1>2, <1>7
<1>9. \A i \in 1 .. Len(R) : R[i].ts >= now - Retention
  <2> SUFFICES ASSUME NEW i \in 1 .. Len(R) PROVE R[i].ts >= now - Retention
    OBVIOUS
  <2>1. i + a \in 1 .. Len(rows) /\ i + a > a /\ R[i] = rows[i + a]
    BY <1>1, <1>2, <1>7
  <2> QED BY <1>6, <2>1
<1>10. DOMAIN rows = 1 .. Len(rows)
  BY DEF TypeOK
<1> QED BY <1>2, <1>3, <1>5, <1>7, <1>8, <1>9, <1>10

-----------------------------------------------------------------------------
(* An answer is of its moment. *)

\* Leases that begin, are renewed, are released or are swept after the samples were
\* read do not change the answer (ComputeAttribution).
LEMMA AnswersAreOfTheirMoment ==
    ASSUME IInv
    PROVE  AnswerOfItsMoment
<1> SUFFICES ASSUME NEW t \in 0 .. now
             PROVE  ComputeAttribution(t, segs) = ComputeAttribution(t, AsOf(t))
  BY DEF AnswerOfItsMoment
<1>1. t \in Nat
  BY DEF IInv, TypeOK
<1> DEFINE R == RowsAt(t)
           S == SegmentsSince(segs, t)
           T == SegmentsSince(AsOf(t), t)
<1>2. SamplesInv(R) /\ \A i \in 1 .. Len(R) : R[i].ts <= t
  BY <1>1, RowsAtAre DEF IInv
<1>3. Len(R) \in Nat /\ \A i \in 1 .. Len(R) : R[i].ts \in Nat
  <2> HIDE DEF R
  <2> QED BY <1>2, SamplesAre
<1>4. ASSUME NEW i \in 2 .. Len(R)
      PROVE  Overlaps(S, R[i - 1].ts, R[i].ts, t) = Overlaps(T, R[i - 1].ts, R[i].ts, t)
  <2>1. i - 1 \in 1 .. Len(R) /\ i \in 1 .. Len(R)
    BY <1>3
  <2> HIDE DEF R
  <2>2. R[i - 1].ts \in Nat /\ R[i].ts \in Nat /\ R[i].ts <= t
    BY <1>2, <1>3, <2>1
  <2>3. TypeOK
    BY DEF IInv
  <2> QED BY <1>1, <2>2, <2>3, HeldAsOf
<1>5. Held(R, S, t) = Held(R, T, t)
  <2> HIDE DEF R, S, T
  <2> QED BY <1>4 DEF Held
<1>6. AttributeWindow(R, S, t) = AttributeWindow(R, T, t)
  BY <1>5, SameWalk
<1> QED BY <1>6 DEF ComputeAttribution

-----------------------------------------------------------------------------
(* The walk of an answer that is given now. *)

Read == RowsSince(now)
Parts == Held(Read, SegmentsSince(segs, now), now)
Walk == Tallies(Read, Parts)

\* An answer that is given now is the end of a walk over the samples it reads.
LEMMA WalkIs ==
    ASSUME IInv
    PROVE  /\ SamplesInv(Read)
           /\ Shares = Walk[Len(Read)]
           /\ \A i \in 0 .. Len(Read) :
                Walk[i] = IF i < 2 THEN NoShares
                          ELSE Credit(Walk[i - 1], Read[i - 1], Read[i], Parts[i])
<1>1. SamplesInv(Read) /\ RowsAt(now) = Read
  BY RowsSinceAre DEF IInv, Read
<1>2. Shares = Walk[Len(Read)]
  BY <1>1 DEF Shares, ComputeAttribution, AttributeWindow, Walk, Parts
<1>3. Len(Read) \in Nat
  BY <1>1, SamplesAre
<1> QED BY <1>1, <1>2, <1>3, TalliesAre DEF Walk

\* The two samples of an interval, and what the segments hold of it.
LEMMA Interval ==
    ASSUME IInv, NEW i \in 2 .. Len(Read)
    PROVE  /\ i \in Nat /\ i - 1 \in 1 .. Len(Read) /\ i \in 1 .. Len(Read)
           /\ Read[i - 1].ts \in Nat /\ Read[i].ts \in Nat
           /\ Read[i - 1].util \in Nat /\ Read[i].util \in Nat
           /\ Read[i - 1].ts < Read[i].ts
           /\ Read[i].ts - Read[i - 1].ts <= MaxNow
           /\ Parts[i] = Overlaps(SegmentsSince(segs, now), Read[i - 1].ts, Read[i].ts, now)
           /\ Apart(Parts[i], Read[i - 1].ts, Read[i].ts)
<1>1. SamplesInv(Read)
  BY WalkIs
<1>2. Len(Read) \in Nat
  BY <1>1, SamplesAre
<1>3. i - 1 \in 1 .. Len(Read) /\ i \in 1 .. Len(Read) /\ i - 1 < i /\ i \in Nat
  BY <1>2
<1>4. /\ Read[i - 1].ts \in Nat /\ Read[i].ts \in Nat
      /\ Read[i - 1].util \in Nat /\ Read[i].util \in Nat
  BY <1>1, <1>3, SamplesAre
<1>5. Read[i - 1].ts < Read[i].ts /\ Read[i].ts <= now
  BY <1>1, <1>3 DEF SamplesInv, SampleInv
<1>6. now \in Nat /\ now <= MaxNow /\ MaxNow \in Nat
  BY AttributionAssumption DEF IInv, TypeOK
<1>7. Parts[i] = Overlaps(SegmentsSince(segs, now), Read[i - 1].ts, Read[i].ts, now)
  BY DEF Parts, Held
<1>8. Apart(Parts[i], Read[i - 1].ts, Read[i].ts)
  BY <1>4, <1>6, <1>7, SegmentsSinceAre, OverlapsApart DEF IInv
<1>9. Read[i].ts - Read[i - 1].ts <= MaxNow
  BY <1>4, <1>5, <1>6
<1> QED BY <1>3, <1>4, <1>5, <1>7, <1>8, <1>9

-----------------------------------------------------------------------------
(* Nothing is lost. *)

Dropped(k) == \E i \in 2 .. k : Read[i].util < Read[i - 1].util

Billed(k) ==
    /\ Walk[k] \in Tally
    /\ Sum(Walk[k]) = Unit * (Read[k].util - (IF Dropped(k) THEN 0 ELSE Read[1].util))

\* What was billed up to p and what is billed from p to c, of u units a point.
LEMMA AmountsAdd ==
    ASSUME NEW u \in Nat, NEW f \in Nat, NEW p \in Nat, NEW c \in Nat
    PROVE  u * (p - f) + (c - p) * u = u * (c - f)
<1>1. u * (p - f) = u * p - u * f
  OBVIOUS
<1>2. (c - p) * u = c * u - p * u
  OBVIOUS
<1>3. u * (c - f) = u * c - u * f
  OBVIOUS
<1>4. u * p = p * u /\ u * c = c * u
  OBVIOUS
<1>5. u * p \in Int /\ u * f \in Int /\ u * c \in Int
  OBVIOUS
<1> QED BY <1>1, <1>2, <1>3, <1>4, <1>5

\* An interval bills the rise of the level since the sample before, or all of the
\* level after a drop.
LEMMA CreditAdds ==
    ASSUME IInv, NEW i \in 2 .. Len(Read), Billed(i - 1)
    PROVE  Billed(i)
<1> DEFINE p == Read[i - 1]
           c == Read[i]
           O == Parts[i]
           dropped == c.util < p.util
           amount == IF dropped THEN c.util ELSE c.util - p.util
           base == IF dropped THEN StartAnew(Walk[i - 1]) ELSE Walk[i - 1]
           first == IF Dropped(i - 1) THEN 0 ELSE Read[1].util
           Before == Unit * (p.util - first)
           Then == IF dropped THEN 0 ELSE Before
<1>0. Unit \in Nat
  BY AttributionAssumption
<1>1. /\ p.util \in Nat /\ c.util \in Nat /\ i \in Nat /\ i - 1 \in 1 .. Len(Read)
      /\ p.ts \in Nat /\ c.ts \in Nat /\ p.ts < c.ts /\ c.ts - p.ts <= MaxNow
      /\ Apart(O, p.ts, c.ts)
  BY Interval
<1>2. amount \in Nat
  BY <1>1
<1>3. Walk[i] = IF amount = 0 THEN base ELSE Distribute(base, amount, O)
  <2>1. i \in 0 .. Len(Read) /\ ~ (i < 2)
    BY <1>1
  <2>2. Walk[i] = Credit(Walk[i - 1], p, c, O)
    BY <2>1, WalkIs
  <2> QED BY <2>2, CreditIs
<1>4. Walk[i - 1] \in Tally /\ Sum(Walk[i - 1]) = Before
  BY DEF Billed
<1>5. base \in Tally /\ Sum(base) = Then
  BY <1>4, StartedAnew
<1>6. first \in Nat
  <2>1. SamplesInv(Read) /\ 1 \in 1 .. Len(Read)
    BY <1>1, WalkIs
  <2>2. Read[1].util \in Nat
    BY <2>1, SamplesAre
  <2> QED BY <2>2
<1>7. Before \in Int /\ Then \in Int
  <2> HIDE DEF first
  <2> QED BY <1>0, <1>1, <1>6
<1>8. Walk[i] \in Tally /\ Sum(Walk[i]) = Then + amount * Unit
  <2> HIDE DEF base, Then, Before, amount
  <2>1. CASE amount = 0
    <3>1. amount * Unit = 0
      BY <1>0, <2>1
    <3> QED BY <1>3, <1>5, <1>7, <2>1, <3>1
  <2>2. CASE amount # 0
    <3>1. p.ts <= c.ts
      BY <1>1
    <3> QED BY <1>1, <1>2, <1>3, <1>5, <2>2, <3>1, DistributeAdds
  <2> QED BY <2>1, <2>2
<1>9. Dropped(i) <=> Dropped(i - 1) \/ dropped
  <2>1. 2 .. i = (2 .. i - 1) \cup {i}
    BY <1>1
  <2> QED BY <2>1 DEF Dropped
<1>10. Then + amount * Unit = Unit * (c.util - (IF Dropped(i) THEN 0 ELSE Read[1].util))
  <2>1. CASE dropped
    <3>1. Then = 0 /\ amount = c.util /\ Dropped(i)
      BY <1>9, <2>1
    <3> HIDE DEF Then, amount
    <3>2. 0 + c.util * Unit = Unit * (c.util - 0)
      BY <1>0, <1>1
    <3> QED BY <3>1, <3>2
  <2>2. CASE ~ dropped
    <3>1. Then = Before /\ amount = c.util - p.util
      BY <2>2
    <3>2. first = IF Dropped(i) THEN 0 ELSE Read[1].util
      BY <1>9, <2>2
    <3> HIDE DEF Then, amount, first
    <3>3. Unit * (p.util - first) + (c.util - p.util) * Unit = Unit * (c.util - first)
      <4>1. Unit \in Nat /\ first \in Nat /\ p.util \in Nat /\ c.util \in Nat
        BY <1>0, <1>1, <1>6
      <4> HIDE DEF p, c
      <4> QED BY <4>1, AmountsAdd
    <3> QED BY <3>1, <3>2, <3>3
  <2> QED BY <2>1, <2>2
<1> QED BY <1>8, <1>10 DEF Billed

\* So it is up to each sample.
LEMMA AllSamplesAdd ==
    ASSUME IInv, NEW k \in 1 .. Len(Read)
    PROVE  Billed(k)
<1> DEFINE B == {j \in 1 .. Len(Read) : ~ Billed(j)}
<1> SUFFICES ASSUME B # {} PROVE FALSE
  OBVIOUS
<1>1. SamplesInv(Read) /\ Len(Read) \in Nat
  BY WalkIs, SamplesAre
<1>2. B \in SUBSET Nat
  OBVIOUS
<1>3. PICK i \in B : \A j \in B : i <= j
  <2> HIDE DEF B
  <2> QED BY <1>2, LeastNumber
<1>4. i # 1
  <2> SUFFICES Billed(1)
    OBVIOUS
  <2>1. Walk[1] = NoShares
    <3>1. 1 \in 0 .. Len(Read) /\ 1 < 2
      BY <1>1
    <3> QED BY <3>1, WalkIs
  <2>2. ~ Dropped(1)
    BY DEF Dropped
  <2>3. Read[1].util \in Nat
    <3>1. 1 \in 1 .. Len(Read)
      BY <1>1
    <3> QED BY <1>1, <3>1, SamplesAre
  <2>4. Unit \in Nat
    BY AttributionAssumption
  <2>5. Unit * (Read[1].util - Read[1].util) = 0
    BY <2>3, <2>4
  <2> QED BY <2>1, <2>2, <2>5, NoSharesYet DEF Billed
<1>5. i \in 2 .. Len(Read) /\ i - 1 \in 1 .. Len(Read) /\ ~ (i <= i - 1)
  BY <1>1, <1>4
<1>6. Billed(i - 1)
  BY <1>3, <1>5
<1> QED BY <1>3, <1>5, <1>6, CreditAdds

\* All shares and the rest make up what the samples say (distribute,
\* attributeWindow).
LEMMA NothingIsLost ==
    ASSUME IInv
    PROVE  NothingLost
<1> DEFINE n == Len(Read)
<1>1. n \in Nat /\ Shares = Walk[n]
  BY WalkIs, SamplesAre
<1> SUFFICES ASSUME n >= 2
             PROVE  Sum(Shares) = Unit * (Read[n].util - (IF Dropped(n) THEN 0 ELSE Read[1].util))
  BY DEF NothingLost, Dropped, Read
<1>2. n \in 1 .. Len(Read)
  BY <1>1
<1> QED BY <1>1, <1>2, AllSamplesAdd DEF Billed

-----------------------------------------------------------------------------
(* What is used of the account. *)

\* What was used is a number.
LEMMA UsedIs ==
    ASSUME NEW a \in Nat, NEW b \in Nat, NEW X
    PROVE  /\ IsFiniteSet({t \in a + 1 .. b : uses[t] \in X})
           /\ Used(a, b, X) \in Nat
<1> DEFINE T == {t \in a + 1 .. b : uses[t] \in X}
<1>1. IsFiniteSet(a + 1 .. b) /\ T \in SUBSET (a + 1 .. b)
  BY FS_Interval
<1>2. IsFiniteSet(T) /\ Cardinality(T) \in Nat
  <2> HIDE DEF T
  <2> QED BY <1>1, FS_Subset, FS_CardinalityType
<1> QED BY <1>2 DEF Used

\* A longer time, more users.
LEMMA UsedGrows ==
    ASSUME NEW a \in Nat, NEW b \in Nat, NEW c \in Nat, NEW d \in Nat, NEW X, NEW Y,
           c <= a, b <= d, \A t \in a + 1 .. b : uses[t] \in X => uses[t] \in Y
    PROVE  Used(a, b, X) <= Used(c, d, Y)
<1> DEFINE S == {t \in a + 1 .. b : uses[t] \in X}
           T == {t \in c + 1 .. d : uses[t] \in Y}
<1>1. S \in SUBSET T
  OBVIOUS
<1>2. IsFiniteSet(T)
  BY UsedIs
<1>3. Cardinality(S) <= Cardinality(T)
  <2> HIDE DEF S, T
  <2> QED BY <1>1, <1>2, FS_Subset
<1> QED BY <1>3 DEF Used

\* The same users, as far as the time goes.
LEMMA UsedSame ==
    ASSUME NEW a, NEW b, NEW X, NEW Y,
           \A t \in a + 1 .. b : uses[t] \in X <=> uses[t] \in Y
    PROVE  Used(a, b, X) = Used(a, b, Y)
<1>1. {t \in a + 1 .. b : uses[t] \in X} = {t \in a + 1 .. b : uses[t] \in Y}
  OBVIOUS
<1> QED BY <1>1 DEF Used

\* Who used it in no tick used nothing.
LEMMA UsedByNobody ==
    ASSUME NEW a, NEW b, NEW X, \A t \in a + 1 .. b : uses[t] \notin X
    PROVE  Used(a, b, X) = 0
<1>1. {t \in a + 1 .. b : uses[t] \in X} = {}
  OBVIOUS
<1> QED BY <1>1, FS_EmptySet DEF Used

\* One time after another.
LEMMA UsedAdds ==
    ASSUME NEW a \in Nat, NEW b \in Nat, NEW c \in Nat, a <= b, b <= c, NEW X
    PROVE  Used(a, c, X) = Used(a, b, X) + Used(b, c, X)
<1> DEFINE S == {t \in a + 1 .. b : uses[t] \in X}
           T == {t \in b + 1 .. c : uses[t] \in X}
           U == {t \in a + 1 .. c : uses[t] \in X}
<1>1. S \cup T = U /\ S \cap T = {}
  OBVIOUS
<1>2. IsFiniteSet(S) /\ IsFiniteSet(T)
  BY UsedIs
<1>3. Cardinality(S \cup T) = Cardinality(S) + Cardinality(T) - Cardinality(S \cap T)
  <2> HIDE DEF S, T
  <2> QED BY <1>2, FS_Union
<1>4. Cardinality(S) \in Nat /\ Cardinality(T) \in Nat /\ Cardinality({}) = 0
  BY <1>2, FS_CardinalityType, FS_EmptySet
<1>5. Cardinality(U) = Cardinality(S) + Cardinality(T)
  <2> HIDE DEF S, T, U
  <2>1. Cardinality(S \cup T) = Cardinality(U) /\ Cardinality(S \cap T) = 0
    BY <1>1, <1>4
  <2> QED BY <1>3, <1>4, <2>1
<1> QED BY <1>5 DEF Used

-----------------------------------------------------------------------------
(* An interval with one user. *)

\* A segment covers a tick when it had begun before and ends no sooner.
LEMMA CoveringIs ==
    ASSUME TypeOK, NEW t \in 1 .. now, NEW e
    PROVE  e \in Covering(t) <=>
             \E s \in segs : s.dev = e /\ s.started <= t - 1 /\ EndOf(s, now) >= t
<1>1. now \in Nat /\ t \in Nat /\ t - 1 \in Nat /\ segs \subseteq Segment
  BY DEF TypeOK
<1>2. ASSUME NEW s \in segs
      PROVE  LET o == Overlap(s, t - 1, t, now)
             IN  /\ o.dev = s.dev
                 /\ o.hi > o.lo <=> s.started <= t - 1 /\ EndOf(s, now) >= t
  <2> DEFINE o == Overlap(s, t - 1, t, now)
  <2>1. s \in Segment /\ s.started \in Nat
    BY <1>1 DEF Segment
  <2>2. /\ o \in Stretch /\ o.dev = s.dev /\ EndOf(s, now) \in Nat
        /\ s.started <= o.lo /\ t - 1 <= o.lo /\ o.hi <= t /\ o.hi <= EndOf(s, now)
        /\ o.lo \in {s.started, t - 1} /\ o.hi \in {EndOf(s, now), t}
    BY <1>1, <2>1, OverlapIs DEF Fits
  <2> HIDE DEF o
  <2>3. o.lo \in Nat /\ o.hi \in Nat
    BY <2>2 DEF Stretch
  <2>4. o.hi > o.lo <=> s.started <= t - 1 /\ EndOf(s, now) >= t
    BY <1>1, <2>1, <2>2, <2>3
  <2> QED BY <2>2, <2>4 DEF o
<1>3. e \in Covering(t) <=> \E o \in Overlaps(segs, t - 1, t, now) : o.dev = e
  BY DEF Covering
<1>4. e \in Covering(t) <=>
        \E s \in segs : Overlap(s, t - 1, t, now).dev = e
                        /\ Overlap(s, t - 1, t, now).hi > Overlap(s, t - 1, t, now).lo
  BY <1>3, OverlapsAre
<1> QED BY <1>2, <1>4

\* When one device alone covers an interval, its stretches alone are of it, and
\* one goes on to the end; when nobody does, there is none.
LEMMA CoveredByOne ==
    ASSUME TypeOK, NEW from \in Nat, NEW to \in Nat, from < to,
           to <= now, to >= now - Retention, NEW h,
           \A t \in from + 1 .. to : Covering(t) = h
    PROVE  LET O == Overlaps(SegmentsSince(segs, now), from, to, now)
           IN  /\ \A o \in O : o.dev \in h
               /\ \A d \in h : \E o \in O : o.hi = to
<1> DEFINE S == SegmentsSince(segs, now)
           O == Overlaps(S, from, to, now)
<1>1. O = Overlaps(S, from, to, now)
  OBVIOUS
<1>2. now \in Nat /\ Retention \in Nat
  BY AttributionAssumption DEF TypeOK
<1>3. S \subseteq segs /\ segs \subseteq Segment /\ TypeOK
  BY SegmentsSinceAre DEF TypeOK
<1>4. \A t \in from + 1 .. to : Covering(t) = h /\ t \in 1 .. now
  <2>1. \A t \in from + 1 .. to : t \in 1 .. now
    BY <1>1, <1>2
  <2> QED BY <2>1
<1>5. \A s \in segs : s.started \in Nat /\ EndOf(s, now) \in Nat
  BY <1>2, <1>3 DEF Segment, EndOf
<1> HIDE DEF O
<1>6. ASSUME NEW o \in O
      PROVE  o.dev \in h
  <2>1. PICK s \in S : o = Overlap(s, from, to, now) /\ o.hi > o.lo
    BY <1>1, OverlapsAre
  <2>2. s \in segs /\ s \in Segment
    BY <1>3
  <2>3. /\ o \in Stretch /\ o.dev = s.dev /\ s.started <= o.lo /\ from <= o.lo
        /\ o.hi <= to /\ o.hi <= EndOf(s, now)
    <3>1. Fits(Overlap(s, from, to, now), s, from, to, now)
      BY <1>2, <2>2, OverlapIs
    <3>2. Fits(o, s, from, to, now)
      BY <2>1, <3>1
    <3> QED BY <3>2 DEF Fits
  <2>4. o.lo \in Nat /\ o.hi \in Nat /\ s.started \in Nat /\ EndOf(s, now) \in Nat
    BY <1>5, <2>2, <2>3 DEF Stretch
  <2>5. o.lo + 1 \in from + 1 .. to
    BY <1>1, <2>1, <2>3, <2>4
  <2>6. s.started <= (o.lo + 1) - 1 /\ EndOf(s, now) >= o.lo + 1
    BY <2>1, <2>3, <2>4
  <2>7. o.dev \in Covering(o.lo + 1)
    BY <1>3, <1>4, <2>2, <2>3, <2>5, <2>6, CoveringIs
  <2> QED BY <1>4, <2>5, <2>7
<1>7. ASSUME NEW d \in h
      PROVE  \E o \in O : o.hi = to
  <2>1. to \in from + 1 .. to
    BY <1>1
  <2>2. d \in Covering(to) /\ to \in 1 .. now
    BY <1>4, <2>1
  <2>3. PICK s \in segs : s.dev = d /\ s.started <= to - 1 /\ EndOf(s, now) >= to
    BY <1>3, <2>2, CoveringIs
  <2> DEFINE o == Overlap(s, from, to, now)
  <2>4. s \in Segment /\ s.started \in Nat /\ EndOf(s, now) \in Nat
    BY <1>3, <1>5
  <2>5. /\ o \in Stretch /\ o.lo \in {s.started, from} /\ o.hi \in {EndOf(s, now), to}
        /\ o.hi <= to
    BY <1>1, <1>2, <2>4, OverlapIs DEF Fits
  <2> HIDE DEF o
  <2>6. o.hi = to /\ o.hi > o.lo
    BY <1>1, <2>3, <2>4, <2>5
  <2>7. s \in S
    <3>1. s.ended = Open \/ s.ended >= to
      BY <2>3 DEF EndOf
    <3>2. s.ended = Open \/ s.ended \in Nat
      BY <2>4 DEF Segment
    <3>3. s.ended = Open \/ s.ended >= now - Retention
      BY <1>1, <1>2, <3>1, <3>2
    <3> QED BY <3>3 DEF SegmentsSince
  <2>8. o \in O
    BY <1>1, <2>6, <2>7, OverlapsAre DEF o
  <2> QED BY <2>6, <2>8
<1> QED BY <1>6, <1>7 DEF O

\* When the segments cover every tick of an interval for h, what they hold of it is
\* of h, and is held to its end.
LEMMA HeldByOne ==
    ASSUME IInv, NEW i \in 2 .. Len(Read), NEW h,
           \A t \in Read[i - 1].ts + 1 .. Read[i].ts : Covering(t) = h
    PROVE  /\ \A o \in Parts[i] : o.dev \in h
           /\ \A d \in h : \E o \in Parts[i] : o.hi = Read[i].ts
<1>1. /\ Read[i - 1].ts \in Nat /\ Read[i].ts \in Nat /\ Read[i - 1].ts < Read[i].ts
      /\ Parts[i] = Overlaps(SegmentsSince(segs, now), Read[i - 1].ts, Read[i].ts, now)
  BY Interval
<1>2. Read[i].ts <= now /\ Read[i].ts >= now - Retention
  <2>1. SamplesInv(Read) /\ i \in 1 .. Len(Read)
    BY Interval, WalkIs
  <2>2. Read[i].ts <= now
    BY <2>1 DEF SamplesInv, SampleInv
  <2>3. \A j \in 1 .. Len(Read) : Read[j].ts >= now - Retention
    BY RowsSinceAre DEF IInv, Read
  <2> QED BY <2>1, <2>2, <2>3
<1>3. TypeOK
  BY DEF IInv
<1> DEFINE O == Overlaps(SegmentsSince(segs, now), Read[i - 1].ts, Read[i].ts, now)
<1>4. (\A o \in O : o.dev \in h) /\ \A d \in h : \E o \in O : o.hi = Read[i].ts
  BY <1>1, <1>2, <1>3, CoveredByOne
<1>5. Parts[i] = O
  BY <1>1
<1> HIDE DEF O
<1> QED BY <1>4, <1>5

\* The tally D is the other one with the amount given to d, until time `to`.
GivenTo(d, D, tally, amount, to) ==
    /\ D.rest = tally.rest
    /\ D.points[d] = tally.points[d] + amount * Unit /\ D.lastUsed[d] = to
    /\ \A e \in Devices \ {d} : /\ D.points[e] = tally.points[e]
                                /\ D.lastUsed[e] = tally.lastUsed[e]

\* Whoever held all of an interval is given all of its use.
LEMMA DistributeToOne ==
    ASSUME NEW from \in Nat, NEW to \in Nat, from <= to, to - from <= MaxNow,
           NEW O, Apart(O, from, to), NEW amount \in Nat, NEW tally \in Tally,
           NEW d \in Devices, \A o \in O : o.dev = d, \E o \in O : o.hi = to,
           tally.lastUsed[d] <= to
    PROVE  GivenTo(d, Distribute(tally, amount, O), tally, amount, to)
<1> DEFINE D == Distribute(tally, amount, O)
           points == [e \in Devices |->
                       tally.points[e] + (amount * Unit * Length(HeldBy(O, e))) \div Length(O)]
           last == [e \in Devices |-> Largest({tally.lastUsed[e]} \cup {o.hi : o \in HeldBy(O, e)})]
<1>1. /\ tally.points \in [Devices -> Nat] /\ tally.rest \in Nat
      /\ tally.lastUsed \in [Devices -> Nat]
  BY DEF Tally
<1>2. O # {} /\ Length(O) # 0
  BY LengthZero
<1>3. D = [tally EXCEPT !.points = points, !.lastUsed = last]
  BY <1>1, <1>2 DEF Distribute, Tally
<1>4. D.rest = tally.rest /\ D.points = points /\ D.lastUsed = last
  <2> HIDE DEF D, points, last
  <2> QED BY <1>1, <1>3 DEF Tally
<1>5. PICK part \in Nat :
        /\ amount * Unit = part * Length(O)
        /\ \A e \in Devices :
             /\ Length(HeldBy(O, e)) \in Nat
             /\ (amount * Unit * Length(HeldBy(O, e))) \div Length(O)
                  = part * Length(HeldBy(O, e))
  BY <1>2, Shared
<1>6. HeldBy(O, d) = O
  BY DEF HeldBy
<1>7. points[d] = tally.points[d] + amount * Unit
  BY <1>5, <1>6
<1>8. last[d] = to
  <2> DEFINE X == {tally.lastUsed[d]} \cup {o.hi : o \in HeldBy(O, d)}
  <2>1. tally.lastUsed[d] \in Nat
    BY <1>1
  <2>2. Largest(X) \in X /\ Largest(X) \in Nat /\ \A m \in X : m <= Largest(X)
    BY <2>1, LastUsedIs
  <2>3. to \in X
    BY <1>6
  <2>4. \A m \in X : m <= to
    BY <1>6 DEF Apart
  <2> HIDE DEF X
  <2>5. Largest(X) = to
    BY <2>2, <2>3, <2>4
  <2>6. last[d] = Largest(X)
    BY DEF X
  <2> QED BY <2>5, <2>6
<1>9. ASSUME NEW e \in Devices \ {d}
      PROVE  points[e] = tally.points[e] /\ last[e] = tally.lastUsed[e]
  <2>1. HeldBy(O, e) = {}
    BY DEF HeldBy
  <2>2. Length(HeldBy(O, e)) = 0
    <3>1. {} \in SUBSET O
      OBVIOUS
    <3>2. Length({}) = 0
      BY <3>1, ApartParts, LengthStep
    <3> QED BY <2>1, <3>2
  <2>3. (amount * Unit * Length(HeldBy(O, e))) \div Length(O) = 0
    BY <1>5, <2>2
  <2>4. tally.points[e] \in Nat /\ tally.lastUsed[e] \in Nat
    BY <1>1
  <2>5. points[e] = tally.points[e]
    BY <2>3, <2>4
  <2>6. last[e] = Largest({tally.lastUsed[e]} \cup {})
    BY <2>1
  <2>7. Largest({tally.lastUsed[e]}) = tally.lastUsed[e]
    BY <2>4 DEF Largest
  <2> QED BY <2>5, <2>6, <2>7
<1> HIDE DEF points, last, D
<1>10. GivenTo(d, D, tally, amount, to)
  BY <1>4, <1>7, <1>8, <1>9 DEF GivenTo
<1> QED BY <1>10 DEF D

\* Use of which nobody held anything is the rest.
LEMMA DistributeToNobody ==
    ASSUME NEW amount, NEW tally \in Tally
    PROVE  Distribute(tally, amount, {}) = [tally EXCEPT !.rest = @ + amount * Unit]
<1>1. Length({}) = 0
  <2>1. Apart({}, 0, 0)
    BY FS_EmptySet DEF Apart
  <2> QED BY <2>1, LengthStep
<1> QED BY <1>1 DEF Distribute

-----------------------------------------------------------------------------
(* Each is billed its own. *)

\* From when on the walk up to the k-th sample bills the use of its window.
Since(k) == Most(Read[1].ts, WindowStart(Read[k].window))

\* From when on the amount of the i-th interval was used.
Fresh(i) ==
    IF Read[i - 1].window = Read[i].window THEN Read[i - 1].ts
    ELSE WindowStart(Read[i].window)

Amount(i) ==
    IF Read[i].util < Read[i - 1].util THEN Read[i].util
    ELSE Read[i].util - Read[i - 1].util
Base(i) ==
    IF Read[i].util < Read[i - 1].util THEN StartAnew(Walk[i - 1]) ELSE Walk[i - 1]

\* An interval of the walk, in these terms.
LEMMA WalkStep ==
    ASSUME IInv, NEW i \in 2 .. Len(Read)
    PROVE  Walk[i] = IF Amount(i) = 0 THEN Base(i) ELSE Distribute(Base(i), Amount(i), Parts[i])
<1>1. i \in 0 .. Len(Read) /\ ~ (i < 2)
  BY Interval
<1>2. Walk[i] = Credit(Walk[i - 1], Read[i - 1], Read[i], Parts[i])
  BY <1>1, WalkIs
<1> QED BY <1>2 DEF Credit, Amount, Base

\* A window began at some time.
LEMMA WindowStartIs ==
    ASSUME TypeOK, NEW w \in 0 .. Len(rollovers)
    PROVE  WindowStart(w) \in Nat
<1>1. rollovers \in Seq(1 .. MaxNow) /\ MaxNow \in Nat
  BY AttributionAssumption DEF TypeOK
<1>2. CASE w = 0
  BY <1>2 DEF WindowStart
<1>3. CASE w # 0
  <2>1. w \in 1 .. Len(rollovers)
    BY <1>1, <1>3
  <2>2. rollovers[w] \in 1 .. MaxNow
    BY <1>1, <2>1
  <2> QED BY <1>1, <1>3, <2>2 DEF WindowStart
<1> QED BY <1>2, <1>3

\* A sample's window began before it, and bills from no later on.
LEMMA SampleIs ==
    ASSUME IInv, NEW k \in 1 .. Len(Read)
    PROVE  /\ Read[k].ts \in Nat /\ Read[k].util \in Nat /\ Read[k].window \in 0 .. Len(rollovers)
           /\ WindowStart(Read[k].window) \in Nat /\ WindowStart(Read[k].window) <= Read[k].ts
           /\ Read[1].ts \in Nat /\ Read[1].ts <= Read[k].ts
           /\ Since(k) \in Nat /\ Since(k) <= Read[k].ts
           /\ Since(k) \in {Read[1].ts, WindowStart(Read[k].window)}
           /\ Read[1].ts <= Since(k) /\ WindowStart(Read[k].window) <= Since(k)
           /\ ~ Read[k].gap => Read[k].util = Used(WindowStart(Read[k].window), Read[k].ts, Users)
<1>1. SamplesInv(Read) /\ Len(Read) \in Nat
  BY WalkIs, SamplesAre
<1>2. Read[k].ts \in Nat /\ Read[k].util \in Nat /\ Read[k].window \in Nat
  BY <1>1, SamplesAre
<1>3. SampleInv(Read[k])
  BY <1>1 DEF SamplesInv
<1>4. Read[k].window \in 0 .. Len(rollovers)
  <2>1. Len(rollovers) \in Nat
    BY DEF IInv, TypeOK
  <2> QED BY <1>2, <1>3, <2>1 DEF SampleInv
<1>5. WindowStart(Read[k].window) \in Nat
  BY <1>4, WindowStartIs DEF IInv
<1>6. 1 \in 1 .. Len(Read) /\ (k = 1 \/ 1 < k)
  BY <1>1
<1>7. Read[1].ts \in Nat /\ Read[1].ts <= Read[k].ts
  <2>1. Read[1].ts \in Nat
    BY <1>1, <1>6, SamplesAre
  <2>2. k = 1 \/ Read[1].ts < Read[k].ts
    BY <1>1, <1>6 DEF SamplesInv
  <2> QED BY <1>2, <2>1, <2>2
<1>8. /\ WindowStart(Read[k].window) <= Read[k].ts
      /\ ~ Read[k].gap => Read[k].util = Used(WindowStart(Read[k].window), Read[k].ts, Users)
  BY <1>3 DEF SampleInv
<1>9. /\ Since(k) \in {Read[1].ts, WindowStart(Read[k].window)}
      /\ Read[1].ts <= Since(k) /\ WindowStart(Read[k].window) <= Since(k)
  BY <1>5, <1>7, Between DEF Since
<1> QED BY <1>2, <1>4, <1>5, <1>7, <1>8, <1>9

\* What the levels of two samples say: the amount was used since Fresh(i), and
\* what was billed before it goes on in the same window and is dropped, or
\* nothing, in another.
LEMMA AmountIs ==
    ASSUME IInv, Complete(Read), Visible(Read), NEW i \in 2 .. Len(Read)
    PROVE  /\ Fresh(i) \in Nat /\ Read[i - 1].ts <= Fresh(i) /\ Fresh(i) <= Read[i].ts
           /\ Since(i) <= Fresh(i)
           /\ Amount(i) = Used(Fresh(i), Read[i].ts, Users)
           /\ \/ /\ Read[i].util >= Read[i - 1].util /\ Since(i) = Since(i - 1)
                 /\ Fresh(i) = Read[i - 1].ts
              \/ Since(i) = Fresh(i) /\ Read[i].util < Read[i - 1].util
              \/ Since(i) = Fresh(i) /\ Read[i - 1].util = 0 /\ Read[i].util >= Read[i - 1].util
<1> DEFINE p == Read[i - 1]
           c == Read[i]
           s == WindowStart(p.window)
           e == WindowStart(c.window)
<1>1. i - 1 \in 1 .. Len(Read) /\ i \in 1 .. Len(Read) /\ p.ts < c.ts
  BY Interval
<1>2. /\ p.ts \in Nat /\ p.util \in Nat /\ p.window \in 0 .. Len(rollovers)
      /\ s \in Nat /\ s <= p.ts
      /\ Read[1].ts \in Nat /\ Read[1].ts <= p.ts
      /\ ~ p.gap => p.util = Used(s, p.ts, Users)
  BY <1>1, SampleIs
<1>3. /\ c.ts \in Nat /\ c.util \in Nat /\ c.window \in 0 .. Len(rollovers)
      /\ e \in Nat /\ e <= c.ts
      /\ ~ c.gap => c.util = Used(e, c.ts, Users)
      /\ Since(i) \in Nat /\ Since(i) \in {Read[1].ts, e} /\ Read[1].ts <= Since(i) /\ e <= Since(i)
  BY <1>1, SampleIs
<1>4. ~ p.gap /\ ~ c.gap
  <2>1. DOMAIN Read = 1 .. Len(Read)
    BY WalkIs, SamplesAre
  <2> QED BY <1>1, <2>1 DEF Complete
<1>5. p.window = c.window \/ p.util = 0 \/ c.util < p.util
  BY DEF Visible
<1>6. CASE p.window = c.window
  <2>1. s = e /\ Fresh(i) = p.ts /\ Since(i) = Since(i - 1)
    BY <1>6 DEF Fresh, Since
  <2>2. Used(e, c.ts, Users) = Used(e, p.ts, Users) + Used(p.ts, c.ts, Users)
    BY <1>1, <1>2, <1>3, <2>1, UsedAdds
  <2>3. Used(p.ts, c.ts, Users) \in Nat
    BY <1>2, <1>3, UsedIs
  <2>4. c.util = p.util + Used(p.ts, c.ts, Users)
    <3>1. p.util = Used(s, p.ts, Users) /\ c.util = Used(e, c.ts, Users)
      BY <1>2, <1>3, <1>4
    <3> HIDE DEF p, c, s, e
    <3> QED BY <2>1, <2>2, <3>1
  <2>5. ~ (c.util < p.util) /\ c.util >= p.util /\ c.util - p.util = Used(p.ts, c.ts, Users)
    <3>1. c.util \in Nat /\ p.util \in Nat
      BY <1>2, <1>3
    <3> HIDE DEF p, c
    <3> QED BY <2>3, <2>4, <3>1
  <2>6. Amount(i) = Used(p.ts, c.ts, Users)
    BY <2>5 DEF Amount
  <2>7. Since(i) <= p.ts
    BY <1>2, <1>3, <2>1
  <2> QED BY <1>1, <1>2, <1>3, <2>1, <2>5, <2>6, <2>7
<1>7. CASE p.window # c.window
  <2>1. p.ts <= e
    <3>1. p.window <= c.window
      <4>1. SamplesInv(Read) /\ i - 1 < i
        BY <1>1, WalkIs
      <4> QED BY <1>1, <4>1 DEF SamplesInv
    <3>2. c.window \in p.window + 1 .. Len(rollovers) /\ c.window # 0
      <4>1. p.window \in 0 .. Len(rollovers) /\ c.window \in 0 .. Len(rollovers)
        BY <1>2, <1>3
      <4> HIDE DEF p, c
      <4> QED BY <1>7, <3>1, <4>1
    <3>3. SampleInv(p)
      BY <1>1, WalkIs DEF SamplesInv
    <3> QED BY <3>2, <3>3 DEF SampleInv, WindowStart
  <2>2. Fresh(i) = e /\ Since(i) = e
    <3>1. Fresh(i) = e
      BY <1>7 DEF Fresh
    <3>2. Since(i) = e
      <4> HIDE DEF e, p, c
      <4> QED BY <1>2, <1>3, <2>1
    <3> QED BY <3>1, <3>2
  <2>3. c.util = Used(e, c.ts, Users)
    BY <1>3, <1>4
  <2>4. Amount(i) = c.util
    <3>1. c.util < p.util \/ p.util = 0
      BY <1>5, <1>7
    <3> QED BY <1>2, <1>3, <3>1 DEF Amount
  <2>5. c.util < p.util \/ (p.util = 0 /\ c.util >= p.util)
    BY <1>2, <1>3, <1>5, <1>7
  <2>6. Since(i) <= Fresh(i)
    BY <1>3, <2>2
  <2> QED BY <1>3, <2>1, <2>2, <2>3, <2>4, <2>5, <2>6
<1> QED BY <1>6, <1>7

\* As far as the k-th sample: who used what of the window, and when.
UsedBy(k, d, n) ==
    \E i \in 2 .. k : n = Read[i].ts /\ Used(Read[i - 1].ts, Read[i].ts, {d}) > 0

Own(k) ==
    /\ Walk[k].rest = Unit * Used(Since(k), Read[k].ts, {Outside})
    /\ \A d \in Devices :
         /\ Walk[k].points[d] = Unit * Used(Since(k), Read[k].ts, {d})
         /\ Walk[k].lastUsed[d] # 0 => UsedBy(k, d, Walk[k].lastUsed[d])

\* A use counted twice, in the window and in the interval.
LEMMA UsedTogether ==
    ASSUME NEW u \in Nat, NEW a \in Nat, NEW b \in Nat, NEW c \in Nat, c = a + b
    PROVE  u * a + u * b = u * c /\ u * a + b * u = u * c
<1>1. u * (a + b) = u * a + u * b /\ u * b = b * u
  OBVIOUS
<1> QED BY <1>1

\* What the base holds is the window's use before the interval's.
LEMMA BaseIs ==
    ASSUME IInv, Complete(Read), Visible(Read), NEW i \in 2 .. Len(Read),
           Walk[i - 1] \in Tally, Own(i - 1)
    PROVE  /\ Base(i) \in Tally /\ Base(i).lastUsed = Walk[i - 1].lastUsed
           /\ Base(i).rest + Unit * Used(Fresh(i), Read[i].ts, {Outside})
                = Unit * Used(Since(i), Read[i].ts, {Outside})
           /\ \A d \in Devices :
                Base(i).points[d] + Unit * Used(Fresh(i), Read[i].ts, {d})
                  = Unit * Used(Since(i), Read[i].ts, {d})
<1> DEFINE p == Read[i - 1]
           c == Read[i]
           f == Fresh(i)
<1>0. Unit \in Nat
  BY AttributionAssumption
<1>1. i - 1 \in 1 .. Len(Read) /\ i \in 1 .. Len(Read)
  BY Interval
<1>2. /\ p.ts \in Nat /\ p.util \in Nat /\ WindowStart(p.window) \in Nat
      /\ Since(i - 1) \in Nat /\ Since(i - 1) <= p.ts /\ WindowStart(p.window) <= Since(i - 1)
      /\ ~ p.gap => p.util = Used(WindowStart(p.window), p.ts, Users)
  BY <1>1, SampleIs
<1>3. c.ts \in Nat /\ c.util \in Nat /\ Since(i) \in Nat
  BY <1>1, SampleIs
<1>4. /\ f \in Nat /\ p.ts <= f /\ f <= c.ts /\ Since(i) <= f
      /\ \/ c.util >= p.util /\ Since(i) = Since(i - 1) /\ f = p.ts
         \/ Since(i) = f /\ c.util < p.util
         \/ Since(i) = f /\ p.util = 0 /\ c.util >= p.util
  BY AmountIs
<1>5. ASSUME NEW X
      PROVE  /\ Used(Since(i), c.ts, X) = Used(Since(i), f, X) + Used(f, c.ts, X)
             /\ Used(Since(i), f, X) \in Nat /\ Used(f, c.ts, X) \in Nat
             /\ Used(Since(i), c.ts, X) \in Nat
  <2> HIDE DEF f, p, c
  <2>1. f \in Nat /\ f <= c.ts /\ Since(i) <= f
    BY <1>4
  <2>2. Used(Since(i), c.ts, X) = Used(Since(i), f, X) + Used(f, c.ts, X)
    BY <1>3, <2>1, UsedAdds
  <2>3. /\ Used(Since(i), f, X) \in Nat /\ Used(f, c.ts, X) \in Nat
        /\ Used(Since(i), c.ts, X) \in Nat
    BY <1>3, <2>1, UsedIs
  <2> QED BY <2>2, <2>3
<1>6. \A X : Since(i) = f => Used(Since(i), f, X) = 0
  <2> SUFFICES ASSUME NEW X, Since(i) = f PROVE Used(f, f, X) = 0
    BY Zenon
  <2>1. f + 1 .. f = {}
    BY <1>4
  <2> QED BY <2>1, UsedByNobody
<1> HIDE DEF f
<1>7. CASE c.util >= p.util
  <2>1. Base(i) = Walk[i - 1]
    BY <1>2, <1>3, <1>7 DEF Base
  <2>2. \A X : X = {Outside} \/ (\E d \in Devices : X = {d}) =>
          Used(Since(i - 1), p.ts, X) = Used(Since(i), f, X)
    <3> SUFFICES ASSUME NEW X, X = {Outside} \/ (\E d \in Devices : X = {d})
                 PROVE  Used(Since(i - 1), p.ts, X) = Used(Since(i), f, X)
      OBVIOUS
    <3>1. CASE Since(i) = Since(i - 1) /\ f = p.ts
      BY <3>1
    <3>2. CASE Since(i) = f /\ p.util = 0
      <4>1. ~ p.gap
        <5>1. DOMAIN Read = 1 .. Len(Read)
          BY WalkIs, SamplesAre
        <5> QED BY <1>1, <5>1 DEF Complete
      <4>2. Used(WindowStart(p.window), p.ts, Users) = 0
        BY <1>2, <3>2, <4>1
      <4>3. Used(Since(i - 1), p.ts, X) <= Used(WindowStart(p.window), p.ts, Users)
        <5>1. \A t \in Since(i - 1) + 1 .. p.ts : uses[t] \in X => uses[t] \in Users
          BY DEF Users
        <5>2. p.ts <= p.ts
          BY <1>2
        <5> QED BY <1>2, <5>1, <5>2, UsedGrows
      <4>4. Used(Since(i - 1), p.ts, X) \in Nat
        BY <1>2, UsedIs
      <4>5. Used(Since(i), f, X) = 0
        BY <1>6, <3>2
      <4> QED BY <4>2, <4>3, <4>4, <4>5
    <3> QED BY <1>2, <1>3, <1>4, <1>7, <3>1, <3>2
  <2>3. Base(i).rest = Unit * Used(Since(i), f, {Outside})
    BY <2>1, <2>2 DEF Own
  <2>4. \A d \in Devices : Base(i).points[d] = Unit * Used(Since(i), f, {d})
    BY <2>1, <2>2 DEF Own
  <2>5. Base(i).rest + Unit * Used(f, c.ts, {Outside}) = Unit * Used(Since(i), c.ts, {Outside})
    BY <1>0, <1>5, <2>3, UsedTogether
  <2>6. ASSUME NEW d \in Devices
        PROVE  Base(i).points[d] + Unit * Used(f, c.ts, {d}) = Unit * Used(Since(i), c.ts, {d})
    <3>1. /\ Used(Since(i), c.ts, {d}) = Used(Since(i), f, {d}) + Used(f, c.ts, {d})
          /\ Used(Since(i), f, {d}) \in Nat /\ Used(f, c.ts, {d}) \in Nat
          /\ Used(Since(i), c.ts, {d}) \in Nat
      BY <1>5
    <3> HIDE DEF p, c
    <3>2. Unit * Used(Since(i), f, {d}) + Unit * Used(f, c.ts, {d})
            = Unit * Used(Since(i), c.ts, {d})
      BY <1>0, <3>1, UsedTogether
    <3> QED BY <2>4, <3>2
  <2> QED BY <2>1, <2>5, <2>6 DEF f
<1>8. CASE c.util < p.util
  <2>1. Base(i) = StartAnew(Walk[i - 1])
    BY <1>8 DEF Base
  <2>2. Base(i) \in Tally
    BY <2>1, StartedAnew
  <2>3. /\ Base(i).rest = 0 /\ Base(i).lastUsed = Walk[i - 1].lastUsed
        /\ \A d \in Devices : Base(i).points[d] = 0
    <3>1. StartAnew(Walk[i - 1]) = [Walk[i - 1] EXCEPT !.points = Nobody, !.rest = 0]
      BY DEF StartAnew
    <3>2. /\ StartAnew(Walk[i - 1]).rest = 0 /\ StartAnew(Walk[i - 1]).points = Nobody
          /\ StartAnew(Walk[i - 1]).lastUsed = Walk[i - 1].lastUsed
      BY <3>1 DEF Tally
    <3> QED BY <2>1, <3>2 DEF Nobody
  <2>4. Since(i) = f
    BY <1>2, <1>3, <1>4, <1>8
  <2>5. \A X : 0 + Unit * Used(f, c.ts, X) = Unit * Used(Since(i), c.ts, X)
    <3> SUFFICES ASSUME NEW X PROVE 0 + Unit * Used(f, c.ts, X) = Unit * Used(f, c.ts, X)
      BY <2>4
    <3>1. Used(f, c.ts, X) \in Nat
      BY <1>5
    <3>2. Unit * Used(f, c.ts, X) \in Nat
      BY <1>0, <3>1
    <3> QED BY <3>2
  <2> QED BY <2>2, <2>3, <2>5 DEF f
<1> QED BY <1>2, <1>3, <1>7, <1>8

\* Who was seen to use the account before was seen by the next sample, too.
LEMMA UsedByGrows ==
    ASSUME NEW i \in Nat, NEW d, NEW n, UsedBy(i - 1, d, n)
    PROVE  UsedBy(i, d, n)
<1>1. 2 .. i - 1 \subseteq 2 .. i
  OBVIOUS
<1> QED BY <1>1 DEF UsedBy

\* A time of last use is no later than the sample.
LEMMA UsedByEarlier ==
    ASSUME IInv, NEW i \in 2 .. Len(Read), NEW d, NEW n, UsedBy(i - 1, d, n)
    PROVE  n <= Read[i].ts
<1>1. PICK j \in 2 .. i - 1 : n = Read[j].ts
  BY DEF UsedBy
<1>2. SamplesInv(Read) /\ Len(Read) \in Nat
  BY WalkIs, SamplesAre
<1>3. j \in 1 .. Len(Read) /\ i \in 1 .. Len(Read) /\ j < i
  BY <1>2
<1>4. Read[j].ts < Read[i].ts /\ Read[j].ts \in Nat /\ Read[i].ts \in Nat
  BY <1>2, <1>3, SamplesAre DEF SamplesInv
<1> QED BY <1>1, <1>4

\* Nobody used the account but one, since a time in the interval.
LEMMA SoleUse ==
    ASSUME NEW f \in Nat, NEW to \in Nat, NEW x \in Users,
           \A t \in f + 1 .. to : uses[t] \in {x, None}
    PROVE  /\ Used(f, to, Users) = Used(f, to, {x})
           /\ \A y \in Users \ {x} : Used(f, to, {y}) = 0
<1>1. None \notin Users
  BY AttributionAssumption DEF Users
<1>2. \A t \in f + 1 .. to : uses[t] \in Users <=> uses[t] \in {x}
  BY <1>1
<1>3. ASSUME NEW y \in Users \ {x}
      PROVE  Used(f, to, {y}) = 0
  <2>1. \A t \in f + 1 .. to : uses[t] \notin {y}
    BY <1>1
  <2> QED BY <2>1, UsedByNobody
<1> QED BY <1>2, <1>3, UsedSame

\* An interval that one device held and used bills it what it used; one that nobody
\* held goes to the rest.
LEMMA OwnStep ==
    ASSUME IInv, Complete(Read), Visible(Read), Undivided(Read), NEW i \in 2 .. Len(Read),
           Own(i - 1)
    PROVE  Own(i)
<1> DEFINE from == Read[i - 1].ts
           to == Read[i].ts
           f == Fresh(i)
           O == Parts[i]
           base == Base(i)
           amount == Amount(i)
           W == Walk[i]
           s == Since(i)
<1>0. Unit \in Nat /\ Outside \notin Devices /\ Outside \in Users /\ Devices \subseteq Users
  BY AttributionAssumption DEF Users
<1>1. /\ i \in Nat /\ from \in Nat /\ to \in Nat /\ from < to /\ from <= to
      /\ to - from <= MaxNow /\ Apart(O, from, to) /\ i - 1 \in 1 .. Len(Read)
      /\ i \in 2 .. i
  <2>1. /\ i \in Nat /\ from \in Nat /\ to \in Nat /\ from < to
        /\ to - from <= MaxNow /\ Apart(O, from, to) /\ i - 1 \in 1 .. Len(Read)
    BY Interval
  <2> QED BY <2>1
<1>2. Walk[i - 1] \in Tally
  BY <1>1, AllSamplesAdd DEF Billed
<1>3. f \in Nat /\ from <= f /\ f <= to /\ s <= f /\ amount = Used(f, to, Users)
  BY AmountIs
<1>4. /\ base \in Tally /\ base.lastUsed = Walk[i - 1].lastUsed
      /\ base.rest + Unit * Used(f, to, {Outside}) = Unit * Used(s, to, {Outside})
      /\ \A d \in Devices :
           base.points[d] + Unit * Used(f, to, {d}) = Unit * Used(s, to, {d})
  BY <1>2, BaseIs
<1>5. base.rest \in Nat /\ \A d \in Devices : base.points[d] \in Nat /\ base.lastUsed[d] \in Nat
  BY <1>4 DEF Tally
<1>6. ASSUME NEW d \in Devices
      PROVE  base.lastUsed[d] # 0 => /\ UsedBy(i, d, base.lastUsed[d])
                                     /\ base.lastUsed[d] <= to
  <2> SUFFICES ASSUME base.lastUsed[d] # 0
               PROVE  UsedBy(i, d, base.lastUsed[d]) /\ base.lastUsed[d] <= to
    OBVIOUS
  <2>1. UsedBy(i - 1, d, base.lastUsed[d])
    BY <1>4 DEF Own
  <2> QED BY <1>1, <2>1, UsedByGrows, UsedByEarlier
<1>7. W = IF amount = 0 THEN base ELSE Distribute(base, amount, O)
  BY WalkStep
<1>8. \A X : Used(f, to, X) \in Nat
  BY <1>1, <1>3, UsedIs
<1>9. amount \in Nat
  BY <1>3, <1>8
<1>10. \A d \in Devices : base.lastUsed[d] <= to
  <2> SUFFICES ASSUME NEW d \in Devices PROVE base.lastUsed[d] <= to
    OBVIOUS
  <2>1. base.lastUsed[d] \in Nat
    BY <1>5
  <2> QED BY <1>1, <1>6, <2>1
<1> SUFFICES /\ W.rest = Unit * Used(s, to, {Outside})
             /\ \A d \in Devices :
                  /\ W.points[d] = Unit * Used(s, to, {d})
                  /\ W.lastUsed[d] # 0 => UsedBy(i, d, W.lastUsed[d])
  BY DEF Own
<1> HIDE DEF base, amount, O, W, s
<1>11. CASE amount = 0
  <2>1. W = base
    BY <1>7, <1>11
  <2>2. ASSUME NEW x \in Users
        PROVE  Unit * Used(f, to, {x}) = 0
    <3>1. \A t \in f + 1 .. to : uses[t] \in {x} => uses[t] \in Users
      OBVIOUS
    <3>2. Used(f, to, {x}) <= Used(f, to, Users)
      <4>1. f <= f /\ to <= to
        BY <1>1, <1>3
      <4> HIDE DEF f, to
      <4> QED BY <1>1, <1>3, <3>1, <4>1, UsedGrows
    <3>3. Used(f, to, {x}) \in Nat
      BY <1>8
    <3>4. Used(f, to, {x}) = 0
      BY <1>3, <1>11, <3>2, <3>3
    <3> QED BY <1>0, <3>4
  <2>3. W.rest = Unit * Used(s, to, {Outside})
    BY <1>0, <1>4, <1>5, <2>1, <2>2
  <2>4. \A d \in Devices : W.points[d] = Unit * Used(s, to, {d})
    <3> SUFFICES ASSUME NEW d \in Devices PROVE W.points[d] = Unit * Used(s, to, {d})
      OBVIOUS
    <3>1. base.points[d] \in Nat /\ Unit * Used(f, to, {d}) = 0
      BY <1>0, <1>5, <2>2
    <3>2. base.points[d] + Unit * Used(f, to, {d}) = Unit * Used(s, to, {d})
      BY <1>4
    <3> QED BY <2>1, <3>1, <3>2
  <2> QED BY <1>6, <2>1, <2>3, <2>4
<1>12. CASE amount # 0
  <2>1. W = Distribute(base, amount, O)
    BY <1>7, <1>12
  <2>2. PICK h \in {{d} : d \in Devices} \cup {{}} :
          \A t \in from + 1 .. to :
            /\ Covering(t) = h
            /\ uses[t] \in (IF h = {} THEN {Outside} ELSE h) \cup {None}
    BY DEF Undivided, OneUser
  <2>3. (\A o \in O : o.dev \in h) /\ \A d \in h : \E o \in O : o.hi = to
    BY <2>2, HeldByOne DEF O
  <2>4. \A t \in f + 1 .. to : t \in from + 1 .. to
    BY <1>1, <1>3
  <2>5. CASE h = {}
    <3>1. O = {}
      BY <2>3, <2>5
    <3>2. \A t \in f + 1 .. to : uses[t] \in {Outside, None}
      BY <2>2, <2>4, <2>5
    <3>3. /\ Used(f, to, Users) = Used(f, to, {Outside})
          /\ \A y \in Users \ {Outside} : Used(f, to, {y}) = 0
      <4>1. f \in Nat /\ to \in Nat /\ Outside \in Users
        BY <1>0, <1>1, <1>3
      <4> HIDE DEF f, to
      <4> QED BY <3>2, <4>1, SoleUse
    <3>4. W = [base EXCEPT !.rest = @ + amount * Unit]
      BY <1>4, <2>1, <3>1, DistributeToNobody
    <3>5. /\ W.rest = base.rest + amount * Unit /\ W.points = base.points
          /\ W.lastUsed = base.lastUsed
      BY <1>4, <3>4 DEF Tally
    <3>6. W.rest = Unit * Used(s, to, {Outside})
      <4>1. amount * Unit = Unit * Used(f, to, {Outside})
        BY <1>0, <1>3, <1>9, <3>3
      <4> QED BY <1>4, <3>5, <4>1
    <3>7. ASSUME NEW d \in Devices
          PROVE  W.points[d] = Unit * Used(s, to, {d})
      <4>1. Used(f, to, {d}) = 0
        BY <1>0, <3>3
      <4>2. Unit * Used(f, to, {d}) = 0 /\ base.points[d] \in Nat
        BY <1>0, <1>5, <4>1
      <4>3. base.points[d] + Unit * Used(f, to, {d}) = Unit * Used(s, to, {d})
        BY <1>4
      <4> QED BY <3>5, <4>2, <4>3
    <3> QED BY <1>6, <3>5, <3>6, <3>7
  <2>6. ASSUME NEW d \in Devices, h = {d}
        PROVE  /\ W.rest = Unit * Used(s, to, {Outside})
               /\ \A e \in Devices :
                    /\ W.points[e] = Unit * Used(s, to, {e})
                    /\ W.lastUsed[e] # 0 => UsedBy(i, e, W.lastUsed[e])
    <3>1. (\A o \in O : o.dev = d) /\ \E o \in O : o.hi = to
      BY <2>3, <2>6
    <3>2. \A t \in f + 1 .. to : uses[t] \in {d, None}
      BY <2>2, <2>4, <2>6
    <3>3. /\ Used(f, to, Users) = Used(f, to, {d})
          /\ \A y \in Users \ {d} : Used(f, to, {y}) = 0
      <4>1. f \in Nat /\ to \in Nat /\ d \in Users
        BY <1>0, <1>1, <1>3
      <4> HIDE DEF f, to
      <4> QED BY <3>2, <4>1, SoleUse
    <3>4. /\ W.rest = base.rest
          /\ W.points[d] = base.points[d] + amount * Unit /\ W.lastUsed[d] = to
          /\ \A e \in Devices \ {d} : /\ W.points[e] = base.points[e]
                                      /\ W.lastUsed[e] = base.lastUsed[e]
      <4>1. /\ from \in Nat /\ to \in Nat /\ from <= to /\ to - from <= MaxNow
            /\ Apart(O, from, to) /\ amount \in Nat /\ base \in Tally
            /\ base.lastUsed[d] <= to
        BY <1>1, <1>4, <1>9, <1>10
      <4> HIDE DEF from, to
      <4>2. GivenTo(d, W, base, amount, to)
        BY <2>1, <3>1, <4>1, DistributeToOne
      <4> QED BY <4>2 DEF GivenTo
    <3>5. W.rest = Unit * Used(s, to, {Outside})
      <4>1. Used(f, to, {Outside}) = 0
        BY <1>0, <3>3
      <4>2. Unit * Used(f, to, {Outside}) = 0
        BY <1>0, <4>1
      <4> QED BY <1>4, <1>5, <3>4, <4>2
    <3>6. W.points[d] = Unit * Used(s, to, {d})
      <4>1. amount * Unit = Unit * Used(f, to, {d})
        BY <1>0, <1>3, <1>9, <3>3
      <4> QED BY <1>4, <3>4, <4>1
    <3>7. UsedBy(i, d, W.lastUsed[d])
      <4>1. Used(f, to, {d}) > 0
        BY <1>3, <1>9, <1>12, <3>3
      <4>2. Used(f, to, {d}) <= Used(from, to, {d})
        <5>1. to <= to /\ \A t \in f + 1 .. to : uses[t] \in {d} => uses[t] \in {d}
          BY <1>1
        <5> HIDE DEF f, from, to
        <5> QED BY <1>1, <1>3, <5>1, UsedGrows
      <4>3. Used(from, to, {d}) \in Nat
        BY <1>1, UsedIs
      <4>4. Used(from, to, {d}) > 0
        BY <1>8, <4>1, <4>2, <4>3
      <4> QED BY <1>1, <3>4, <4>4 DEF UsedBy
    <3>8. ASSUME NEW e \in Devices \ {d}
          PROVE  /\ W.points[e] = Unit * Used(s, to, {e})
                 /\ W.lastUsed[e] # 0 => UsedBy(i, e, W.lastUsed[e])
      <4>1. Used(f, to, {e}) = 0
        BY <1>0, <3>3
      <4>2. Unit * Used(f, to, {e}) = 0 /\ base.points[e] \in Nat
        BY <1>0, <1>5, <4>1
      <4>3. base.points[e] + Unit * Used(f, to, {e}) = Unit * Used(s, to, {e})
        BY <1>4
      <4>4. W.points[e] = base.points[e] /\ W.lastUsed[e] = base.lastUsed[e]
        BY <3>4
      <4> QED BY <1>6, <4>2, <4>3, <4>4
    <3> QED BY <3>5, <3>6, <3>7, <3>8
  <2>7. h = {} \/ \E d \in Devices : h = {d}
    OBVIOUS
  <2> QED BY <2>5, <2>6, <2>7
<1> QED BY <1>11, <1>12

\* At the first sample nothing is billed, and nothing was seen to be used.
LEMMA OwnStart ==
    ASSUME IInv, 1 \in 1 .. Len(Read)
    PROVE  Own(1)
<1>1. Walk[1] = NoShares
  <2>1. 1 \in 0 .. Len(Read) /\ 1 < 2
    BY WalkIs, SamplesAre
  <2> QED BY <2>1, WalkIs
<1>2. /\ NoShares.rest = 0
      /\ \A d \in Devices : NoShares.points[d] = 0 /\ NoShares.lastUsed[d] = 0
  BY DEF NoShares, Nobody
<1>3. Since(1) = Read[1].ts /\ Read[1].ts \in Nat
  BY SampleIs
<1>4. ASSUME NEW X
      PROVE  Unit * Used(Since(1), Read[1].ts, X) = 0
  <2>1. Read[1].ts + 1 .. Read[1].ts = {}
    BY <1>3
  <2>2. Used(Read[1].ts, Read[1].ts, X) = 0
    BY <2>1, UsedByNobody
  <2>3. Unit \in Nat
    BY AttributionAssumption
  <2> QED BY <1>3, <2>2, <2>3
<1> QED BY <1>1, <1>2, <1>4 DEF Own

\* So it is up to each sample.
LEMMA AllOwn ==
    ASSUME IInv, Complete(Read), Visible(Read), Undivided(Read), NEW k \in 1 .. Len(Read)
    PROVE  Own(k)
<1> DEFINE B == {j \in 1 .. Len(Read) : ~ Own(j)}
<1> SUFFICES ASSUME B # {} PROVE FALSE
  OBVIOUS
<1>1. Len(Read) \in Nat
  BY WalkIs, SamplesAre
<1>2. B \in SUBSET Nat
  OBVIOUS
<1>3. PICK i \in B : \A j \in B : i <= j
  <2> HIDE DEF B
  <2> QED BY <1>2, LeastNumber
<1>4. i # 1
  BY <1>1, OwnStart
<1>5. i \in 2 .. Len(Read) /\ i - 1 \in 1 .. Len(Read) /\ ~ (i <= i - 1)
  BY <1>1, <1>4
<1>6. Own(i - 1)
  BY <1>3, <1>5
<1> QED BY <1>3, <1>5, <1>6, OwnStep

\* Each device is billed what it used of the current window, and was last used when it
\* did use the account (attributeWindow).
LEMMA EachIsBilledItsOwn ==
    ASSUME IInv
    PROVE  EachItsOwn
<1> DEFINE n == Len(Read)
<1>1. n \in Nat /\ Shares = Walk[n]
  BY WalkIs, SamplesAre
<1> SUFFICES ASSUME n >= 2, Complete(Read), Undivided(Read), Visible(Read)
             PROVE  /\ Shares.rest = Unit * UsedInWindow(Read, {Outside})
                    /\ \A d \in Devices :
                         /\ Shares.points[d] = Unit * UsedInWindow(Read, {d})
                         /\ Shares.lastUsed[d] # 0 =>
                              \E i \in 2 .. n :
                                 /\ Shares.lastUsed[d] = Read[i].ts
                                 /\ Used(Read[i - 1].ts, Read[i].ts, {d}) > 0
  BY DEF EachItsOwn, Read
<1>2. n \in 1 .. Len(Read)
  BY <1>1
<1>3. Own(n)
  BY <1>2, AllOwn
<1> QED BY <1>1, <1>3 DEF Own, UsedBy, UsedInWindow, Since

-----------------------------------------------------------------------------
(* The state keeps the invariant. *)

\* What the constants are.
LEMMA Parameters ==
    /\ IsFiniteSet(Devices) /\ TTL \in Nat /\ TTL > 0 /\ Retention \in Nat
    /\ Outside \notin Devices /\ None \notin Devices /\ Outside # None
    /\ None \notin [dev : Devices, expires : Nat]
    /\ MaxNow \in Nat /\ MaxHolds \in Nat /\ MaxGaps \in Nat /\ MaxRollovers \in Nat
BY AttributionAssumption

\* It holds at the start.
LEMMA InitInv ==
    ASSUME Init
    PROVE  IInv
<1>1. TypeOK
  BY Parameters DEF Init, TypeOK
<1>2. SegmentsInv
  BY FS_EmptySet DEF Init, SegmentsInv
<1>3. WindowsInv
  BY DEF Init, WindowsInv
<1>4. RowsInv
  BY DEF Init, RowsInv
<1> QED BY <1>1, <1>2, <1>3, <1>4 DEF IInv

\* A sample stays true when time passes, whatever is used then, and when a new
\* window begins.
LEMMA SampleStays ==
    ASSUME TypeOK, NEW r \in Sample, SampleInv(r),
           now' \in Nat, now <= now', \A t \in 1 .. now : uses'[t] = uses[t],
           Len(rollovers') \in Nat, Len(rollovers) <= Len(rollovers'),
           \A w \in 1 .. Len(rollovers) : rollovers'[w] = rollovers[w],
           \A w \in Len(rollovers) + 1 .. Len(rollovers') : rollovers'[w] = now
    PROVE  SampleInv(r)'
<1>1. r.ts \in Nat /\ r.window \in Nat /\ now \in Nat /\ Len(rollovers) \in Nat
  BY DEF Sample, TypeOK
<1>2. r.ts <= now' /\ r.window <= Len(rollovers')
  BY <1>1 DEF SampleInv
<1>3. WindowStart(r.window)' = WindowStart(r.window)
  <2>1. r.window = 0 \/ r.window \in 1 .. Len(rollovers)
    BY <1>1 DEF SampleInv
  <2> QED BY <2>1 DEF WindowStart
<1>4. ASSUME NEW w \in r.window + 1 .. Len(rollovers')
      PROVE  r.ts <= rollovers'[w]
  <2>1. CASE w <= Len(rollovers)
    <3>1. w \in r.window + 1 .. Len(rollovers) /\ w \in 1 .. Len(rollovers)
      BY <1>1, <2>1
    <3> QED BY <3>1 DEF SampleInv
  <2>2. CASE ~ (w <= Len(rollovers))
    <3>1. w \in Len(rollovers) + 1 .. Len(rollovers')
      BY <1>1, <2>2
    <3> QED BY <3>1 DEF SampleInv
  <2> QED BY <2>1, <2>2
<1>5. Used(WindowStart(r.window), r.ts, Users)' = Used(WindowStart(r.window), r.ts, Users)
  <2>1. \A t \in WindowStart(r.window) + 1 .. r.ts : t \in 1 .. now
    <3>1. WindowStart(r.window) \in Nat
      <4>1. r.window \in 0 .. Len(rollovers)
        BY <1>1 DEF SampleInv
      <4> QED BY <4>1, WindowStartIs
    <3> QED BY <1>1, <3>1 DEF SampleInv
  <2>2. {t \in WindowStart(r.window) + 1 .. r.ts : uses'[t] \in Users}
          = {t \in WindowStart(r.window) + 1 .. r.ts : uses[t] \in Users}
    BY <2>1
  <2> QED BY <1>3, <2>2 DEF Used, Users
<1> QED BY <1>2, <1>3, <1>4, <1>5 DEF SampleInv

\* Segments stay in the past.
LEMMA SegmentsStay ==
    ASSUME TypeOK, SegmentsInv, UNCHANGED leasing, now' \in Nat, now <= now'
    PROVE  SegmentsInv'
<1>1. now \in Nat /\ \A s \in segs : s.started \in Nat /\ (s.ended = Open \/ s.ended \in Nat)
  BY DEF TypeOK, Segment
<1>2. segs' = segs /\ lease' = lease
  BY DEF leasing
<1>3. \A s \in segs : /\ s.started <= now'
                      /\ s.ended # Open => s.started <= s.ended /\ s.ended <= now'
  BY <1>1 DEF SegmentsInv
<1> QED BY <1>2, <1>3 DEF SegmentsInv, Precedes

\* Rows stay true while samples do.
LEMMA RowsStay ==
    ASSUME TypeOK, RowsInv, UNCHANGED rows, \A r \in Sample : SampleInv(r) => SampleInv(r)'
    PROVE  RowsInv'
<1>1. rows' = rows /\ \A i \in DOMAIN rows : rows[i] \in Sample
  BY DEF TypeOK
<1>2. \A r \in Sample : SampleInv(r) => SampleInv(r)'
  OBVIOUS
<1>3. \A i \in DOMAIN rows : SampleInv(rows[i])
  BY DEF RowsInv
<1>4. \A i \in DOMAIN rows' : SampleInv(rows[i])'
  BY <1>1, <1>2, <1>3 DEF SampleInv, Used, WindowStart, Users
<1>5. \A i, j \in DOMAIN rows' :
        i < j => rows'[i].ts < rows'[j].ts /\ rows'[i].window <= rows'[j].window
  BY <1>1 DEF RowsInv
<1> QED BY <1>4, <1>5 DEF RowsInv, SampleInv, Used, WindowStart, Users

\* Time passes: what was used before is not changed.
LEMMA TickKeeps ==
    ASSUME IInv, NEW u \in Users \cup {None}, Tick(u)
    PROVE  IInv'
<1>1. TypeOK /\ SegmentsInv /\ WindowsInv /\ RowsInv
  BY DEF IInv
<1>2. /\ now' = now + 1 /\ uses' = Append(uses, u) /\ now < MaxNow
      /\ UNCHANGED <<rollovers, leasing, polling>>
  BY DEF Tick
<1>3. now \in Nat /\ uses \in Seq(Users \cup {None}) /\ Len(uses) = now
  BY <1>1 DEF TypeOK
<1>4. TypeOK'
  <2>1. uses' \in Seq(Users \cup {None}) /\ Len(uses') = now'
    BY <1>2, <1>3
  <2>2. now' \in 0 .. MaxNow
    BY <1>2, <1>3, Parameters
  <2>3. rollovers' = rollovers /\ lease' = lease /\ segs' = segs /\ rows' = rows /\ gaps' = gaps
    BY <1>2 DEF leasing, polling
  <2> QED BY <1>1, <2>1, <2>2, <2>3 DEF TypeOK, Users
<1>5. SegmentsInv'
  BY <1>1, <1>2, <1>3, SegmentsStay
<1>6. WindowsInv'
  <2>1. \A w \in DOMAIN rollovers : rollovers[w] \in Nat
    BY <1>1, Parameters DEF TypeOK
  <2> QED BY <1>1, <1>2, <1>3, <2>1 DEF WindowsInv
<1>7. RowsInv'
  <2>1. \A t \in 1 .. now : uses'[t] = uses[t]
    BY <1>2, <1>3
  <2>2. Len(rollovers') \in Nat /\ Len(rollovers) <= Len(rollovers') /\ rollovers' = rollovers
    BY <1>1, <1>2 DEF TypeOK
  <2>3. \A w \in Len(rollovers) + 1 .. Len(rollovers') : rollovers'[w] = now
    BY <2>2
  <2>4. now' \in Nat /\ now <= now'
    BY <1>2, <1>3
  <2>5. \A r \in Sample : SampleInv(r) => SampleInv(r)'
    BY <1>1, <2>1, <2>2, <2>3, <2>4, SampleStays
  <2> QED BY <1>1, <1>2, <2>5, RowsStay DEF polling
<1> QED BY <1>4, <1>5, <1>6, <1>7 DEF IInv

\* A window begins after every sample of the windows before.
LEMMA RolloverKeeps ==
    ASSUME IInv, Rollover
    PROVE  IInv'
<1>1. TypeOK /\ SegmentsInv /\ WindowsInv /\ RowsInv
  BY DEF IInv
<1>2. /\ rollovers' = Append(rollovers, now) /\ now' = now /\ uses' = uses
      /\ UNCHANGED <<leasing, polling>> /\ now > WindowStart(Len(rollovers))
  BY DEF Rollover
<1>3. /\ now \in 0 .. MaxNow /\ now \in Nat /\ Len(rollovers) \in Nat
      /\ rollovers \in Seq(1 .. MaxNow) /\ DOMAIN rollovers = 1 .. Len(rollovers)
  BY <1>1, Parameters DEF TypeOK
<1>4. /\ Len(rollovers') = Len(rollovers) + 1 /\ rollovers'[Len(rollovers) + 1] = now
      /\ \A w \in 1 .. Len(rollovers) : rollovers'[w] = rollovers[w]
      /\ DOMAIN rollovers' = 1 .. Len(rollovers) + 1
  BY <1>2, <1>3
<1>5. TypeOK'
  <2>1. now \in 1 .. MaxNow
    <3>1. WindowStart(Len(rollovers)) \in Nat
      BY <1>1, <1>3, WindowStartIs
    <3> QED BY <1>2, <1>3, <3>1
  <2>2. rollovers' \in Seq(1 .. MaxNow)
    BY <1>2, <1>3, <2>1
  <2>3. lease' = lease /\ segs' = segs /\ rows' = rows /\ gaps' = gaps
    BY <1>2 DEF leasing, polling
  <2> QED BY <1>1, <1>2, <2>2, <2>3 DEF TypeOK, Users
<1>6. SegmentsInv'
  <2>1. now' \in Nat /\ now <= now' /\ UNCHANGED leasing
    BY <1>2, <1>3
  <2> QED BY <1>1, <2>1, SegmentsStay
<1>7. WindowsInv'
  <2>0. now' = now /\ DOMAIN rollovers' = 1 .. Len(rollovers) + 1
    BY <1>2, <1>4
  <2> SUFFICES ASSUME NEW w \in 1 .. Len(rollovers) + 1
               PROVE  rollovers'[w] <= now /\ \A v \in 1 .. w : rollovers'[v] <= rollovers'[w]
    BY <2>0 DEF WindowsInv
  <2>1. \A v \in 1 .. Len(rollovers) : rollovers'[v] <= now /\ rollovers'[v] \in Nat
    <3>1. ASSUME NEW v \in 1 .. Len(rollovers) PROVE rollovers[v] \in Nat
      <4>1. rollovers \in Seq(1 .. MaxNow) /\ MaxNow \in Nat
        BY <1>3, Parameters
      <4>2. rollovers[v] \in 1 .. MaxNow
        BY <4>1
      <4> QED BY <4>1, <4>2
    <3>2. \A v \in 1 .. Len(rollovers) : rollovers[v] <= now
      BY <1>1, <1>3 DEF WindowsInv
    <3> QED BY <1>4, <3>1, <3>2
  <2>2. CASE w = Len(rollovers) + 1
    BY <1>3, <1>4, <2>1, <2>2
  <2>3. CASE w # Len(rollovers) + 1
    <3>1. w \in 1 .. Len(rollovers) /\ \A v \in 1 .. w : v \in 1 .. Len(rollovers)
      BY <1>3, <2>3
    <3>2. \A v \in 1 .. w : rollovers[v] <= rollovers[w]
      BY <1>1, <1>3, <3>1 DEF WindowsInv
    <3> QED BY <1>4, <2>1, <3>1, <3>2
  <2> QED BY <2>2, <2>3
<1>8. RowsInv'
  <2>1. \A t \in 1 .. now : uses'[t] = uses[t]
    BY <1>2
  <2>2. Len(rollovers') \in Nat /\ Len(rollovers) <= Len(rollovers')
    BY <1>3, <1>4
  <2>3. \A w \in Len(rollovers) + 1 .. Len(rollovers') : rollovers'[w] = now
    BY <1>3, <1>4
  <2>4. now' \in Nat /\ now <= now'
    BY <1>2, <1>3
  <2>5. \A r \in Sample : SampleInv(r) => SampleInv(r)'
    BY <1>1, <1>4, <2>1, <2>2, <2>3, <2>4, SampleStays
  <2> QED BY <1>1, <1>2, <2>5, RowsStay DEF polling
<1> QED BY <1>5, <1>6, <1>7, <1>8 DEF IInv

\* Steps that move neither the clock nor the provider nor the poller.
LEMMA LeasesAlone ==
    ASSUME IInv, UNCHANGED <<now, provider, polling>>,
           lease' \in {None} \cup [dev : Devices, expires : Nat],
           segs' \subseteq Segment, SegmentsInv'
    PROVE  IInv'
<1>1. TypeOK /\ WindowsInv /\ RowsInv
  BY DEF IInv
<1>2. now' = now /\ uses' = uses /\ rollovers' = rollovers /\ rows' = rows /\ gaps' = gaps
  BY DEF provider, polling
<1>3. TypeOK'
  BY <1>1, <1>2 DEF TypeOK, Users
<1>4. WindowsInv'
  BY <1>1, <1>2 DEF WindowsInv
<1>5. RowsInv'
  BY <1>1, <1>2 DEF RowsInv, SampleInv, WindowStart, Used, Users
<1> QED BY <1>3, <1>4, <1>5 DEF IInv

\* Closing what runs at a time between.
LEMMA ClosedSegments ==
    ASSUME TypeOK, SegmentsInv, NEW t \in Nat, t <= now,
           \A s \in segs : s.ended = Open => s.started <= t
    PROVE  /\ Closed(segs, t) \subseteq Segment /\ IsFiniteSet(Closed(segs, t))
           /\ \A s \in Closed(segs, t) :
                s.ended # Open /\ s.started <= s.ended /\ s.ended <= now
           /\ \A s, r \in Closed(segs, t) : s = r \/ Precedes(s, r) \/ Precedes(r, s)
<1> DEFINE C(s) == IF s.ended = Open THEN [s EXCEPT !.ended = t] ELSE s
           f == [s \in segs |-> C(s)]
<1>1. segs \subseteq Segment /\ IsFiniteSet(segs) /\ now \in Nat /\ t # Open
  BY DEF TypeOK, SegmentsInv, Open
<1>2. Closed(segs, t) = {C(s) : s \in segs}
  BY DEF Closed
<1>3. IsFiniteSet(Closed(segs, t))
  <2>1. Closed(segs, t) = {f[s] : s \in segs}
    BY <1>2
  <2> HIDE DEF f
  <2> QED BY <1>1, <2>1, FiniteImage
<1>4. ASSUME NEW s \in segs
      PROVE  /\ C(s) \in Segment /\ C(s).started = s.started /\ C(s).ended # Open
             /\ s.ended # Open => C(s).ended = s.ended
             /\ C(s).started <= C(s).ended /\ C(s).ended <= now
  <2>1. s \in Segment /\ s.started \in Nat /\ s.ended \in Nat \cup {Open}
    BY <1>1 DEF Segment
  <2>2. CASE s.ended = Open
    <3>1. C(s) = [s EXCEPT !.ended = t]
      BY <2>2
    <3>2. C(s) \in Segment /\ C(s).started = s.started /\ C(s).ended = t
      BY <2>1, <3>1 DEF Segment
    <3> HIDE DEF C
    <3> QED BY <1>1, <2>2, <3>2
  <2>3. CASE s.ended # Open
    <3>1. C(s) = s
      BY <2>3
    <3> HIDE DEF C
    <3> QED BY <2>1, <2>3, <3>1 DEF SegmentsInv
  <2> QED BY <2>2, <2>3
<1>5. ASSUME NEW s \in segs, NEW r \in segs, Precedes(s, r)
      PROVE  Precedes(C(s), C(r))
  <2> HIDE DEF C
  <2> QED BY <1>4, <1>5 DEF Precedes
<1> HIDE DEF C
<1>6. \A s, r \in Closed(segs, t) : s = r \/ Precedes(s, r) \/ Precedes(r, s)
  <2> SUFFICES ASSUME NEW s \in segs, NEW r \in segs
               PROVE  C(s) = C(r) \/ Precedes(C(s), C(r)) \/ Precedes(C(r), C(s))
    BY <1>2
  <2>1. s = r \/ Precedes(s, r) \/ Precedes(r, s)
    BY DEF SegmentsInv
  <2> QED BY <1>5, <2>1
<1> QED BY <1>2, <1>3, <1>4, <1>6

\* What an acquire or a sweep finds closed.
LEMMA CloseExpiredIs ==
    ASSUME TypeOK, SegmentsInv, ~ Live
    PROVE  /\ CloseExpired \subseteq Segment /\ IsFiniteSet(CloseExpired)
           /\ \A s \in CloseExpired :
                s.ended # Open /\ s.started <= s.ended /\ s.ended <= now
           /\ \A s, r \in CloseExpired : s = r \/ Precedes(s, r) \/ Precedes(r, s)
<1>1. CASE lease = None
  <2>1. CloseExpired = segs
    BY <1>1 DEF CloseExpired
  <2> QED BY <1>1, <2>1 DEF TypeOK, SegmentsInv
<1>2. CASE lease # None
  <2>1. CloseExpired = Closed(segs, lease.expires)
    BY <1>2 DEF CloseExpired
  <2>2. lease.expires \in Nat /\ now \in Nat
    BY <1>2 DEF TypeOK
  <2>3. lease.expires <= now
    BY <1>2, <2>2 DEF Live
  <2>4. \A s \in segs : s.ended = Open => s.started <= lease.expires
    BY <2>2 DEF SegmentsInv, TypeOK, Segment
  <2> QED BY <2>1, <2>2, <2>3, <2>4, ClosedSegments
<1> QED BY <1>1, <1>2

\* An acquire closes what was left open and begins the one segment that runs.
LEMMA AcquireKeeps ==
    ASSUME IInv, NEW d \in Devices, Acquire(d)
    PROVE  IInv'
<1> DEFINE new == [dev |-> d, started |-> now, ended |-> Open]
<1>1. TypeOK /\ SegmentsInv /\ now \in Nat
  BY DEF IInv, TypeOK
<1>2. /\ lease' = [dev |-> d, expires |-> now + TTL]
      /\ segs' = CloseExpired \cup {new}
      /\ UNCHANGED <<now, provider, polling>> /\ ~ Live /\ now' = now
  BY DEF Acquire
<1>3. /\ CloseExpired \subseteq Segment /\ IsFiniteSet(CloseExpired)
      /\ \A s \in CloseExpired : s.ended # Open /\ s.started <= s.ended /\ s.ended <= now
      /\ \A s, r \in CloseExpired : s = r \/ Precedes(s, r) \/ Precedes(r, s)
  BY <1>1, <1>2, CloseExpiredIs
<1>4. /\ new \in Segment /\ new.started = now /\ new.ended = Open
  BY <1>1 DEF Segment
<1>5. lease' \in {None} \cup [dev : Devices, expires : Nat]
  BY <1>1, <1>2, Parameters
<1>6. lease' # None /\ lease'.expires = now + TTL
  <2>1. lease'.expires = now + TTL
    BY <1>2
  <2>2. None \notin [dev : Devices, expires : Nat]
    BY Parameters
  <2> QED BY <1>1, <1>2, <2>1, <2>2, Parameters
<1> HIDE DEF new
<1>7. segs' \subseteq Segment
  BY <1>2, <1>3, <1>4
<1>8. SegmentsInv'
  <2>1. IsFiniteSet(segs')
    BY <1>2, <1>3, FS_AddElement
  <2>2. ASSUME NEW s \in segs'
        PROVE  /\ s.started <= now'
               /\ s.ended = Open => lease' # None /\ s.started < lease'.expires
               /\ s.ended # Open => s.started <= s.ended /\ s.ended <= now'
    <3>1. CASE s \in CloseExpired
      <4>1. s.started \in Nat /\ s.ended \in Nat
        BY <1>3, <3>1 DEF Segment
      <4> QED BY <1>1, <1>2, <1>3, <3>1, <4>1
    <3>2. CASE s = new
      <4>1. now < now + TTL
        BY <1>1, Parameters
      <4> QED BY <1>1, <1>2, <1>4, <1>6, <3>2, <4>1
    <3> QED BY <1>2, <3>1, <3>2
  <2>3. \A s, r \in segs' : s = r \/ Precedes(s, r) \/ Precedes(r, s)
    <3>1. \A s \in CloseExpired : Precedes(s, new)
      BY <1>3, <1>4 DEF Precedes
    <3> QED BY <1>2, <1>3, <3>1
  <2> QED BY <2>1, <2>2, <2>3 DEF SegmentsInv, Precedes
<1> QED BY <1>2, <1>5, <1>7, <1>8, LeasesAlone

\* A renewal moves the deadline on.
LEMMA RenewKeeps ==
    ASSUME IInv, Renew
    PROVE  IInv'
<1>1. TypeOK /\ SegmentsInv /\ now \in Nat
  BY DEF IInv, TypeOK
<1>2. /\ lease # None /\ lease' = [lease EXCEPT !.expires = now + TTL]
      /\ UNCHANGED <<now, provider, segs, polling>> /\ segs' = segs /\ now' = now
  BY DEF Renew, Live
<1>3. lease \in [dev : Devices, expires : Nat] /\ now + TTL \in Nat /\ now < now + TTL
  BY <1>1, <1>2, Parameters DEF TypeOK
<1>4. lease' \in [dev : Devices, expires : Nat] /\ lease'.expires = now + TTL
  BY <1>2, <1>3
<1>5. lease' # None
  BY <1>4, Parameters
<1>6. segs' \subseteq Segment
  BY <1>1, <1>2 DEF TypeOK
<1>7. SegmentsInv'
  <2>1. \A s \in segs : s.started \in Nat /\ s.started <= now
    BY <1>1 DEF TypeOK, Segment, SegmentsInv
  <2>2. \A s \in segs : s.started < lease'.expires
    BY <1>1, <1>3, <1>4, <2>1
  <2> QED BY <1>1, <1>2, <1>5, <2>2 DEF SegmentsInv, Precedes
<1> QED BY <1>2, <1>4, <1>6, <1>7, LeasesAlone

\* What a step leaves that frees the account.
LEMMA FreedKeeps ==
    ASSUME IInv, UNCHANGED <<now, provider, polling>>, lease' = None,
           segs' \subseteq Segment, IsFiniteSet(segs'),
           \A s \in segs' : s.ended # Open /\ s.started <= s.ended /\ s.ended <= now,
           \A s, r \in segs' : s = r \/ Precedes(s, r) \/ Precedes(r, s)
    PROVE  IInv'
<1>1. SegmentsInv'
  <2>1. now' = now /\ now \in Nat
    BY DEF IInv, TypeOK
  <2>2. \A s \in segs' : s.started \in Nat /\ s.ended \in Nat
    BY DEF Segment
  <2>3. \A s \in segs' : s.started <= now
    BY <2>1, <2>2
  <2> QED BY <2>1, <2>3 DEF SegmentsInv, Precedes
<1> QED BY <1>1, LeasesAlone

\* A release closes the segment now.
LEMMA ReleaseKeeps ==
    ASSUME IInv, Release
    PROVE  IInv'
<1>1. TypeOK /\ SegmentsInv /\ now \in Nat /\ now <= now
  BY DEF IInv, TypeOK
<1>2. /\ lease' = None /\ segs' = Closed(segs, now)
      /\ UNCHANGED <<now, provider, polling>>
  BY DEF Release
<1>3. \A s \in segs : s.ended = Open => s.started <= now
  BY <1>1 DEF SegmentsInv
<1>4. /\ Closed(segs, now) \subseteq Segment /\ IsFiniteSet(Closed(segs, now))
      /\ \A s \in Closed(segs, now) :
           s.ended # Open /\ s.started <= s.ended /\ s.ended <= now
      /\ \A s, r \in Closed(segs, now) : s = r \/ Precedes(s, r) \/ Precedes(r, s)
  BY <1>1, <1>3, ClosedSegments
<1> QED BY <1>2, <1>4, FreedKeeps

\* A sweep closes it at its deadline, which has passed.
LEMMA SweepKeeps ==
    ASSUME IInv, Sweep
    PROVE  IInv'
<1>1. TypeOK /\ SegmentsInv
  BY DEF IInv
<1>2. /\ lease' = None /\ segs' = CloseExpired /\ ~ Live
      /\ UNCHANGED <<now, provider, polling>>
  BY DEF Sweep
<1> QED BY <1>1, <1>2, CloseExpiredIs, FreedKeeps

\* The row a poll adds.
NewRow(gap) ==
    [ts |-> now, util |-> IF gap THEN 0 ELSE Level, window |-> Len(rollovers), gap |-> gap]

\* It is true: the level is what was used since the window began.
LEMMA NewRowIs ==
    ASSUME IInv, NEW gap \in BOOLEAN
    PROVE  NewRow(gap) \in Sample /\ SampleInv(NewRow(gap))
<1>1. TypeOK /\ WindowsInv /\ now \in Nat /\ Len(rollovers) \in Nat /\ Len(rollovers) \in 0 .. Len(rollovers)
  BY DEF IInv, TypeOK
<1>2. WindowStart(Len(rollovers)) \in Nat
  BY <1>1, WindowStartIs
<1>3. WindowStart(Len(rollovers)) <= now
  <2>1. Len(rollovers) = 0 \/ Len(rollovers) \in DOMAIN rollovers
    BY <1>1 DEF TypeOK
  <2> QED BY <1>1, <2>1 DEF WindowStart, WindowsInv
<1>4. Level \in Nat
  <2>1. IsFiniteSet({t \in WindowStart(Len(rollovers)) + 1 .. now : uses[t] \in Users})
    <3>1. IsFiniteSet(WindowStart(Len(rollovers)) + 1 .. now)
      BY <1>1, <1>2, FS_Interval
    <3> QED BY <3>1, FS_Subset
  <2> QED BY <2>1, FS_CardinalityType DEF Level, Used
<1>5. /\ NewRow(gap).ts = now /\ NewRow(gap).window = Len(rollovers)
      /\ NewRow(gap).gap = gap /\ NewRow(gap).util = IF gap THEN 0 ELSE Level
  BY DEF NewRow
<1>6. NewRow(gap) \in Sample
  BY <1>1, <1>4 DEF NewRow, Sample
<1>7. Len(rollovers) + 1 .. Len(rollovers) = {}
  BY <1>1
<1>8. SampleInv(NewRow(gap))
  BY <1>1, <1>3, <1>5, <1>7 DEF SampleInv, Level
<1> QED BY <1>6, <1>8

\* A poll adds the latest sample and forgets the oldest.
LEMMA PollKeeps ==
    ASSUME IInv, NEW gap \in BOOLEAN, Poll(gap)
    PROVE  IInv'
<1> DEFINE R == RowsSince(now)
           new == NewRow(gap)
<1>1. TypeOK /\ SegmentsInv /\ WindowsInv /\ RowsInv /\ now \in Nat
  BY DEF IInv, TypeOK
<1>2. /\ rows' = Append(R, new) /\ UNCHANGED <<now, provider, leasing>>
      /\ gaps' = gaps + (IF gap THEN 1 ELSE 0) /\ (gap => gaps < MaxGaps)
      /\ \A i \in DOMAIN rows : rows[i].ts < now
  BY DEF Poll, NewRow
<1>3. /\ now' = now /\ uses' = uses /\ rollovers' = rollovers /\ lease' = lease /\ segs' = segs
  BY <1>2 DEF provider, leasing
<1>4. new \in Sample /\ SampleInv(new) /\ new.ts = now /\ new.window = Len(rollovers)
  BY NewRowIs DEF NewRow
<1> HIDE DEF new
<1>5. /\ R \in Seq(Sample) /\ Len(R) \in Nat
      /\ \A i \in 1 .. Len(R) :
           SampleInv(R[i]) /\ R[i].ts < now /\ R[i].window <= Len(rollovers)
      /\ \A i, j \in 1 .. Len(R) : i < j => R[i].ts < R[j].ts /\ R[i].window <= R[j].window
  <2>1. SamplesInv(R)
    BY <1>1, RowsSinceAre
  <2>2. PICK a \in 0 .. Len(rows) :
          /\ Len(R) = Len(rows) - a
          /\ \A i \in 1 .. Len(rows) - a : i + a \in DOMAIN rows /\ R[i] = rows[i + a]
    BY <1>1, RowsSinceAre
  <2> HIDE DEF R
  <2>3. R \in Seq(Sample) /\ Len(R) \in Nat
    BY <2>1 DEF SamplesInv
  <2>4. \A i \in 1 .. Len(R) : R[i].ts < now
    BY <1>2, <2>2
  <2>5. \A i \in 1 .. Len(R) : SampleInv(R[i]) /\ R[i].window <= Len(rollovers)
    BY <2>1 DEF SamplesInv, SampleInv
  <2> QED BY <2>1, <2>3, <2>4, <2>5 DEF SamplesInv
<1> HIDE DEF R
<1>6. /\ Len(rows') = Len(R) + 1 /\ rows'[Len(R) + 1] = new /\ rows' \in Seq(Sample)
      /\ \A i \in 1 .. Len(R) : rows'[i] = R[i]
      /\ DOMAIN rows' = 1 .. Len(R) + 1
  BY <1>2, <1>4, <1>5
<1>7. gaps' \in 0 .. MaxGaps
  BY <1>1, <1>2, Parameters DEF TypeOK
<1>8. TypeOK'
  BY <1>1, <1>3, <1>6, <1>7 DEF TypeOK, Users
<1>9. SegmentsInv'
  BY <1>1, <1>3 DEF SegmentsInv, Precedes
<1>10. WindowsInv'
  BY <1>1, <1>3 DEF WindowsInv
<1>11. RowsInv'
  <2>1. \A r \in Sample : SampleInv(r) => SampleInv(r)'
    BY <1>3 DEF SampleInv, Used, WindowStart, Users
  <2>2. ASSUME NEW i \in 1 .. Len(R) + 1
        PROVE  SampleInv(rows[i])'
    <3>1. PICK r \in Sample : rows'[i] = r /\ SampleInv(r)
      <4>1. i = Len(R) + 1 \/ i \in 1 .. Len(R)
        BY <1>5
      <4> QED BY <1>4, <1>5, <1>6, <4>1
    <3>2. SampleInv(r)'
      BY <2>1, <3>1
    <3> QED BY <3>1, <3>2 DEF SampleInv, Used, WindowStart, Users
  <2>3. ASSUME NEW i \in 1 .. Len(R) + 1, NEW j \in 1 .. Len(R) + 1, i < j
        PROVE  rows'[i].ts < rows'[j].ts /\ rows'[i].window <= rows'[j].window
    <3>1. i \in 1 .. Len(R) /\ rows'[i] = R[i]
      BY <1>5, <1>6, <2>3
    <3>2. CASE j = Len(R) + 1
      BY <1>4, <1>5, <1>6, <3>1, <3>2
    <3>3. CASE j # Len(R) + 1
      <4>1. j \in 1 .. Len(R)
        BY <1>5, <3>3
      <4> QED BY <1>5, <1>6, <2>3, <3>1, <4>1
    <3> QED BY <3>2, <3>3
  <2> QED BY <1>6, <2>2, <2>3 DEF RowsInv
<1> QED BY <1>8, <1>9, <1>10, <1>11 DEF IInv

\* A step that changes nothing keeps it.
LEMMA StutterKeeps ==
    ASSUME IInv, UNCHANGED vars
    PROVE  IInv'
<1>1. /\ now' = now /\ uses' = uses /\ rollovers' = rollovers /\ lease' = lease
      /\ segs' = segs /\ rows' = rows /\ gaps' = gaps
  BY DEF vars, provider, leasing, polling
<1>2. RowsInv'
  BY <1>1 DEF IInv, RowsInv, SampleInv, WindowStart, Used, Users
<1>3. SegmentsInv' /\ WindowsInv' /\ TypeOK'
  BY <1>1 DEF IInv, SegmentsInv, Precedes, WindowsInv, TypeOK, Users
<1> QED BY <1>2, <1>3 DEF IInv

\* So does every step.
LEMMA NextKeeps ==
    ASSUME IInv, [Next]_vars
    PROVE  IInv'
<1>1. CASE \E u \in Users \cup {None} : Tick(u)
  BY <1>1, TickKeeps
<1>2. CASE Rollover
  BY <1>2, RolloverKeeps
<1>3. CASE \E d \in Devices : Acquire(d)
  BY <1>3, AcquireKeeps
<1>4. CASE Renew
  BY <1>4, RenewKeeps
<1>5. CASE Release
  BY <1>5, ReleaseKeeps
<1>6. CASE Sweep
  BY <1>6, SweepKeeps
<1>7. CASE \E gap \in BOOLEAN : Poll(gap)
  BY <1>7, PollKeeps
<1>8. CASE UNCHANGED vars
  BY <1>8, StutterKeeps
<1> QED BY <1>1, <1>2, <1>3, <1>4, <1>5, <1>6, <1>7, <1>8 DEF Next

\* In every state, whatever leases, rollovers, lapsed leases and late sweeps came
\* before: all shares and the rest make up what the samples say; each device is billed
\* what it used and nothing else, where the samples tell; and an answer depends on
\* nothing that happened after it read the samples (ComputeAttribution,
\* attributeWindow, distribute).
THEOREM EachUseIsBilledOnce == Spec => []AttributionInv
<1>1. Init => IInv
  BY InitInv
<1>2. IInv /\ [Next]_vars => IInv'
  BY NextKeeps
<1>3. IInv => AttributionInv
  BY NothingIsLost, EachIsBilledItsOwn, AnswersAreOfTheirMoment DEF IInv, AttributionInv
<1> QED BY <1>1, <1>2, <1>3, PTL DEF Spec

-----------------------------------------------------------------------------
(* The row of the account (TokenRotation): tokens. *)

\* The parameters are numbers, and there is a first grant and a lifetime.
LEMMA TokenParameters ==
    /\ Lifetime \in Nat \ {0} /\ Strikes \in Nat \ {0} /\ MaxLogins \in Nat \ {0}
    /\ Floor \in Nat /\ Pause \in Nat
    /\ MaxOps \in Nat /\ MaxTurns \in Nat /\ MaxFaults \in Nat
BY TokenAssumption DEF Row!RotationAssumption

\* No token is None.
LEMMA TokensAreReal == None \notin Row!Token
<1>1. MaxLogins \in Nat /\ None \notin [grant : Nat, live : BOOLEAN]
  BY TokenAssumption DEF Row!RotationAssumption
<1>2. Row!Token \subseteq [grant : Nat, live : BOOLEAN]
  <2>1. 1 .. MaxLogins \subseteq Nat
    BY <1>1
  <2> QED BY <2>1 DEF Row!Token
<1> QED BY <1>1, <1>2

\* A new token can be spent, and is of the grant it was issued for.
LEMMA FreshToken ==
    ASSUME NEW g \in 1 .. MaxLogins
    PROVE  /\ Row!Fresh(g) \in Row!Token /\ Row!Fresh(g) # None
           /\ Row!Fresh(g).live /\ Row!Fresh(g).grant = g
<1>1. Row!Fresh(g) \in Row!Token /\ Row!Fresh(g).live /\ Row!Fresh(g).grant = g
  BY DEF Row!Fresh, Row!Token
<1> QED BY <1>1, TokensAreReal

\* A grant that dies leaves tokens tokens.
LEMMA DeadToken ==
    ASSUME NEW t \in Row!Token \cup {None}, NEW g \in 1 .. MaxLogins
    PROVE  /\ Row!Dead(t, g) \in Row!Token \cup {None}
           /\ t # None => Row!Dead(t, g) # None
<1>1. CASE t # None /\ t.grant = g
  <2>1. Row!Dead(t, g) = [t EXCEPT !.live = FALSE]
    BY <1>1 DEF Row!Dead
  <2>2. [t EXCEPT !.live = FALSE] \in Row!Token
    BY <1>1 DEF Row!Token
  <2> QED BY <2>1, <2>2, TokensAreReal
<1>2. CASE ~ (t # None /\ t.grant = g)
  BY <1>2 DEF Row!Dead
<1> QED BY <1>1, <1>2

\* The one who spends a token has a new one, and everybody else what they had,
\* dead or not.
LEMMA SpentTokens ==
    ASSUME has \in [Row!Holders -> Row!Token \cup {None}], has["row"] # None,
           NEW h \in Row!Holders, has[h] # None
    PROVE  /\ Row!Spent(h) \in [Row!Holders -> Row!Token \cup {None}]
           /\ Row!Spent(h)["row"] # None
           /\ Row!Spent(h)[h] # None /\ Row!Spent(h)[h].live
           /\ \A x \in Row!Holders \ {h} : Row!Spent(h)[x] = Row!Dead(has[x], has[h].grant)
<1> DEFINE g == has[h].grant
<1>1. has[h] \in Row!Token /\ g \in 1 .. MaxLogins
  BY DEF Row!Token
<1>2. Row!Fresh(g) \in Row!Token /\ Row!Fresh(g) # None /\ Row!Fresh(g).live
  BY <1>1, FreshToken
<1>3. \A x \in Row!Holders : Row!Dead(has[x], g) \in Row!Token \cup {None}
  BY <1>1, DeadToken
<1>4. "row" \in Row!Holders /\ Row!Dead(has["row"], g) # None
  BY <1>1, DeadToken DEF Row!Holders
<1> QED BY <1>2, <1>3, <1>4 DEF Row!Spent

\* Whose answer is lost has no token, and the row still has one, if a dead one.
LEMMA VainTokens ==
    ASSUME has \in [Row!Holders -> Row!Token \cup {None}], has["row"] # None,
           NEW h \in Row!Holders \ {"row"}, has[h] # None
    PROVE  /\ Row!SpentInVain(h) \in [Row!Holders -> Row!Token \cup {None}]
           /\ Row!SpentInVain(h)["row"] # None
<1> DEFINE g == has[h].grant
<1>1. has[h] \in Row!Token /\ g \in 1 .. MaxLogins
  BY DEF Row!Token
<1>2. \A x \in Row!Holders : Row!Dead(has[x], g) \in Row!Token \cup {None}
  BY <1>1, DeadToken
<1>3. "row" \in Row!Holders /\ Row!Dead(has["row"], g) # None
  BY <1>1, DeadToken DEF Row!Holders
<1> QED BY <1>2, <1>3 DEF Row!SpentInVain

-----------------------------------------------------------------------------
(* Types. *)

\* Callers are no devices, and neither is the row.
LEMMA DistinctHolders ==
    /\ "row" \in Row!Holders /\ None \notin Devices
    /\ Row!Callers \subseteq Row!Holders \ {"row"}
    /\ Devices \subseteq Row!Holders \ {"row"}
    /\ \A a \in Row!Callers, d \in Devices : a # d
BY TokenAssumption DEF Row!RotationAssumption, Row!Callers, Row!Holders

\* The first state has the types.
LEMMA InitType == Row!Init => Row!TypeOK
<1> SUFFICES ASSUME Row!Init PROVE Row!TypeOK
  OBVIOUS
<1>1. Row!Fresh(1) \in Row!Token /\ Row!Fresh(1) # None
  BY FreshToken, TokenParameters
<1>2. has \in [Row!Holders -> Row!Token \cup {None}] /\ has["row"] # None
  BY <1>1 DEF Row!Init, Row!Holders
<1>3. poll \in [at : {"idle", "listed", "fetched"}, closed : BOOLEAN,
                grant : 0 .. MaxLogins,
                result : {"none", "ok", "limited", "failed", "disabled",
                          "unauthorized"}]
  BY TokenParameters DEF Row!Init, Row!NoPoll
<1>4. ref \in [Row!Callers -> {"idle", "wait", "call", "store", "mark"}]
  BY DEF Row!Init
<1>5. /\ kind \in Providers /\ status \in Row!Statuses /\ left \in 0 .. Lifetime
      /\ logins \in 1 .. MaxLogins /\ revoked \subseteq 1 .. logins
      /\ paused \in Nat /\ strikes \in 0 .. Strikes - 1
      /\ ops \in 0 .. MaxOps /\ turns \in 0 .. MaxTurns /\ faults \in 0 .. MaxFaults
  BY TokenParameters DEF Row!Init, Row!Statuses
<1>6. /\ holder \in Devices \cup {None} /\ changed \subseteq Devices
      /\ behind \subseteq Devices
      /\ wanted \in {"active", "paused"} 
  BY DEF Row!Init
<1>7. org \in BOOLEAN /\ {clashed, blocked} \subseteq BOOLEAN
  BY DEF Row!Init
<1> QED BY <1>2, <1>3, <1>4, <1>5, <1>6, <1>7 DEF Row!TypeOK

\* Whoever has spent a token or is about to has one, and so has a device that
\* changed it.
HaveTokens ==
    /\ \A a \in Row!Callers : ref[a] \in {"call", "store"} => has[a] # None
    /\ \A d \in changed : has[d] # None

\* One holder is given a token, the others keep theirs.
LEMMA GivenToken ==
    ASSUME has \in [Row!Holders -> Row!Token \cup {None}], NEW h \in Row!Holders,
           NEW t \in Row!Token \cup {None}
    PROVE  /\ Row!Given(h, t) \in [Row!Holders -> Row!Token \cup {None}]
           /\ Row!Given(h, t)[h] = t
           /\ \A x \in Row!Holders \ {h} : Row!Given(h, t)[x] = has[x]
BY DEF Row!Given

\* A step of a refresh.
LEMMA RefreshType ==
    ASSUME Row!TypeOK, HaveTokens, NEW a \in Row!Callers, Row!Refresh(a) \/ Row!RefreshFails(a)
    PROVE  Row!TypeOK'
<1> USE DistinctHolders, TokenParameters
<1> DEFINE R == /\ has' \in [Row!Holders -> Row!Token \cup {None}] /\ has'["row"] # None
                /\ ref' \in [Row!Callers -> {"idle", "wait", "call", "store", "mark"}]
                /\ status' \in Row!Statuses /\ left' \in 0 .. Lifetime
                /\ behind' \subseteq Devices /\ faults' \in 0 .. MaxFaults
                /\ clashed' \in BOOLEAN
                /\ Row!RefreshKeeps
<1>1. ASSUME Row!RefreshRead(a) PROVE R
  BY <1>1 DEF Row!TypeOK, Row!RefreshRead, Row!RefreshTo, Row!Given
<1>2. ASSUME Row!RefreshCall(a) PROVE R
  <2>1. /\ Row!Spent(a) \in [Row!Holders -> Row!Token \cup {None}]
        /\ Row!Spent(a)["row"] # None
    BY <1>2, SpentTokens DEF Row!TypeOK, Row!RefreshCall, Row!Spendable
  <2> QED BY <1>2, <2>1 DEF Row!TypeOK, Row!RefreshCall, Row!RefreshTo
<1>3. ASSUME Row!RefreshRejected(a) PROVE R
  BY <1>3 DEF Row!TypeOK, Row!RefreshRejected, Row!RefreshTo, Row!Given
<1>4. ASSUME Row!RefreshStore(a) PROVE R
  <2>1. has[a] # None
    BY <1>4 DEF HaveTokens, Row!RefreshStore
  <2>2. has' \in [Row!Holders -> Row!Token \cup {None}] /\ has'["row"] # None
    BY <1>4, <2>1 DEF Row!TypeOK, Row!RefreshStore
  <2> QED BY <1>4, <2>2 DEF Row!TypeOK, Row!RefreshStore, Row!RefreshTo
<1>5. ASSUME Row!RefreshMark(a) PROVE R
  BY <1>5 DEF Row!TypeOK, Row!RefreshMark, Row!RefreshTo, Row!Statuses
<1>6. ASSUME Row!RefreshFails(a) PROVE R
  <2>1. has' \in [Row!Holders -> Row!Token \cup {None}] /\ has'["row"] # None
    <3>1. CASE has' = Row!Given(a, None)
      BY <3>1 DEF Row!TypeOK, Row!Given
    <3>2. CASE Row!Spendable(a) /\ has' = Row!SpentInVain(a)
      BY <3>2, VainTokens DEF Row!TypeOK, Row!Spendable
    <3> QED BY <1>6, <3>1, <3>2 DEF Row!RefreshFails
  <2>2. faults' \in 0 .. MaxFaults
    BY <1>6 DEF Row!TypeOK, Row!RefreshFails, Row!Fault
  <2>3. clashed' \in BOOLEAN
    BY <1>6 DEF Row!TypeOK, Row!RefreshFails
  <2> QED BY <1>6, <2>1, <2>2, <2>3 DEF Row!TypeOK, Row!RefreshFails, Row!RefreshTo
<1>7. R
  BY <1>1, <1>2, <1>3, <1>4, <1>5, <1>6 DEF Row!Refresh
<1> QED BY <1>7 DEF Row!TypeOK, Row!RefreshKeeps, Row!grants

\* What the poller holds between two of its steps.
PollType ==
    [at : {"idle", "listed", "fetched"}, closed : BOOLEAN, grant : 0 .. MaxLogins,
     result : {"none", "ok", "limited", "failed", "disabled", "unauthorized"}]

\* A step of the poller: it writes no token.
LEMMA PollerType ==
    ASSUME Row!TypeOK, Row!Poller \/ Row!PollFetchFails
    PROVE  Row!TypeOK'
<1> USE TokenParameters
<1> DEFINE P == /\ poll' \in PollType /\ status' \in Row!Statuses
                /\ paused' \in Nat /\ strikes' \in 0 .. Strikes - 1
                /\ faults' \in 0 .. MaxFaults
                /\ Row!PollKeeps
<1>0. Row!NoPoll \in PollType /\ poll \in PollType
  BY DEF Row!NoPoll, PollType, Row!TypeOK
<1>1. ASSUME Row!PollList PROVE P
  <2>1. has["row"] \in Row!Token
    BY DistinctHolders DEF Row!TypeOK
  <2>2. poll' \in PollType
    BY <1>1, <2>1 DEF Row!PollList, PollType, Row!Token
  <2> QED BY <1>1, <2>2 DEF Row!PollList, Row!TypeOK
<1>2. ASSUME Row!PollFetch \/ Row!PollFetchFails PROVE P
  <2>1. PICK r \in {"ok", "limited", "failed", "disabled", "unauthorized"} : Row!Fetched(r)
    BY <1>2 DEF Row!PollFetch, Row!PollFetchFails
  <2>2. [[[poll EXCEPT !.at = "fetched"] EXCEPT !.grant = 0] EXCEPT !.result = r]
           \in PollType
    <3> DEFINE q == [poll EXCEPT !.at = "fetched"]
    <3>1. q \in PollType
      BY <1>0 DEF PollType
    <3> DEFINE q2 == [q EXCEPT !.grant = 0]
    <3>2. q2 \in PollType
      <4> HIDE DEF q
      <4> QED BY <3>1 DEF PollType
    <3>3. [q2 EXCEPT !.result = r] \in PollType
      <4> HIDE DEF q2
      <4> QED BY <3>2 DEF PollType
    <3> QED BY <3>3
  <2>3. poll' \in PollType
    BY <2>1, <2>2 DEF Row!Fetched
  <2>4. faults' \in 0 .. MaxFaults
    BY <1>2 DEF Row!TypeOK, Row!PollFetch, Row!PollFetchFails, Row!Fault
  <2> QED BY <1>2, <2>3, <2>4 DEF Row!PollFetch, Row!PollFetchFails, Row!TypeOK
<1>3. ASSUME Row!PollDisabled PROVE P
  BY <1>0, <1>3 DEF Row!PollDisabled, Row!Got, Row!TypeOK, Row!Statuses
<1>4. ASSUME Row!PollOk PROVE P
  BY <1>0, <1>4 DEF Row!PollOk, Row!Got, Row!TypeOK, Row!Statuses
<1>5. ASSUME Row!PollError PROVE P
  BY <1>0, <1>5 DEF Row!PollError, Row!Got, Row!TypeOK
<1>6. ASSUME Row!PollUnauthorized PROVE P
  BY <1>0, <1>6 DEF Row!PollUnauthorized, Row!Got, Row!TypeOK, Row!Statuses
<1>7. P
  BY <1>1, <1>2, <1>3, <1>4, <1>5, <1>6 DEF Row!Poller
<1> QED BY <1>7 DEF Row!TypeOK, PollType, Row!PollKeeps, Row!grants, Row!agents, Row!history

\* A request of the user.
LEMMA UserType ==
    ASSUME Row!TypeOK,
           (\E s \in {"active", "paused"} : Row!SetPaused(s)) \/ Row!Login \/ Row!RefreshNow
    PROVE  Row!TypeOK'
<1> USE TokenParameters, DistinctHolders
<1> DEFINE U == /\ has' \in [Row!Holders -> Row!Token \cup {None}] /\ has'["row"] # None
                /\ ref' \in [Row!Callers -> {"idle", "wait", "call", "store", "mark"}]
                /\ status' \in Row!Statuses /\ left' \in 0 .. Lifetime
                /\ logins' \in 1 .. MaxLogins /\ revoked' \subseteq 1 .. logins'
                /\ behind' \subseteq Devices /\ ops' \in 0 .. MaxOps
                /\ wanted' \in {"active", "paused"}
                /\ Row!UserKeeps
<1>0. Row!Asks => ops' \in 0 .. MaxOps
  BY DEF Row!Asks, Row!TypeOK
<1>1. ASSUME NEW s \in {"active", "paused"}, Row!SetPaused(s) PROVE U
  BY <1>0, <1>1 DEF Row!SetPaused, Row!UserKeeps, Row!TypeOK, Row!Statuses
<1>2. ASSUME Row!Login PROVE U
  <2>1. logins + 1 \in 1 .. MaxLogins
    BY <1>2 DEF Row!Login, Row!TypeOK
  <2>2. has' \in [Row!Holders -> Row!Token \cup {None}] /\ has'["row"] # None
    BY <1>2, <2>1, FreshToken, GivenToken DEF Row!Login, Row!TypeOK
  <2>3. revoked' \subseteq 1 .. logins'
    BY <1>2 DEF Row!Login, Row!UserKeeps, Row!TypeOK
  <2> QED BY <1>0, <1>2, <2>1, <2>2, <2>3 DEF Row!Login, Row!TypeOK, Row!Statuses
<1>3. ASSUME Row!RefreshNow PROVE U
  BY <1>0, <1>3 DEF Row!RefreshNow, Row!RefreshTo, Row!UserKeeps, Row!TypeOK, Row!Callers
<1>4. U
  BY <1>1, <1>2, <1>3
<1> QED BY <1>4 DEF Row!TypeOK, Row!UserKeeps

\* A step of a device.
LEMMA DeviceType ==
    ASSUME Row!TypeOK, HaveTokens, NEW d \in Devices,
           Row!Acquire(d) \/ Row!Release(d) \/ Row!Rotate(d) \/ Row!Coordinator(d)
    PROVE  Row!TypeOK'
<1> USE TokenParameters, DistinctHolders
<1> DEFINE D == /\ has' \in [Row!Holders -> Row!Token \cup {None}] /\ has'["row"] # None
                /\ left' \in 0 .. Lifetime /\ holder' \in Devices \cup {None}
                /\ changed' \subseteq Devices /\ behind' \subseteq Devices
                /\ clashed' \in BOOLEAN
                /\ Row!DeviceKeeps
<1>1. ASSUME Row!Acquire(d) \/ Row!Release(d) PROVE D
  BY <1>1 DEF Row!Acquire, Row!Release, Row!TypeOK
<1>2. ASSUME Row!Rotate(d) PROVE D
  <2>1. has' \in [Row!Holders -> Row!Token \cup {None}] /\ has'["row"] # None
    BY <1>2, SpentTokens DEF Row!Rotate, Row!Spendable, Row!TypeOK
  <2> QED BY <1>2, <2>1 DEF Row!Rotate, Row!TypeOK
<1>3. ASSUME Row!Inject(d) PROVE D
  <2>1. has' \in [Row!Holders -> Row!Token \cup {None}] /\ has'["row"] # None
    BY <1>3, GivenToken DEF Row!Inject, Row!TypeOK
  <2> QED BY <1>3, <2>1 DEF Row!Inject, Row!TypeOK
<1>4. ASSUME Row!Push(d) PROVE D
  <2>1. has' \in [Row!Holders -> Row!Token \cup {None}] /\ has'["row"] # None
    BY <1>4, GivenToken DEF Row!Push, HaveTokens, Row!TypeOK
  <2> QED BY <1>4, <2>1 DEF Row!Push, Row!TypeOK
<1>5. ASSUME Row!Leave(d) PROVE D
  <2>1. has' \in [Row!Holders -> Row!Token \cup {None}] /\ has'["row"] # None
    BY <1>5, GivenToken DEF Row!Leave, Row!TypeOK
  <2> QED BY <1>5, <2>1 DEF Row!Leave, Row!TypeOK
<1>6. D
  BY <1>1, <1>2, <1>3, <1>4, <1>5 DEF Row!Coordinator
<1> QED BY <1>6 DEF Row!TypeOK, Row!DeviceKeeps, Row!grants, Row!workers, Row!bounds

\* The provider, the clock and the scheduler's tick.
LEMMA WorldType ==
    ASSUME Row!TypeOK, Row!OrgTurns \/ Row!Revoke \/ Row!Tick \/ Row!Schedule
    PROVE  Row!TypeOK'
<1> USE TokenParameters, DistinctHolders
<1>1. CASE Row!OrgTurns
  BY <1>1 DEF Row!OrgTurns, Row!TypeOK, Row!grants, Row!agents, Row!workers
<1>2. CASE Row!Revoke
  <2>1. PICK g \in (1 .. logins) \ revoked :
            /\ revoked' = revoked \cup {g}
            /\ has' = [h \in Row!Holders |-> Row!Dead(has[h], g)]
    BY <1>2 DEF Row!Revoke
  <2>2. g \in 1 .. MaxLogins /\ revoked' \subseteq 1 .. logins
    BY <2>1 DEF Row!TypeOK
  <2>3. has' \in [Row!Holders -> Row!Token \cup {None}] /\ has'["row"] # None
    BY <2>1, <2>2, DeadToken DEF Row!TypeOK
  <2>4. faults' \in 0 .. MaxFaults
    BY <1>2 DEF Row!Revoke, Row!Fault, Row!TypeOK
  <2> QED BY <1>2, <2>2, <2>3, <2>4 DEF Row!Revoke, Row!TypeOK, Row!agents, Row!workers
<1>3. CASE Row!Tick
  BY <1>3
     DEF Row!Tick, Row!Minus, Row!TypeOK, Row!grants, Row!agents, Row!bounds, Row!history
<1>4. CASE Row!Schedule
  BY <1>4
     DEF Row!Schedule, Row!RefreshTo, Row!RefreshKeeps, Row!TypeOK, Row!Callers,
         Row!grants
<1> QED BY <1>1, <1>2, <1>3, <1>4

\* No step leaves the types.
LEMMA TypeStep ==
    ASSUME Row!TypeOK, HaveTokens, [Row!Next]_Row!vars
    PROVE  Row!TypeOK'
<1>1. CASE UNCHANGED Row!vars
  BY <1>1
     DEF Row!TypeOK, Row!vars, Row!grants, Row!agents, Row!workers, Row!bounds,
         Row!history
<1>2. CASE Row!Next
  BY <1>2, RefreshType, PollerType, UserType, DeviceType, WorldType DEF Row!Next
<1> QED BY <1>1, <1>2

-----------------------------------------------------------------------------
(* Who has a token, and how many refreshes are under way. *)

\* The account's mutex: two refreshes are never between their read and their write.
OneRefresh ==
    \A a, b \in Row!Callers : a # b => ref[a] \in {"idle", "wait"} \/ ref[b] \in {"idle", "wait"}

\* Whoever had a token has one after a step, unless he was the one to lose it.
LEMMA TokensStep ==
    ASSUME Row!TypeOK, HaveTokens, OneRefresh, [Row!Next]_Row!vars
    PROVE  HaveTokens' /\ OneRefresh'
<1> USE DistinctHolders
<1> DEFINE Kept(x) == has[x] # None => has'[x] # None
<1>1. ASSUME NEW a \in Row!Callers, Row!Refresh(a) \/ Row!RefreshFails(a)
      PROVE  HaveTokens' /\ OneRefresh'
  <2> DEFINE H == /\ changed' = changed
                  /\ \A x \in Row!Holders \ {"row", a} : Kept(x)
                  /\ ref' = [ref EXCEPT ![a] = ref'[a]]
                  /\ ref'[a] \in {"call", "store"} => has'[a] # None
                  /\ \/ ref'[a] = "idle"
                     \/ ref[a] \in {"call", "store", "mark"}
                     \/ \A b \in Row!Callers : ref[b] \in {"idle", "wait"}
  <2>1. ASSUME Row!RefreshRead(a) PROVE H
    BY <2>1 DEF Row!RefreshRead, Row!RefreshTo, Row!RefreshKeeps, Row!Given, Row!TypeOK
  <2>2. ASSUME Row!RefreshCall(a) PROVE H
    <3>1. has[a] # None /\ has[a] \in Row!Token /\ has[a].grant \in 1 .. MaxLogins
      BY <2>2 DEF Row!RefreshCall, Row!Spendable, Row!TypeOK, Row!Token
    <3>2. /\ has'[a] # None
          /\ \A x \in Row!Holders \ {a} : has'[x] = Row!Dead(has[x], has[a].grant)
      BY <2>2, <3>1, SpentTokens DEF Row!RefreshCall, Row!TypeOK
    <3>3. \A x \in Row!Holders \ {a} : Kept(x)
      BY <3>1, <3>2, DeadToken DEF Row!TypeOK
    <3> QED BY <2>2, <3>2, <3>3
               DEF Row!RefreshCall, Row!RefreshTo, Row!RefreshKeeps, Row!TypeOK
  <2>3. ASSUME Row!RefreshRejected(a) PROVE H
    BY <2>3 DEF Row!RefreshRejected, Row!RefreshTo, Row!RefreshKeeps, Row!Given, Row!TypeOK
  <2>4. ASSUME Row!RefreshStore(a) PROVE H
    BY <2>4 DEF Row!RefreshStore, Row!RefreshTo, Row!RefreshKeeps, Row!TypeOK
  <2>5. ASSUME Row!RefreshMark(a) PROVE H
    BY <2>5 DEF Row!RefreshMark, Row!RefreshTo, Row!RefreshKeeps, Row!TypeOK
  <2>6. ASSUME Row!RefreshFails(a) PROVE H
    <3>1. \A x \in Row!Holders \ {"row", a} : Kept(x)
      <4>1. CASE has' = Row!Given(a, None)
        BY <4>1 DEF Row!Given, Row!TypeOK
      <4>2. CASE Row!Spendable(a) /\ has' = Row!SpentInVain(a)
        <5>1. has[a] \in Row!Token /\ has[a].grant \in 1 .. MaxLogins
          BY <4>2 DEF Row!Spendable, Row!TypeOK, Row!Token
        <5>2. \A x \in Row!Holders \ {a} : has'[x] = Row!Dead(has[x], has[a].grant)
          BY <4>2 DEF Row!SpentInVain
        <5> QED BY <5>1, <5>2, DeadToken DEF Row!TypeOK
      <4> QED BY <2>6, <4>1, <4>2 DEF Row!RefreshFails
    <3> QED BY <2>6, <3>1 DEF Row!RefreshFails, Row!RefreshTo, Row!RefreshKeeps, Row!TypeOK
  <2>7. H
    BY <1>1, <2>1, <2>2, <2>3, <2>4, <2>5, <2>6 DEF Row!Refresh
  <2>8. HaveTokens'
    BY <2>7 DEF HaveTokens, Row!TypeOK
  <2>9. OneRefresh'
    BY <2>7 DEF OneRefresh, Row!TypeOK
  <2> QED BY <2>8, <2>9
<1>2. ASSUME NEW a \in Row!Callers, ref[a] = "idle", ref' = [ref EXCEPT ![a] = "wait"],
             UNCHANGED <<has, changed>>
      PROVE  HaveTokens' /\ OneRefresh'
  BY <1>2 DEF HaveTokens, OneRefresh, Row!TypeOK
<1>3. ASSUME UNCHANGED ref,
             \A a \in Row!Callers : Kept(a),
             \A d \in changed' : has'[d] # None
      PROVE  HaveTokens' /\ OneRefresh'
  BY <1>3 DEF HaveTokens, OneRefresh
<1>4. ASSUME UNCHANGED <<ref, has, changed>> PROVE HaveTokens' /\ OneRefresh'
  BY <1>3, <1>4 DEF HaveTokens
<1>5. CASE Row!Schedule
  BY <1>2, <1>5 DEF Row!Schedule, Row!RefreshTo, Row!RefreshKeeps, Row!Callers
<1>6. CASE Row!RefreshNow
  BY <1>2, <1>6 DEF Row!RefreshNow, Row!RefreshTo, Row!UserKeeps, Row!Callers
<1>7. CASE Row!Poller \/ Row!PollFetchFails
  BY <1>4, <1>7
     DEF Row!Poller, Row!PollFetchFails, Row!PollList, Row!PollFetch, Row!PollDisabled,
         Row!PollOk,
                    Row!PollError, Row!PollUnauthorized, Row!PollKeeps, Row!agents
<1>8. CASE \E s \in {"active", "paused"} : Row!SetPaused(s)
  BY <1>4, <1>8 DEF Row!SetPaused, Row!UserKeeps
<1>9. CASE Row!Login
  <2>1. \A x \in Row!Holders \ {"row"} : has'[x] = has[x]
    BY <1>9 DEF Row!Login, Row!Given, Row!TypeOK
  <2> QED BY <1>3, <1>9, <2>1 DEF Row!Login, Row!UserKeeps, HaveTokens, Row!TypeOK
<1>10. ASSUME NEW d \in Devices, Row!Acquire(d) \/ Row!Release(d)
       PROVE  HaveTokens' /\ OneRefresh'
  BY <1>4, <1>10 DEF Row!Acquire, Row!Release, Row!DeviceKeeps, Row!workers
<1>11. ASSUME NEW d \in Devices, Row!Rotate(d)
       PROVE  HaveTokens' /\ OneRefresh'
  <2>1. has[d] # None /\ has[d] \in Row!Token /\ has[d].grant \in 1 .. MaxLogins
    BY <1>11 DEF Row!Rotate, Row!Spendable, Row!TypeOK, Row!Token
  <2>2. /\ has'[d] # None
        /\ \A x \in Row!Holders \ {d} : has'[x] = Row!Dead(has[x], has[d].grant)
    BY <1>11, <2>1, SpentTokens DEF Row!Rotate, Row!TypeOK
  <2>3. \A x \in Row!Holders : Kept(x)
    BY <2>1, <2>2, DeadToken DEF Row!TypeOK
  <2> QED BY <1>3, <1>11, <2>2, <2>3
             DEF Row!Rotate, Row!DeviceKeeps, Row!workers, HaveTokens, Row!TypeOK
<1>12. ASSUME NEW d \in Devices, Row!Inject(d) \/ Row!Leave(d)
       PROVE  HaveTokens' /\ OneRefresh'
  <2>1. \A x \in Row!Holders \ {d} : has'[x] = has[x]
    BY <1>12 DEF Row!Inject, Row!Leave, Row!Given, Row!TypeOK
  <2> QED BY <1>3, <1>12, <2>1
             DEF Row!Inject, Row!Leave, Row!DeviceKeeps, Row!workers, HaveTokens,
                 Row!TypeOK
<1>13. ASSUME NEW d \in Devices, Row!Push(d)
       PROVE  HaveTokens' /\ OneRefresh'
  <2>1. \A x \in Row!Holders \ {"row"} : has'[x] = has[x]
    BY <1>13 DEF Row!Push, Row!Given, Row!TypeOK
  <2> QED BY <1>3, <1>13, <2>1
             DEF Row!Push, Row!DeviceKeeps, Row!workers, HaveTokens, Row!TypeOK
<1>14. CASE Row!OrgTurns \/ Row!Tick
  BY <1>4, <1>14 DEF Row!OrgTurns, Row!Tick, Row!agents, Row!workers
<1>15. CASE Row!Revoke
  <2>0. 1 .. logins \subseteq 1 .. MaxLogins
    BY TokenParameters DEF Row!TypeOK
  <2>1. PICK g \in 1 .. MaxLogins : has' = [h \in Row!Holders |-> Row!Dead(has[h], g)]
    BY <1>15, <2>0 DEF Row!Revoke
  <2>2. \A x \in Row!Holders : Kept(x)
    BY <2>1, DeadToken DEF Row!TypeOK
  <2> QED BY <1>3, <1>15, <2>2
             DEF Row!Revoke, Row!agents, Row!workers, HaveTokens, Row!TypeOK
<1>16. CASE UNCHANGED Row!vars
  BY <1>4, <1>16 DEF Row!vars, Row!agents, Row!workers
<1> QED
  BY <1>1, <1>5, <1>6, <1>7, <1>8, <1>9, <1>10, <1>11, <1>12, <1>13, <1>14, <1>15, <1>16
     DEF Row!Next, Row!Coordinator

\* What a poll was told, and what it saw of the row.
LEMMA PollEffect ==
    ASSUME Row!TypeOK, Row!Poller \/ Row!PollFetchFails
    PROVE  /\ poll'.closed => poll.closed \/ status = "org_disabled"
           /\ poll'.result = "unauthorized" => revoked # {}
           /\ poll'.result = "disabled" => ~ org
<1> DEFINE E == /\ poll'.closed => poll.closed \/ status = "org_disabled"
                /\ poll'.result = "unauthorized" => revoked # {}
                /\ poll'.result = "disabled" => ~ org
<1>1. ASSUME Row!PollList PROVE E
  BY <1>1 DEF Row!PollList
<1>2. ASSUME NEW r, Row!Fetched(r) PROVE poll'.result = r /\ (poll'.closed => poll.closed)
  BY <1>2 DEF Row!Fetched, Row!TypeOK
<1>3. ASSUME Row!PollFetch PROVE E
  <2> DEFINE r == IF poll.grant \in revoked THEN "unauthorized"
                  ELSE IF kind = "claude" /\ ~ org THEN "disabled" ELSE "ok"
  <2>1. Row!Fetched(r)
    BY <1>3 DEF Row!PollFetch
  <2>2. (r = "unauthorized" => revoked # {}) /\ (r = "disabled" => ~ org)
    OBVIOUS
  <2> HIDE DEF r
  <2> QED BY <2>1, <2>2, <1>2
<1>4. ASSUME Row!PollFetchFails PROVE E
  <2>1. PICK r \in {"limited", "failed"} : Row!Fetched(r)
    BY <1>4 DEF Row!PollFetchFails
  <2> QED BY <2>1, <1>2
<1>5. ASSUME Row!PollDisabled \/ Row!PollOk \/ Row!PollError \/ Row!PollUnauthorized PROVE E
  <2>1. poll' = Row!NoPoll
    BY <1>5 DEF Row!PollDisabled, Row!PollOk, Row!PollError, Row!PollUnauthorized, Row!Got
  <2> QED BY <2>1 DEF Row!NoPoll
<1> QED BY <1>1, <1>3, <1>4, <1>5 DEF Row!Poller

-----------------------------------------------------------------------------
(* The daemon alone does not kill the token. *)

\* While no token dies outside, the one that can be spent is the row's, or on its
\* way there; no refresh and no poll was told otherwise.
TokenIsGood ==
    ~ clashed =>
        /\ changed = {} /\ revoked = {}
        /\ status # "needs_reauth" /\ poll.result # "unauthorized"
        /\ \A a \in Row!Callers :
             ref[a] # "mark" /\ (ref[a] \in {"call", "store"} => Row!Spendable(a))
        /\ Row!Spendable("row") \/ \E a \in Row!Callers : ref[a] = "store"

\* A refresh reads a token that can be spent, because no other refresh has one, and
\* spends and stores it before the next one reads.
LEMMA GoodStep ==
    ASSUME Row!TypeOK, Row!TypeOK', HaveTokens, OneRefresh, TokenIsGood, [Row!Next]_Row!vars
    PROVE  TokenIsGood'
<1> SUFFICES ASSUME ~ clashed' PROVE TokenIsGood'
  BY DEF TokenIsGood
<1> USE DistinctHolders
<1> DEFINE G == /\ changed' = {} /\ revoked' = {}
                /\ status' # "needs_reauth" /\ poll'.result # "unauthorized"
                /\ \A a \in Row!Callers : /\ ref'[a] # "mark"
                                          /\ ref'[a] \in {"call", "store"} => Row!Spendable(a)'
                /\ Row!Spendable("row")' \/ \E a \in Row!Callers : ref'[a] = "store"
<1>1. ASSUME NEW a \in Row!Callers, Row!Refresh(a) \/ Row!RefreshFails(a) PROVE G
  <2>0. /\ ~ clashed /\ changed' = {} /\ revoked' = {} /\ poll'.result # "unauthorized"
        /\ status # "needs_reauth" /\ ref[a] # "mark"
        /\ ref[a] \in {"call", "store"} => Row!Spendable(a)
    <3>1. ~ clashed
      BY <1>1
         DEF Row!Refresh, Row!RefreshFails, Row!RefreshRead, Row!RefreshCall,
             Row!RefreshRejected,
                  Row!RefreshStore, Row!RefreshMark
    <3>2. Row!RefreshKeeps
      BY <1>1
         DEF Row!Refresh, Row!RefreshFails, Row!RefreshRead, Row!RefreshCall,
             Row!RefreshRejected,
                  Row!RefreshStore, Row!RefreshMark
    <3> QED BY <3>1, <3>2 DEF TokenIsGood, Row!RefreshKeeps, Row!grants
  <2>1. ASSUME ref[a] # "idle", \A b \in Row!Callers \ {a} : ref[b] \in {"idle", "wait"},
               ref' = [ref EXCEPT ![a] = ref'[a]], ref'[a] # "mark",
               status' = status,
               ref'[a] \in {"call", "store"} => Row!Spendable(a)',
               Row!Spendable("row")' \/ ref'[a] = "store"
        PROVE  G
    BY <2>0, <2>1 DEF Row!TypeOK
  <2>2. ref[a] \in {"call", "store"} => \A b \in Row!Callers \ {a} : ref[b] \in {"idle", "wait"}
    BY DEF OneRefresh
  <2>3. CASE Row!RefreshRead(a)
    <3>1. Row!Spendable("row")
      BY <2>0, <2>3 DEF Row!RefreshRead, TokenIsGood
    <3>2. has'[a] = has["row"] /\ has'["row"] = has["row"]
      BY <2>3, GivenToken DEF Row!RefreshRead, Row!TypeOK
    <3>3. Row!Spendable("row")' /\ Row!Spendable(a)'
      BY <3>1, <3>2 DEF Row!Spendable
    <3> QED BY <2>1, <2>3, <3>3 DEF Row!RefreshRead, Row!RefreshTo, Row!TypeOK
  <2>4. CASE Row!RefreshCall(a)
    <3>1. has'[a] # None /\ has'[a].live
      BY <2>4, SpentTokens DEF Row!RefreshCall, Row!Spendable, Row!TypeOK
    <3>2. Row!Spendable(a)' /\ ref'[a] = "store"
      BY <2>4, <3>1 DEF Row!Spendable, Row!RefreshCall, Row!RefreshTo, Row!TypeOK
    <3> QED BY <2>1, <2>2, <2>4, <3>2 DEF Row!RefreshCall, Row!RefreshTo, Row!TypeOK
  <2>5. CASE Row!RefreshRejected(a)
    BY <2>0, <2>5 DEF Row!RefreshRejected
  <2>6. CASE Row!RefreshStore(a)
    <3>1. Row!Spendable(a)
      BY <2>0, <2>6 DEF Row!RefreshStore
    <3>2. has'["row"] = has[a]
      BY <2>6 DEF Row!RefreshStore, Row!TypeOK
    <3>3. Row!Spendable("row")'
      BY <3>1, <3>2 DEF Row!Spendable
    <3> QED BY <2>1, <2>2, <2>6, <3>3 DEF Row!RefreshStore, Row!RefreshTo, Row!TypeOK
  <2>7. CASE Row!RefreshMark(a)
    BY <2>0, <2>7 DEF Row!RefreshMark
  <2>8. CASE Row!RefreshFails(a)
    <3>1. has' = Row!Given(a, None)
      BY <2>8 DEF Row!RefreshFails
    <3>2. Row!Spendable("row")
      BY <2>0, <2>2, <2>8 DEF Row!RefreshFails, TokenIsGood
    <3>3. has'["row"] = has["row"]
      BY <3>1, GivenToken DEF Row!TypeOK
    <3>4. Row!Spendable("row")'
      BY <3>2, <3>3 DEF Row!Spendable
    <3> QED BY <2>1, <2>2, <2>8, <3>4 DEF Row!RefreshFails, Row!RefreshTo, Row!TypeOK
  <2> QED BY <1>1, <2>3, <2>4, <2>5, <2>6, <2>7, <2>8 DEF Row!Refresh
<1>2. ASSUME ~ clashed, changed' = {}, revoked' = revoked,
             status' # "needs_reauth", poll'.result # "unauthorized",
             \A a \in Row!Callers : ref'[a] = ref[a] \/ (ref'[a] = "wait" /\ ref[a] = "idle"),
             \A a \in Row!Callers : has'[a] = has[a],
             has'["row"] = has["row"] \/ Row!Spendable("row")'
      PROVE  G
  BY <1>2 DEF TokenIsGood, Row!Spendable
<1>3. ASSUME Row!Schedule PROVE G
  BY <1>2, <1>3
     DEF Row!Schedule, Row!RefreshTo, Row!RefreshKeeps, TokenIsGood, Row!Callers,
         Row!TypeOK, Row!grants, Row!Spendable
<1>4. ASSUME Row!RefreshNow PROVE G
  <2>1. ~ clashed
    BY <1>4 DEF Row!RefreshNow, Row!UserKeeps
  <2>2. \A a \in Row!Callers : ref'[a] = ref[a] \/ (ref'[a] = "wait" /\ ref[a] = "idle")
    BY <1>4 DEF Row!RefreshNow, Row!RefreshTo, Row!TypeOK, Row!Callers
  <2>3. changed' = {} /\ revoked' = revoked /\ status' # "needs_reauth" /\ poll'.result # "unauthorized"
    BY <1>4, <2>1 DEF Row!RefreshNow, Row!UserKeeps, TokenIsGood
  <2>4. has' = has
    BY <1>4 DEF Row!RefreshNow
  <2> QED BY <1>2, <2>1, <2>2, <2>3, <2>4 DEF Row!Spendable
<1>5. ASSUME Row!Poller \/ Row!PollFetchFails PROVE G
  <2>1. /\ UNCHANGED <<has, ref, changed, revoked>> /\ ~ clashed
    BY <1>5
       DEF Row!Poller, Row!PollFetchFails, Row!PollList, Row!PollFetch, Row!PollDisabled,
           Row!PollOk,
                Row!PollError, Row!PollUnauthorized, Row!PollKeeps, Row!agents, Row!grants, Row!history
  <2>2. changed = {} /\ revoked = {} /\ status # "needs_reauth"
        /\ poll.result # "unauthorized"
    BY <2>1 DEF TokenIsGood
  <2>3. poll'.result # "unauthorized"
    BY <1>5, <2>2, PollEffect
  <2>4. status' # "needs_reauth"
    BY <1>5, <2>2
       DEF Row!Poller, Row!PollFetchFails, Row!PollList, Row!PollFetch, Row!PollDisabled,
           Row!PollOk,
                      Row!PollError, Row!PollUnauthorized, Row!Got
  <2> QED BY <1>2, <2>1, <2>2, <2>3, <2>4 DEF Row!Spendable
<1>6. ASSUME \E s \in {"active", "paused"} : Row!SetPaused(s) PROVE G
  BY <1>2, <1>6 DEF Row!SetPaused, Row!UserKeeps, TokenIsGood, Row!Spendable
<1>7. ASSUME Row!Login PROVE G
  <2>1. logins + 1 \in 1 .. MaxLogins
    BY <1>7, TokenParameters DEF Row!Login, Row!TypeOK
  <2>2. /\ has'["row"] = Row!Fresh(logins + 1)
        /\ \A a \in Row!Callers : has'[a] = has[a]
    BY <1>7 DEF Row!Login, Row!Given, Row!TypeOK
  <2>3. Row!Spendable("row")'
    BY <2>1, <2>2, FreshToken DEF Row!Spendable
  <2> QED BY <1>2, <1>7, <2>2, <2>3 DEF Row!Login, Row!UserKeeps, TokenIsGood, Row!Spendable
<1>8. ASSUME NEW d \in Devices, Row!Acquire(d) \/ Row!Release(d) PROVE G
  BY <1>2, <1>8
     DEF Row!Acquire, Row!Release, Row!DeviceKeeps, Row!workers, Row!grants, TokenIsGood,
         Row!Spendable
<1>9. ASSUME NEW d \in Devices, Row!Rotate(d) PROVE G
  BY <1>9 DEF Row!Rotate
<1>10. ASSUME NEW d \in Devices, Row!Inject(d) \/ Row!Leave(d) PROVE G
  <2>1. \A x \in Row!Holders \ {d} : has'[x] = has[x]
    BY <1>10 DEF Row!Inject, Row!Leave, Row!Given, Row!TypeOK
  <2> QED BY <1>2, <1>10, <2>1
             DEF Row!Inject, Row!Leave, Row!DeviceKeeps, Row!workers, Row!grants,
                 TokenIsGood, Row!Spendable
<1>11. ASSUME NEW d \in Devices, Row!Push(d) PROVE G
  BY <1>11 DEF Row!Push, TokenIsGood
<1>12. ASSUME Row!OrgTurns \/ Row!Tick PROVE G
  BY <1>2, <1>12
     DEF Row!OrgTurns, Row!Tick, Row!agents, Row!workers, Row!grants, Row!history,
         TokenIsGood, Row!Spendable
<1>13. ASSUME Row!Revoke PROVE G
  BY <1>13 DEF Row!Revoke
<1>14. ASSUME UNCHANGED Row!vars PROVE G
  BY <1>2, <1>14
     DEF Row!vars, Row!agents, Row!workers, Row!grants, Row!history, TokenIsGood,
         Row!Spendable
<1>15. G
  BY <1>1, <1>3, <1>4, <1>5, <1>6, <1>7, <1>8, <1>9, <1>10, <1>11, <1>12, <1>13, <1>14
     DEF Row!Next, Row!Coordinator, Row!Spendable
<1> QED BY <1>15 DEF TokenIsGood, Row!Spendable, Row!Callers

-----------------------------------------------------------------------------
(* The poller alone does not resume an account. *)

\* While the organization has not closed, no poll has seen it closed, and the
\* account the user paused is not active.
OrgIsOpen ==
    ~ blocked =>
        /\ org /\ status # "org_disabled" /\ ~ poll.closed /\ poll.result # "disabled"
        /\ Row!PausedStaysOut

\* Only a poll that saw the account closed makes it active.
LEMMA OpenStep ==
    ASSUME Row!TypeOK, OrgIsOpen, [Row!Next]_Row!vars
    PROVE  OrgIsOpen'
<1> SUFFICES ASSUME ~ blocked' PROVE OrgIsOpen'
  BY DEF OrgIsOpen
<1> DEFINE O == /\ org' /\ status' # "org_disabled" /\ ~ poll'.closed
                /\ poll'.result # "disabled" /\ Row!PausedStaysOut'
<1>0. ~ blocked => /\ org /\ status # "org_disabled" /\ ~ poll.closed
                   /\ poll.result # "disabled" /\ (wanted = "paused" => status # "active")
  BY DEF OrgIsOpen, Row!PausedStaysOut
<1>1. ASSUME UNCHANGED <<org, poll, blocked>>,
             status' # "org_disabled" \/ status' = status,
             \/ wanted' = wanted /\ (status' = status \/ status' = "needs_reauth")
             \/ wanted' = status'
      PROVE  O
  BY <1>0, <1>1 DEF Row!PausedStaysOut
<1>2. ASSUME NEW a \in Row!Callers, Row!Refresh(a) \/ Row!RefreshFails(a) PROVE O
  BY <1>1, <1>2
     DEF Row!Refresh, Row!RefreshRead, Row!RefreshCall, Row!RefreshRejected,
         Row!RefreshFails,
                    Row!RefreshStore, Row!RefreshMark, Row!RefreshKeeps, Row!PausedStaysOut
<1>3. ASSUME Row!Schedule PROVE O
  BY <1>1, <1>3 DEF Row!Schedule, Row!RefreshKeeps, Row!PausedStaysOut
<1>4. ASSUME Row!Poller \/ Row!PollFetchFails PROVE O
  <2>1. UNCHANGED <<org, wanted, blocked>>
    BY <1>4
       DEF Row!Poller, Row!PollFetchFails, Row!PollList, Row!PollFetch, Row!PollDisabled,
           Row!PollOk,
                Row!PollError, Row!PollUnauthorized, Row!PollKeeps, Row!history
  <2>2. /\ org /\ status # "org_disabled" /\ ~ poll.closed
        /\ poll.result # "disabled" /\ (wanted = "paused" => status # "active")
    BY <1>0, <2>1
  <2>3. poll'.result # "disabled" /\ ~ poll'.closed
    BY <1>4, <2>2, PollEffect
  <2>4. status' = status \/ status' = "needs_reauth"
    BY <1>4, <2>2
       DEF Row!Poller, Row!PollFetchFails, Row!PollList, Row!PollFetch, Row!PollDisabled,
           Row!PollOk,
                      Row!PollError, Row!PollUnauthorized, Row!Got
  <2> QED BY <2>1, <2>2, <2>3, <2>4 DEF Row!PausedStaysOut
<1>5. ASSUME (\E s \in {"active", "paused"} : Row!SetPaused(s)) \/ Row!Login \/ Row!RefreshNow PROVE O
  BY <1>1, <1>5
     DEF Row!SetPaused, Row!Login, Row!RefreshNow, Row!UserKeeps, Row!PausedStaysOut
<1>6. ASSUME NEW d \in Devices, Row!Acquire(d) \/ Row!Release(d) \/ Row!Rotate(d) \/ Row!Coordinator(d)
      PROVE  O
  BY <1>1, <1>6
     DEF Row!Acquire, Row!Release, Row!Rotate, Row!Coordinator, Row!Inject, Row!Push,
         Row!Leave,
                    Row!DeviceKeeps, Row!workers
<1>7. ASSUME Row!OrgTurns PROVE O
  BY <1>7 DEF Row!OrgTurns
<1>8. ASSUME Row!Revoke \/ Row!Tick PROVE O
  BY <1>1, <1>8 DEF Row!Revoke, Row!Tick, Row!workers, Row!history, Row!PausedStaysOut
<1>9. ASSUME UNCHANGED Row!vars PROVE O
  BY <1>1, <1>9 DEF Row!vars, Row!workers, Row!history, Row!PausedStaysOut
<1>10. O
  BY <1>2, <1>3, <1>4, <1>5, <1>6, <1>7, <1>8, <1>9 DEF Row!Next, Row!PausedStaysOut
<1> QED BY <1>10 DEF OrgIsOpen

-----------------------------------------------------------------------------
\* The inductive invariant.
RotationIInv ==
    Row!TypeOK /\ HaveTokens /\ OneRefresh /\ TokenIsGood /\ OrgIsOpen

\* It holds at first.
LEMMA InitIInv == Row!Init => RotationIInv
<1> SUFFICES ASSUME Row!Init PROVE RotationIInv
  OBVIOUS
<1> USE DistinctHolders
<1>1. Row!TypeOK
  BY InitType
<1>2. HaveTokens /\ OneRefresh
  BY DEF Row!Init, HaveTokens, OneRefresh
<1>3. Row!Spendable("row")
  BY FreshToken, TokenParameters DEF Row!Init, Row!Spendable
<1>4. TokenIsGood
  BY <1>3 DEF Row!Init, TokenIsGood, Row!NoPoll
<1>5. OrgIsOpen
  BY DEF Row!Init, OrgIsOpen, Row!PausedStaysOut, Row!NoPoll
<1> QED BY <1>1, <1>2, <1>4, <1>5 DEF RotationIInv

\* The daemon never kills the token of its own account, whoever asks it for a
\* refresh and whenever (RefreshOne, the account's mutex), and never resumes an
\* account that the user paused (poller, recordSuccess): unless Claude Code or the
\* provider did something first.
THEOREM DaemonIsNoDanger == Row!Spec => []RotationInv
<1>1. RotationIInv /\ [Row!Next]_Row!vars => RotationIInv'
  BY TypeStep, TokensStep, GoodStep, OpenStep DEF RotationIInv
<1>2. RotationIInv => RotationInv
  BY
     DEF RotationIInv, RotationInv, Row!RotationInv, Row!OwnRefreshesNeverClash,
         TokenIsGood,
         Row!PausedStaysOutUnlessBlocked, OrgIsOpen
<1> QED BY InitIInv, <1>1, <1>2, PTL DEF Row!Spec

=============================================================================
