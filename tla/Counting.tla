------------------------------ MODULE Counting ------------------------------
(* A counter that is kept in step with the set of those it counts. *)
EXTENDS Sums, FunctionTheorems, FiniteSetTheorems, WellFoundedInduction, TLAPS

\* A set and the counter of its elements change together, by one element at most.
Counted(set, newSet, count, newCount) ==
  \/ newSet = set /\ newCount = count
  \/ \E x : x \notin set /\ newSet = set \cup {x} /\ newCount = count + 1
  \/ \E x \in set : newSet = set \ {x} /\ newCount = IF count <= 1 THEN 0 ELSE count - 1

\* A counter that is the size of a set stays so when one member joins or leaves.
LEMMA CountedStep ==
  ASSUME NEW set, NEW newSet, NEW count, NEW newCount,
         IsFiniteSet(set), count = Cardinality(set), Counted(set, newSet, count, newCount)
  PROVE  newCount = Cardinality(newSet) /\ (newSet # {} => newCount > 0)
<1>1. Cardinality(set) \in Nat
  BY FS_CardinalityType
<1>2. CASE newSet = set /\ newCount = count
  BY <1>1, <1>2, FS_EmptySet
<1>3. ASSUME NEW x, x \notin set, newSet = set \cup {x}, newCount = count + 1
      PROVE  newCount = Cardinality(newSet) /\ newCount > 0
  BY <1>1, <1>3, FS_AddElement
<1>4. ASSUME NEW x \in set, newSet = set \ {x}, newCount = IF count <= 1 THEN 0 ELSE count - 1
      PROVE  newCount = Cardinality(newSet) /\ (newSet # {} => newCount > 0)
  <2>1. IsFiniteSet(newSet) /\ Cardinality(newSet) = Cardinality(set) - 1
    BY <1>4, FS_RemoveElement
  <2>2. Cardinality(newSet) \in Nat /\ (newSet # {} => Cardinality(newSet) # 0)
    BY <2>1, FS_CardinalityType, FS_EmptySet
  <2> QED BY <1>1, <1>4, <2>1, <2>2
<1> QED BY <1>2, <1>3, <1>4 DEF Counted

-----------------------------------------------------------------------------
\* Sums as numbers of units (Sums), for the play counts and the sizes of the cache.

\* Every non-empty set of naturals has a least member: induction without a predicate.
LEMMA LeastNatural ==
  ASSUME NEW T \in SUBSET Nat, T # {}
  PROVE  \E x \in T : \A y \in T : x <= y
<1>1. PICK x \in T : \A y \in T : ~ (<<y, x>> \in OpToRel(<, Nat))
  BY NatLessThanWellFounded, WFMin, Zenon
<1>2. ASSUME NEW y \in Nat, y < x PROVE <<y, x>> \in OpToRel(<, Nat)
  BY <1>2, Zenon DEF OpToRel
<1>3. \A y \in T : ~ (y < x)
  BY <1>1, <1>2, Zenon
<1> QED BY <1>3

\* The units of an addend.
LEMMA UnitsOf ==
  ASSUME NEW f
  PROVE  \A u : u \in Units(f) <=> \E x \in DOMAIN f : \E i \in 1 .. f[x] : u = <<x, i>>
BY DEF Units

\* A sum of finitely many naturals is a natural.
LEMMA SumFinite ==
  ASSUME NEW D, IsFiniteSet(D), NEW f \in [D -> Nat]
  PROVE  IsFiniteSet(Units(f)) /\ SumOf(f) \in Nat
<1> DEFINE parts == {{x} \X (1 .. f[x]) : x \in D}
<1> DEFINE part == [x \in D |-> {x} \X (1 .. f[x])]
<1>1. part \in Surjection(D, parts)
  BY DEF Surjection
<1>2. IsFiniteSet(parts)
  <2> HIDE DEF part, parts
  <2> QED BY <1>1, FS_Surjection
<1>3. ASSUME NEW x \in D PROVE IsFiniteSet({x} \X (1 .. f[x]))
  <2>1. IsFiniteSet({x})
    BY FS_Singleton
  <2>2. IsFiniteSet(1 .. f[x])
    <3>1. 1 \in Int /\ f[x] \in Int
      OBVIOUS
    <3> QED BY <3>1, FS_Interval
  <2> QED BY <2>1, <2>2, FS_Product
<1>4. \A T \in parts : IsFiniteSet(T)
  BY <1>3
<1>5. Units(f) = UNION parts
  BY DEF Units
<1>6. IsFiniteSet(UNION parts)
  <2> HIDE DEF parts
  <2> QED BY <1>2, <1>4, FS_UNION
<1>7. IsFiniteSet(Units(f))
  BY <1>5, <1>6
<1> QED BY <1>7, FS_CardinalityType DEF SumOf

\* An addend that grows by one makes the sum grow by one.
LEMMA SumIncrement ==
  ASSUME NEW D, IsFiniteSet(D), NEW f \in [D -> Nat], NEW g \in [D -> Nat], NEW d \in D,
         g[d] = f[d] + 1, \A x \in D \ {d} : g[x] = f[x]
  PROVE  SumOf(g) = SumOf(f) + 1
<1>1. IsFiniteSet(Units(f)) /\ Cardinality(Units(f)) \in Nat
  BY SumFinite, FS_CardinalityType
<1>2. <<d, f[d] + 1>> \notin Units(f)
  BY UnitsOf
<1>3. Units(g) = Units(f) \cup {<<d, f[d] + 1>>}
  <2>1. ASSUME NEW x \in D, NEW i \in 1 .. g[x] PROVE <<x, i>> \in Units(f) \cup {<<d, f[d] + 1>>}
    <3>1. CASE x = d /\ i = f[d] + 1
      BY <3>1
    <3>2. CASE ~(x = d /\ i = f[d] + 1)
      <4>1. i \in 1 .. f[x]
        BY <3>2
      <4> QED BY <4>1, UnitsOf
    <3> QED BY <3>1, <3>2
  <2>2. ASSUME NEW x \in D, NEW i \in 1 .. f[x] PROVE <<x, i>> \in Units(g)
    <3>1. i \in 1 .. g[x]
      OBVIOUS
    <3> QED BY <3>1, UnitsOf
  <2>3. <<d, f[d] + 1>> \in Units(g)
    <3>1. f[d] + 1 \in 1 .. g[d]
      OBVIOUS
    <3> QED BY <3>1, UnitsOf
  <2>4. Units(g) \subseteq Units(f) \cup {<<d, f[d] + 1>>}
    BY <2>1, UnitsOf
  <2>5. Units(f) \subseteq Units(g)
    BY <2>2, UnitsOf
  <2> QED BY <2>3, <2>4, <2>5
<1> QED BY <1>1, <1>2, <1>3, FS_AddElement DEF SumOf

\* Nothing adds up to nothing.
LEMMA SumZero ==
  ASSUME NEW D, NEW f \in [D -> Nat], \A x \in D : f[x] = 0
  PROVE  SumOf(f) = 0
<1>1. Units(f) = {}
  BY UnitsOf
<1> QED BY <1>1, FS_EmptySet DEF SumOf

\* The sum of a single addend.
LEMMA SumSingle ==
  ASSUME NEW x, NEW f \in [{x} -> Nat]
  PROVE  SumOf(f) = f[x]
<1> DEFINE unit == [i \in 1 .. f[x] |-> <<x, i>>]
<1>1. \A u : u \in Units(f) <=> \E i \in 1 .. f[x] : u = <<x, i>>
  BY UnitsOf
<1>2. unit \in Bijection(1 .. f[x], Units(f))
  BY <1>1 DEF Bijection, Injection, Surjection, IsInjective
<1>3. ExistsBijection(1 .. f[x], Units(f))
  BY <1>2 DEF ExistsBijection
<1>4. IsFiniteSet(1 .. f[x]) /\ Cardinality(1 .. f[x]) = f[x]
  BY FS_Interval
<1> QED BY <1>3, <1>4, FS_Bijection DEF SumOf

\* Fewer and smaller addends make a smaller sum.
LEMMA SumMonotone ==
  ASSUME NEW D, NEW E, IsFiniteSet(E), D \subseteq E, NEW f \in [D -> Nat], NEW g \in [E -> Nat],
         \A x \in D : f[x] <= g[x]
  PROVE  SumOf(f) <= SumOf(g)
<1>1. ASSUME NEW x \in D, NEW i \in 1 .. f[x] PROVE <<x, i>> \in Units(g)
  <2>1. x \in E /\ i \in 1 .. g[x]
    OBVIOUS
  <2> QED BY <2>1, UnitsOf
<1>2. Units(f) \subseteq Units(g)
  BY <1>1, UnitsOf
<1>3. IsFiniteSet(Units(g))
  BY SumFinite
<1> QED BY <1>2, <1>3, FS_Subset DEF SumOf

\* The sum of the addends that h puts into group e.
GroupSum(f, h, e) == SumOf([x \in {y \in DOMAIN f : h[y] = e} |-> f[x]])

\* A sum does not change when its addends are put together in groups.
LEMMA SumRegrouped ==
  ASSUME NEW D, IsFiniteSet(D), NEW E, IsFiniteSet(E), NEW f \in [D -> Nat], NEW h \in [D -> E],
         NEW g \in [E -> Nat], \A e \in E : g[e] = GroupSum(f, h, e)
  PROVE  SumOf(g) = SumOf(f)
<1> DEFINE Group(e) == Units([x \in {y \in D : h[y] = e} |-> f[x]])
<1>1. ASSUME NEW e \in E
      PROVE  /\ IsFiniteSet(Group(e)) /\ g[e] = Cardinality(Group(e))
             /\ \A u : u \in Group(e) <=> u \in Units(f) /\ h[u[1]] = e
  <2> DEFINE S == {y \in D : h[y] = e}
  <2> DEFINE p == [x \in S |-> f[x]]
  <2>1. IsFiniteSet(S) /\ p \in [S -> Nat]
    BY FS_Subset
  <2>2. IsFiniteSet(Units(p))
    <3> HIDE DEF S, p
    <3> QED BY <2>1, SumFinite
  <2>3. \A u : u \in Units(p) <=> \E x \in S : \E i \in 1 .. f[x] : u = <<x, i>>
    <3>1. DOMAIN p = S /\ \A x \in S : p[x] = f[x]
      OBVIOUS
    <3> HIDE DEF S, p
    <3> QED BY <3>1, UnitsOf
  <2>4. \A u : u \in Units(f) <=> \E x \in D : \E i \in 1 .. f[x] : u = <<x, i>>
    BY UnitsOf
  <2>5. \A u : u \in Units(p) <=> u \in Units(f) /\ h[u[1]] = e
    <3> HIDE DEF p
    <3> QED BY <2>3, <2>4
  <2> QED BY <2>2, <2>5 DEF SumOf, GroupSum
<1>2. \A e \in E : \E b : b \in Bijection(1 .. g[e], Group(e))
  <2> SUFFICES ASSUME NEW e \in E PROVE \E b : b \in Bijection(1 .. g[e], Group(e))
    OBVIOUS
  <2>1. IsFiniteSet(Group(e)) /\ g[e] = Cardinality(Group(e))
    BY <1>1
  <2> HIDE DEF Group
  <2> QED BY <2>1, FS_CardinalityType, Fun_ExistsBij
<1> DEFINE B == [e \in E |-> CHOOSE b : b \in Bijection(1 .. g[e], Group(e))]
<1>3. \A e \in E : B[e] \in Bijection(1 .. g[e], Group(e))
  <2> HIDE DEF Group
  <2> QED BY <1>2
<1> HIDE DEF B
<1> HIDE DEF Group
<1>4. \A v : v \in Units(g) <=> \E e \in E : \E i \in 1 .. g[e] : v = <<e, i>>
  BY UnitsOf
<1> DEFINE move == [v \in Units(g) |-> B[v[1]][v[2]]]
<1>5. ASSUME NEW e \in E, NEW i \in 1 .. g[e]
      PROVE  <<e, i>> \in Units(g) /\ move[<<e, i>>] = B[e][i] /\ B[e][i] \in Group(e)
  BY <1>3, <1>4 DEF Bijection, Injection
<1> HIDE DEF move
<1>6. ASSUME NEW v \in Units(g)
      PROVE  \E e \in E : \E i \in 1 .. g[e] : v = <<e, i>> /\ move[v] = B[e][i] /\ move[v] \in Group(e)
  BY <1>4, <1>5
<1>7. \A v \in Units(g) : move[v] \in Units(f)
  BY <1>1, <1>6
<1>8. ASSUME NEW v \in Units(g), NEW w \in Units(g), move[v] = move[w] PROVE v = w
  <2>1. PICK e \in E : \E i \in 1 .. g[e] : v = <<e, i>> /\ move[v] = B[e][i] /\ move[v] \in Group(e)
    BY <1>6
  <2>2. PICK i \in 1 .. g[e] : v = <<e, i>> /\ move[v] = B[e][i] /\ move[v] \in Group(e)
    BY <2>1
  <2>3. PICK k \in E : \E j \in 1 .. g[k] : w = <<k, j>> /\ move[w] = B[k][j] /\ move[w] \in Group(k)
    BY <1>6
  <2>4. PICK j \in 1 .. g[k] : w = <<k, j>> /\ move[w] = B[k][j] /\ move[w] \in Group(k)
    BY <2>3
  <2>5. e = k
    BY <1>1, <1>8, <2>2, <2>4
  <2>6. i = j
    <3>1. PICK S, T, b : S = 1 .. g[e] /\ T = Group(e) /\ b = B[e]
      OBVIOUS
    <3>2. b \in Bijection(S, T)
      BY <1>3, <3>1, Zenon
    <3>3. \A k1, k2 \in S : b[k1] = b[k2] => k1 = k2
      BY <3>2, Fun_BijectionProperties
    <3>4. i \in S /\ j \in S /\ b[i] = b[j]
      BY <1>8, <2>2, <2>4, <2>5, <3>1
    <3> QED BY <3>3, <3>4, Zenon
  <2> QED BY <2>2, <2>4, <2>5, <2>6
<1>9. ASSUME NEW u \in Units(f) PROVE \E v \in Units(g) : move[v] = u
  <2>1. PICK x \in D : \E i \in 1 .. f[x] : u = <<x, i>>
    BY UnitsOf
  <2>2. h[x] \in E /\ u \in Group(h[x])
    BY <1>1, <2>1
  <2>3. PICK j \in 1 .. g[h[x]] : B[h[x]][j] = u
    BY <1>3, <2>2 DEF Bijection, Surjection
  <2> QED BY <1>5, <2>2, <2>3
<1>10. move \in Bijection(Units(g), Units(f))
  <2>1. move \in [Units(g) -> Units(f)]
    BY <1>7 DEF move
  <2> QED BY <1>8, <1>9, <2>1, Fun_IsBij
<1>11. IsFiniteSet(Units(g))
  BY SumFinite
<1> QED BY <1>10, <1>11, FS_Bijection DEF SumOf, ExistsBijection

-----------------------------------------------------------------------------
\* Sets of positions in order (Sums), for the entries of playlists.

Increasing(s) == \A i, j \in DOMAIN s : i < j => s[i] < s[j]
Orders(S) == {s \in [1 .. Cardinality(S) -> S] : Increasing(s)}

\* The greatest member goes to the end.
LEMMA OrderExtended ==
  ASSUME NEW n \in Nat, NEW S \in SUBSET (1 .. n), n \in S, NEW s \in Orders(S \ {n})
  PROVE  Orders(S) # {}
<1>1. IsFiniteSet(1 .. n)
  <2>1. 1 \in Int /\ n \in Int
    OBVIOUS
  <2> QED BY <2>1, FS_Interval
<1>2. IsFiniteSet(S)
  BY <1>1, FS_Subset
<1>3. Cardinality(S) \in Nat /\ Cardinality(S \ {n}) = Cardinality(S) - 1 /\ Cardinality(S) - 1 \in Nat
  <2>1. IsFiniteSet(S \ {n}) /\ Cardinality(S \ {n}) = Cardinality(S) - 1
    BY <1>2, FS_RemoveElement
  <2>2. Cardinality(S) \in Nat /\ Cardinality(S \ {n}) \in Nat
    BY <1>2, <2>1, FS_CardinalityType
  <2> QED BY <2>1, <2>2
<1>4. PICK k \in Nat : k = Cardinality(S) - 1
  BY <1>3
<1>5. s \in [1 .. k -> S \ {n}] /\ \A i, j \in 1 .. k : i < j => s[i] < s[j]
  BY <1>3, <1>4 DEF Orders, Increasing
<1> DEFINE t == [i \in 1 .. k + 1 |-> IF i <= k THEN s[i] ELSE n]
<1>6. t \in [1 .. k + 1 -> S]
  BY <1>5
<1>7. ASSUME NEW i \in 1 .. k + 1, NEW j \in 1 .. k + 1, i < j PROVE t[i] < t[j]
  <2>1. i \in 1 .. k /\ t[i] = s[i]
    BY <1>7
  <2>2. s[i] \in S \ {n}
    BY <1>5, <2>1
  <2>3. s[i] < n
    <3>1. \A v \in S \ {n} : v < n
      OBVIOUS
    <3> QED BY <2>2, <3>1
  <2>4. CASE j = k + 1
    BY <2>1, <2>3, <2>4
  <2>5. CASE j # k + 1
    <3>1. j \in 1 .. k /\ t[j] = s[j]
      BY <2>5
    <3> QED BY <1>5, <1>7, <2>1, <3>1
  <2> QED BY <2>4, <2>5
<1>8. Cardinality(S) = k + 1
  BY <1>3, <1>4
<1>9. t \in Orders(S)
  <2> HIDE DEF t
  <2>1. DOMAIN t = 1 .. k + 1
    BY <1>6
  <2> QED BY <1>6, <1>7, <1>8, <2>1 DEF Orders, Increasing
<1> QED BY <1>9

\* Every set of positions can be put in order: induction on the greatest position.
LEMMA OrderExists ==
  ASSUME NEW n \in Nat, NEW S \in SUBSET (1 .. n)
  PROVE  Orders(S) # {}
<1> DEFINE Bad == {k \in Nat : \E T \in SUBSET (1 .. k) : Orders(T) = {}}
<1>1. CASE Bad = {}
  BY <1>1
<1>2. CASE Bad # {}
  <2>1. PICK k \in Bad : \A l \in Bad : k <= l
    <3>1. Bad \in SUBSET Nat
      OBVIOUS
    <3> HIDE DEF Bad
    <3> QED BY <1>2, <3>1, LeastNatural
  <2>2. PICK T \in SUBSET (1 .. k) : Orders(T) = {}
    BY <2>1
  <2>3. k # 0
    <3> SUFFICES ASSUME k = 0 PROVE FALSE
      OBVIOUS
    <3>1. 1 .. 0 = {}
      OBVIOUS
    <3>2. T = {}
      BY <3>1
    <3>3. Cardinality(T) = 0
      BY <3>2, FS_EmptySet
    <3>4. PICK s : s = [i \in {} |-> i]
      OBVIOUS
    <3>5. s \in [1 .. Cardinality(T) -> T] /\ Increasing(s)
      BY <3>1, <3>2, <3>3, <3>4 DEF Increasing
    <3> QED BY <2>2, <3>5 DEF Orders
  <2>4. k - 1 \in Nat /\ k - 1 \notin Bad
    BY <2>1, <2>3
  <2>5. T \ {k} \in SUBSET (1 .. k - 1)
    BY <2>1
  <2>6. Orders(T \ {k}) # {}
    BY <2>4, <2>5
  <2>7. CASE k \in T
    <3>1. PICK s : s \in Orders(T \ {k})
      BY <2>6
    <3>2. k \in Nat
      BY <2>1
    <3> QED BY <2>2, <2>7, <3>1, <3>2, OrderExtended
  <2>8. CASE k \notin T
    <3>1. T \ {k} = T
      BY <2>8
    <3> QED BY <2>2, <2>6, <3>1
  <2> QED BY <2>7, <2>8
<1> QED BY <1>1, <1>2

\* InOrder names every member once.
LEMMA InOrderCovers ==
  ASSUME NEW n \in Nat, NEW S \in SUBSET (1 .. n)
  PROVE  /\ IsFiniteSet(S) /\ Cardinality(S) \in Nat
         /\ InOrder(S) \in [1 .. Cardinality(S) -> S] /\ Increasing(InOrder(S))
         /\ InOrder(S) \in Surjection(1 .. Cardinality(S), S)
<1>1. IsFiniteSet(1 .. n)
  <2>1. 1 \in Int /\ n \in Int
    OBVIOUS
  <2> QED BY <2>1, FS_Interval
<1>2. IsFiniteSet(S) /\ Cardinality(S) \in Nat
  BY <1>1, FS_Subset, FS_CardinalityType
<1>3. InOrder(S) \in [1 .. Cardinality(S) -> S] /\ Increasing(InOrder(S))
  BY OrderExists DEF Orders, InOrder, Increasing
<1>4. PICK s, k : s = InOrder(S) /\ k = Cardinality(S)
  OBVIOUS
<1>5. k \in Nat /\ s \in [1 .. k -> S] /\ S \subseteq Nat
  BY <1>2, <1>3, <1>4
<1>6. ASSUME NEW i \in 1 .. k, NEW j \in 1 .. k, s[i] = s[j] PROVE i = j
  <2>1. s[i] \in Nat /\ s[j] \in Nat
    BY <1>5
  <2>2. \A a, b \in 1 .. k : a < b => s[a] < s[b]
    BY <1>3, <1>4, <1>5 DEF Increasing
  <2> QED BY <1>5, <1>6, <2>1, <2>2
<1>7. s \in Injection(1 .. k, S)
  BY <1>5, <1>6, Fun_IsInj
<1>8. s \in Surjection(1 .. k, S)
  <2>1. PICK T : T = {s[i] : i \in 1 .. k}
    OBVIOUS
  <2>2. T \in SUBSET S
    BY <1>5, <2>1
  <2>3. s \in [1 .. k -> T] /\ \A v \in T : \E i \in 1 .. k : s[i] = v
    BY <1>5, <2>1
  <2>4. s \in Bijection(1 .. k, T)
    BY <1>6, <2>3, Fun_IsBij
  <2>5. ExistsBijection(1 .. k, T)
    BY <2>4, Fun_ExistsBij
  <2>6. Cardinality(T) = k
    BY <1>5, <2>5, FS_CountingElements
  <2>7. T = S
    BY <1>2, <1>4, <2>2, <2>6, FS_Subset
  <2> QED BY <2>3, <2>7, Fun_IsSurj
<1> QED BY <1>2, <1>3, <1>4, <1>8
=============================================================================
